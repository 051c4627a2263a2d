---------------------------- MODULE TeleopProofs ----------------------------
(***************************************************************************)
(* Proofs about the two masters of the velocity, for every speed,          *)
(* acceleration and window in which a ramp to a stop fits.                 *)
(***************************************************************************)
EXTENDS Teleop, TLAPS

(***************************************************************************)
(* A trigger that is down, or was down when the loop read it, was so in    *)
(* the present turn of the loop.                                           *)
(***************************************************************************)
Seen ==
  /\ trigger # <<0, 0>> => pressed = 0
  /\ padpc = "second" /\ lt # 0 => pressed <= sent
  /\ padpc = "send" /\ targetvel # 0 => pressed <= sent

(***************************************************************************)
(* The age of the last press that sendcmd knows of is that of the last     *)
(* press but for one turn, so what is sent is sent within Grace.           *)
(***************************************************************************)
Sending == padpc \in {"time", "velocity"}

Recent ==
  /\ padpc # "off" => pressed <= control + MaxDt \/ control = Window
  /\ Sending => pressed <= Window + MaxDt + sent - 1

(* A command of ROS that came after Grace stands alone until it expires. *)
Alone == ros < CmdTimeout /\ pressed > Grace + ros

Obeyed ==
  /\ ctlpc = "time" => ros = 0
  /\ Alone => /\ velocity = rosvel
              /\ ctlpc # "time" => teleop = ros
              /\ ctlpc = "step" => wheels = rosvel

(***************************************************************************)
(* The speed that is left when the gamepad was let go for a.               *)
(***************************************************************************)
Reach(a) == IF MaxVel > Acc * a THEN MaxVel - Acc * a ELSE 0
Within(v, a) == -Reach(a) <= v /\ v <= Reach(a)

(* The velocity in hcm may be driven, or sent on by the gamepad. *)
InForce == control < Window \/ (teleop = Ahead /\ ctlpc # "time")

(***************************************************************************)
(* What the gamepad is about to send, and what is in hcm in between, lies  *)
(* on the ramp, from the release or from the last command sent before.     *)
(***************************************************************************)
Ramping ==
  padpc # "off" =>
    /\ targetvel # 0 /\ padpc # "send" => control = sent
    /\ ~late /\ Sending => Within(vel, control - sent)
    /\ ~late /\ ~Sending /\ InForce /\ ~(padpc = "send" /\ targetvel # 0)
         => Within(velocity, control - sent)

(* What motionWebots finds in teleop_t. *)
Stamped ==
  /\ teleop = Ahead => padpc # "off"
  /\ teleop # Ahead => ros <= teleop
  /\ ctlpc = "move" => teleop < CmdTimeout

IInv == TypeOK /\ Seen /\ Recent /\ Obeyed /\ Ramping /\ Stamped /\ NoRunaway

-----------------------------------------------------------------------------
LEMMA Constants ==
  /\ MaxVel \in Nat /\ MaxVel > 0 /\ Acc \in Nat /\ Acc > 0
  /\ CmdTimeout \in Nat /\ CmdTimeout > 0 /\ MaxDt \in Nat /\ MaxDt > 0
  /\ Window \in Nat
  /\ Grace \in Nat /\ Memory \in Nat
  /\ \A v \in RosVel : v \in Speed
  BY TeleopAssumption DEF Grace, Memory, Speed

LEMMA ClampType ==
  ASSUME NEW x \in Int, NEW max \in Nat
  PROVE  Clamp(x, max) \in -max .. max
  BY DEF Clamp

LEMMA OlderType ==
  ASSUME NEW bound \in Nat, NEW a \in 0 .. bound
  PROVE  Older(a, bound) \in 0 .. bound
  BY DEF Older

LEMMA SentGrows ==
  ASSUME NEW a \in Nat
  PROVE  Acc * a \in Nat
  BY Constants

LEMMA RampedType ==
  ASSUME TypeOK
  PROVE  Ramped \in Speed
<1>1. velocity \in Int /\ targetvel \in Int /\ sent \in Nat
  BY DEF TypeOK, Speed
<1>2. Acc * sent \in Nat
  BY <1>1, SentGrows
<1>3. Clamp(targetvel - velocity, Acc * sent) \in Int
  BY <1>1, <1>2, ClampType
<1> QED
  BY <1>1, <1>3, ClampType, Constants DEF Ramped, Speed

LEMMA LevelType == Level \subseteq Nat /\ \A a, b \in Level : b - a \in Speed
  BY Constants DEF Level, Speed

LEMMA TypeStep == TypeOK /\ [Next]_vars => TypeOK'
<1> SUFFICES ASSUME TypeOK, [Next]_vars PROVE TypeOK'
  OBVIOUS
<1> USE Constants DEF TypeOK, usbVars, padVars, command, ctlVars, history
<1>1. ASSUME NEW r \in Reports, Report(r) PROVE TypeOK'
  BY <1>1 DEF Report
<1>2. CASE WriteTrigger
  <2>1. <<0, 0>> \in Reports
    BY DEF Reports, Level
  <2>2. trigger' \in Reports /\ report' \in Reports
    BY <1>2, <2>1 DEF WriteTrigger, Reports
  <2>3. pressed' \in 0 .. Memory
    BY <1>2 DEF WriteTrigger
  <2> QED
    BY <1>2, <2>2, <2>3 DEF WriteTrigger
<1>3. CASE PadStarts
  BY <1>3 DEF PadStarts
<1>4. CASE ReadFirst
  BY <1>4 DEF ReadFirst, Reports
<1>5. CASE ReadSecond
  <2>1. targetvel' \in Speed
    BY <1>5, LevelType DEF ReadSecond, Reports
  <2>2. lt' \in Level
    BY <1>5 DEF ReadSecond, Level
  <2> QED
    BY <1>5, <2>1, <2>2 DEF ReadSecond
<1>6. CASE SendCommand
  <2>1. 0 \in Speed
    BY DEF Speed
  <2>2. vel' \in Speed /\ padpc' \in {"time", "first"}
    BY <1>6, <2>1, RampedType DEF SendCommand
  <2>3. control' \in 0 .. Window /\ sent' \in 0 .. MaxDt /\ late' \in BOOLEAN
    BY <1>6 DEF SendCommand
  <2> QED
    BY <1>6, <2>2, <2>3 DEF SendCommand
<1>7. CASE SendTime
  BY <1>7 DEF SendTime, Ahead
<1>8. CASE SendVelocity
  BY <1>8 DEF SendVelocity, Speed
<1>9. CASE NoCommand
  BY <1>9 DEF NoCommand
<1>10. ASSUME NEW v \in RosVel, RosCommand(v) PROVE TypeOK'
  <2>1. late' \in BOOLEAN
    BY <1>10 DEF RosCommand, Stopping
  <2> QED
    BY <1>10, <2>1 DEF RosCommand
<1>11. CASE RosTime
  BY <1>11 DEF RosTime, Ahead
<1>12. CASE MoveStops
  BY <1>12 DEF MoveStops, Speed
<1>13. CASE MoveGoes
  BY <1>13 DEF MoveGoes
<1>14. CASE MoveBase
  BY <1>14 DEF MoveBase
<1>15. CASE Tick
  <2>1. sent' \in 0 .. MaxDt
    BY <1>15 DEF Tick
  <2>2. control' \in 0 .. Window
    BY <1>15, OlderType DEF Tick
  <2>3. teleop' \in Ahead .. CmdTimeout
    BY <1>15 DEF Tick, Older, Ahead
  <2>4. ros' \in 0 .. CmdTimeout /\ pressed' \in 0 .. Memory
    BY <1>15, OlderType DEF Tick
  <2> QED
    BY <1>15, <2>1, <2>2, <2>3, <2>4 DEF Tick
<1>16. CASE UNCHANGED vars
  BY <1>16 DEF vars
<1> QED
  BY <1>1, <1>2, <1>3, <1>4, <1>5, <1>6, <1>7, <1>8, <1>9, <1>10, <1>11, <1>12,
     <1>13, <1>14, <1>15, <1>16
  DEF Next, Usb, Pad, Controller

LEMMA SeenStep == TypeOK /\ Seen /\ [Next]_vars => Seen'
<1> SUFFICES ASSUME TypeOK, Seen, [Next]_vars PROVE Seen'
  OBVIOUS
<1> USE Constants DEF Seen, usbVars, padVars, command, ctlVars, history
<1>0. pressed \in Nat /\ sent \in Nat /\ control \in Nat
  BY DEF TypeOK
<1>1. ASSUME NEW r \in Reports, Report(r) PROVE Seen'
  BY <1>1 DEF Report
<1>2. CASE WriteTrigger
  BY <1>0, <1>2 DEF WriteTrigger
<1>3. CASE PadStarts
  BY <1>3 DEF PadStarts
<1>4. CASE ReadFirst
  <2>1. lt' # 0 => trigger # <<0, 0>>
    BY <1>4 DEF ReadFirst
  <2> QED
    BY <1>0, <1>4, <2>1 DEF ReadFirst
<1>5. CASE ReadSecond
  <2>1. targetvel' # 0 => trigger # <<0, 0>> \/ lt # 0
    BY <1>5, LevelType DEF ReadSecond, TypeOK, Reports
  <2> QED
    BY <1>0, <1>5, <2>1 DEF ReadSecond
<1>6. CASE SendCommand
  BY <1>6 DEF SendCommand
<1>7. CASE SendTime \/ SendVelocity
  BY <1>7 DEF SendTime, SendVelocity
<1>8. CASE NoCommand \/ RosTime \/ MoveStops \/ MoveGoes \/ MoveBase
  BY <1>8 DEF NoCommand, RosTime, MoveStops, MoveGoes, MoveBase
<1>9. ASSUME NEW v \in RosVel, RosCommand(v) PROVE Seen'
  BY <1>9 DEF RosCommand
<1>10. CASE Tick
  <2>1. pressed' <= pressed + 1
    BY <1>0, <1>10 DEF Tick, Older, TypeOK
  <2>2. trigger' # <<0, 0>> => pressed' = 0
    BY <1>10 DEF Tick, usbVars
  <2>3. padpc # "off" => sent' = sent + 1
    BY <1>10 DEF Tick
  <2>4. padpc' = padpc /\ lt' = lt /\ targetvel' = targetvel
    BY <1>10 DEF Tick
  <2> QED
    BY <1>0, <1>10, <2>1, <2>2, <2>3, <2>4 DEF TypeOK, Tick
<1>11. CASE UNCHANGED vars
  BY <1>11 DEF vars
<1> QED
  BY <1>1, <1>2, <1>3, <1>4, <1>5, <1>6, <1>7, <1>8, <1>9, <1>10, <1>11
  DEF Next, Usb, Pad, Controller

LEMMA RecentStep == TypeOK /\ Seen /\ Recent /\ [Next]_vars => Recent'
<1> SUFFICES ASSUME TypeOK, Seen, Recent, [Next]_vars PROVE Recent'
  OBVIOUS
<1> USE Constants DEF Recent, Sending, usbVars, padVars, command, ctlVars, history
<1>0. /\ pressed \in Nat /\ sent \in 0 .. MaxDt /\ control \in 0 .. Window
      /\ padpc \in {"off", "first", "second", "send", "time", "velocity"}
  BY DEF TypeOK
<1>1. ASSUME NEW r \in Reports, Report(r) PROVE Recent'
  BY <1>1 DEF Report
<1>2. CASE WriteTrigger
  <2>1. pressed' = 0 \/ pressed' = pressed
    BY <1>2 DEF WriteTrigger
  <2>2. UNCHANGED padVars
    BY <1>2 DEF WriteTrigger
  <2> QED
    BY <1>0, <2>1, <2>2, TeleopAssumption
<1>3. CASE PadStarts
  BY <1>3 DEF PadStarts
<1>4. CASE ReadFirst \/ ReadSecond \/ SendTime \/ SendVelocity
  BY <1>4 DEF ReadFirst, ReadSecond, SendTime, SendVelocity
<1>5. CASE SendCommand
  <2>1. pressed' = pressed /\ sent' = 0
    BY <1>5 DEF SendCommand
  <2>2. CASE targetvel # 0
    <3>1. pressed <= MaxDt /\ control' = 0
      BY <1>0, <1>5, <2>2 DEF SendCommand, Seen
    <3> QED
      BY <1>0, <1>5, <2>1, <3>1 DEF SendCommand
  <2>3. CASE targetvel = 0
    BY <1>0, <1>5, <2>1, <2>3 DEF SendCommand
  <2> QED
    BY <2>2, <2>3
<1>6. CASE NoCommand \/ RosTime \/ MoveStops \/ MoveGoes \/ MoveBase
  BY <1>6 DEF NoCommand, RosTime, MoveStops, MoveGoes, MoveBase
<1>7. ASSUME NEW v \in RosVel, RosCommand(v) PROVE Recent'
  BY <1>7 DEF RosCommand
<1>8. CASE Tick
  <2>1. pressed' <= pressed + 1 /\ padpc' = padpc /\ pressed' \in Nat
    BY <1>0, <1>8 DEF Tick, Older, TypeOK
  <2>2. padpc # "off" => sent' = sent + 1 /\ control' = Older(control, Window)
    BY <1>8 DEF Tick
  <2> QED
    BY <1>0, <2>1, <2>2 DEF Older
<1>9. CASE UNCHANGED vars
  BY <1>9 DEF vars
<1> QED
  BY <1>1, <1>2, <1>3, <1>4, <1>5, <1>6, <1>7, <1>8, <1>9
  DEF Next, Usb, Pad, Controller

(* What is sent is sent within Grace. *)
LEMMA SendingIsRecent == TypeOK /\ Recent /\ Sending => pressed <= Grace
  BY Constants DEF TypeOK, Recent, Grace

LEMMA ObeyedStep == TypeOK /\ Recent /\ Obeyed /\ [Next]_vars => Obeyed'
<1> SUFFICES ASSUME TypeOK, Recent, Obeyed, [Next]_vars PROVE Obeyed'
  OBVIOUS
<1> USE Constants DEF Obeyed, Alone, usbVars, padVars, command, ctlVars, history
<1>0. /\ pressed \in 0 .. Memory /\ ros \in 0 .. CmdTimeout
      /\ teleop \in Ahead .. CmdTimeout
  BY DEF TypeOK
<1>1. ASSUME NEW r \in Reports, Report(r) PROVE Obeyed'
  BY <1>1 DEF Report
<1>2. CASE WriteTrigger
  <2>1. pressed' = 0 \/ pressed' = pressed
    BY <1>2 DEF WriteTrigger
  <2> QED
    BY <1>0, <1>2, <2>1 DEF WriteTrigger
<1>3. CASE PadStarts
  BY <1>0, <1>3 DEF PadStarts
<1>4. CASE ReadFirst \/ ReadSecond \/ SendCommand
  BY <1>4 DEF ReadFirst, ReadSecond, SendCommand
<1>5. CASE SendTime \/ SendVelocity
  <2>1. Sending
    BY <1>5 DEF SendTime, SendVelocity, Sending
  <2>2. pressed <= Grace
    BY <2>1, SendingIsRecent
  <2>3. pressed' = pressed /\ ros' = ros /\ ctlpc' = ctlpc
    BY <1>5 DEF SendTime, SendVelocity
  <2> QED
    BY <1>0, <2>2, <2>3
<1>6. CASE NoCommand
  BY <1>6 DEF NoCommand
<1>7. ASSUME NEW v \in RosVel, RosCommand(v) PROVE Obeyed'
  BY <1>7 DEF RosCommand
<1>8. CASE RosTime
  BY <1>8 DEF RosTime
<1>9. CASE MoveStops
  BY <1>0, <1>9 DEF MoveStops
<1>10. CASE MoveGoes \/ MoveBase
  BY <1>10 DEF MoveGoes, MoveBase
<1>11. CASE Tick
  <2>1. ctlpc = "step" /\ ctlpc' = "poll"
    BY <1>11 DEF Tick
  <2>2. ros' = Older(ros, CmdTimeout) /\ velocity' = velocity /\ rosvel' = rosvel
    BY <1>11 DEF Tick
  <2>3. pressed' <= pressed + 1 /\ pressed' \in Nat
    BY <1>0, <1>11 DEF Tick, Older
  <2>4. Alone' => Alone /\ ros' = ros + 1
    BY <1>0, <2>2, <2>3 DEF Older
  <2>5. teleop = ros => teleop' = ros'
    BY <1>0, <1>11 DEF Tick, Ahead
  <2> QED
    BY <2>1, <2>2, <2>4, <2>5
<1>12. CASE UNCHANGED vars
  BY <1>12 DEF vars
<1> QED
  BY <1>1, <1>2, <1>3, <1>4, <1>5, <1>6, <1>7, <1>8, <1>9, <1>10, <1>11, <1>12
  DEF Next, Usb, Pad, Controller

-----------------------------------------------------------------------------
(* The ramp. *)

LEMMA WindowLong ==
  ASSUME NEW d \in 0 .. MaxDt
  PROVE  /\ Acc * (Window - d) >= MaxVel
         /\ Window > d
<1>1. Acc * (Window - d) = Acc * (Window - 2 * MaxDt) + Acc * (2 * MaxDt - d)
  BY Constants
<1>2. Acc * (2 * MaxDt - d) >= 0
  <2>1. 2 * MaxDt - d \in Nat
    BY Constants
  <2> QED
    BY <2>1, SentGrows, Constants
<1>3. Acc * (Window - 2 * MaxDt) \in Int
  BY Constants
<1>4. Acc * (Window - d) >= MaxVel
  BY <1>1, <1>2, <1>3, TeleopAssumption, Constants
<1>5. CASE Window <= d
  <2>1. d - Window \in Nat
    BY <1>5, Constants
  <2>2. Acc * (d - Window) >= 0
    BY <2>1, SentGrows
  <2>3. Acc * (Window - d) = - (Acc * (d - Window))
    BY Constants
  <2> QED
    BY <1>4, <2>1, <2>2, <2>3, Constants
<1> QED
  BY <1>4, <1>5, Constants

LEMMA WithinZero ==
  ASSUME NEW v \in Int, NEW d \in 0 .. MaxDt, Within(v, Window - d)
  PROVE  v = 0
<1>1. Acc * (Window - d) \in Int
  BY Constants
<1>2. Reach(Window - d) = 0
  BY <1>1, WindowLong, Constants DEF Reach
<1> QED
  BY <1>2 DEF Within

LEMMA ZeroWithin ==
  ASSUME NEW a \in Int
  PROVE  Within(0, a)
<1>1. Acc * a \in Int
  BY Constants
<1> QED
  BY <1>1, Constants DEF Within, Reach

LEMMA SpeedWithin ==
  ASSUME NEW v \in Speed
  PROVE  Within(v, 0)
<1>1. Acc * 0 = 0
  BY Constants
<1> QED
  BY <1>1, Constants DEF Within, Reach, Speed

LEMMA RampSlows ==
  ASSUME TypeOK, targetvel = 0, Within(velocity, control - sent)
  PROVE  Within(Ramped, control)
<1> DEFINE d == Acc * sent
           b == Acc * (control - sent)
<1>1. velocity \in Int /\ sent \in Nat /\ control \in Nat
  BY Constants DEF TypeOK, Speed
<1>2. d \in Nat
  BY <1>1, SentGrows
<1>3. b \in Int /\ Acc * control = b + d
  BY <1>1, Constants
<1>4. Ramped = Clamp(velocity + Clamp(0 - velocity, d), MaxVel)
  BY DEF Ramped
<1>5. /\ -(IF MaxVel > b THEN MaxVel - b ELSE 0) <= velocity
      /\ velocity <= (IF MaxVel > b THEN MaxVel - b ELSE 0)
  BY DEF Within, Reach
<1> HIDE DEF d, b
<1>6. Reach(control) = IF MaxVel > b + d THEN MaxVel - (b + d) ELSE 0
  BY <1>3 DEF Reach
<1>7. Clamp(velocity + Clamp(0 - velocity, d), MaxVel) <= Reach(control)
  BY <1>1, <1>2, <1>3, <1>5, <1>6, Constants DEF Clamp
<1>8. -Reach(control) <= Clamp(velocity + Clamp(0 - velocity, d), MaxVel)
  BY <1>1, <1>2, <1>3, <1>5, <1>6, Constants DEF Clamp
<1> QED
  BY <1>4, <1>7, <1>8 DEF Within

LEMMA RampingStep == TypeOK /\ Ramping /\ [Next]_vars => Ramping'
<1> SUFFICES ASSUME TypeOK, Ramping, [Next]_vars PROVE Ramping'
  OBVIOUS
<1> USE Constants DEF Ramping, Sending, InForce, usbVars, padVars, command, ctlVars,
                      history
<1>0. /\ sent \in 0 .. MaxDt /\ control \in 0 .. Window /\ late \in BOOLEAN
      /\ padpc \in {"off", "first", "second", "send", "time", "velocity"}
      /\ vel \in Speed /\ velocity \in Speed /\ vel \in Int /\ velocity \in Int
  BY DEF TypeOK, Speed
<1>1. CASE WriteTrigger \/ \E r \in Reports : Report(r)
  BY <1>1 DEF WriteTrigger, Report, Within
<1>2. CASE PadStarts
  <2>1. /\ control' = 0 /\ sent' = 0 /\ padpc' = "first" /\ velocity' = velocity
    BY <1>2 DEF PadStarts
  <2>2. Within(velocity, 0)' 
    BY <1>0, <2>1, SpeedWithin DEF Within
  <2> QED
    BY <2>1, <2>2
<1>3. CASE ReadFirst \/ ReadSecond
  BY <1>3 DEF ReadFirst, ReadSecond, Within
<1>4. CASE SendCommand
  <2>1. /\ padpc = "send" /\ sent' = 0 /\ velocity' = velocity /\ targetvel' = targetvel
        /\ late' = (late /\ targetvel = 0)
        /\ InForce' = (control' < Window \/ (teleop = Ahead /\ ctlpc # "time"))
    BY <1>4 DEF SendCommand
  <2>2. CASE targetvel # 0
    <3>1. control' = 0 /\ vel' = Ramped /\ padpc' = "time"
      BY <1>0, <1>4, <2>2, WindowLong DEF SendCommand
    <3>2. Within(Ramped, 0)
      BY RampedType, SpeedWithin
    <3>3. control' - sent' = 0
      BY <2>1, <3>1
    <3> QED
      BY <2>1, <2>2, <3>1, <3>2, <3>3
  <2>3. CASE targetvel = 0 /\ control < Window
    <3>1. control' = control /\ vel' = Ramped /\ padpc' = "time"
      BY <1>4, <2>3 DEF SendCommand
    <3>2. ~late => Within(Ramped, control)
      BY <2>1, <2>3, RampSlows
    <3>3. control' - sent' = control
      BY <1>0, <2>1, <3>1
    <3> QED
      BY <2>1, <2>3, <3>1, <3>2, <3>3
  <2>4. CASE targetvel = 0 /\ ~(control < Window)
    <3>1. control' = Window /\ control = Window /\ padpc' = "first"
      BY <1>0, <1>4, <2>4 DEF SendCommand
    <3>2. ~late' /\ InForce' => velocity = 0
      BY <1>0, <2>1, <2>4, <3>1, WithinZero
    <3>3. Within(0, control' - sent')
      BY <2>1, <3>1, ZeroWithin
    <3> QED
      BY <2>1, <2>4, <3>1, <3>2, <3>3
  <2> QED
    BY <2>2, <2>3, <2>4
<1>5. CASE SendTime
  BY <1>5 DEF SendTime, Within
<1>6. CASE SendVelocity
  BY <1>6 DEF SendVelocity, Within
<1>7. CASE NoCommand \/ MoveStops \/ MoveGoes \/ MoveBase
  BY <1>7 DEF NoCommand, MoveStops, MoveGoes, MoveBase, Within
<1>8. CASE RosTime
  BY <1>8 DEF RosTime, Within, Ahead
<1>9. ASSUME NEW v \in RosVel, RosCommand(v) PROVE Ramping'
  <2>1. /\ UNCHANGED padVars /\ velocity' = v /\ ctlpc' = "time" /\ late' = Stopping
    BY <1>9 DEF RosCommand
  <2>2. CASE targetvel # 0 /\ padpc # "send" /\ padpc # "off"
    <3>1. control' - sent' = 0
      BY <1>0, <2>1, <2>2
    <3>2. Within(vel', 0) /\ Within(velocity', 0)
      BY <1>0, <2>1, SpeedWithin
    <3> QED
      BY <2>1, <2>2, <3>1, <3>2
  <2>3. CASE targetvel = 0
    BY <1>0, <2>1, <2>3 DEF Stopping
  <2>4. CASE padpc = "off" \/ (padpc = "send" /\ targetvel # 0)
    BY <2>1, <2>4
  <2> QED
    BY <2>2, <2>3, <2>4
<1>10. CASE Tick
  <2> SUFFICES ASSUME padpc # "off" PROVE Ramping'
    BY <1>10 DEF Tick
  <2>1. /\ sent < MaxDt /\ sent' = sent + 1 /\ control' = Older(control, Window)
        /\ UNCHANGED <<padpc, targetvel, vel, velocity, late>>
        /\ ctlpc = "step" /\ ctlpc' = "poll"
    BY <1>10 DEF Tick
  <2>2. (teleop' = Ahead) = (teleop = Ahead)
    BY <1>10 DEF Tick, Older, TypeOK, Ahead
  <2>3. InForce' => InForce
    BY <1>0, <2>1, <2>2 DEF Older
  <2>4. targetvel # 0 /\ padpc # "send" => control' = sent'
    BY <1>0, <2>1, WindowLong DEF Older
  <2>5. CASE control < Window
    <3>1. control' - sent' = control - sent
      BY <1>0, <2>1, <2>5 DEF Older
    <3> QED
      BY <2>1, <2>3, <2>4, <3>1
  <2>6. CASE ~(control < Window)
    <3>1. control = Window /\ control' - sent' \in Int
      BY <1>0, <2>1, <2>6 DEF Older
    <3>2. Within(0, control' - sent')
      BY <3>1, ZeroWithin
    <3>3. Within(vel, control - sent) => vel = 0
      BY <1>0, <3>1, WithinZero
    <3>4. Within(velocity, control - sent) => velocity = 0
      BY <1>0, <3>1, WithinZero
    <3> QED
      BY <2>1, <2>3, <2>4, <3>2, <3>3, <3>4
  <2> QED
    BY <2>5, <2>6
<1>11. CASE UNCHANGED vars
  BY <1>11 DEF vars, Within
<1> QED
  BY <1>1, <1>2, <1>3, <1>4, <1>5, <1>6, <1>7, <1>8, <1>9, <1>10, <1>11
  DEF Next, Usb, Pad, Controller

LEMMA StampedStep == TypeOK /\ Obeyed /\ Stamped /\ [Next]_vars => Stamped'
<1> SUFFICES ASSUME TypeOK, Obeyed, Stamped, [Next]_vars PROVE Stamped'
  OBVIOUS
<1> USE Constants DEF Stamped, usbVars, padVars, command, ctlVars, history
<1>0. teleop \in Ahead .. CmdTimeout /\ ros \in 0 .. CmdTimeout
  BY DEF TypeOK
<1>1. CASE WriteTrigger \/ \E r \in Reports : Report(r)
  BY <1>1 DEF WriteTrigger, Report
<1>2. CASE PadStarts \/ ReadFirst \/ ReadSecond \/ SendVelocity
  BY <1>2 DEF PadStarts, ReadFirst, ReadSecond, SendVelocity
<1>3. CASE SendCommand
  BY <1>3 DEF SendCommand
<1>4. CASE SendTime
  BY <1>4 DEF SendTime, Ahead
<1>5. CASE NoCommand \/ MoveStops \/ MoveGoes \/ MoveBase
  BY <1>5 DEF NoCommand, MoveStops, MoveGoes, MoveBase
<1>6. ASSUME NEW v \in RosVel, RosCommand(v) PROVE Stamped'
  BY <1>0, <1>6 DEF RosCommand, Ahead
<1>7. CASE RosTime
  BY <1>7 DEF RosTime, Obeyed, Ahead
<1>8. CASE Tick
  BY <1>0, <1>8 DEF Tick, Older, Ahead
<1>9. CASE UNCHANGED vars
  BY <1>9 DEF vars
<1> QED
  BY <1>1, <1>2, <1>3, <1>4, <1>5, <1>6, <1>7, <1>8, <1>9
  DEF Next, Usb, Pad, Controller

LEMMA RunawayStep ==
  TypeOK /\ Seen /\ Recent /\ Ramping /\ Stamped /\ NoRunaway /\ [Next]_vars => NoRunaway'
<1> SUFFICES ASSUME TypeOK, Seen, Recent, Ramping, Stamped, NoRunaway, [Next]_vars
             PROVE  NoRunaway'
  OBVIOUS
<1> USE Constants DEF NoRunaway, usbVars, padVars, command, ctlVars, history
<1>0. /\ pressed \in Nat /\ sent \in 0 .. MaxDt /\ control \in 0 .. Window
      /\ velocity \in Int
  BY DEF TypeOK, Speed
<1>1. ASSUME NEW r \in Reports, Report(r) PROVE NoRunaway'
  BY <1>1 DEF Report
<1>2. CASE WriteTrigger
  BY <1>2 DEF WriteTrigger
<1>3. CASE PadStarts
  BY <1>3 DEF PadStarts
<1>4. CASE ReadFirst \/ ReadSecond \/ SendTime \/ SendVelocity
  BY <1>4 DEF ReadFirst, ReadSecond, SendTime, SendVelocity
<1>5. CASE SendCommand
  <2>1. targetvel # 0 => pressed <= Grace
    BY <1>0, <1>5 DEF SendCommand, Seen, Grace
  <2> QED
    BY <1>5, <2>1 DEF SendCommand
<1>6. CASE NoCommand \/ RosTime \/ MoveGoes
  BY <1>6 DEF NoCommand, RosTime, MoveGoes
<1>7. ASSUME NEW v \in RosVel, RosCommand(v) PROVE NoRunaway'
  BY <1>7 DEF RosCommand
<1>8. CASE MoveStops
  BY <1>8 DEF MoveStops
<1>9. CASE MoveBase
  <2>1. /\ ctlpc = "move" /\ wheels' = velocity
        /\ UNCHANGED <<ros, pressed, late>>
    BY <1>9 DEF MoveBase
  <2>2. CASE teleop # Ahead
    <3>1. ros < CmdTimeout
      BY <2>1, <2>2 DEF Stamped, TypeOK, Ahead
    <3> QED
      BY <2>1, <3>1
  <2>3. CASE teleop = Ahead /\ pressed > Grace /\ ~late
    <3>1. padpc # "off" /\ ~Sending
      BY <2>3, SendingIsRecent, <1>0 DEF Stamped
    <3>2. control = Window
      BY <1>0, <2>3, <3>1 DEF Recent, Grace
    <3>3. ~(padpc = "send" /\ targetvel # 0)
      BY <1>0, <2>3 DEF Seen, Grace
    <3>4. Within(velocity, Window - sent)
      BY <2>1, <2>3, <3>1, <3>2, <3>3 DEF Ramping, InForce
    <3>5. velocity = 0
      BY <1>0, <3>4, WithinZero
    <3> QED
      BY <2>1, <3>5
  <2> QED
    BY <1>0, <2>1, <2>2, <2>3 DEF TypeOK
<1>10. CASE Tick
  BY <1>10 DEF Tick
<1>11. CASE UNCHANGED vars
  BY <1>11 DEF vars
<1> QED
  BY <1>1, <1>2, <1>3, <1>4, <1>5, <1>6, <1>7, <1>8, <1>9, <1>10, <1>11
  DEF Next, Usb, Pad, Controller

-----------------------------------------------------------------------------
LEMMA InitIInv == Init => IInv
<1> SUFFICES ASSUME Init PROVE IInv
  OBVIOUS
<1> USE Constants DEF Init
<1>1. TypeOK
  <2>1. 0 \in Level /\ 0 \in Speed
    BY DEF Level, Speed
  <2>2. <<0, 0>> \in Reports
    BY <2>1 DEF Reports
  <2>3. CmdTimeout \in Ahead .. CmdTimeout
    BY DEF Ahead
  <2>4. /\ sent \in 0 .. MaxDt /\ control \in 0 .. Window /\ ros \in 0 .. CmdTimeout
        /\ pressed \in 0 .. Memory
    OBVIOUS
  <2> QED
    BY <2>1, <2>2, <2>3, <2>4, Zenon DEF TypeOK
<1>2. Seen
  BY DEF Seen
<1>3. Recent
  BY DEF Recent, Sending
<1>4. Obeyed
  BY DEF Obeyed, Alone
<1>5. Ramping
  BY DEF Ramping
<1>6. Stamped /\ NoRunaway
  BY DEF Stamped, NoRunaway, Ahead
<1> QED
  BY <1>1, <1>2, <1>3, <1>4, <1>5, <1>6 DEF IInv

(* The inductive invariant holds in every reachable state. *)
THEOREM Invariance == Spec => []IInv
<1>1. Init => IInv
  BY InitIInv
<1>2. IInv /\ [Next]_vars => IInv'
  BY TypeStep, SeenStep, RecentStep, ObeyedStep, RampingStep, StampedStep, RunawayStep
  DEF IInv
<1> QED
  BY <1>1, <1>2, PTL DEF Spec

(* Every variable of both masters keeps its type. *)
THEOREM TypeCorrect == Spec => []TypeOK
<1>1. IInv => TypeOK
  BY DEF IInv
<1> QED
  BY <1>1, Invariance, PTL

(***************************************************************************)
(* A gamepad that was let go for Grace leaves the commands of ROS alone.   *)
(***************************************************************************)
THEOREM RosObeyedCorrect == Spec => []RosObeyed
<1>1. IInv => RosObeyed
  BY DEF IInv, Obeyed, Alone, RosObeyed
<1> QED
  BY <1>1, Invariance, PTL

(***************************************************************************)
(* The wheels stop when ROS is silent and the triggers are released, if    *)
(* ROS did not speak after the release within the window of the gamepad,   *)
(* for every speed and acceleration whose ramp fits into this window.      *)
(***************************************************************************)
THEOREM NoRunawayCorrect == Spec => []NoRunaway
<1>1. IInv => NoRunaway
  BY DEF IInv
<1> QED
  BY <1>1, Invariance, PTL
=============================================================================
