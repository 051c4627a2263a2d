------------------------ MODULE MotionControlProofs ------------------------
(***************************************************************************)
(* Proofs about MotionControl, for all commands, times and bounds.         *)
(***************************************************************************)
EXTENDS MotionControl, TLAPS

Driving == fsm = "motionWebots"

(***************************************************************************)
(* The inductive invariant, in parts.                                      *)
(***************************************************************************)

(* Outside the drive state nothing is subscribed and the wheels stand. *)
Parked ==
  /\ fsm = "off" <=> pc = "off"
  /\ pc = "entry" => fsm = "motionIdle"
  /\ ~Driving => /\ inflight = << >>
                 /\ new = FALSE
                 /\ accepted = NoMsg
                 /\ motor = Still
                 /\ latched # NoMsg => latched.pre
  /\ fsm = "motionIdle" /\ pc # "entry" => torque_enable = 1

(* The clock of the drive state. *)
Clocks ==
  Driving =>
    /\ torque_enable = 3
    /\ t_entry <= t
    /\ pc = "update" => t_entry < t

(* A message on its way is at most MaxLag steps old. *)
Travelling ==
  \A i \in DOMAIN inflight :
    /\ inflight[i].at <= t
    /\ t <= inflight[i].at + MaxLag
    /\ t_entry <= inflight[i].at
    /\ inflight[i].pre => inflight[i].at = t_entry

(* A message in the mailbox waits for the next update at most. *)
Waiting ==
  new => /\ newMsg # NoMsg
         /\ newMsg.at <= t
         /\ t_entry <= newMsg.at
         /\ t <= newMsg.at + MaxLag + 1
         /\ pc = "body" => t <= newMsg.at + MaxLag
         /\ newMsg.pre => newMsg.at = t_entry

(* hcm holds the accepted command and when it was accepted. *)
Holding ==
  Driving =>
    IF accepted = NoMsg
    THEN base_velocity = ZeroTwist
    ELSE /\ ~accepted.pre
         /\ base_velocity = accepted.cmd
         /\ accepted.at <= teleop_t
         /\ teleop_t <= t
         /\ teleop_t <= accepted.at + MaxLag + 1

(* After the update, dcm holds what hcm asks for. *)
Commanding ==
  Driving /\ pc = "body" /\ t > t_entry =>
    \/ command_velocity = Still
    \/ /\ accepted # NoMsg
       /\ t < teleop_t + CmdTimeout
       /\ command_velocity = Motor[accepted.cmd]

(* After the body's step the motors do what dcm asked for. *)
Turning ==
  Driving =>
    /\ t = t_entry => motor = Still
    /\ pc = "update" /\ t > t_entry + 1 =>
         \/ motor = Still
         \/ /\ accepted # NoMsg
            /\ t <= teleop_t + CmdTimeout
            /\ motor = Motor[accepted.cmd]
    /\ pc = "body" /\ t > t_entry + 1 =>
         \/ motor = Still
         \/ /\ accepted # NoMsg
            /\ t <= accepted.at + MaxLag + CmdTimeout + 1

(* Where the newest command is. *)
Newest ==
  Driving /\ latched # NoMsg /\ ~latched.pre =>
    IF inflight # << >>
    THEN inflight[Len(inflight)] = latched
    ELSE IF new THEN newMsg = latched
         ELSE accepted = latched \/ latched.at <= t_entry + SettleTime

IInv ==
  /\ TypeOK
  /\ Parked
  /\ Clocks
  /\ Travelling
  /\ Waiting
  /\ Holding
  /\ Commanding
  /\ Turning
  /\ Newest

-----------------------------------------------------------------------------
(***************************************************************************)
(* Every reachable state satisfies the invariant.                          *)
(***************************************************************************)
LEMMA InitInvariant == Init => IInv
<1> SUFFICES ASSUME Init PROVE IInv
  OBVIOUS
<1>1. TypeOK
  <2>1. << >> \in Seq(Message)
    OBVIOUS
  <2> QED BY <2>1, CommandAssumption DEF Init, TypeOK, MaybeMessage
<1>2. Parked /\ Clocks /\ Waiting /\ Holding
  BY DEF Init, Parked, Clocks, Waiting, Holding, Driving
<1>3. Commanding /\ Turning /\ Newest
  BY DEF Init, Commanding, Turning, Newest, Driving
<1>4. Travelling
  BY DEF Init, Travelling
<1> QED BY <1>1, <1>2, <1>3, <1>4 DEF IInv

(* Publishing outside the drive state only changes the latch. *)
LEMMA PublishInvariant ==
  ASSUME IInv, NEW c \in Twist, Publish(c)
  PROVE  IInv'
<1> DEFINE m == [cmd |-> c, at |-> t, pre |-> fsm # "motionWebots"]
<1>0. /\ UNCHANGED <<new, newMsg, pc, fsm, t, t_entry, base_velocity, teleop_t,
                      command_velocity, torque_enable, motor, runs, accepted>>
      /\ latched' = m
      /\ m \in Message
  BY DEF Publish, mailbox, control, hcm, dcm, IInv, TypeOK, Message
<1>1. CASE ~Driving
  <2>1. inflight' = inflight
    BY <1>1 DEF Publish, Driving
  <2> QED
    BY <1>0, <1>1, <2>1
    DEF IInv, TypeOK, Parked, Clocks, Travelling, Waiting, Holding, Commanding,
        Turning, Newest, Driving, MaybeMessage
<1>2. CASE Driving
  <2>1. Enqueue(m)
    BY <1>2 DEF Publish, Driving
  <2>2. /\ inflight' \in Seq(Message)
        /\ inflight' # << >>
        /\ inflight'[Len(inflight')] = m
        /\ \A i \in DOMAIN inflight' :
             \/ inflight'[i] = m
             \/ i \in DOMAIN inflight /\ inflight'[i] = inflight[i]
    BY <1>0, <2>1 DEF Enqueue, IInv, TypeOK
  <2>3. m.at = t /\ m.pre = FALSE
    BY <1>2 DEF Driving
  <2>4. TypeOK'
    BY <1>0, <2>2 DEF IInv, TypeOK, MaybeMessage
  <2>5. Travelling'
    BY <1>0, <1>2, <2>2, <2>3, TimeAssumption
    DEF IInv, TypeOK, Travelling, Clocks, Driving
  <2>6. Newest'
    BY <1>0, <2>2 DEF Newest
  <2> HIDE DEF m
  <2> QED
    BY <1>0, <1>2, <2>4, <2>5, <2>6
    DEF IInv, Parked, Clocks, Waiting, Holding, Commanding, Turning, Driving
<1> QED BY <1>1, <1>2

LEMMA DeliverInvariant ==
  ASSUME IInv, Deliver
  PROVE  IInv'
<1>0. /\ UNCHANGED <<latched, pc, fsm, t, t_entry, base_velocity, teleop_t,
                      command_velocity, torque_enable, motor, runs, accepted>>
      /\ new' = TRUE
      /\ newMsg' = inflight[1]
      /\ inflight' = Tail(inflight)
      /\ inflight # << >>
  BY DEF Deliver, control, hcm, dcm, IInv, TypeOK
<1>1. /\ Len(inflight) \in Nat \ {0}
      /\ 1 \in DOMAIN inflight
      /\ inflight[1] \in Message
      /\ inflight' \in Seq(Message)
      /\ Len(inflight') = Len(inflight) - 1
      /\ \A i \in DOMAIN inflight' :
           i + 1 \in DOMAIN inflight /\ inflight'[i] = inflight[i + 1]
  <2> inflight \in Seq(Message) /\ inflight # << >>
    BY <1>0 DEF IInv, TypeOK
  <2> HIDE DEF Message
  <2> QED BY <1>0
<1>2. Driving
  BY <1>0 DEF IInv, Parked
<1>3. TypeOK'
  BY <1>0, <1>1 DEF IInv, TypeOK, MaybeMessage
<1>4. Travelling'
  BY <1>0, <1>1 DEF IInv, Travelling
<1>5. newMsg' # NoMsg
  BY <1>0, <1>1, NoMsgAssumption
<1>6. Waiting'
  BY <1>0, <1>1, <1>5, TimeAssumption
  DEF IInv, TypeOK, Travelling, Waiting, Message
<1>7. Newest'
  <2>1. CASE Len(inflight) = 1
    <3>1. inflight' = << >> /\ inflight[Len(inflight)] = newMsg'
      BY <1>0, <1>1, <2>1
    <3>2. new'
      BY <1>0
    <3> QED BY <1>0, <3>1, <3>2 DEF IInv, Newest, Driving
  <2>2. CASE Len(inflight) # 1
    <3>1. inflight' # << >>
      BY <1>1, <2>2
    <3>2. Len(inflight') \in DOMAIN inflight'
      BY <1>1, <2>2
    <3>3. inflight'[Len(inflight')] = inflight[Len(inflight)]
      BY <1>1, <3>2
    <3> QED BY <1>0, <3>1, <3>3 DEF IInv, Newest, Driving
  <2> QED BY <2>1, <2>2
<1> QED
  BY <1>0, <1>2, <1>3, <1>4, <1>6, <1>7
  DEF IInv, Parked, Clocks, Holding, Commanding, Turning, Driving

LEMMA StartInvariant ==
  ASSUME IInv, Start
  PROVE  IInv'
BY DEF Start, topic, mailbox, hcm, dcm, IInv, TypeOK, Parked, Clocks, Travelling,
       Waiting, Holding, Commanding, Turning, Newest, Driving

LEMMA BodyEntryInvariant ==
  ASSUME IInv, BodyEntry
  PROVE  IInv'
<1>1. ~Driving /\ ~Driving'
  BY DEF BodyEntry, IInv, Parked, Driving
<1> QED
  BY <1>1
  DEF BodyEntry, topic, mailbox, hcm, IInv, TypeOK, Parked, Clocks, Travelling,
      Waiting, Holding, Commanding, Turning, Newest

LEMMA IdleWaitInvariant ==
  ASSUME IInv, IdleWait
  PROVE  IInv'
<1>1. ~Driving /\ ~Driving'
  BY DEF IdleWait, Driving
<1> QED
  BY <1>1
  DEF IdleWait, topic, mailbox, hcm, dcm, IInv, TypeOK, Parked, Clocks,
      Travelling, Waiting, Holding, Commanding, Turning, Newest

(* Entering the drive state puts at most the latched message on its way. *)
LEMMA EnterDriveInvariant ==
  ASSUME IInv, EnterDrive
  PROVE  IInv'
<1>0. /\ UNCHANGED <<latched, t, command_velocity, motor, runs>>
      /\ pc = "update" /\ pc' = "body"
      /\ fsm = "motionIdle" /\ fsm' = "motionWebots"
      /\ t_entry' = t
      /\ torque_enable' = 3
      /\ teleop_t' = 0
      /\ base_velocity' = ZeroTwist
      /\ accepted' = NoMsg
      /\ new' = FALSE
      /\ newMsg' = NoMsg
  BY DEF EnterDrive
<1>1. motor = Still /\ (latched # NoMsg => latched.pre)
  BY <1>0 DEF IInv, Parked, Driving
<1>2. /\ inflight' \in Seq(Message)
      /\ \A i \in DOMAIN inflight' : inflight'[i].at = t
  <2>1. CASE latched = NoMsg
    BY <2>1 DEF EnterDrive
  <2>2. CASE latched # NoMsg
    <3>1. [latched EXCEPT !.at = t, !.pre = TRUE] \in Message
      BY <2>2 DEF IInv, TypeOK, MaybeMessage, Message
    <3>2. [latched EXCEPT !.at = t, !.pre = TRUE].at = t
      BY <2>2 DEF IInv, TypeOK, MaybeMessage, Message
    <3> DEFINE m == [latched EXCEPT !.at = t, !.pre = TRUE]
    <3>3. inflight' = <<m>>
      BY <2>2 DEF EnterDrive
    <3> HIDE DEF m
    <3>4. m \in Message /\ m.at = t
      BY <3>1, <3>2 DEF m
    <3> QED BY <3>3, <3>4
  <2> QED BY <2>1, <2>2
<1>3. TypeOK'
  BY <1>0, <1>2, CommandAssumption DEF IInv, TypeOK, MaybeMessage
<1>4. Travelling'
  BY <1>0, <1>2, TimeAssumption DEF IInv, TypeOK, Travelling
<1>5. Parked' /\ Waiting' /\ Holding' /\ Newest'
  BY <1>0, <1>1 DEF Parked, Waiting, Holding, Newest, Driving
<1>6. Clocks' /\ Commanding' /\ Turning'
  BY <1>0, <1>1 DEF IInv, TypeOK, Clocks, Commanding, Turning, Driving
<1> QED BY <1>3, <1>4, <1>5, <1>6 DEF IInv

(***************************************************************************)
(* The update of the drive state.  A replayed message is at most           *)
(* MaxLag + 1 steps old when it is read, hence not older than SettleTime,  *)
(* hence ignored.                                                          *)
(***************************************************************************)
LEMMA DriveUpdateInvariant ==
  ASSUME IInv, DriveUpdate
  PROVE  IInv'
<1>0. /\ UNCHANGED <<latched, inflight, newMsg, fsm, t, t_entry, torque_enable,
                      motor, runs>>
      /\ pc = "update" /\ pc' = "body"
      /\ fsm = "motionWebots"
      /\ new' = FALSE
  BY DEF DriveUpdate, CheckTwist, topic
<1>1. t_entry < t /\ torque_enable = 3
  BY <1>0 DEF IInv, Clocks, Driving
<1>2. /\ command_velocity' \in WheelVel
      /\ \/ command_velocity' = Still
         \/ /\ t - teleop_t' < CmdTimeout
            /\ command_velocity' = Motor[base_velocity']
  <2>1. base_velocity' \in Twist
    BY DEF DriveUpdate, CheckTwist, IInv, TypeOK, Waiting, MaybeMessage, Message
  <2> QED
    BY <2>1, CommandAssumption DEF DriveUpdate, MoveBase
<1>3. CASE new /\ t - t_entry > SettleTime
  <2>1. /\ base_velocity' = newMsg.cmd
        /\ teleop_t' = t
        /\ accepted' = newMsg
    BY <1>3 DEF DriveUpdate, CheckTwist
  <2>2. newMsg \in Message /\ newMsg # NoMsg
    BY <1>3, NoMsgAssumption DEF IInv, TypeOK, Waiting, MaybeMessage
  <2>3. /\ newMsg.cmd \in Twist /\ newMsg.at \in Nat /\ newMsg.pre \in BOOLEAN
        /\ newMsg.at <= t
        /\ t <= newMsg.at + MaxLag + 1
        /\ newMsg.pre => newMsg.at = t_entry
    BY <1>3, <2>2 DEF IInv, Waiting, Message
  <2>4. ~newMsg.pre
    BY <1>3, <2>3, TimeAssumption, LagAssumption DEF IInv, TypeOK
  <2>5. TypeOK'
    BY <1>0, <1>2, <2>1, <2>2, <2>3 DEF IInv, TypeOK, MaybeMessage
  <2>6. Holding'
    BY <1>0, <2>1, <2>2, <2>3, <2>4 DEF IInv, TypeOK, Holding
  <2>7. Commanding'
    BY <1>0, <1>2, <2>1, <2>2, TimeAssumption DEF IInv, TypeOK, Commanding
  <2>8. Turning'
    BY <1>0, <1>1, <2>1, <2>2, <2>3, TimeAssumption
    DEF IInv, TypeOK, Turning, Driving
  <2>9. Newest'
    BY <1>0, <1>3, <2>1 DEF IInv, Newest, Driving
  <2> QED
    BY <1>0, <1>1, <2>5, <2>6, <2>7, <2>8, <2>9
    DEF IInv, TypeOK, Parked, Clocks, Travelling, Waiting, Driving
<1>4. CASE ~(new /\ t - t_entry > SettleTime)
  <2>1. UNCHANGED <<base_velocity, teleop_t, accepted>>
    BY <1>4 DEF DriveUpdate, CheckTwist
  <2>2. TypeOK'
    BY <1>0, <1>2, <2>1 DEF IInv, TypeOK
  <2>3. Commanding'
    <3>1. CASE accepted = NoMsg
      BY <1>0, <1>2, <2>1, <3>1, CommandAssumption
      DEF IInv, Holding, Commanding, Driving
    <3>2. CASE accepted # NoMsg
      BY <1>0, <1>2, <2>1, <3>2, TimeAssumption
      DEF IInv, TypeOK, Holding, Commanding, Driving
    <3> QED BY <3>1, <3>2
  <2>4. Turning'
    <3>1. accepted # NoMsg => accepted \in Message
      BY DEF IInv, TypeOK, MaybeMessage
    <3> QED
      BY <1>0, <1>1, <2>1, <3>1, TimeAssumption
      DEF IInv, TypeOK, Turning, Holding, Driving, Message
  <2>5. Newest'
    <3>1. CASE new
      <4>1. t <= t_entry + SettleTime /\ newMsg.at <= t /\ newMsg.at \in Nat
        BY <1>4, <3>1, TimeAssumption
        DEF IInv, TypeOK, Waiting, MaybeMessage, Message
      <4>2. newMsg.at <= t_entry + SettleTime
        BY <4>1, TimeAssumption DEF IInv, TypeOK
      <4> QED
        BY <1>0, <2>1, <3>1, <4>2 DEF IInv, Newest, Driving
    <3>2. CASE ~new
      BY <1>0, <2>1, <3>2 DEF IInv, Newest, Driving
    <3> QED BY <3>1, <3>2
  <2> QED
    BY <1>0, <1>1, <2>1, <2>2, <2>3, <2>4, <2>5
    DEF IInv, TypeOK, Parked, Clocks, Travelling, Waiting, Holding, Driving
<1> QED BY <1>3, <1>4

(* The body's step ages every message by one, and none past MaxLag. *)
LEMMA BodyUpdateInvariant ==
  ASSUME IInv, BodyUpdate
  PROVE  IInv'
<1>0. /\ UNCHANGED <<latched, inflight, new, newMsg, fsm, t_entry, base_velocity,
                      teleop_t, command_velocity, torque_enable, runs, accepted>>
      /\ pc = "body" /\ pc' = "update"
      /\ t' = t + 1
      /\ motor' = IF torque_enable = 3 THEN command_velocity ELSE Still
      /\ \A i \in DOMAIN inflight : t < inflight[i].at + MaxLag
  BY DEF BodyUpdate, topic, mailbox, hcm, dcm
<1>1. TypeOK'
  BY <1>0, CommandAssumption DEF IInv, TypeOK
<1>2. CASE ~Driving
  BY <1>0, <1>1, <1>2
  DEF IInv, TypeOK, Parked, Clocks, Travelling, Waiting, Holding, Commanding,
      Turning, Newest, Driving
<1>3. CASE Driving
  <2>1. Travelling'
    <3> SUFFICES ASSUME NEW i \in DOMAIN inflight
                 PROVE  /\ inflight[i].at <= t + 1
                        /\ t + 1 <= inflight[i].at + MaxLag
                        /\ t_entry <= inflight[i].at
                        /\ inflight[i].pre => inflight[i].at = t_entry
      BY <1>0 DEF Travelling
    <3>1. inflight[i].at \in Nat
      <4>1. inflight \in Seq(Message)
        BY DEF IInv, TypeOK
      <4>2. inflight[i] \in Message
        BY <4>1
      <4> QED BY <4>2 DEF Message
    <3>2. /\ t < inflight[i].at + MaxLag
          /\ inflight[i].at <= t
          /\ t_entry <= inflight[i].at
          /\ inflight[i].pre => inflight[i].at = t_entry
      BY <1>0 DEF IInv, Travelling
    <3>3. t \in Nat
      BY DEF IInv, TypeOK
    <3> QED
      BY <3>1, <3>2, <3>3, TimeAssumption
  <2>2. Waiting'
    <3>1. new => newMsg.at \in Nat
      BY DEF IInv, TypeOK, Waiting, MaybeMessage, Message
    <3> QED
      BY <1>0, <3>1, TimeAssumption DEF IInv, TypeOK, Waiting
  <2>3. Holding' /\ Commanding'
    <3>1. accepted # NoMsg => accepted.at \in Nat
      BY DEF IInv, TypeOK, MaybeMessage, Message
    <3> QED
      BY <1>0, <3>1, TimeAssumption
      DEF IInv, TypeOK, Holding, Commanding, Driving
  <2>4. Turning'
    <3>1. torque_enable = 3 /\ t_entry <= t
      BY <1>3 DEF IInv, Clocks
    <3>2. motor' = command_velocity
      BY <1>0, <3>1
    <3> QED
      BY <1>0, <1>3, <3>1, <3>2, TimeAssumption
      DEF IInv, TypeOK, Turning, Commanding, Driving
  <2> QED
    BY <1>0, <1>1, <1>3, <2>1, <2>2, <2>3, <2>4
    DEF IInv, TypeOK, Parked, Clocks, Newest, Driving
<1> QED BY <1>2, <1>3

LEMMA RevertInvariant ==
  ASSUME IInv, Revert
  PROVE  IInv'
<1>1. /\ latched' \in MaybeMessage
      /\ latched' # NoMsg => latched'.pre
  BY DEF Revert, IInv, TypeOK, MaybeMessage, Message
<1>2. TypeOK'
  <2>1. << >> \in Seq(Message)
    OBVIOUS
  <2> QED
    BY <1>1, <2>1, CommandAssumption DEF Revert, hcm, dcm, IInv, TypeOK, MaybeMessage
<1> QED
  BY <1>1, <1>2
  DEF Revert, hcm, dcm, IInv, Parked, Clocks, Travelling, Waiting, Holding,
      Commanding, Turning, Newest, Driving

LEMMA StutterInvariant ==
  ASSUME IInv, UNCHANGED vars
  PROVE  IInv'
BY DEF vars, IInv, TypeOK, Parked, Clocks, Travelling, Waiting, Holding,
       Commanding, Turning, Newest, Driving

LEMMA NextInvariant == IInv /\ [Next]_vars => IInv'
BY PublishInvariant, DeliverInvariant, StartInvariant, BodyEntryInvariant,
   IdleWaitInvariant, EnterDriveInvariant, DriveUpdateInvariant,
   BodyUpdateInvariant, RevertInvariant, StutterInvariant
DEF Next, Control

THEOREM Invariance == Spec => []IInv
BY InitInvariant, NextInvariant, PTL DEF Spec

-----------------------------------------------------------------------------
(***************************************************************************)
(* Type correctness.                                                       *)
(***************************************************************************)
THEOREM TypeCorrect == Spec => []TypeOK
<1>1. IInv => TypeOK
  BY DEF IInv
<1> QED BY Invariance, <1>1, PTL

(***************************************************************************)
(* A command published before the subscription is never obeyed, whatever   *)
(* the commands and times, as long as messages take less than SettleTime.  *)
(***************************************************************************)
THEOREM NoReplayCorrect == Spec => []NoReplay
<1>1. IInv => NoReplay
  BY DEF IInv, Parked, Holding, NoReplay, Driving
<1> QED BY Invariance, <1>1, PTL

(***************************************************************************)
(* The wheels turn only for the command in force, and it is fresh.         *)
(***************************************************************************)
LEMMA DeadManHolds == IInv => DeadMan
<1> SUFFICES ASSUME IInv, motor # Still, ~EntryStep
             PROVE  /\ accepted # NoMsg
                    /\ t <= accepted.at + MaxLag + CmdTimeout + 1
                    /\ pc = "update" => motor = Motor[accepted.cmd]
  BY DEF DeadMan
<1>1. Driving /\ t > t_entry + 1
  BY DEF IInv, TypeOK, Parked, Clocks, Turning, EntryStep, Driving
<1>2. accepted # NoMsg => accepted.at \in Nat
  BY DEF IInv, TypeOK, MaybeMessage, Message
<1>3. pc \in {"update", "body"}
  BY <1>1 DEF IInv, TypeOK, Parked, Driving
<1>4. CASE pc = "update"
  BY <1>1, <1>2, <1>4, TimeAssumption DEF IInv, TypeOK, Turning, Holding
<1>5. CASE pc = "body"
  BY <1>1, <1>2, <1>5 DEF IInv, Turning
<1> QED BY <1>3, <1>4, <1>5

THEOREM DeadManCorrect == Spec => []DeadMan
BY Invariance, DeadManHolds, PTL

(***************************************************************************)
(* The last command published is the one in force after MaxLag + 1 steps.  *)
(***************************************************************************)
THEOREM LastCommandCorrect == Spec => []LastCommandWins
<1>1. IInv => LastCommandWins
  <2> SUFFICES ASSUME IInv, Driving, latched # NoMsg, ~latched.pre,
                      latched.at > t_entry + SettleTime,
                      t > latched.at + MaxLag + 1
               PROVE  accepted = latched
    BY DEF LastCommandWins, Driving
  <2>1. latched.at \in Nat
    BY DEF IInv, TypeOK, MaybeMessage, Message
  <2>2. inflight = << >>
    <3> SUFFICES ASSUME inflight # << >> PROVE FALSE
      OBVIOUS
    <3>1. Len(inflight) \in DOMAIN inflight
      BY DEF IInv, TypeOK
    <3>2. inflight[Len(inflight)] = latched
      BY DEF IInv, Newest
    <3>3. t <= latched.at + MaxLag
      BY <3>1, <3>2 DEF IInv, Travelling
    <3> QED BY <2>1, <3>3, TimeAssumption DEF IInv, TypeOK
  <2>3. ~new
    BY <2>1, <2>2, TimeAssumption DEF IInv, TypeOK, Newest, Waiting
  <2> QED
    BY <2>1, <2>2, <2>3, TimeAssumption DEF IInv, TypeOK, Newest
<1> QED BY Invariance, <1>1, PTL

-----------------------------------------------------------------------------
(***************************************************************************)
(* The drive chain implements the dead-man switch: initial states map to   *)
(* initial states, every step to a step of the switch or to a stutter.     *)
(***************************************************************************)
LEMMA PhaseOf ==
  /\ fsm = "off" => Phase = "off"
  /\ fsm = "motionIdle" => Phase = "waiting"
  /\ Driving /\ pc = "body" /\ t = t_entry => Phase = "engaging"
  /\ Driving /\ ~(pc = "body" /\ t = t_entry) => Phase = "driving"
BY DEF Phase, Driving

LEMMA PhaseOfNext ==
  /\ fsm' = "off" => Phase' = "off"
  /\ fsm' = "motionIdle" => Phase' = "waiting"
  /\ Driving' /\ pc' = "body" /\ t' = t_entry' => Phase' = "engaging"
  /\ Driving' /\ ~(pc' = "body" /\ t' = t_entry') => Phase' = "driving"
BY DEF Phase, Driving

LEMMA InitRefines == Init => Switch!Init
BY PhaseOf DEF Init, Switch!Init

LEMMA StepRefines ==
  ASSUME IInv, IInv', [Next]_vars
  PROVE  [Switch!Next]_(Switch!vars)
<1> USE DEF Driving
<1>a. Phase' = Phase /\ UNCHANGED <<t, accepted, motor>> => UNCHANGED Switch!vars
  BY DEF Switch!vars
<1>1. CASE \E c \in Twist : Publish(c)
  BY <1>1, <1>a DEF Publish, control, Phase
<1>2. CASE Deliver
  BY <1>2, <1>a DEF Deliver, control, Phase
<1>3. CASE Start
  <2>1. Switch!PowerOn
    BY <1>3, PhaseOf, PhaseOfNext DEF Start, IInv, Parked, Switch!PowerOn
  <2> QED BY <2>1 DEF Switch!Next
<1>4. CASE BodyEntry
  <2>1. Switch!Step
    BY <1>4, PhaseOf, PhaseOfNext DEF BodyEntry, IInv, Parked, Switch!Step
  <2> QED BY <2>1 DEF Switch!Next
<1>5. CASE IdleWait
  BY <1>5, <1>a, PhaseOf, PhaseOfNext DEF IdleWait
<1>6. CASE EnterDrive
  <2>1. Switch!Engage
    BY <1>6, PhaseOf, PhaseOfNext DEF EnterDrive, Switch!Engage
  <2> QED BY <2>1 DEF Switch!Next
<1>7. CASE DriveUpdate
  <2>1. Phase = "driving" /\ Phase' = "driving" /\ UNCHANGED <<t, motor>>
    BY <1>7, PhaseOf, PhaseOfNext DEF DriveUpdate, CheckTwist, IInv, Clocks, TypeOK
  <2>2. CASE accepted' = accepted
    BY <2>1, <2>2, <1>a
  <2>3. CASE accepted' # accepted
    <3>1. new /\ accepted' = newMsg
      BY <1>7, <2>3 DEF DriveUpdate, CheckTwist
    <3>2. accepted' \in Message /\ accepted'.at <= t
      BY <3>1 DEF IInv, TypeOK, MaybeMessage, Waiting
    <3>3. ~accepted'.pre
      BY <1>7, <3>1, <3>2, NoMsgAssumption DEF IInv, Holding, DriveUpdate
    <3>4. Switch!Obey
      BY <2>1, <3>2, <3>3 DEF Switch!Obey
    <3> QED BY <3>4 DEF Switch!Next
  <2> QED BY <2>2, <2>3
<1>8. CASE BodyUpdate
  <2>0. /\ pc = "body" /\ pc' = "update"
        /\ t' = t + 1
        /\ UNCHANGED <<fsm, t_entry, accepted, teleop_t, command_velocity>>
        /\ motor' = IF torque_enable = 3 THEN command_velocity ELSE Still
    BY <1>8 DEF BodyUpdate, topic, mailbox, hcm, dcm
  <2>1. CASE fsm = "motionIdle"
    <3>1. motor' = Still
      BY <2>0, <2>1 DEF IInv, Parked
    <3>2. Switch!Step
      BY <2>0, <2>1, <3>1, PhaseOf, PhaseOfNext DEF Switch!Step
    <3> QED BY <3>2 DEF Switch!Next
  <2>2. CASE Driving /\ t = t_entry
    <3>1. Phase = "engaging" /\ Phase' = "driving"
      BY <2>0, <2>2, PhaseOf, PhaseOfNext
    <3>2. motor' \in WheelVel
      BY DEF IInv, TypeOK
    <3>3. Switch!Step
      BY <2>0, <3>1, <3>2 DEF Switch!Step
    <3> QED BY <3>3 DEF Switch!Next
  <2>3. CASE Driving /\ t # t_entry
    <3>1. Phase = "driving" /\ Phase' = "driving"
      BY <2>0, <2>3, PhaseOf, PhaseOfNext
    <3>2. t > t_entry
      BY <2>3 DEF IInv, TypeOK, Clocks
    <3>3. \/ motor' = Still
          \/ /\ accepted # NoMsg
             /\ t < teleop_t + CmdTimeout
             /\ motor' = Motor[accepted.cmd]
      BY <2>0, <2>3, <3>2 DEF IInv, Commanding
    <3>4. accepted # NoMsg => /\ accepted.at \in Nat
                              /\ teleop_t <= accepted.at + MaxLag + 1
      BY <2>3 DEF IInv, TypeOK, Holding, MaybeMessage, Message
    <3>5. accepted # NoMsg /\ t < teleop_t + CmdTimeout
            => t + 1 - accepted.at <= MaxLag + CmdTimeout + 1
      BY <3>4, TimeAssumption DEF IInv, TypeOK
    <3>6. Switch!Step
      BY <2>0, <3>1, <3>3, <3>5 DEF Switch!Step, Switch!Live, Drive
    <3> QED BY <3>6 DEF Switch!Next
  <2> QED
    BY <2>0, <2>1, <2>2, <2>3 DEF IInv, TypeOK, Parked
<1>9. CASE Revert
  <2>1. Switch!PowerOff
    BY <1>9, PhaseOfNext DEF Revert, Switch!PowerOff
  <2> QED BY <2>1 DEF Switch!Next
<1>10. CASE UNCHANGED vars
  BY <1>10, <1>a DEF vars, Phase
<1> QED
  BY <1>1, <1>2, <1>3, <1>4, <1>5, <1>6, <1>7, <1>8, <1>9, <1>10 DEF Next, Control

THEOREM Refinement == Spec => IsDeadManSwitch
<1>1. IInv /\ IInv' /\ [Next]_vars => [Switch!Next]_(Switch!vars)
  BY StepRefines
<1> QED
  BY Invariance, InitRefines, <1>1, PTL DEF Spec, IsDeadManSwitch, Switch!Spec
=============================================================================
