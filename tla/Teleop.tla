------------------------------- MODULE Teleop -------------------------------
(***************************************************************************)
(* Two masters of one velocity.  The gamepad (Modules/xbox360) and the     *)
(* subscriber of /cmd_vel in motionWebots both write hcm.base.velocity and *)
(* hcm.base.teleop_t, and motionWebots moves the wheels after them.        *)
(* A thread fills the array of the triggers, xb360_wizard reads it, ramps  *)
(* the velocity it finds in hcm and writes it back; nothing is locked.     *)
(*                                                                         *)
(* Forward speed only.  Times are kept as ages; one unit is a step of the  *)
(* controller.  A local that nothing reads any more is reset.              *)
(***************************************************************************)
EXTENDS Integers

CONSTANTS
  MaxVel,       \* max_vel
  Acc,          \* max_acc, per unit of time
  Window,       \* 1.5 s: for how long the gamepad goes on after its release
  CmdTimeout,   \* 1.0 s: how long motionWebots obeys
  MaxDt,        \* longest time between two commands of the gamepad loop
  RosVel        \* velocities of /cmd_vel

(* A ramp from full speed ends within the window. *)
ASSUME TeleopAssumption ==
  /\ MaxVel \in Nat \ {0} /\ Acc \in Nat \ {0}
  /\ CmdTimeout \in Nat \ {0} /\ MaxDt \in Nat \ {0}
  /\ Window \in Nat /\ Acc * (Window - 2 * MaxDt) >= MaxVel
  /\ RosVel \subseteq -MaxVel .. MaxVel

VARIABLES
  trigger,      \* the array the USB thread fills
  report,       \* the report it works on
  usb,          \* "wait", or the element it writes next
  padpc,        \* where the loop of xb360_wizard is
  lt,           \* the first trigger, read
  targetvel, vel,
  sent,         \* age of t_last_sent
  control,      \* age of last_control_t
  velocity,     \* hcm.base.velocity
  teleop,       \* age of hcm.base.teleop_t as motionWebots computes it
  ctlpc,        \* where the update of motionWebots is
  wheels,       \* the velocity that was last commanded to the wheels
  ros,          \* history: age and velocity of the last command of ROS
  rosvel,
  pressed,      \* history: how long ago a trigger was down, or the loop started
  late          \* history: ROS spoke while the gamepad was about to stop

usbVars == <<trigger, report, usb>>
padVars == <<padpc, lt, targetvel, vel, sent, control>>
command == <<velocity, teleop>>
ctlVars == <<ctlpc, wheels>>
history == <<ros, rosvel, pressed, late>>

vars == <<usbVars, padVars, command, ctlVars, history>>

Level == {0, MaxVel}
Reports == Level \X Level
Speed == -MaxVel .. MaxVel

(* How long a trigger may have an effect after its release. *)
Grace == Window + 2 * MaxDt

(* The bound of that age. *)
Memory == Grace + CmdTimeout

(* The clock of the system is far ahead of that of the simulation. *)
Ahead == -1

TypeOK ==
  /\ trigger \in Reports /\ report \in Reports
  /\ usb \in {"wait", "first", "second"}
  /\ padpc \in {"off", "first", "second", "send", "time", "velocity"}
  /\ lt \in Level
  /\ targetvel \in Speed /\ vel \in Speed /\ velocity \in Speed
  /\ sent \in 0 .. MaxDt
  /\ control \in 0 .. Window
  /\ teleop \in Ahead .. CmdTimeout
  /\ ctlpc \in {"poll", "time", "test", "move", "step"}
  /\ wheels \in Speed
  /\ ros \in 0 .. CmdTimeout /\ rosvel \in Speed
  /\ pressed \in 0 .. Memory
  /\ late \in BOOLEAN

(* motionWebots was entered a while ago; no gamepad yet. *)
Init ==
  /\ trigger = <<0, 0>> /\ report = <<0, 0>>
  /\ usb = "wait"
  /\ padpc = "off"
  /\ lt = 0 /\ targetvel = 0 /\ vel = 0
  /\ sent = 0 /\ control = 0
  /\ velocity = 0 /\ teleop = CmdTimeout
  /\ ctlpc = "poll"
  /\ wheels = 0
  /\ ros = CmdTimeout /\ rosvel = 0
  /\ pressed = Memory
  /\ late = FALSE

-----------------------------------------------------------------------------
(* The USB thread. *)

(* A report of the device arrives. *)
Report(r) ==
  /\ padpc # "off"
  /\ usb = "wait"
  /\ report' = r
  /\ usb' = "first"
  /\ UNCHANGED <<trigger, padVars, command, ctlVars, history>>

(* One element of the array. *)
WriteTrigger ==
  /\ usb # "wait"
  /\ IF usb = "first"
       THEN trigger' = <<report[1], trigger[2]>> /\ usb' = "second" /\ report' = report
       ELSE trigger' = <<trigger[1], report[2]>> /\ usb' = "wait" /\ report' = <<0, 0>>
  /\ pressed' = IF trigger # <<0, 0>> \/ trigger' # <<0, 0>> THEN 0 ELSE pressed
  /\ UNCHANGED <<padVars, command, ctlVars, ros, rosvel, late>>

-----------------------------------------------------------------------------
(* The loop of xb360_wizard. *)

(* procFunc without dead band. *)
Clamp(x, max) == IF x < -max THEN -max ELSE IF x > max THEN max ELSE x

(* The device is found: the thread and the loop start. *)
PadStarts ==
  /\ padpc = "off"
  /\ padpc' = "first"
  /\ sent' = 0 /\ control' = 0
  /\ pressed' = 0
  /\ UNCHANGED <<usbVars, lt, targetvel, vel, command, ctlVars, ros, rosvel, late>>

(* xbox360.read() copies the array element by element. *)
ReadFirst ==
  /\ padpc = "first"
  /\ lt' = trigger[1]
  /\ padpc' = "second"
  /\ UNCHANGED <<usbVars, targetvel, vel, sent, control, command, ctlVars, history>>

ReadSecond ==
  /\ padpc = "second"
  /\ targetvel' = trigger[2] - lt
  /\ lt' = 0
  /\ padpc' = "send"
  /\ UNCHANGED <<usbVars, vel, sent, control, command, ctlVars, history>>

(* Mutant: the step of the ramp is taken after t_last_sent was set. *)
RampedAfterReset == Clamp(velocity + Clamp(targetvel - velocity, 0), MaxVel)

(* The velocity that is found is ramped towards the target. *)
Ramped == Clamp(velocity + Clamp(targetvel - velocity, Acc * sent), MaxVel)

(* Mutant: nothing is sent once the triggers are released. *)
SendCommandWhilePressed ==
  /\ padpc = "send"
  /\ control' = IF targetvel # 0 THEN 0 ELSE control
  /\ IF targetvel # 0 THEN vel' = Ramped /\ padpc' = "time"
                      ELSE vel' = 0 /\ padpc' = "first"
  /\ sent' = 0
  /\ late' = (late /\ targetvel = 0)
  /\ UNCHANGED <<usbVars, lt, targetvel, command, ctlVars, ros, rosvel, pressed>>

(* Mutant: the window is not tested. *)
SendCommandAlways ==
  /\ padpc = "send"
  /\ control' = IF targetvel # 0 THEN 0 ELSE control
  /\ vel' = Ramped
  /\ padpc' = "time"
  /\ sent' = 0
  /\ late' = (late /\ targetvel = 0)
  /\ UNCHANGED <<usbVars, lt, targetvel, command, ctlVars, ros, rosvel, pressed>>

(* sendcmd: the command is sent as long as the last press is less than      *)
(* Window ago.                                                             *)
SendCommand ==
  /\ padpc = "send"
  /\ control' = IF targetvel # 0 THEN 0 ELSE control
  /\ IF control' < Window THEN vel' = Ramped /\ padpc' = "time"
                          ELSE vel' = 0 /\ padpc' = "first"
  /\ sent' = 0
  /\ late' = (late /\ targetvel = 0)
  /\ UNCHANGED <<usbVars, lt, targetvel, command, ctlVars, ros, rosvel, pressed>>

(* set_base_teleop_t, with the clock of the system. *)
SendTime ==
  /\ padpc = "time"
  /\ teleop' = Ahead
  /\ padpc' = "velocity"
  /\ UNCHANGED <<usbVars, lt, targetvel, vel, sent, control, velocity, ctlVars, history>>

SendVelocity ==
  /\ padpc = "velocity"
  /\ velocity' = vel
  /\ vel' = 0
  /\ padpc' = "first"
  /\ UNCHANGED <<usbVars, lt, targetvel, sent, control, teleop, ctlVars, history>>

-----------------------------------------------------------------------------
(* The update of motionWebots. *)

(* checkTwist has nothing for it. *)
NoCommand ==
  /\ ctlpc = "poll"
  /\ ctlpc' = "test"
  /\ UNCHANGED <<usbVars, padVars, command, wheels, history>>

(* The gamepad was let go, and still writes. *)
Stopping == padpc # "off" /\ targetvel = 0 /\ (control < Window \/ padpc \in {"time", "velocity"})

(* A command of /cmd_vel: its velocity first, its time next. *)
RosCommand(v) ==
  /\ ctlpc = "poll"
  /\ velocity' = v
  /\ ctlpc' = "time"
  /\ ros' = 0 /\ rosvel' = v
  /\ late' = Stopping
  /\ UNCHANGED <<usbVars, padVars, teleop, wheels, pressed>>

RosTime ==
  /\ ctlpc = "time"
  /\ teleop' = 0
  /\ ctlpc' = "test"
  /\ UNCHANGED <<usbVars, padVars, velocity, wheels, history>>

(* Commands that are too old stop the wheels. *)
MoveStops ==
  /\ ctlpc = "test" /\ teleop >= CmdTimeout
  /\ wheels' = 0
  /\ ctlpc' = "step"
  /\ UNCHANGED <<usbVars, padVars, command, history>>

MoveGoes ==
  /\ ctlpc = "test" /\ teleop < CmdTimeout
  /\ ctlpc' = "move"
  /\ UNCHANGED <<usbVars, padVars, command, wheels, history>>

(* The velocity is read after the time. *)
MoveBase ==
  /\ ctlpc = "move"
  /\ wheels' = velocity
  /\ ctlpc' = "step"
  /\ UNCHANGED <<usbVars, padVars, command, history>>

-----------------------------------------------------------------------------
(* An age stops where no comparison changes any more. *)
Older(a, bound) == IF a < bound THEN a + 1 ELSE bound

(* A step of the controller: the gamepad loop falls behind by MaxDt at most. *)
Tick ==
  /\ ctlpc = "step"
  /\ padpc = "off" \/ sent < MaxDt
  /\ ctlpc' = "poll"
  /\ sent' = IF padpc = "off" THEN sent ELSE sent + 1
  /\ control' = IF padpc = "off" THEN control ELSE Older(control, Window)
  /\ teleop' = IF teleop = Ahead THEN Ahead ELSE Older(teleop, CmdTimeout)
  /\ ros' = Older(ros, CmdTimeout)
  /\ pressed' = IF trigger # <<0, 0>> THEN 0 ELSE Older(pressed, Memory)
  /\ UNCHANGED <<usbVars, padpc, lt, targetvel, vel, velocity, wheels, rosvel, late>>

Usb == WriteTrigger
Pad == ReadFirst \/ ReadSecond \/ SendCommand \/ SendTime \/ SendVelocity
Controller == NoCommand \/ RosTime \/ MoveStops \/ MoveGoes \/ MoveBase \/ Tick

Next ==
  \/ Usb \/ Pad \/ PadStarts \/ Controller
  \/ \E r \in Reports : Report(r)
  \/ \E v \in RosVel : RosCommand(v)

Spec == Init /\ [][Next]_vars

(* The thread and both loops go on; nobody has to press or to publish. *)
FairSpec == Spec /\ WF_vars(Usb) /\ WF_vars(Pad) /\ WF_vars(Controller)

-----------------------------------------------------------------------------
(* Properties. *)

(* The robot moves because ROS spoke less than CmdTimeout ago              *)
(* (motionWebots.lua:53) or because a trigger was down at most Grace ago:  *)
(* the dead-man switch of motionWebots never sees a stamp of the gamepad   *)
(* as old, so it is the window of sendcmd (xb360_wizard.lua:258) in which  *)
(* the velocity has to come back to 0.  A command of ROS that falls into   *)
(* this window breaks that, and is excepted until the next press: nothing  *)
(* then stops the wheels.                                                  *)
NoRunaway ==
  ctlpc = "step" /\ wheels # 0 => \/ ros < CmdTimeout
                                  \/ pressed <= Grace
                                  \/ late

(* A command of ROS that comes when the gamepad was let go for Grace is    *)
(* what the wheels do, until it expires: the gamepad that is idle does not *)
(* take the velocity back, although its loop goes on ramping it            *)
(* (xb360_wizard.lua:245-260, motionWebots.lua:68-70).                     *)
RosObeyed ==
  ctlpc = "step" /\ ros < CmdTimeout /\ pressed > Grace + ros => wheels = rosvel

(* Triggers that are held and no more commands of ROS: the wheels come to  *)
(* turn at the difference of the triggers and stay there, through the      *)
(* array, the ramp and hcm (lua_xbox360.cpp:157-159, xb360_wizard.lua:112- *)
(* 118, 238-268, motionWebots.lua:51-59).                                  *)
PadDrives ==
  /\ <>[][trigger' = trigger]_vars
  /\ <>[](padpc # "off" /\ ros >= CmdTimeout /\ ~late)
  => <>[](wheels = trigger[2] - trigger[1])
=============================================================================
