--------------------------- MODULE MotionControl ---------------------------
(***************************************************************************)
(* The drive chain of one simulated robot when Config.send_motion_cmd is   *)
(* on: a ROS node publishes velocity commands on the latched topic         *)
(* /cmd_vel, the subscriber thread of rossub keeps the newest one in a     *)
(* mailbox, the motion FSM (motionIdle, then motionWebots) copies it to    *)
(* the shared memory block hcm, turns it into wheel velocities in the      *)
(* block dcm, and WebotsBody.update writes those to the motors and steps   *)
(* the simulation.  The FSM and the body run in one process                *)
(* (Run/webots_wizard.lua); its death and restart leave shared memory as   *)
(* it was.                                                                 *)
(*                                                                         *)
(* One unit of time is one control step (Body.timeStep).                   *)
(***************************************************************************)
EXTENDS Integers, Sequences

CONSTANTS
  Twist,        \* velocity commands of the base
  ZeroTwist,    \* the command {0,0,0}
  WheelVel,     \* vectors of wheel velocities
  Still,        \* all wheel velocities zero
  Motor,        \* get_motor_velocity, a function from Twist to WheelVel
  NoMsg,        \* no message
  IdleTime,     \* 0.1 s, how long motionIdle waits
  SettleTime,   \* 1 s, how long motionWebots ignores commands
  CmdTimeout,   \* 1.0 s, how long a command is obeyed
  MaxLag,       \* longest delivery of a message, in control steps
  MaxTime,      \* bound: control steps of one run of the controller
  MaxRuns,      \* bound: runs of the controller
  MaxInflight   \* bound: undelivered messages

ASSUME CommandAssumption ==
  /\ ZeroTwist \in Twist
  /\ Still \in WheelVel
  /\ Motor \in [Twist -> WheelVel]
  /\ Motor[ZeroTwist] = Still

ASSUME TimeAssumption ==
  /\ IdleTime \in Nat
  /\ SettleTime \in Nat
  /\ CmdTimeout \in Nat
  /\ MaxLag \in Nat
  /\ MaxTime \in Nat
  /\ MaxRuns \in Nat
  /\ MaxInflight \in Nat \ {0}

(* The latch replays its message well within the first second of a           *)
(* subscription.                                                           *)
ASSUME LagAssumption == MaxLag < SettleTime

VARIABLES
  latched,            \* the message the /cmd_vel publisher keeps
  inflight,           \* messages on their way to the subscriber
  new, newMsg,        \* the mailbox of the subscriber
  pc,                 \* where the controller's loop is
  fsm,                \* current state of the motion FSM
  t,                  \* wb_robot_get_time
  t_entry,            \* when the FSM state was entered
  base_velocity,      \* hcm.base.velocity
  teleop_t,           \* hcm.base.teleop_t
  command_velocity,   \* dcm.actuator.command_velocity of the wheels
  torque_enable,      \* dcm.actuator.torque_enable of the wheels
  motor,              \* velocity the simulator's motors turn at
  runs,               \* runs of the controller so far
  accepted            \* history: the message hcm holds, NoMsg when none

topic == <<latched, inflight>>
mailbox == <<new, newMsg>>
hcm == <<base_velocity, teleop_t>>
dcm == <<command_velocity, torque_enable>>
control == <<pc, fsm, t, t_entry>>
vars == <<latched, inflight, new, newMsg, pc, fsm, t, t_entry, base_velocity,
          teleop_t, command_velocity, torque_enable, motor, runs, accepted>>

(***************************************************************************)
(* A message carries its command, the time it was handed to the            *)
(* connection, and whether it was published before the subscription (then  *)
(* only the latch delivers it).                                            *)
(***************************************************************************)
Message == [cmd : Twist, at : Nat, pre : BOOLEAN]
MaybeMessage == Message \cup {NoMsg}

ASSUME NoMsgAssumption == NoMsg \notin Message

TypeOK ==
  /\ latched \in MaybeMessage
  /\ inflight \in Seq(Message)
  /\ new \in BOOLEAN
  /\ newMsg \in MaybeMessage
  /\ pc \in {"off", "entry", "update", "body"}
  /\ fsm \in {"off", "motionIdle", "motionWebots"}
  /\ t \in Nat
  /\ t_entry \in Nat
  /\ base_velocity \in Twist
  /\ teleop_t \in Nat
  /\ command_velocity \in WheelVel
  /\ torque_enable \in {0, 1, 3}
  /\ motor \in WheelVel
  /\ runs \in Nat
  /\ accepted \in MaybeMessage

(***************************************************************************)
(* Shared memory starts zeroed; nothing runs and nothing was published.    *)
(***************************************************************************)
Init ==
  /\ latched = NoMsg
  /\ inflight = << >>
  /\ new = FALSE
  /\ newMsg = NoMsg
  /\ pc = "off"
  /\ fsm = "off"
  /\ t = 0
  /\ t_entry = 0
  /\ base_velocity = ZeroTwist
  /\ teleop_t = 0
  /\ command_velocity = Still
  /\ torque_enable = 0
  /\ motor = Still
  /\ runs = 0
  /\ accepted = NoMsg

-----------------------------------------------------------------------------
(* The publisher of /cmd_vel and the subscriber thread. *)

(***************************************************************************)
(* The publisher's outgoing queue holds one message: one not yet written   *)
(* to the connection is replaced by its successor.                         *)
(***************************************************************************)
Enqueue(m) ==
  \/ /\ Len(inflight) < MaxInflight
     /\ inflight' = Append(inflight, m)
  \/ /\ inflight # << >>
     /\ inflight' = [inflight EXCEPT ![Len(inflight)] = m]

Publish(c) ==
  LET m == [cmd |-> c, at |-> t, pre |-> fsm # "motionWebots"] IN
  /\ latched' = m
  /\ IF fsm = "motionWebots" THEN Enqueue(m) ELSE UNCHANGED inflight
  /\ UNCHANGED <<mailbox, control, hcm, dcm, motor, runs, accepted>>

(* Mutant of Deliver: a full mailbox keeps its old message. *)
DeliverFirstWins ==
  /\ inflight # << >>
  /\ new' = TRUE
  /\ newMsg' = IF new THEN newMsg ELSE Head(inflight)
  /\ inflight' = Tail(inflight)
  /\ UNCHANGED <<latched, control, hcm, dcm, motor, runs, accepted>>

Deliver ==
  /\ inflight # << >>
  /\ new' = TRUE
  /\ newMsg' = Head(inflight)
  /\ inflight' = Tail(inflight)
  /\ UNCHANGED <<latched, control, hcm, dcm, motor, runs, accepted>>

-----------------------------------------------------------------------------
(* The controller process. *)

Start ==
  /\ pc = "off"
  /\ runs < MaxRuns
  /\ runs' = runs + 1
  /\ pc' = "entry"
  /\ fsm' = "motionIdle"
  /\ t_entry' = t
  /\ UNCHANGED <<topic, mailbox, t, hcm, dcm, motor, accepted>>

BodyEntry ==
  /\ pc = "entry"
  /\ torque_enable' = 1
  /\ t' = t + 1
  /\ pc' = "body"
  /\ UNCHANGED <<topic, mailbox, fsm, t_entry, hcm, command_velocity, motor,
                 runs, accepted>>

(* Mutant of IdleWait: the update refreshes t_entry instead of t_update. *)
IdleWaitRestarts ==
  /\ pc = "update"
  /\ fsm = "motionIdle"
  /\ ~(t - t_entry > IdleTime)
  /\ pc' = "body"
  /\ t_entry' = t
  /\ UNCHANGED <<topic, mailbox, fsm, t, hcm, dcm, motor, runs, accepted>>

IdleWait ==
  /\ pc = "update"
  /\ fsm = "motionIdle"
  /\ ~(t - t_entry > IdleTime)
  /\ pc' = "body"
  /\ UNCHANGED <<topic, mailbox, fsm, t, t_entry, hcm, dcm, motor, runs,
                 accepted>>

(* Mutant of EnterDrive: the hcm block keeps the velocity of an earlier run. *)
EnterDriveKeepsHcm ==
  /\ pc = "update"
  /\ fsm = "motionIdle"
  /\ t - t_entry > IdleTime
  /\ fsm' = "motionWebots"
  /\ t_entry' = t
  /\ torque_enable' = 3
  /\ accepted' = NoMsg
  /\ new' = FALSE
  /\ newMsg' = NoMsg
  /\ inflight' = IF latched = NoMsg THEN << >>
                 ELSE <<[latched EXCEPT !.at = t, !.pre = TRUE]>>
  /\ pc' = "body"
  /\ UNCHANGED <<latched, t, command_velocity, motor, runs, hcm>>

(***************************************************************************)
(* motionIdle returns "init" and the FSM enters motionWebots, whose entry  *)
(* subscribes: the latch sends its message to the new connection.          *)
(***************************************************************************)
EnterDrive ==
  /\ pc = "update"
  /\ fsm = "motionIdle"
  /\ t - t_entry > IdleTime
  /\ fsm' = "motionWebots"
  /\ t_entry' = t
  /\ torque_enable' = 3
  /\ teleop_t' = 0
  /\ base_velocity' = ZeroTwist
  /\ accepted' = NoMsg
  /\ new' = FALSE
  /\ newMsg' = NoMsg
  /\ inflight' = IF latched = NoMsg THEN << >>
                 ELSE <<[latched EXCEPT !.at = t, !.pre = TRUE]>>
  /\ pc' = "body"
  /\ UNCHANGED <<latched, t, command_velocity, motor, runs>>

(* Mutant of CheckTwist: commands count from the first step on. *)
CheckTwistAtOnce ==
  /\ new' = FALSE
  /\ UNCHANGED newMsg
  /\ IF new
     THEN /\ base_velocity' = newMsg.cmd
          /\ teleop_t' = t
          /\ accepted' = newMsg
     ELSE UNCHANGED <<base_velocity, teleop_t, accepted>>

(***************************************************************************)
(* checkTwist empties the mailbox even when the command is then ignored.   *)
(***************************************************************************)
CheckTwist ==
  /\ new' = FALSE
  /\ UNCHANGED newMsg
  /\ IF new /\ t - t_entry > SettleTime
     THEN /\ base_velocity' = newMsg.cmd
          /\ teleop_t' = t
          /\ accepted' = newMsg
     ELSE UNCHANGED <<base_velocity, teleop_t, accepted>>

(* Mutant of MoveBase: the timeout is checked with <= . *)
MoveBaseLate(velocity, last) ==
  command_velocity' = IF t - last <= CmdTimeout THEN Motor[velocity] ELSE Still

MoveBase(velocity, last) ==
  command_velocity' = IF t - last < CmdTimeout THEN Motor[velocity] ELSE Still

DriveUpdate ==
  /\ pc = "update"
  /\ fsm = "motionWebots"
  /\ CheckTwist
  /\ MoveBase(base_velocity', teleop_t')
  /\ pc' = "body"
  /\ UNCHANGED <<topic, fsm, t, t_entry, torque_enable, motor, runs>>

(***************************************************************************)
(* WebotsBody.update: the motors follow the command in velocity mode and   *)
(* hold their position in position mode, and the simulation steps.  A      *)
(* message still on its way MaxLag steps after it was sent is delivered    *)
(* first.                                                                  *)
(***************************************************************************)
BodyUpdate ==
  /\ pc = "body"
  /\ t < MaxTime
  /\ \A i \in DOMAIN inflight : t < inflight[i].at + MaxLag
  /\ motor' = IF torque_enable = 3 THEN command_velocity ELSE Still
  /\ t' = t + 1
  /\ pc' = "update"
  /\ UNCHANGED <<topic, mailbox, fsm, t_entry, hcm, dcm, runs, accepted>>

(***************************************************************************)
(* The controller dies and the simulation is reverted: the connection and  *)
(* the mailbox go with the process, the shared memory stays.               *)
(***************************************************************************)
Revert ==
  /\ pc # "off"
  /\ runs < MaxRuns
  /\ pc' = "off"
  /\ fsm' = "off"
  /\ t' = 0
  /\ t_entry' = 0
  /\ motor' = Still
  /\ new' = FALSE
  /\ newMsg' = NoMsg
  /\ inflight' = << >>
  /\ latched' = IF latched = NoMsg THEN NoMsg ELSE [latched EXCEPT !.pre = TRUE]
  /\ accepted' = NoMsg
  /\ UNCHANGED <<hcm, dcm, runs>>

Control == BodyEntry \/ IdleWait \/ EnterDrive \/ DriveUpdate \/ BodyUpdate

Next ==
  \/ \E c \in Twist : Publish(c)
  \/ Deliver
  \/ Start
  \/ Control
  \/ Revert

Spec == Init /\ [][Next]_vars

(***************************************************************************)
(* The wizard's loop never sleeps for good and the subscriber thread polls *)
(* its queue every 10 ms.                                                  *)
(***************************************************************************)
Fairness == WF_vars(Start) /\ WF_vars(Control) /\ WF_vars(Deliver)

FairSpec == Spec /\ Fairness

-----------------------------------------------------------------------------
(* Properties. *)

(***************************************************************************)
(* The control step that entered motionWebots: the mode is already         *)
(* velocity control and command_velocity is still what an earlier run left *)
(* in shared memory (motionWebots.lua:24 does not clear it).               *)
(***************************************************************************)
EntryStep == fsm = "motionWebots" /\ t = t_entry + 1

(***************************************************************************)
(* A command published before the subscription is never obeyed: the latch  *)
(* replays it to every new subscriber, and a restarted controller must not *)
(* drive off on it (the t-t_entry>1 test of motionWebots.lua:68).          *)
(***************************************************************************)
NoReplay == accepted # NoMsg => ~accepted.pre

(***************************************************************************)
(* The wheels turn only for the command in force, and no later than        *)
(* MaxLag + CmdTimeout + 1 steps after it was published; the entry step is *)
(* the only exception (the 1.0 s test of motionWebots.lua:53).             *)
(***************************************************************************)
DeadMan ==
  motor # Still /\ ~EntryStep =>
    /\ accepted # NoMsg
    /\ t <= accepted.at + MaxLag + CmdTimeout + 1
    /\ pc = "update" => motor = Motor[accepted.cmd]

(***************************************************************************)
(* The last command published is the one in force within MaxLag + 1 steps, *)
(* however many the mailbox overwrote or the publisher's queue dropped on  *)
(* the way (lua_rossub.cpp:29-35).                                         *)
(***************************************************************************)
LastCommandWins ==
  /\ fsm = "motionWebots"
  /\ latched # NoMsg
  /\ ~latched.pre
  /\ latched.at > t_entry + SettleTime
  /\ t > latched.at + MaxLag + 1
  => accepted = latched

(***************************************************************************)
(* A controller that started and is not killed reaches the drive state:    *)
(* t_entry is set on entry only, so the idle wait ends.                    *)
(***************************************************************************)
DriveReached == pc = "entry" ~> (fsm = "motionWebots" \/ pc = "off")

(***************************************************************************)
(* The drive chain implements the dead-man switch.                         *)
(***************************************************************************)
Phase ==
  CASE fsm = "off"        -> "off"
    [] fsm = "motionIdle" -> "waiting"
    [] OTHER -> IF pc = "body" /\ t = t_entry THEN "engaging" ELSE "driving"

Drive(m) == Motor[m.cmd]

Switch == INSTANCE DeadManSwitch WITH
  Order <- Message, NoOrder <- NoMsg, Output <- WheelVel,
  Grace <- MaxLag + CmdTimeout + 1,
  now <- t, phase <- Phase, order <- accepted, out <- motor

IsDeadManSwitch == Switch!Spec
=============================================================================
