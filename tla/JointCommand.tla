--------------------------- MODULE JointCommand ---------------------------
(***************************************************************************)
(* The path of joint commands when Config.send_motion_cmd is off, as the   *)
(* repository ships: a ROS node publishes on the latched topic /joint_cmd, *)
(* Run/rosio_wizard.lua copies the newest message into shared memory, and  *)
(* WebotsBody.update of the robot's own process drives the motors from it. *)
(* The two processes share the arrays of the block dcm without a lock, and *)
(* both go through them element by element.                                *)
(***************************************************************************)
EXTENDS Integers, Sequences, FiniteSets

CONSTANTS
  N,            \* number of wheels
  Vel,          \* wheel velocities
  Stop,         \* velocity zero
  Shapes,       \* the sequences of wheels a message may name
  NoMsg,        \* no message
  MaxSent,      \* bound: messages published
  MaxRuns,      \* bound: runs of the robot's process
  MaxDeaths     \* bound: deaths of rosio_wizard

ASSUME WheelAssumption ==
  /\ N \in Nat \ {0}
  /\ Stop \in Vel
  /\ \A s \in Shapes : s \in Seq(1 .. N) /\ Len(s) <= N

VARIABLES
  sent,               \* how many messages were published
  latched,            \* the message the /joint_cmd publisher keeps
  wire,               \* the message on its way, or NoMsg
  mail,               \* rosio's mailbox: the unread message, or NoMsg
  settled,            \* rosio started more than a second ago
  rpc, ri, wheel_vel, \* where rosio is, its loop index, its copy
  vel, en,            \* dcm.actuator.command_velocity and torque_enable
  bpc, bi, cmdv,      \* where the body is, its loop index, its copy
  motor,              \* velocities the motors turn at
  runs, deaths,       \* runs of the robot's process, deaths of rosio
  quiet,              \* history: rosio wrote nothing since this body step began
  woken,              \* history: wheels whose mode rosio wrote in this run
  fresh,              \* history: wheels whose vel rosio wrote in this run
  asked               \* history: wheel -> velocities commanded for it so far

topic == <<sent, latched, wire>>
rosio == <<mail, settled, rpc, ri, wheel_vel, deaths>>
body == <<bpc, bi, cmdv, motor, runs>>
dcm == <<vel, en>>
history == <<quiet, woken, fresh, asked>>
vars == <<sent, latched, wire, mail, settled, rpc, ri, wheel_vel, deaths, bpc, bi,
          cmdv, motor, runs, vel, en, quiet, woken, fresh, asked>>

Wheel == 1 .. N
Message == UNION {[names : {s}, vel : [1 .. Len(s) -> Vel]] : s \in Shapes}
Named(m) == {m.names[i] : i \in DOMAIN m.names}

TypeOK ==
  /\ sent \in Nat
  /\ latched \in Message \cup {NoMsg}
  /\ wire \in Message \cup {NoMsg}
  /\ mail \in Message \cup {NoMsg}
  /\ settled \in BOOLEAN
  /\ rpc \in {"poll", "enable", "velocity"}
  /\ ri \in Wheel
  /\ wheel_vel \in [Wheel -> Vel]
  /\ vel \in [Wheel -> Vel]
  /\ en \in [Wheel -> {0, 1, 3}]
  /\ bpc \in {"off", "entry", "snapshot", "drive"}
  /\ bi \in Wheel
  /\ cmdv \in [Wheel -> Vel]
  /\ motor \in [Wheel -> Vel]
  /\ runs \in Nat
  /\ deaths \in Nat
  /\ quiet \in BOOLEAN
  /\ woken \subseteq Wheel
  /\ fresh \subseteq Wheel
  /\ asked \in [Wheel -> SUBSET Vel]

Init ==
  /\ sent = 0
  /\ latched = NoMsg /\ wire = NoMsg /\ mail = NoMsg
  /\ settled = FALSE
  /\ rpc = "poll" /\ ri = 1
  /\ wheel_vel = [i \in Wheel |-> Stop]
  /\ vel = [i \in Wheel |-> Stop]
  /\ en = [i \in Wheel |-> 0]
  /\ bpc = "off" /\ bi = 1
  /\ cmdv = [i \in Wheel |-> Stop]
  /\ motor = [i \in Wheel |-> Stop]
  /\ runs = 0 /\ deaths = 0
  /\ quiet = FALSE
  /\ woken = {} /\ fresh = {}
  /\ asked = [i \in Wheel |-> {}]

-----------------------------------------------------------------------------
(* The topic /joint_cmd and the subscriber thread of rosio. *)

Publish(m) ==
  /\ sent < MaxSent
  /\ sent' = sent + 1
  /\ latched' = m
  /\ wire' = m
  /\ UNCHANGED <<rosio, body, dcm, history>>

(* The newest message replaces an unread one. *)
Deliver ==
  /\ wire # NoMsg
  /\ mail' = wire
  /\ wire' = NoMsg
  /\ UNCHANGED <<sent, latched, settled, rpc, ri, wheel_vel, deaths, body, dcm, history>>

-----------------------------------------------------------------------------
(* rosio_wizard. *)

(* Its clock passes t_entry + 1. *)
Settle ==
  /\ ~settled
  /\ settled' = TRUE
  /\ UNCHANGED <<topic, mail, rpc, ri, wheel_vel, deaths, body, dcm, history>>

(* Mutant: the velocities are taken by place, not by the wheel named. *)
MergedByPlace(v, m) ==
  {[i \in Wheel |-> IF i \in DOMAIN m.names THEN m.vel[i] ELSE v[i]]}

(***************************************************************************)
(* The one result of merging m into v: a wheel that m names gets the       *)
(* velocity at its last place in m, any other keeps the one it had.        *)
(***************************************************************************)
LastPlace(m, i, k) ==
  m.names[k] = i /\ \A j \in DOMAIN m.names : m.names[j] = i => j <= k

Merged(v, m) ==
  {w \in [Wheel -> Vel] :
     \A i \in Wheel :
       IF i \in Named(m)
       THEN \E k \in DOMAIN m.names : LastPlace(m, i, k) /\ w[i] = m.vel[k]
       ELSE w[i] = v[i]}

(***************************************************************************)
(* update_jointcmd: a message read in the first second is dropped, a later *)
(* one is merged into the velocities found in shared memory.               *)
(***************************************************************************)
ReadCommand ==
  /\ rpc = "poll"
  /\ mail # NoMsg
  /\ mail' = NoMsg
  /\ IF settled /\ Named(mail) # {}
     THEN /\ wheel_vel' \in Merged(vel, mail)
          /\ rpc' = "enable"
          /\ ri' = 1
          /\ asked' = [i \in Wheel |-> asked[i] \cup
                        {mail.vel[k] : k \in {j \in DOMAIN mail.names : mail.names[j] = i}}]
     ELSE UNCHANGED <<wheel_vel, rpc, ri, asked>>
  /\ UNCHANGED <<topic, settled, deaths, body, dcm, quiet, woken, fresh>>

(* Body.set_wheel_torque_enable(3), one element. *)
WriteEnable ==
  /\ rpc = "enable"
  /\ en' = [en EXCEPT ![ri] = 3]
  /\ ri' = IF ri < N THEN ri + 1 ELSE 1
  /\ rpc' = IF ri < N THEN "enable" ELSE "velocity"
  /\ quiet' = FALSE
  /\ woken' = woken \cup {ri}
  /\ UNCHANGED <<topic, mail, settled, wheel_vel, deaths, body, vel, fresh, asked>>

(* Mutant: a velocity of zero is taken for one not commanded. *)
WriteVelocitySkipsZero ==
  /\ rpc = "velocity"
  /\ vel' = [vel EXCEPT ![ri] = IF wheel_vel[ri] = Stop THEN @ ELSE wheel_vel[ri]]
  /\ ri' = IF ri < N THEN ri + 1 ELSE 1
  /\ rpc' = IF ri < N THEN "velocity" ELSE "poll"
  /\ quiet' = FALSE
  /\ fresh' = IF wheel_vel[ri] = Stop THEN fresh ELSE fresh \cup {ri}
  /\ UNCHANGED <<topic, mail, settled, wheel_vel, deaths, body, en, woken, asked>>

(* Body.set_wheel_command_velocity(wheel_vel), one element. *)
WriteVelocity ==
  /\ rpc = "velocity"
  /\ vel' = [vel EXCEPT ![ri] = wheel_vel[ri]]
  /\ ri' = IF ri < N THEN ri + 1 ELSE 1
  /\ rpc' = IF ri < N THEN "velocity" ELSE "poll"
  /\ quiet' = FALSE
  /\ fresh' = fresh \cup {ri}
  /\ UNCHANGED <<topic, mail, settled, wheel_vel, deaths, body, en, woken, asked>>

(* rosio dies anywhere and comes back; the latch replays its message. *)
RosioDies ==
  /\ deaths < MaxDeaths
  /\ deaths' = deaths + 1
  /\ settled' = FALSE
  /\ rpc' = "poll" /\ ri' = 1
  /\ mail' = NoMsg
  /\ wire' = latched
  /\ UNCHANGED <<sent, latched, wheel_vel, body, dcm, history>>

-----------------------------------------------------------------------------
(* The robot's process. *)

Start ==
  /\ bpc = "off"
  /\ runs < MaxRuns
  /\ runs' = runs + 1
  /\ bpc' = "entry" /\ bi' = 1
  /\ woken' = {} /\ fresh' = {}
  /\ UNCHANGED <<topic, rosio, cmdv, motor, dcm, quiet, asked>>

(* Mutant: the loop of the entry misses the last joint. *)
BodyEntryShort ==
  /\ bpc = "entry"
  /\ en' = IF bi < N THEN [en EXCEPT ![bi] = 1] ELSE en
  /\ bi' = IF bi < N THEN bi + 1 ELSE 1
  /\ bpc' = IF bi < N THEN "entry" ELSE "snapshot"
  /\ UNCHANGED <<topic, rosio, cmdv, motor, runs, vel, history>>

(* Body.set_torque_enable(1) in WebotsBody.entry, one element. *)
BodyEntry ==
  /\ bpc = "entry"
  /\ en' = [en EXCEPT ![bi] = 1]
  /\ bi' = IF bi < N THEN bi + 1 ELSE 1
  /\ bpc' = IF bi < N THEN "entry" ELSE "snapshot"
  /\ UNCHANGED <<topic, rosio, cmdv, motor, runs, vel, history>>

(* Body.get_command_velocity() in WebotsBody.update, one element. *)
Snapshot ==
  /\ bpc = "snapshot"
  /\ cmdv' = [cmdv EXCEPT ![bi] = vel[bi]]
  /\ quiet' = IF bi = 1 THEN TRUE ELSE quiet
  /\ bi' = IF bi < N THEN bi + 1 ELSE 1
  /\ bpc' = IF bi < N THEN "snapshot" ELSE "drive"
  /\ UNCHANGED <<topic, rosio, motor, runs, dcm, woken, fresh, asked>>

(* Mutant: a velocity of zero is not sent to the motor. *)
DriveJointSkipsStop ==
  /\ bpc = "drive"
  /\ motor' = [motor EXCEPT ![bi] = CASE en[bi] = 3 /\ cmdv[bi] # Stop -> cmdv[bi]
                                      [] en[bi] = 1 -> Stop
                                      [] OTHER -> @]
  /\ bi' = IF bi < N THEN bi + 1 ELSE 1
  /\ bpc' = IF bi < N THEN "drive" ELSE "snapshot"
  /\ UNCHANGED <<topic, rosio, cmdv, runs, dcm, history>>

(***************************************************************************)
(* One joint of the loop of WebotsBody.update; the mode is read afresh for *)
(* every joint.  A wheel in position mode is held, which counts as Stop.   *)
(* The loop ends with the simulation's step.                               *)
(***************************************************************************)
DriveJoint ==
  /\ bpc = "drive"
  /\ motor' = [motor EXCEPT ![bi] = CASE en[bi] = 3 -> cmdv[bi]
                                      [] en[bi] = 1 -> Stop
                                      [] OTHER -> @]
  /\ bi' = IF bi < N THEN bi + 1 ELSE 1
  /\ bpc' = IF bi < N THEN "drive" ELSE "snapshot"
  /\ UNCHANGED <<topic, rosio, cmdv, runs, dcm, history>>

(* The robot's process dies and the simulation is reverted. *)
Revert ==
  /\ bpc # "off"
  /\ runs < MaxRuns
  /\ bpc' = "off" /\ bi' = 1
  /\ cmdv' = [i \in Wheel |-> Stop]
  /\ motor' = [i \in Wheel |-> Stop]
  /\ woken' = {} /\ fresh' = {}
  /\ quiet' = FALSE
  /\ UNCHANGED <<topic, rosio, runs, dcm, asked>>

Rosio == Settle \/ ReadCommand \/ WriteEnable \/ WriteVelocity
Body == Start \/ BodyEntry \/ Snapshot \/ DriveJoint

Next ==
  \/ \E m \in Message : Publish(m)
  \/ Deliver
  \/ Rosio
  \/ RosioDies
  \/ Body
  \/ Revert

Spec == Init /\ [][Next]_vars

(* Neither loop blocks: the poll of rosio has a timeout of 2 ms. *)
Fairness == WF_vars(Deliver) /\ WF_vars(Rosio) /\ WF_vars(Body)

FairSpec == Spec /\ Fairness

-----------------------------------------------------------------------------
(* Properties. *)

(* The body has just taken a whole step of the simulation. *)
StepEnds == bpc = "snapshot" /\ bi = 1

(***************************************************************************)
(* A wheel turns only at a velocity that some message asked of that very   *)
(* wheel: merging by name (rosio_wizard.lua:127-133), element-wise writes  *)
(* and torn reads never give one wheel the velocity of another.            *)
(***************************************************************************)
Provenance == \A i \in Wheel : motor[i] # Stop => motor[i] \in asked[i]

(***************************************************************************)
(* The body's copy of the velocities (WebotsBody.lua:292) may be torn by   *)
(* rosio's writes, but only for one step: after a step during which rosio  *)
(* wrote nothing every wheel obeys shared memory, a stop included.         *)
(***************************************************************************)
TornOneStep ==
  StepEnds /\ quiet =>
    \A i \in Wheel : motor[i] = IF en[i] = 3 THEN vel[i] ELSE Stop

(***************************************************************************)
(* Shared memory outlives the robot's process, with the velocities of the  *)
(* run before in it; torque_enable(1) at entry (WebotsBody.lua:225) keeps  *)
(* every wheel held until rosio writes its mode again.                     *)
(***************************************************************************)
NoLeftover == \A i \in Wheel : motor[i] # Stop => i \in woken

(***************************************************************************)
(* rosio writes the mode before the velocity (rosio_wizard.lua:172-173), so*)
(* a wheel may turn for a moment at a velocity of the run before.  Once    *)
(* rosio is back in its loop it has written the velocity of every wheel    *)
(* that turns, unless it ever died between the two writes.                 *)
(***************************************************************************)
FreshVelocity ==
  StepEnds /\ quiet /\ rpc = "poll" /\ deaths = 0 =>
    \A i \in Wheel : motor[i] # Stop => i \in fresh

(* The robot is in its update loop and rosio takes commands. *)
Listening == bpc \in {"snapshot", "drive"} /\ settled

Driven(m) == \A k \in DOMAIN m.names :
  LastPlace(m, m.names[k], k) => motor[m.names[k]] = m.vel[k]

(***************************************************************************)
(* A command on its way while both processes listen reaches the motors of  *)
(* all the wheels it names, or the newer one that replaces it does, unless *)
(* one of the processes dies.                                              *)
(***************************************************************************)
CommandDriven ==
  (wire # NoMsg /\ Listening) ~> ((latched # NoMsg /\ Driven(latched)) \/ ~Listening)
=============================================================================
