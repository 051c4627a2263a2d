------------------------ MODULE JointCommandProofs ------------------------
(***************************************************************************)
(* Proofs about the path of joint commands, for every number of wheels,    *)
(* every set of velocities and messages, and any number of restarts.       *)
(***************************************************************************)
EXTENDS JointCommand, TLAPS

(***************************************************************************)
(* Every place a velocity passes through on its way to a motor holds Stop  *)
(* or a velocity some message asked of that wheel.                         *)
(***************************************************************************)
Known(f) == \A i \in Wheel : f[i] = Stop \/ f[i] \in asked[i]

Sourced == Known(vel) /\ Known(wheel_vel) /\ Known(cmdv) /\ Known(motor)

(***************************************************************************)
(* The entry loop takes the wheels out of velocity mode one by one, and    *)
(* nothing turns before the update loop begins.                            *)
(***************************************************************************)
Entered(i) == \/ bpc \in {"snapshot", "drive"}
              \/ bpc = "entry" /\ i < bi

Held ==
  /\ bpc \in {"off", "entry"} => ~quiet /\ \A i \in Wheel : motor[i] = Stop
  /\ \A i \in Wheel : Entered(i) => en[i] # 0 /\ (en[i] = 3 => i \in woken)

(***************************************************************************)
(* While rosio writes nothing, the part of the body's loop already done    *)
(* agrees with shared memory.                                              *)
(***************************************************************************)
Obeyed(i) == motor[i] = IF en[i] = 3 THEN vel[i] ELSE Stop

Agrees ==
  /\ quiet /\ bpc = "snapshot" =>
       /\ \A i \in Wheel : i < bi => cmdv[i] = vel[i]
       /\ bi = 1 => \A i \in Wheel : Obeyed(i)
  /\ quiet /\ bpc = "drive" =>
       /\ cmdv = vel
       /\ \A i \in Wheel : i < bi => Obeyed(i)

(***************************************************************************)
(* As long as rosio never died, the wheels that have a mode but no         *)
(* velocity yet are those its loop has still to come to.                   *)
(***************************************************************************)
Written ==
  deaths = 0 =>
    /\ rpc = "poll" => woken \subseteq fresh
    /\ rpc = "velocity" => \A i \in woken \ fresh : i >= ri

IInv == TypeOK /\ Sourced /\ Held /\ NoLeftover /\ Agrees /\ Written

-----------------------------------------------------------------------------
(* The indices the loops go through. *)

LEMMA WheelFacts ==
  /\ 1 \in Wheel
  /\ \A i \in Wheel : i < N => i + 1 \in Wheel
  /\ Stop \in Vel
  BY WheelAssumption DEF Wheel

(* What a message holds, and what merging it into an array gives. *)

LEMMA MessageType ==
  ASSUME NEW m \in Message
  PROVE  /\ \A k \in DOMAIN m.names : m.names[k] \in Wheel /\ m.vel[k] \in Vel
         /\ m.vel \in [DOMAIN m.names -> Vel]
<1>1. PICK s \in Shapes : m \in [names : {s}, vel : [1 .. Len(s) -> Vel]]
  BY DEF Message
<1>2. s \in Seq(Wheel)
  BY WheelAssumption DEF Wheel
<1>3. m.names = s /\ m.vel \in [1 .. Len(s) -> Vel]
  BY <1>1
<1>4. DOMAIN m.names = 1 .. Len(s)
  BY <1>2, <1>3
<1>5. \A k \in DOMAIN m.names : m.names[k] \in Wheel
  BY <1>2, <1>3
<1> QED
  BY <1>3, <1>4, <1>5

LEMMA MergedKnown ==
  ASSUME NEW m \in Message, NEW v \in [Wheel -> Vel], NEW w \in Merged(v, m),
         NEW i \in Wheel
  PROVE  \/ w[i] = v[i]
         \/ w[i] \in {m.vel[k] : k \in {j \in DOMAIN m.names : m.names[j] = i}}
  BY DEF Merged, LastPlace

-----------------------------------------------------------------------------
(* The parts of the invariant, one step at a time. *)

LEMMA InitIInv == Init => IInv
<1> SUFFICES ASSUME Init PROVE IInv
  OBVIOUS
<1> USE DEF Init
<1>1. TypeOK
  BY WheelFacts DEF TypeOK
<1>2. Sourced
  BY DEF Sourced, Known
<1>3. Held
  BY DEF Held, Entered
<1>4. NoLeftover /\ Agrees /\ Written
  BY DEF NoLeftover, Agrees, Written
<1> QED
  BY <1>1, <1>2, <1>3, <1>4 DEF IInv

LEMMA TypeStep == TypeOK /\ [Next]_vars => TypeOK'
<1> SUFFICES ASSUME TypeOK, [Next]_vars PROVE TypeOK'
  OBVIOUS
<1> USE WheelFacts
<1>1. ASSUME NEW m \in Message, Publish(m) PROVE TypeOK'
  BY <1>1 DEF TypeOK, Publish, rosio, body, dcm, history
<1>2. CASE Deliver
  BY <1>2 DEF TypeOK, Deliver, body, dcm, history
<1>3. CASE Settle
  BY <1>3 DEF TypeOK, Settle, topic, body, dcm, history
<1>4. CASE ReadCommand
  <2>1. mail \in Message
    BY <1>4 DEF ReadCommand, TypeOK
  <2>2. wheel_vel' \in [Wheel -> Vel]
    BY <1>4 DEF ReadCommand, TypeOK, Merged
  <2>3. asked' \in [Wheel -> SUBSET Vel]
    BY <1>4, <2>1, MessageType DEF ReadCommand, TypeOK
  <2>4. rpc' \in {"poll", "enable", "velocity"} /\ ri' \in Wheel
    BY <1>4 DEF ReadCommand, TypeOK
  <2> QED
    BY <1>4, <2>2, <2>3, <2>4 DEF ReadCommand, TypeOK, topic, body, dcm
<1>5. CASE WriteEnable
  BY <1>5 DEF TypeOK, WriteEnable, topic, body
<1>6. CASE WriteVelocity
  BY <1>6 DEF TypeOK, WriteVelocity, topic, body
<1>7. CASE RosioDies
  <2>1. wire' \in Message \cup {NoMsg}
    BY <1>7 DEF TypeOK, RosioDies
  <2>2. UNCHANGED <<sent, latched, wheel_vel, body, dcm, history>>
    BY <1>7 DEF RosioDies
  <2>3. settled' = FALSE /\ rpc' = "poll" /\ ri' = 1 /\ mail' = NoMsg
    BY <1>7 DEF RosioDies
  <2>4. deaths' \in Nat
    BY <1>7 DEF TypeOK, RosioDies
  <2> QED
    BY <2>1, <2>2, <2>3, <2>4 DEF TypeOK, body, dcm, history
<1>8. CASE Start
  BY <1>8 DEF TypeOK, Start, topic, rosio, dcm
<1>9. CASE BodyEntry
  BY <1>9 DEF TypeOK, BodyEntry, topic, rosio, history
<1>10. CASE Snapshot
  BY <1>10 DEF TypeOK, Snapshot, topic, rosio, dcm
<1>11. CASE DriveJoint
  <2>1. motor' \in [Wheel -> Vel]
    BY <1>11 DEF TypeOK, DriveJoint
  <2> QED
    BY <1>11, <2>1 DEF TypeOK, DriveJoint, topic, rosio, dcm, history
<1>12. CASE Revert
  BY <1>12 DEF TypeOK, Revert, topic, rosio, dcm
<1>13. CASE UNCHANGED vars
  BY <1>13 DEF TypeOK, vars
<1> QED
  BY <1>1, <1>2, <1>3, <1>4, <1>5, <1>6, <1>7, <1>8, <1>9, <1>10, <1>11, <1>12, <1>13
  DEF Next, Rosio, Body

(* Velocities are only copied, and a wheel's set of commands only grows. *)
LEMMA SourcedStep == TypeOK /\ Sourced /\ [Next]_vars => Sourced'
<1> SUFFICES ASSUME TypeOK, Sourced, [Next]_vars PROVE Sourced'
  OBVIOUS
<1> USE DEF Sourced, Known
<1>1. ASSUME NEW m \in Message, Publish(m) PROVE Sourced'
  BY <1>1 DEF Publish, rosio, body, dcm, history
<1>2. CASE Deliver \/ Settle \/ RosioDies
  BY <1>2 DEF Deliver, Settle, RosioDies, topic, body, dcm, history
<1>3. CASE ReadCommand
  <2>1. mail \in Message
    BY <1>3 DEF ReadCommand, TypeOK
  <2>2. CASE settled /\ Named(mail) # {}
    <3>1. \A i \in Wheel :
            asked'[i] = asked[i] \cup
              {mail.vel[k] : k \in {j \in DOMAIN mail.names : mail.names[j] = i}}
      BY <1>3, <2>2 DEF ReadCommand
    <3>2. wheel_vel' \in Merged(vel, mail)
      BY <1>3, <2>2 DEF ReadCommand
    <3>3. \A i \in Wheel : wheel_vel'[i] = Stop \/ wheel_vel'[i] \in asked'[i]
      BY <2>1, <3>1, <3>2, MergedKnown DEF TypeOK
    <3>4. UNCHANGED <<vel, cmdv, motor>>
      BY <1>3 DEF ReadCommand, body, dcm
    <3> QED
      BY <3>1, <3>3, <3>4
  <2>3. CASE ~(settled /\ Named(mail) # {})
    BY <1>3, <2>3 DEF ReadCommand, body, dcm
  <2> QED
    BY <2>2, <2>3
<1>4. CASE WriteEnable
  BY <1>4 DEF WriteEnable, topic, body
<1>5. CASE WriteVelocity
  BY <1>5 DEF WriteVelocity, topic, body, TypeOK
<1>6. CASE Start \/ BodyEntry
  BY <1>6 DEF Start, BodyEntry, topic, rosio, dcm, history
<1>7. CASE Snapshot
  BY <1>7 DEF Snapshot, topic, rosio, dcm, TypeOK
<1>8. CASE DriveJoint
  <2>1. \A i \in Wheel : motor'[i] \in {motor[i], cmdv[i], Stop}
    BY <1>8 DEF DriveJoint, TypeOK
  <2> QED
    BY <1>8, <2>1 DEF DriveJoint, rosio, dcm, history
<1>9. CASE Revert
  BY <1>9 DEF Revert, rosio, dcm
<1>10. CASE UNCHANGED vars
  BY <1>10 DEF vars
<1> QED
  BY <1>1, <1>2, <1>3, <1>4, <1>5, <1>6, <1>7, <1>8, <1>9, <1>10
  DEF Next, Rosio, Body

(* A wheel leaves its hold only after rosio wrote its mode in this run. *)
LEMMA HeldStep ==
  TypeOK /\ Held /\ NoLeftover /\ [Next]_vars => Held' /\ NoLeftover'
<1> SUFFICES ASSUME TypeOK, Held, NoLeftover, [Next]_vars
             PROVE  Held' /\ NoLeftover'
  OBVIOUS
<1> USE DEF Held, NoLeftover, Entered
<1>1. ASSUME NEW m \in Message, Publish(m) PROVE Held' /\ NoLeftover'
  BY <1>1 DEF Publish, rosio, body, dcm, history
<1>2. CASE Deliver \/ Settle \/ RosioDies
  BY <1>2 DEF Deliver, Settle, RosioDies, topic, body, dcm, history
<1>3. CASE ReadCommand
  BY <1>3 DEF ReadCommand, topic, body, dcm
<1>4. CASE WriteEnable
  BY <1>4 DEF WriteEnable, topic, body, TypeOK
<1>5. CASE WriteVelocity
  BY <1>5 DEF WriteVelocity, topic, body
<1>6. CASE Start
  BY <1>6 DEF Start, topic, rosio, dcm, TypeOK, Wheel
<1>7. CASE BodyEntry
  <2>1. UNCHANGED <<motor, quiet, woken>>
    BY <1>7 DEF BodyEntry, history
  <2>2. \A i \in Wheel : Entered(i)' => i = bi \/ Entered(i)
    BY <1>7, WheelAssumption DEF BodyEntry, TypeOK, Wheel
  <2>3. \A i \in Wheel : en'[i] = IF i = bi THEN 1 ELSE en[i]
    BY <1>7 DEF BodyEntry, TypeOK
  <2>4. \A i \in Wheel : motor[i] = Stop
    BY <1>7 DEF BodyEntry
  <2>5. ~quiet
    BY <1>7 DEF BodyEntry
  <2> QED
    BY <2>1, <2>2, <2>3, <2>4, <2>5
<1>8. CASE Snapshot
  BY <1>8 DEF Snapshot, topic, rosio, dcm
<1>9. CASE DriveJoint
  <2>1. UNCHANGED <<en, woken>> /\ bpc' \in {"snapshot", "drive"}
    BY <1>9 DEF DriveJoint, dcm, history
  <2>2. \A i \in Wheel :
          motor'[i] # Stop => motor'[i] = motor[i] \/ en[i] = 3
    BY <1>9 DEF DriveJoint, TypeOK
  <2>3. bpc = "drive"
    BY <1>9 DEF DriveJoint
  <2> QED
    BY <2>1, <2>2, <2>3
<1>10. CASE Revert
  BY <1>10 DEF Revert, rosio, dcm
<1>11. CASE UNCHANGED vars
  BY <1>11 DEF vars
<1> QED
  BY <1>1, <1>2, <1>3, <1>4, <1>5, <1>6, <1>7, <1>8, <1>9, <1>10, <1>11
  DEF Next, Rosio, Body

(* Each element the body goes through agrees, and the loops cover them all. *)
LEMMA AgreesStep == TypeOK /\ Held /\ Agrees /\ [Next]_vars => Agrees'
<1> SUFFICES ASSUME TypeOK, Held, Agrees, [Next]_vars PROVE Agrees'
  OBVIOUS
<1> USE DEF Agrees, Obeyed
<1>1. ASSUME NEW m \in Message, Publish(m) PROVE Agrees'
  BY <1>1 DEF Publish, rosio, body, dcm, history
<1>2. CASE Deliver \/ Settle \/ RosioDies
  BY <1>2 DEF Deliver, Settle, RosioDies, topic, body, dcm, history
<1>3. CASE ReadCommand
  BY <1>3 DEF ReadCommand, topic, body, dcm
<1>4. CASE WriteEnable \/ WriteVelocity
  BY <1>4 DEF WriteEnable, WriteVelocity
<1>5. CASE Start
  BY <1>5 DEF Start
<1>6. CASE BodyEntry
  BY <1>6 DEF BodyEntry, Held, history
<1>7. CASE Snapshot
  <2>1. UNCHANGED <<motor, vel, en>> /\ bpc = "snapshot"
    BY <1>7 DEF Snapshot, dcm
  <2>2. \A i \in Wheel : cmdv'[i] = IF i = bi THEN vel[i] ELSE cmdv[i]
    BY <1>7 DEF Snapshot, TypeOK
  <2>3. quiet' => \A i \in Wheel : i <= bi => cmdv'[i] = vel[i]
    <3>1. CASE bi = 1
      BY <2>2, <3>1 DEF Wheel
    <3>2. CASE bi # 1
      BY <1>7, <2>1, <2>2, <3>2 DEF Snapshot, TypeOK, Wheel
    <3> QED
      BY <3>1, <3>2
  <2>4. CASE bi < N
    <3>1. bpc' = "snapshot" /\ bi' = bi + 1 /\ bi' # 1
      BY <1>7, <2>4 DEF Snapshot, TypeOK, Wheel
    <3> QED
      BY <2>1, <2>3, <3>1 DEF TypeOK, Wheel
  <2>5. CASE ~(bi < N)
    <3>1. bpc' = "drive" /\ bi' = 1
      BY <1>7, <2>5 DEF Snapshot
    <3>2. quiet' => \A i \in Wheel : cmdv'[i] = vel[i]
      BY <2>3, <2>5, WheelAssumption DEF TypeOK, Wheel
    <3>3. cmdv' \in [Wheel -> Vel] /\ vel \in [Wheel -> Vel]
      BY <1>7 DEF Snapshot, TypeOK
    <3>4. quiet' => cmdv' = vel
      BY <3>2, <3>3
    <3> QED
      BY <2>1, <3>1, <3>4 DEF Wheel
  <2> QED
    BY <2>4, <2>5
<1>8. CASE DriveJoint
  <2>1. UNCHANGED <<cmdv, vel, en, quiet>> /\ bpc = "drive"
    BY <1>8 DEF DriveJoint, dcm, history
  <2>2. en[bi] \in {1, 3}
    BY <2>1 DEF TypeOK, Held, Entered
  <2>3. \A i \in Wheel : i # bi => motor'[i] = motor[i]
    BY <1>8 DEF DriveJoint, TypeOK
  <2>4. motor'[bi] = IF en[bi] = 3 THEN cmdv[bi] ELSE Stop
    BY <1>8, <2>2 DEF DriveJoint, TypeOK
  <2>5. quiet => \A i \in Wheel : i <= bi => Obeyed(i)'
    BY <2>1, <2>3, <2>4 DEF TypeOK, Wheel
  <2>6. CASE bi < N
    <3>1. bpc' = "drive" /\ bi' = bi + 1
      BY <1>8, <2>6 DEF DriveJoint
    <3> QED
      BY <2>1, <2>5, <3>1 DEF TypeOK, Wheel
  <2>7. CASE ~(bi < N)
    <3>1. bpc' = "snapshot" /\ bi' = 1
      BY <1>8, <2>7 DEF DriveJoint
    <3>2. quiet => \A i \in Wheel : Obeyed(i)'
      BY <2>5, <2>7, WheelAssumption DEF TypeOK, Wheel
    <3> QED
      BY <2>1, <3>1, <3>2 DEF Wheel
  <2> QED
    BY <2>6, <2>7
<1>9. CASE Revert
  BY <1>9 DEF Revert
<1>10. CASE UNCHANGED vars
  BY <1>10 DEF vars
<1> QED
  BY <1>1, <1>2, <1>3, <1>4, <1>5, <1>6, <1>7, <1>8, <1>9, <1>10
  DEF Next, Rosio, Body

LEMMA WrittenStep == TypeOK /\ Written /\ [Next]_vars => Written'
<1> SUFFICES ASSUME TypeOK, Written, [Next]_vars PROVE Written'
  OBVIOUS
<1> USE DEF Written
<1>1. CASE \/ \E m \in Message : Publish(m)
           \/ Deliver \/ Settle \/ BodyEntry \/ Snapshot \/ DriveJoint
           \/ UNCHANGED vars
  BY <1>1 DEF Publish, Deliver, Settle, BodyEntry, Snapshot, DriveJoint, rosio,
              history, vars
<1>2. CASE ReadCommand
  BY <1>2 DEF ReadCommand
<1>3. CASE WriteEnable
  <2>1. rpc' = "velocity" => ri' = 1
    BY <1>3 DEF WriteEnable, TypeOK, Wheel
  <2>2. \A i \in woken' : i \in Wheel
    BY <1>3 DEF WriteEnable, TypeOK
  <2>3. rpc' # "poll"
    BY <1>3 DEF WriteEnable
  <2> QED
    BY <2>1, <2>2, <2>3 DEF Wheel
<1>4. CASE WriteVelocity
  <2>1. woken' = woken /\ fresh' = fresh \cup {ri} /\ deaths' = deaths
    BY <1>4 DEF WriteVelocity
  <2>2. woken \subseteq Wheel /\ ri \in Wheel
    BY DEF TypeOK
  <2>3. CASE ri < N
    BY <1>4, <2>1, <2>2, <2>3 DEF WriteVelocity, Wheel
  <2>4. CASE ~(ri < N)
    BY <1>4, <2>1, <2>2, <2>4, WheelAssumption DEF WriteVelocity, Wheel
  <2> QED
    BY <2>3, <2>4
<1>5. CASE RosioDies
  BY <1>5 DEF RosioDies, TypeOK
<1>6. CASE Start \/ Revert
  BY <1>6 DEF Start, Revert, rosio
<1> QED
  BY <1>1, <1>2, <1>3, <1>4, <1>5, <1>6 DEF Next, Rosio, Body

-----------------------------------------------------------------------------
(* The theorems. *)

(* The inductive invariant holds in every reachable state. *)
THEOREM Invariance == Spec => []IInv
<1>1. Init => IInv
  BY InitIInv
<1>2. IInv /\ [Next]_vars => IInv'
  BY TypeStep, SourcedStep, HeldStep, AgreesStep, WrittenStep DEF IInv
<1> QED
  BY <1>1, <1>2, PTL DEF Spec

(* Every variable of both processes keeps its type. *)
THEOREM TypeCorrect == Spec => []TypeOK
<1>1. IInv => TypeOK
  BY DEF IInv
<1> QED
  BY <1>1, Invariance, PTL

(***************************************************************************)
(* No wheel ever turns at a velocity that no message asked of it, whatever *)
(* the messages name and however the two processes interleave their loops. *)
(***************************************************************************)
THEOREM ProvenanceCorrect == Spec => []Provenance
<1>1. IInv => Provenance
  BY DEF IInv, Sourced, Known, Provenance
<1> QED
  BY <1>1, Invariance, PTL

(* A torn copy of the velocities is gone after one step without writes. *)
THEOREM TornOneStepCorrect == Spec => []TornOneStep
<1>1. IInv => TornOneStep
  BY DEF IInv, Agrees, Obeyed, TornOneStep, StepEnds
<1> QED
  BY <1>1, Invariance, PTL

(* After a restart a wheel stays held until rosio writes its mode. *)
THEOREM NoLeftoverCorrect == Spec => []NoLeftover
<1>1. IInv => NoLeftover
  BY DEF IInv
<1> QED
  BY <1>1, Invariance, PTL

(***************************************************************************)
(* When rosio never died and is back in its loop, it has written the       *)
(* velocity of every wheel that turns.                                     *)
(***************************************************************************)
THEOREM FreshVelocityCorrect == Spec => []FreshVelocity
<1>1. IInv => FreshVelocity
  BY DEF IInv, NoLeftover, Written, FreshVelocity
<1> QED
  BY <1>1, Invariance, PTL
=============================================================================
