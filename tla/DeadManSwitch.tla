--------------------------- MODULE DeadManSwitch ---------------------------
(***************************************************************************)
(* What the drive chain promises, without topics, mailboxes, state         *)
(* machines or shared memory: the wheels turn only for an order that was   *)
(* given after the drive state was engaged and at most Grace steps ago.    *)
(* The one exception is the step that engages the drive state: the wheels  *)
(* may then turn at whatever velocity was left in shared memory.           *)
(***************************************************************************)
EXTENDS Integers

CONSTANTS
  Order,      \* orders: records with fields cmd, at and pre
  NoOrder,    \* none
  Output,     \* what the wheels may be told to do
  Still,      \* to stand still
  Drive(_),   \* the output for an order
  Grace       \* how long after it was given an order may be carried out

VARIABLES
  now,        \* control steps since the controller started
  phase,      \* "off", "waiting", "engaging" or "driving"
  order,      \* the order in force
  out         \* what the wheels do

vars == <<now, phase, order, out>>

Init ==
  /\ now = 0
  /\ phase = "off"
  /\ order = NoOrder
  /\ out = Still

PowerOn ==
  /\ phase = "off"
  /\ phase' = "waiting"
  /\ UNCHANGED <<now, order, out>>

Engage ==
  /\ phase = "waiting"
  /\ phase' = "engaging"
  /\ order' = NoOrder
  /\ UNCHANGED <<now, out>>

(* Only a live order is obeyed, never one that a latch replays. *)
Obey ==
  /\ phase = "driving"
  /\ order' \in Order
  /\ ~order'.pre
  /\ order'.at <= now
  /\ UNCHANGED <<now, phase, out>>

Live == order # NoOrder /\ now + 1 - order.at <= Grace

Step ==
  /\ phase # "off"
  /\ now' = now + 1
  /\ phase' = IF phase = "engaging" THEN "driving" ELSE phase
  /\ \/ out' = Still
     \/ phase = "engaging" /\ out' \in Output
     \/ phase = "driving" /\ Live /\ out' = Drive(order)
  /\ UNCHANGED order

PowerOff ==
  /\ phase' = "off"
  /\ now' = 0
  /\ order' = NoOrder
  /\ out' = Still

Next ==
  \/ PowerOn
  \/ Engage
  \/ Obey
  \/ Step
  \/ PowerOff

Spec == Init /\ [][Next]_vars
=============================================================================
