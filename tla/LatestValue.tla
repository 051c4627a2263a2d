---------------------------- MODULE LatestValue ----------------------------
(***************************************************************************)
(* What a reader of a topic is promised: a register that holds the newest  *)
(* value put and not taken yet.  A value put before the last one was taken *)
(* replaces it, and a value is taken whole and at most once.               *)
(***************************************************************************)
CONSTANTS
  Value,    \* what is put
  Empty     \* no value

VARIABLES
  slot,     \* the value not taken yet, or Empty
  taken     \* the last value taken, or Empty

Init == slot = Empty /\ taken = Empty

Put(v) == slot' = v /\ UNCHANGED taken

Take == slot # Empty /\ taken' = slot /\ slot' = Empty

Next == Take \/ \E v \in Value : Put(v)

Spec == Init /\ [][Next]_<<slot, taken>>
=============================================================================
