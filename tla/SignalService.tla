--------------------------- MODULE SignalService ---------------------------
(***************************************************************************)
(* The promise of the queue of signals: functions are called for signals in*)
(* the order in which they arrive, at most once for each.  When the service*)
(* has looked for the next signal and found none, those that arrive until  *)
(* it acts on what it saw are lost; no others are.                         *)
(***************************************************************************)
EXTENDS Naturals, Sequences

VARIABLES
  arrived,      \* how many signals arrived; each is named by its number
  pending,      \* those that wait for their function
  handled,      \* those whose function was called
  looked        \* the service looked and found none

svars == <<arrived, pending, handled, looked>>

Init == arrived = 0 /\ pending = <<>> /\ handled = <<>> /\ looked = FALSE

Arrive ==
  /\ arrived' = arrived + 1
  /\ pending' = Append(pending, arrived')
  /\ UNCHANGED <<handled, looked>>

Serve ==
  /\ ~looked
  /\ pending # <<>>
  /\ handled' = Append(handled, Head(pending))
  /\ pending' = Tail(pending)
  /\ UNCHANGED <<arrived, looked>>

Look ==
  /\ pending = <<>>
  /\ looked' = TRUE
  /\ UNCHANGED <<arrived, pending, handled>>

Lose ==
  /\ looked
  /\ looked' = FALSE
  /\ pending' = <<>>
  /\ UNCHANGED <<arrived, handled>>

(* The program ends before it acts. *)
End ==
  /\ looked' = FALSE
  /\ UNCHANGED <<arrived, pending, handled>>

Next == Arrive \/ Serve \/ Look \/ Lose \/ End

Spec == Init /\ [][Next]_svars
=============================================================================
