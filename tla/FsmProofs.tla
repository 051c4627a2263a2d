----------------------------- MODULE FsmProofs -----------------------------
(***************************************************************************)
(* Proofs about the engine of Fsm, for every set of states and events,     *)
(* every transition table and every behaviour of the callbacks.            *)
(***************************************************************************)
EXTENDS Fsm, TLAPS

(***************************************************************************)
(* The strengthening: a target is chosen exactly when a change of state is *)
(* under way, and every event that is not late was added by the current    *)
(* state, in the queue and in the transition under way.                    *)
(***************************************************************************)
Targeted ==
  /\ pc \in {"exit", "action", "entry"} => nextState # NoState
  /\ pc \in {"idle", "off"} => ~nextAction

Current ==
  /\ pc \in {"exit", "action", "entry"} /\ taken # NoEvent =>
       taken.born = currentState \/ taken.late
  /\ pc \in {"off", "idle"} => taken = NoEvent
  /\ pc \in {"off", "idle"} =>
       \A i \in DOMAIN events : events[i].born = currentState \/ events[i].late
  /\ pc \in {"exit", "action", "entry"} => \A i \in DOMAIN events : events[i].late

Kept ==
  asked # NoCall /\ asked.by \in {"outside", "exit", "action"} /\ pc # "dead"
    => nextState = asked.state

IInv == TypeOK /\ Targeted /\ OneEntered /\ Current /\ Kept

-----------------------------------------------------------------------------
(* What add_event and set_state return. *)

LEMMA AddType ==
  ASSUME NEW q \in Seq(Queued), NEW e \in Event \cup {NoEvent},
         NEW s \in State, NEW late \in BOOLEAN
  PROVE  Add(q, e, s, late) \in Seq(Queued)
<1>1. CASE e = NoEvent
  BY <1>1 DEF Add
<1>2. CASE e # NoEvent
  <2>1. [name |-> e, born |-> s, late |-> late] \in Queued
    BY <1>2 DEF Queued
  <2> QED
    BY <1>2, <2>1 DEF Add
<1> QED
  BY <1>1, <1>2

(* Every element of the longer queue is an old one or the new one. *)
LEMMA AddElement ==
  ASSUME NEW q \in Seq(Queued), NEW e \in Event \cup {NoEvent},
         NEW s \in State, NEW late \in BOOLEAN,
         NEW i \in DOMAIN Add(q, e, s, late)
  PROVE  \/ i \in DOMAIN q /\ Add(q, e, s, late)[i] = q[i]
         \/ /\ Add(q, e, s, late)[i].born = s
            /\ Add(q, e, s, late)[i].late = late
<1>1. CASE e = NoEvent
  BY <1>1 DEF Add
<1>2. CASE e # NoEvent
  <2> DEFINE r == [name |-> e, born |-> s, late |-> late]
  <2>1. r \in Queued
    BY <1>2 DEF Queued
  <2>2. Add(q, e, s, late) = Append(q, r)
    BY <1>2 DEF Add
  <2>3. r.born = s /\ r.late = late
    OBVIOUS
  <2> HIDE DEF r
  <2>4. i \in 1 .. Len(q) + 1 /\ Append(q, r)[i] = IF i <= Len(q) THEN q[i] ELSE r
    BY <2>1, <2>2
  <2> QED
    BY <2>2, <2>3, <2>4
<1> QED
  BY <1>1, <1>2

(* A queue of events that are the state's own, or late, stays one. *)
LEMMA AddOwn ==
  ASSUME NEW q \in Seq(Queued), NEW e \in Event \cup {NoEvent},
         NEW s \in State, NEW late \in BOOLEAN,
         \A i \in DOMAIN q : q[i].born = s \/ q[i].late
  PROVE  \A i \in DOMAIN Add(q, e, s, late) :
           Add(q, e, s, late)[i].born = s \/ Add(q, e, s, late)[i].late
BY AddElement

(* A queue of late events to which a late one is added stays one. *)
LEMMA AddLate ==
  ASSUME NEW q \in Seq(Queued), NEW e \in Event \cup {NoEvent}, NEW s \in State,
         \A i \in DOMAIN q : q[i].late
  PROVE  \A i \in DOMAIN Add(q, e, s, TRUE) : Add(q, e, s, TRUE)[i].late
BY AddElement

LEMMA RequestType ==
  ASSUME NEW set \in StateOrNil, NEW pending \in StateOrNil
  PROVE  /\ Request(set, pending) \in StateOrNil
         /\ pending # NoState => Request(set, pending) # NoState
BY DEF Request, StateOrNil

(* A call of set_state that is kept is the one the engine has pending. *)
LEMMA AsksType ==
  ASSUME NEW set \in StateOrNil, NEW by \in Caller, NEW pending \in Call \cup {NoCall}
  PROVE  /\ Asks(set, by, pending) \in Call \cup {NoCall}
         /\ set = NoState => Asks(set, by, pending) = pending
         /\ set # NoState => /\ Asks(set, by, pending).state = set
                             /\ Asks(set, by, pending).by = by
BY DEF Asks, StateOrNil, Call

-----------------------------------------------------------------------------
(* Each action preserves the invariant. *)

LEMMA InitHolds == Init => IInv
<1> SUFFICES ASSUME Init PROVE IInv
  OBVIOUS
<1>1. TypeOK
  <2>1. currentState \in State /\ previousState \in StateOrNil /\ nextState \in StateOrNil
    BY FsmAssumption DEF Init, StateOrNil
  <2>2. transitions \in [Edge -> StateOrNil] /\ actions \in [Edge -> BOOLEAN]
    BY FsmAssumption DEF Init, StateOrNil
  <2>3. events \in Seq(Queued)
    BY DEF Init
  <2> QED
    BY <2>1, <2>2, <2>3 DEF Init, TypeOK
<1> QED
  BY <1>1 DEF Init, IInv, Targeted, OneEntered, Current, Kept

LEMMA AddEventKeeps ==
  ASSUME IInv, NEW e \in Event, AddEvent(e)
  PROVE  IInv'
<1>1. events' = Add(events, e, currentState, FALSE) /\ currentState \in State /\ events \in Seq(Queued)
  BY DEF AddEvent, IInv, TypeOK
<1>2. events' \in Seq(Queued)
  BY <1>1, AddType
<1>3. \A i \in DOMAIN events : events[i].born = currentState \/ events[i].late
  BY DEF IInv, Current, AddEvent
<1>4. \A i \in DOMAIN events' : events'[i].born = currentState \/ events'[i].late
  BY <1>1, <1>3, AddOwn
<1> QED
  BY <1>2, <1>4 DEF AddEvent, IInv, TypeOK, Targeted, OneEntered, Current, Kept, history

LEMMA SetStateKeeps ==
  ASSUME IInv, NEW s \in State, SetState(s)
  PROVE  IInv'
<1>1. [state |-> s, by |-> "outside"] \in Call
  BY DEF Call, Caller
<1>2. TypeOK'
  BY <1>1 DEF SetState, IInv, TypeOK, StateOrNil
<1> QED
  BY <1>2 DEF SetState, IInv, Targeted, OneEntered, Current, Kept

LEMMA EditKeeps ==
  ASSUME IInv, NEW s \in State, NEW e \in Event, NEW t \in State, NEW a \in BOOLEAN,
         SetTransition(s, e, t, a) \/ RemoveTransition(s, e)
  PROVE  IInv'
<1>1. TypeOK'
  <2>1. <<s, e>> \in Edge /\ t \in StateOrNil /\ NoState \in StateOrNil
    BY DEF Edge, StateOrNil
  <2>2. transitions' \in [Edge -> StateOrNil]
    BY <2>1 DEF SetTransition, RemoveTransition, IInv, TypeOK
  <2>3. actions' \in [Edge -> BOOLEAN]
    BY <2>1 DEF SetTransition, RemoveTransition, IInv, TypeOK
  <2>4. edits' \in Nat
    BY DEF SetTransition, RemoveTransition, IInv, TypeOK
  <2> QED
    BY <2>2, <2>3, <2>4 DEF SetTransition, RemoveTransition, IInv, TypeOK, history
<1> QED
  BY <1>1 DEF SetTransition, RemoveTransition, IInv, Targeted, OneEntered, Current, Kept, history

LEMMA EntryKeeps ==
  ASSUME IInv, NEW add \in Event \cup {NoEvent}, NEW set \in StateOrNil, Entry(add, set)
  PROVE  IInv'
<1>1. /\ events' = Add(events, add, currentState, FALSE)
      /\ currentState \in State /\ events \in Seq(Queued)
  BY DEF Entry, IInv, TypeOK
<1>2. events' \in Seq(Queued)
  BY <1>1, AddType
<1>3. \A i \in DOMAIN events' : events'[i].born = currentState \/ events'[i].late
  <2>1. \A i \in DOMAIN events : events[i].born = currentState \/ events[i].late
    BY DEF IInv, Current, Entry
  <2> QED
    BY <1>1, <2>1, AddOwn
<1>4. nextState' \in StateOrNil
  BY RequestType DEF Entry, IInv, TypeOK
<1>5. asked' \in Call \cup {NoCall}
  BY AsksType DEF Entry, IInv, TypeOK, Caller
<1>6. Kept'
  BY AsksType DEF Entry, IInv, TypeOK, Kept, Request, Caller
<1> QED
  BY <1>2, <1>3, <1>4, <1>5, <1>6 DEF Entry, IInv, TypeOK, Targeted, OneEntered, Current

LEMMA UpdateStateKeeps ==
  ASSUME IInv, NEW ret \in Event \cup {NoEvent}, NEW add \in Event \cup {NoEvent},
         NEW set \in StateOrNil, UpdateState(ret, add, set)
  PROVE  IInv'
<1> DEFINE p == Add(events, add, currentState, FALSE)
           q == Add(p, ret, currentState, FALSE)
<1>1. currentState \in State /\ events \in Seq(Queued) /\ pc = "idle" /\ nextState = NoState
  BY DEF UpdateState, IInv, TypeOK
<1>2. p \in Seq(Queued)
  BY <1>1, AddType
<1>3. q \in Seq(Queued)
  BY <1>1, <1>2, AddType
<1>4. \A i \in DOMAIN p : p[i].born = currentState \/ p[i].late
  <2>1. \A i \in DOMAIN events : events[i].born = currentState \/ events[i].late
    BY <1>1 DEF IInv, Current
  <2> QED
    BY <1>1, <2>1, AddOwn
<1> HIDE DEF p
<1>5. \A i \in DOMAIN q : q[i].born = currentState \/ q[i].late
  BY <1>1, <1>2, <1>4, AddOwn
<1>6. asked' \in Call \cup {NoCall} /\ Kept'
  <2>1. asked' = Asks(set, "update", asked)
    BY DEF UpdateState
  <2>2. asked' \in Call \cup {NoCall}
    BY <2>1, AsksType DEF IInv, TypeOK, Caller
  <2>3. CASE set = NoState
    <3>1. asked' = asked
      BY <2>1, <2>3 DEF Asks
    <3>2. asked # NoCall /\ asked.by \in {"outside", "exit", "action"} => FALSE
      <4> SUFFICES ASSUME asked # NoCall, asked.by \in {"outside", "exit", "action"}
                   PROVE  FALSE
        OBVIOUS
      <4>1. asked.state = NoState
        BY <1>1 DEF IInv, Kept
      <4>2. asked.state \in State
        BY DEF IInv, TypeOK, Call
      <4> QED
        BY <4>1, <4>2, FsmAssumption
    <3> QED
      BY <2>2, <3>1, <3>2 DEF Kept
  <2>4. CASE set # NoState
    BY <2>1, <2>2, <2>4, AsksType DEF Kept, IInv, TypeOK, Caller
  <2> QED
    BY <2>3, <2>4, <2>2
<1>7. events' = <<>> /\ DOMAIN events' = {}
  BY DEF UpdateState
<1>8. ASSUME NEW i \in DOMAIN q, IsFirst(i, q),
             nextState' = transitions[<<currentState, q[i].name>>],
             nextAction' = actions[<<currentState, q[i].name>>],
             taken' = q[i], pc' = "exit"
      PROVE  IInv'
  <2>1. q[i] \in Queued
    <3> HIDE DEF q
    <3> QED
      BY <1>3, <1>8
  <2>2. <<currentState, q[i].name>> \in Edge
    BY <1>1, <2>1 DEF Edge, Queued
  <2>3. nextState' \in StateOrNil /\ nextState' # NoState /\ nextAction' \in BOOLEAN
    BY <1>8, <2>2 DEF IsFirst, Declared, IInv, TypeOK
  <2>4. TypeOK'
    <3>1. events' \in Seq(Queued) /\ taken' \in Queued \cup {NoEvent}
      <4> HIDE DEF q
      <4> QED
        BY <1>7, <1>8, <2>1
    <3> QED
      BY <1>6, <1>8, <2>3, <3>1 DEF UpdateState, IInv, TypeOK
  <2> QED
    BY <1>5, <1>6, <1>7, <1>8, <2>3, <2>4, <1>1 DEF UpdateState, IInv, Targeted, OneEntered, Current
<1>9. ASSUME nextState' = set, pc' = IF set = NoState THEN "idle" ELSE "exit",
             UNCHANGED <<nextAction, taken>>
      PROVE  IInv'
  <2>1. TypeOK'
    BY <1>6, <1>7, <1>9 DEF UpdateState, IInv, TypeOK
  <2>2. taken' = NoEvent
    BY <1>1, <1>9 DEF IInv, Current
  <2> QED
    BY <1>1, <1>6, <1>7, <1>9, <2>1, <2>2 DEF UpdateState, IInv, Targeted, OneEntered, Current
<1> QED
  BY <1>8, <1>9 DEF UpdateState, p

LEMMA UpdateRequestedKeeps ==
  ASSUME IInv, UpdateRequested
  PROVE  IInv'
<1>1. events \in Seq(Queued)
  BY DEF IInv, TypeOK
<1>2. /\ events' = [i \in DOMAIN events |-> [events[i] EXCEPT !.late = TRUE]]
      /\ DOMAIN events' = DOMAIN events
      /\ \A i \in DOMAIN events : events'[i] = [events[i] EXCEPT !.late = TRUE]
  BY DEF UpdateRequested
<1>3. \A i \in DOMAIN events : events[i] \in Queued
  BY <1>1
<1>4. \A i \in DOMAIN events : events'[i] \in Queued /\ events'[i].late
  BY <1>2, <1>3 DEF Queued
<1>5. events' \in Seq(Queued)
  <2>1. DOMAIN events = 1 .. Len(events) /\ Len(events) \in Nat
    BY <1>1
  <2> QED
    BY <1>2, <1>4, <2>1
<1>6. TypeOK'
  BY <1>5 DEF UpdateRequested, IInv, TypeOK
<1>7. taken' = NoEvent
  BY DEF UpdateRequested, IInv, Current
<1> QED
  BY <1>2, <1>4, <1>6, <1>7 DEF UpdateRequested, IInv, Targeted, OneEntered, Current, Kept

(* What exit and action have in common. *)
LEMMA MoveKeeps ==
  ASSUME IInv, NEW add \in Event \cup {NoEvent}, NEW set \in StateOrNil,
         ExitState(add, set) \/ RunAction(add, set)
  PROVE  IInv'
<1>1. /\ pc \in {"exit", "action"}
      /\ events' = Add(events, add, currentState, TRUE)
      /\ nextState' = Request(set, nextState)
      /\ asked' = Asks(set, IF pc = "exit" THEN "exit" ELSE "action", asked)
      /\ pc' \in {"action", "entry"}
      /\ nextAction' \in BOOLEAN
      /\ UNCHANGED <<currentState, previousState, transitions, actions, edits, taken>>
      /\ currentState \in State /\ events \in Seq(Queued) /\ nextState \in StateOrNil
  BY DEF ExitState, RunAction, IInv, TypeOK
<1>2. events' \in Seq(Queued)
  BY <1>1, AddType
<1>3. \A i \in DOMAIN events' : events'[i].late
  <2>1. \A i \in DOMAIN events : events[i].late
    BY <1>1 DEF IInv, Current
  <2> QED
    BY <1>1, <2>1, AddLate
<1>4. nextState' \in StateOrNil /\ nextState' # NoState
  BY <1>1, RequestType DEF IInv, Targeted
<1>5. asked' \in Call \cup {NoCall}
  BY <1>1, AsksType DEF IInv, TypeOK, Caller
<1>6. Kept'
  <2>1. CASE set = NoState
    BY <1>1, <2>1 DEF Asks, Request, IInv, Kept
  <2>2. CASE set # NoState
    BY <1>1, <2>2 DEF Asks, Request, Kept
  <2> QED
    BY <2>1, <2>2
<1>7. entered' = {} /\ entered' \subseteq State
  BY DEF ExitState, RunAction, IInv, OneEntered
<1>8. TypeOK'
  BY <1>1, <1>2, <1>4, <1>5, <1>7 DEF IInv, TypeOK
<1> QED
  BY <1>1, <1>3, <1>4, <1>6, <1>7, <1>8 DEF IInv, Targeted, OneEntered, Current

LEMMA EnterNextKeeps ==
  ASSUME IInv, NEW add \in Event \cup {NoEvent}, NEW set \in StateOrNil, EnterNext(add, set)
  PROVE  IInv'
<1>1. nextState \in State /\ events \in Seq(Queued)
  BY DEF EnterNext, IInv, TypeOK, Targeted, StateOrNil
<1>2. events' = Add(events, add, nextState, FALSE) /\ currentState' = nextState
  BY DEF EnterNext
<1>3. events' \in Seq(Queued)
  BY <1>1, <1>2, AddType
<1>4. \A i \in DOMAIN events' : events'[i].born = currentState' \/ events'[i].late
  <2>1. \A i \in DOMAIN events : events[i].late
    BY DEF EnterNext, IInv, Current
  <2> QED
    BY <1>1, <1>2, <2>1, AddOwn
<1>5. asked' \in Call \cup {NoCall}
  BY AsksType DEF EnterNext, Caller
<1>6. TypeOK'
  BY <1>1, <1>3, <1>5 DEF EnterNext, IInv, TypeOK, StateOrNil
<1>7. Kept'
  BY DEF EnterNext, Asks, Kept
<1> QED
  BY <1>4, <1>6, <1>7 DEF EnterNext, IInv, Targeted, OneEntered, Current

LEMMA StopKeeps ==
  ASSUME IInv, Raise \/ RaiseEntering \/ Exit
  PROVE  IInv'
<1>1. CASE Raise
  BY <1>1 DEF Raise, IInv, TypeOK, Targeted, OneEntered, Current, Kept, history
<1>2. CASE RaiseEntering
  <2>1. nextState \in State
    BY <1>2 DEF RaiseEntering, IInv, TypeOK, Targeted, StateOrNil
  <2> QED
    BY <1>2, <2>1 DEF RaiseEntering, IInv, TypeOK, Targeted, OneEntered, Current, Kept,
                      history, StateOrNil
<1>3. CASE Exit
  BY <1>3, FsmAssumption DEF Exit, IInv, TypeOK, Targeted, OneEntered, Current, Kept, history
<1> QED
  BY <1>1, <1>2, <1>3

LEMMA NextKeeps == IInv /\ [Next]_vars => IInv'
<1> SUFFICES ASSUME IInv, [Next]_vars PROVE IInv'
  OBVIOUS
<1>1. Added \subseteq Event \cup {NoEvent}
  BY DEF Added
<1>2. CASE \E add \in Added, set \in StateOrNil : Entry(add, set)
  BY <1>1, <1>2, EntryKeeps
<1>3. CASE Calls
  BY <1>3, AddEventKeeps, SetStateKeeps, EditKeeps DEF Calls
<1>4. CASE Update
  BY <1>1, <1>4, UpdateStateKeeps, UpdateRequestedKeeps DEF Update
<1>5. CASE Move
  BY <1>1, <1>5, MoveKeeps, EnterNextKeeps DEF Move
<1>6. CASE Raise \/ RaiseEntering \/ Exit
  BY <1>6, StopKeeps
<1>7. CASE UNCHANGED vars
  BY <1>7 DEF vars, IInv, TypeOK, Targeted, OneEntered, Current, Kept
<1> QED
  BY <1>2, <1>3, <1>4, <1>5, <1>6, <1>7 DEF Next

-----------------------------------------------------------------------------
(* The theorems. *)

(* The inductive invariant holds in every behaviour of the engine. *)
THEOREM Invariance == Spec => []IInv
BY InitHolds, NextKeeps, PTL DEF Spec

(* Every variable of the engine keeps its type (fsm.lua:36-63). *)
THEOREM TypeCorrect == Spec => []TypeOK
<1>1. IInv => TypeOK
  BY DEF IInv
<1> QED
  BY <1>1, Invariance, PTL

(* Entries and exits of states alternate (fsm.lua:160-176). *)
THEOREM OneEnteredCorrect == Spec => []OneEntered
<1>1. IInv => OneEntered
  BY DEF IInv
<1> QED
  BY <1>1, Invariance, PTL

(* No event of one state is taken by another one (fsm.lua:156). *)
THEOREM EventsAreCurrentCorrect == Spec => []EventsAreCurrent
<1>1. IInv => EventsAreCurrent
  BY DEF IInv, Current, EventsAreCurrent
<1> QED
  BY <1>1, Invariance, PTL

(* A set_state from outside, exit or action stays pending (fsm.lua:115). *)
THEOREM RequestKeptCorrect == Spec => []RequestKept
<1>1. IInv => RequestKept
  BY DEF IInv, Kept, RequestKept
<1> QED
  BY <1>1, Invariance, PTL
=============================================================================
