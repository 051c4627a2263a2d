-------------------------------- MODULE Fsm --------------------------------
(***************************************************************************)
(* The engine of Util/fsm.lua that runs every state machine of the robot.  *)
(* It is single-threaded, but it calls the user's code - entry, update and *)
(* exit of a state, the action of a transition - in the middle of its own  *)
(* work, and that code may call add_event and set_state of the same        *)
(* machine, or raise.  One action of this module is one such callback      *)
(* together with the engine's code up to the next one.                     *)
(***************************************************************************)
EXTENDS Integers, Sequences

CONSTANTS
  State, Event,
  NoState,      \* nil for a state
  NoEvent,      \* nil for an event
  NoCall,       \* set_state was not called
  Initial,      \* states[1]
  Table,        \* the transitions make_fsm installs
  Acts,         \* the transitions with an action
  MaxQueue,     \* bound: length of the event queue
  MaxEdits      \* bound: transitions set or removed while running

Edge == State \X Event

ASSUME FsmAssumption ==
  /\ Initial \in State
  /\ NoState \notin State
  /\ NoEvent \notin Event
  /\ \A s \in State, b \in {"outside", "update", "exit", "action", "entry"} :
       NoCall # [state |-> s, by |-> b]
  /\ Table \in [Edge -> State \cup {NoState}]
  /\ Acts \in [Edge -> BOOLEAN]
  /\ MaxQueue \in Nat

VARIABLES
  currentState, previousState, nextState,
  nextAction,   \* whether a transition action is pending
  events,       \* the queue
  transitions, actions,
  pc,           \* where the engine is
  entered,      \* states whose entry ran and whose exit did not
  edits,        \* number of transitions set or removed
  asked,        \* history: the last call of set_state not carried out yet
  taken         \* history: the event of the transition under way, or NoEvent

history == <<asked, taken>>
vars == <<currentState, previousState, nextState, nextAction, events,
          transitions, actions, pc, entered, edits, asked, taken>>

StateOrNil == State \cup {NoState}

(* A queued event, with the history of where it comes from.  born: the     *)
(* current state when it was added.  late: it was added by the exit or the *)
(* action of a transition, or kept in the queue by UpdateRequested.        *)
Queued == [name : Event, born : State, late : BOOLEAN]
Caller == {"outside", "update", "exit", "action", "entry"}
Call == [state : State, by : Caller]

TypeOK ==
  /\ currentState \in State
  /\ previousState \in StateOrNil
  /\ nextState \in StateOrNil
  /\ nextAction \in BOOLEAN
  /\ events \in Seq(Queued)
  /\ transitions \in [Edge -> StateOrNil]
  /\ actions \in [Edge -> BOOLEAN]
  /\ pc \in {"off", "idle", "exit", "action", "entry", "dead", "over"}
  /\ entered \subseteq State
  /\ edits \in Nat
  /\ asked \in Call \cup {NoCall}
  /\ taken \in Queued \cup {NoEvent}

Init ==
  /\ currentState = Initial
  /\ previousState = NoState
  /\ nextState = NoState
  /\ nextAction = FALSE
  /\ events = <<>>
  /\ transitions = Table
  /\ actions = Acts
  /\ pc = "off"
  /\ entered = {}
  /\ edits = 0
  /\ asked = NoCall
  /\ taken = NoEvent

-----------------------------------------------------------------------------
(* What a callback may do to its own machine. *)

(* add_event(e), called or not. *)
Add(q, e, s, late) ==
  IF e = NoEvent THEN q
  ELSE Append(q, [name |-> e, born |-> s, late |-> late])

(* The queue has room for what a callback and its return value add. *)
Room == Len(events) + 2 <= MaxQueue

Added == {NoEvent} \cup (IF Room THEN Event ELSE {})

(* set_state(s), called or not, over the request pending. *)
Request(s, pending) == IF s = NoState THEN pending ELSE s
Asks(s, by, pending) == IF s = NoState THEN pending ELSE [state |-> s, by |-> by]

-----------------------------------------------------------------------------
(* Calls from outside, between two updates. *)

AddEvent(e) ==
  /\ pc = "idle"
  /\ Room
  /\ events' = Add(events, e, currentState, FALSE)
  /\ UNCHANGED <<currentState, previousState, nextState, nextAction, transitions,
                 actions, pc, entered, edits, history>>

SetState(s) ==
  /\ pc = "idle"
  /\ nextState' = s
  /\ asked' = [state |-> s, by |-> "outside"]
  /\ UNCHANGED <<currentState, previousState, nextAction, events, transitions,
                 actions, pc, entered, edits, taken>>

SetTransition(s, e, t, a) ==
  /\ pc = "idle"
  /\ edits < MaxEdits
  /\ edits' = edits + 1
  /\ transitions' = [transitions EXCEPT ![<<s, e>>] = t]
  /\ actions' = [actions EXCEPT ![<<s, e>>] = a]
  /\ UNCHANGED <<currentState, previousState, nextState, nextAction, events, pc,
                 entered, history>>

(* The target is checked to be a state, and then ignored. *)
RemoveTransition(s, e) ==
  /\ pc = "idle"
  /\ edits < MaxEdits
  /\ edits' = edits + 1
  /\ transitions' = [transitions EXCEPT ![<<s, e>>] = NoState]
  /\ actions' = [actions EXCEPT ![<<s, e>>] = FALSE]
  /\ UNCHANGED <<currentState, previousState, nextState, nextAction, events, pc,
                 entered, history>>

-----------------------------------------------------------------------------
(* The engine. *)

(* sm:entry().  A set_state made here waits for the first update. *)
Entry(add, set) ==
  /\ pc = "off"
  /\ pc' = "idle"
  /\ entered' = entered \cup {currentState}
  /\ events' = Add(events, add, currentState, FALSE)
  /\ nextState' = Request(set, nextState)
  /\ asked' = Asks(set, "outside", asked)
  /\ UNCHANGED <<currentState, previousState, nextAction, transitions, actions,
                 edits, taken>>

Declared(q) == {i \in DOMAIN q : transitions[<<currentState, q[i].name>>] # NoState}

(* The position of the first event with a transition. *)
IsFirst(i, q) == i \in Declared(q) /\ \A j \in Declared(q) : i <= j

(* Mutant: the guard on the pending request is missing. *)
UpdateStateAlways(ret, add, set) ==
  /\ pc = "idle"
  /\ LET q == Add(Add(events, add, currentState, FALSE), ret, currentState, FALSE)
     IN \/ \E i \in DOMAIN q :
             /\ IsFirst(i, q)
             /\ nextState' = transitions[<<currentState, q[i].name>>]
             /\ nextAction' = actions[<<currentState, q[i].name>>]
             /\ taken' = q[i]
             /\ pc' = "exit"
        \/ /\ Declared(q) = {}
           /\ nextState' = Request(set, nextState)
           /\ pc' = IF nextState' = NoState THEN "idle" ELSE "exit"
           /\ UNCHANGED <<nextAction, taken>>
  /\ asked' = Asks(set, "update", asked)
  /\ events' = <<>>
  /\ UNCHANGED <<currentState, previousState, transitions, actions, entered, edits>>

(* Mutant: the events behind the one taken stay in the queue. *)
UpdateStateKeepsRest(ret, add, set) ==
  /\ pc = "idle"
  /\ nextState = NoState
  /\ LET q == Add(Add(events, add, currentState, FALSE), ret, currentState, FALSE)
     IN \/ \E i \in DOMAIN q :
             /\ IsFirst(i, q)
             /\ nextState' = transitions[<<currentState, q[i].name>>]
             /\ nextAction' = actions[<<currentState, q[i].name>>]
             /\ taken' = q[i]
             /\ pc' = "exit"
             /\ events' = SubSeq(q, i + 1, Len(q))
        \/ /\ Declared(q) = {}
           /\ nextState' = set
           /\ pc' = IF set = NoState THEN "idle" ELSE "exit"
           /\ events' = <<>>
           /\ UNCHANGED <<nextAction, taken>>
  /\ asked' = Asks(set, "update", asked)
  /\ UNCHANGED <<currentState, previousState, transitions, actions, entered, edits>>

(* Mutant: only the event the state returns is looked up. *)
UpdateStateOwnEvent(ret, add, set) ==
  /\ pc = "idle"
  /\ nextState = NoState
  /\ LET q == Add(<<>>, ret, currentState, FALSE)
     IN IF Declared(q) # {}
        THEN /\ nextState' = transitions[<<currentState, ret>>]
             /\ nextAction' = actions[<<currentState, ret>>]
             /\ taken' = q[1]
             /\ pc' = "exit"
        ELSE /\ nextState' = set
             /\ pc' = IF set = NoState THEN "idle" ELSE "exit"
             /\ UNCHANGED <<nextAction, taken>>
  /\ asked' = Asks(set, "update", asked)
  /\ events' = <<>>
  /\ UNCHANGED <<currentState, previousState, transitions, actions, entered, edits>>

(* sm:update() with no request pending: the state's update, then the queue. *)
UpdateState(ret, add, set) ==
  /\ pc = "idle"
  /\ nextState = NoState
  /\ LET q == Add(Add(events, add, currentState, FALSE), ret, currentState, FALSE)
     IN \/ \E i \in DOMAIN q :
             /\ IsFirst(i, q)
             /\ nextState' = transitions[<<currentState, q[i].name>>]
             /\ nextAction' = actions[<<currentState, q[i].name>>]
             /\ taken' = q[i]
             /\ pc' = "exit"
        \/ /\ Declared(q) = {}
           /\ nextState' = set
           /\ pc' = IF set = NoState THEN "idle" ELSE "exit"
           /\ UNCHANGED <<nextAction, taken>>
  /\ asked' = Asks(set, "update", asked)
  /\ events' = <<>>
  /\ UNCHANGED <<currentState, previousState, transitions, actions, entered,
                 edits>>

(* sm:update() with a request pending: neither the state nor the queue. *)
UpdateRequested ==
  /\ pc = "idle"
  /\ nextState # NoState
  /\ pc' = "exit"
  /\ events' = [i \in DOMAIN events |-> [events[i] EXCEPT !.late = TRUE]]
  /\ UNCHANGED <<currentState, previousState, nextState, nextAction,
                 transitions, actions, entered, edits, asked, taken>>

(* Mutant: a transition of a state to itself does not exit it. *)
ExitStateUnlessSame(add, set) ==
  /\ pc = "exit"
  /\ entered' = IF nextState = currentState THEN entered ELSE entered \ {currentState}
  /\ events' = Add(events, add, currentState, TRUE)
  /\ nextState' = Request(set, nextState)
  /\ asked' = Asks(set, "exit", asked)
  /\ pc' = IF nextAction THEN "action" ELSE "entry"
  /\ UNCHANGED <<currentState, previousState, nextAction, transitions, actions,
                 edits, taken>>

(* state.exit(event); a set_state made here redirects the transition. *)
ExitState(add, set) ==
  /\ pc = "exit"
  /\ entered' = entered \ {currentState}
  /\ events' = Add(events, add, currentState, TRUE)
  /\ nextState' = Request(set, nextState)
  /\ asked' = Asks(set, "exit", asked)
  /\ pc' = IF nextAction THEN "action" ELSE "entry"
  /\ UNCHANGED <<currentState, previousState, nextAction, transitions, actions,
                 edits, taken>>

(* nextAction(exit_val). *)
RunAction(add, set) ==
  /\ pc = "action"
  /\ events' = Add(events, add, currentState, TRUE)
  /\ nextState' = Request(set, nextState)
  /\ asked' = Asks(set, "action", asked)
  /\ nextAction' = FALSE
  /\ pc' = "entry"
  /\ UNCHANGED <<currentState, previousState, transitions, actions, entered,
                 edits, taken>>

(* entry(exit_val) of the new state; a set_state made here is dropped. *)
EnterNext(add, set) ==
  /\ pc = "entry"
  /\ previousState' = currentState
  /\ currentState' = nextState
  /\ entered' = entered \cup {nextState}
  /\ events' = Add(events, add, nextState, FALSE)
  /\ nextState' = NoState
  /\ nextAction' = FALSE
  /\ asked' = Asks(set, "entry", NoCall)
  /\ taken' = NoEvent
  /\ pc' = "idle"
  /\ UNCHANGED <<transitions, actions, edits>>

(* A callback raises: the coroutine of the machine is dead from then on. *)
Raise ==
  /\ pc \in {"idle", "exit", "action"}
  /\ pc = "idle" => nextState = NoState
  /\ pc' = "dead"
  /\ UNCHANGED <<currentState, previousState, nextState, nextAction, events,
                 transitions, actions, entered, edits, history>>

(* The same in entry(), which had run in part. *)
RaiseEntering ==
  /\ pc = "entry"
  /\ previousState' = currentState
  /\ currentState' = nextState
  /\ nextState' = NoState
  /\ entered' \in {entered, entered \cup {nextState}}
  /\ pc' = "dead"
  /\ UNCHANGED <<nextAction, events, transitions, actions, edits, history>>

(* sm:exit(): the queue and a pending request are left as they are. *)
Exit ==
  /\ pc = "idle"
  /\ entered' = entered \ {currentState}
  /\ currentState' = Initial
  /\ pc' = "over"
  /\ UNCHANGED <<previousState, nextState, nextAction, events, transitions,
                 actions, edits, history>>

Calls ==
  \/ \E e \in Event : AddEvent(e)
  \/ \E s \in State : SetState(s)
  \/ \E s \in State, e \in Event, t \in State, a \in BOOLEAN : SetTransition(s, e, t, a)
  \/ \E s \in State, e \in Event : RemoveTransition(s, e)

Update ==
  \/ \E ret \in Added, add \in Added, set \in StateOrNil : UpdateState(ret, add, set)
  \/ UpdateRequested

Move == \E add \in Added, set \in StateOrNil :
  ExitState(add, set) \/ RunAction(add, set) \/ EnterNext(add, set)

Next ==
  \/ \E add \in Added, set \in StateOrNil : Entry(add, set)
  \/ Calls
  \/ Update
  \/ Move
  \/ Raise
  \/ RaiseEntering
  \/ Exit

Spec == Init /\ [][Next]_vars

(* The wizard resumes the machine in every round, and update() returns. *)
FairSpec == Spec /\ WF_vars(Update \/ Move \/ Raise \/ RaiseEntering)

-----------------------------------------------------------------------------
(* Properties. *)

(***************************************************************************)
(* Entries and exits alternate: between updates the current state, and no  *)
(* other, is entered, during a change of state none is, and when a callback*)
(* raised at most the current one is (fsm.lua:160-176).                    *)
(***************************************************************************)
OneEntered ==
  /\ pc \in {"idle", "exit"} => entered = {currentState}
  /\ pc \in {"off", "action", "entry", "over"} => entered = {}
  /\ pc = "dead" => entered \subseteq {currentState}

(***************************************************************************)
(* No event is taken by a state for which it was not meant: the queue is   *)
(* emptied when a transition is chosen (fsm.lua:156), so an event of the   *)
(* state before is taken only if that state's exit or the action added it, *)
(* or if set_state made the engine skip the queue.                         *)
(***************************************************************************)
EventsAreCurrent ==
  /\ pc \in {"exit", "action", "entry"} /\ taken # NoEvent =>
       taken.born = currentState \/ taken.late
  /\ pc = "idle" => \A i \in DOMAIN events :
                       events[i].born = currentState \/ events[i].late

(***************************************************************************)
(* A set_state made between updates, or by the exit or the action of a     *)
(* transition, stays pending until the engine enters that very state: no   *)
(* event takes precedence over it.                                         *)
(***************************************************************************)
RequestKept ==
  asked # NoCall /\ asked.by \in {"outside", "exit", "action"}
    => nextState = asked.state \/ pc = "dead"

(***************************************************************************)
(* What fsm.lua:26 says of every set_state: that it sets the state.  One   *)
(* made by a state's update gives way to an event, and one made by entry   *)
(* is forgotten (fsm.lua:180).                                             *)
(***************************************************************************)
SetStateSets == asked # NoCall => nextState = asked.state \/ pc = "dead"

(***************************************************************************)
(* A queued event with a transition from the current state makes the       *)
(* machine leave that state, unless the transition is removed first, a     *)
(* callback raises or the machine is stopped.                              *)
(***************************************************************************)
EventLeaves ==
  \A s \in State, e \in Event :
    (/\ pc = "idle" /\ currentState = s
     /\ \E i \in DOMAIN events : events[i].name = e
     /\ transitions[<<s, e>>] # NoState)
    ~> (pc # "idle" \/ transitions[<<s, e>>] = NoState)
=============================================================================
