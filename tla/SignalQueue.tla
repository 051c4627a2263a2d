---------------------------- MODULE SignalQueue ----------------------------
(***************************************************************************)
(* Modules/signal/lua_signal.c: a C signal handler appends an event to a   *)
(* linked list and installs a debug hook; the hook runs between two Lua    *)
(* instructions and calls the Lua functions of the events.  The handler    *)
(* interrupts the hook between any two of its own accesses to the list.    *)
(* Handlers do not interrupt each other here.  Functions return and stay   *)
(* registered, and all signals have the same one, as in the programs of    *)
(* this repository: which signal an event carries is left out.             *)
(***************************************************************************)
EXTENDS Naturals, Sequences, FiniteSets

CONSTANTS
  Sig,          \* the signals that arrive
  MaxSignals    \* bound: signals that arrive

VARIABLES
  signal_queue, last_event,   \* first and last event of the list
  next_event,                 \* the link of each event
  hook, Hsig,                 \* the debug hook, and the one that was saved
  hookpc,                     \* where the hook is, "off" outside of it
  event, next,                \* its local, and the field it has just read
  func,                       \* signals with a Lua function, and the handler
  arrived,                    \* history: how many events were allocated
  handled,                    \* history: events whose function returned
  freed                       \* history: events freed

queue == <<signal_queue, last_event, next_event>>
qvars == <<signal_queue, last_event, next_event, hook, Hsig, hookpc, event,
           next, func, arrived, handled, freed>>

Null == 0
Event == 1 .. MaxSignals      \* an event is named by its place in time

TypeOK ==
  /\ signal_queue \in Event \cup {Null}
  /\ last_event \in Event \cup {Null}
  /\ next_event \in [Event -> Event \cup {Null}]
  /\ hook \in {"program", "sighook"}
  /\ Hsig \in {"program", "sighook"}
  /\ hookpc \in {"off", "test", "call", "next", "store", "free", "killed"}
  /\ event \in Event \cup {Null}
  /\ next \in Event \cup {Null}
  /\ func \subseteq Sig
  /\ arrived \in 0 .. MaxSignals
  /\ handled \in Seq(Event)
  /\ freed \subseteq Event

Init ==
  /\ signal_queue = Null /\ last_event = Null
  /\ next_event = [e \in Event |-> Null]
  /\ hook = "program" /\ Hsig = "program"
  /\ hookpc = "off"
  /\ event = Null /\ next = Null
  /\ func = {}
  /\ arrived = 0
  /\ handled = <<>>
  /\ freed = {}

-----------------------------------------------------------------------------
(* The C handler. *)

(* The list is empty: it begins here, and the hook is saved and replaced. *)
Begin(e) ==
  /\ Hsig' = hook
  /\ hook' = "sighook"
  /\ signal_queue' = e
  /\ last_event' = e
  /\ UNCHANGED next_event

AppendEvent(e) ==
  /\ next_event' = [next_event EXCEPT ![last_event] = e]
  /\ last_event' = e
  /\ UNCHANGED <<signal_queue, hook, Hsig>>

Handle(s) ==
  /\ hookpc # "killed"
  /\ s \in func
  /\ arrived < MaxSignals
  /\ arrived' = arrived + 1
  /\ IF signal_queue = Null THEN Begin(arrived') ELSE AppendEvent(arrived')
  /\ UNCHANGED <<hookpc, event, next, func, handled, freed>>

(* SIG_DFL. *)
Kill(s) ==
  /\ hookpc # "killed"
  /\ s \notin func
  /\ hookpc' = "killed"
  /\ UNCHANGED <<queue, hook, Hsig, event, next, func, arrived, handled, freed>>

-----------------------------------------------------------------------------
(* The hook, one access to the list at a time. *)

(* Lua calls the hook, which first puts the saved one back. *)
HookFires ==
  /\ hookpc = "off"
  /\ hook = "sighook"
  /\ hook' = Hsig
  /\ hookpc' = "test"
  /\ UNCHANGED <<queue, Hsig, event, next, func, arrived, handled, freed>>

(* while((event = signal_queue)) *)
TestQueue ==
  /\ hookpc = "test"
  /\ event' = signal_queue
  /\ hookpc' = IF signal_queue = Null THEN "off" ELSE "call"
  /\ UNCHANGED <<queue, hook, Hsig, next, func, arrived, handled, freed>>

(* lua_call of the function of event->Nsig, which returns. *)
CallReturns ==
  /\ hookpc = "call"
  /\ handled' = Append(handled, event)
  /\ hookpc' = "next"
  /\ UNCHANGED <<queue, hook, Hsig, event, next, func, arrived, freed>>

(* Mutant: the event is freed before its next one is stored. *)
ReadNextFreed ==
  /\ hookpc = "next"
  /\ next' = next_event[event]
  /\ freed' = freed \cup {event}
  /\ hookpc' = "store"
  /\ UNCHANGED <<queue, hook, Hsig, event, func, arrived, handled>>

(* signal_queue = event->next_event: the read, then the write. *)
ReadNext ==
  /\ hookpc = "next"
  /\ next' = next_event[event]
  /\ hookpc' = "store"
  /\ UNCHANGED <<queue, hook, Hsig, event, func, arrived, handled, freed>>

(* Mutant: the queue still begins with the event that is freed. *)
StoreNextKeeps ==
  /\ hookpc = "store"
  /\ hookpc' = "free"
  /\ UNCHANGED <<queue, hook, Hsig, event, next, func, arrived, handled, freed>>

(* Mutant: the queue is emptied once its first event was handled. *)
StoreNextDrops ==
  /\ hookpc = "store"
  /\ signal_queue' = Null
  /\ hookpc' = "free"
  /\ UNCHANGED <<last_event, next_event, hook, Hsig, event, next, func, arrived,
                 handled, freed>>

StoreNext ==
  /\ hookpc = "store"
  /\ signal_queue' = next
  /\ hookpc' = "free"
  /\ UNCHANGED <<last_event, next_event, hook, Hsig, event, next, func, arrived,
                 handled, freed>>

(* Mutant: an if for the while, one event for each hook. *)
FreeEventReturns ==
  /\ hookpc = "free"
  /\ freed' = freed \cup {event}
  /\ hookpc' = "off"
  /\ UNCHANGED <<queue, hook, Hsig, event, next, func, arrived, handled>>

FreeEvent ==
  /\ hookpc = "free"
  /\ freed' = freed \cup {event}
  /\ hookpc' = "test"
  /\ UNCHANGED <<queue, hook, Hsig, event, next, func, arrived, handled>>

-----------------------------------------------------------------------------
(* l_signal: the Lua program gives a signal a function. *)

Register(s) ==
  /\ hookpc = "off"
  /\ func' = func \cup {s}
  /\ UNCHANGED <<queue, hook, Hsig, hookpc, event, next, arrived, handled, freed>>

-----------------------------------------------------------------------------
(* Properties. *)

(* The events that are met on the way along the links from each one. *)
Walk[e \in Event] ==
  <<e>> \o IF next_event[e] \in Event /\ next_event[e] > e THEN Walk[next_event[e]] ELSE <<>>

List == IF signal_queue = Null THEN <<>> ELSE Walk[signal_queue]

InList == {List[k] : k \in DOMAIN List}

(* The events of the list that wait for their function. *)
Pending ==
  IF List # <<>> /\ Head(List) \in {handled[k] : k \in DOMAIN handled}
  THEN Tail(List) ELSE List

(* The hook has read that no event follows, and not yet stored it. *)
Looked == hookpc = "store" /\ next = Null

(***************************************************************************)
(* The list is whole whenever the C handler may run: it ends at last_event *)
(* where handle appends (lua_signal.c:203-207), and none of it is freed.   *)
(***************************************************************************)
ListWhole ==
  signal_queue # Null =>
    /\ last_event \in InList
    /\ next_event[last_event] = Null
    /\ InList \cap freed = {}

(***************************************************************************)
(* An event in the list has a hook that will come to it, installed or      *)
(* running, also when its signal interrupts the hook between the restoring *)
(* of the saved hook and its last look at the list (lua_signal.c:160-209). *)
(***************************************************************************)
NotForgotten == signal_queue # Null => hook = "sighook" \/ hookpc # "off"

(***************************************************************************)
(* Functions are called in the order in which the signals arrived, and for *)
(* no signal twice, although signals arrive in the middle of the loop      *)
(* (lua_signal.c:170-177).                                                 *)
(***************************************************************************)
InOrder == \A j, k \in DOMAIN handled : j < k => handled[j] < handled[k]
=============================================================================
