----------------------- MODULE SignalledWizardProofs ------------------------
(***************************************************************************)
(* Proofs about the scheduler on top of the queue of signals, for any      *)
(* machines, any order of pairs() and any number of signals.               *)
(***************************************************************************)
EXTENDS SignalledWizard, SequenceTheorems, FiniteSetTheorems, WellFoundedInduction, TLAPS

(* A machine that is alive has a place in the order. *)
Placed == \A f \in Machine : Alive(f) => \E j \in DOMAIN order : order[j] = f

(***************************************************************************)
(* In a round those that have had their turn are one update ahead of those *)
(* that have not, and no further.                                          *)
(***************************************************************************)
Even ==
  \A j, k \in DOMAIN order : Alive(order[j]) /\ Alive(order[k]) =>
    /\ (j < i <=> k < i) => updates[order[j]] = updates[order[k]]
    /\ j < i /\ i <= k => updates[order[j]] = (updates[order[k]] + 1) % Laps

Rounds ==
  /\ pc = "create" => updates = [f \in Machine |-> 0] /\ exited = {}
  /\ pc = "sleep" => i > Len(order)
  /\ pc # "create" => Even

(* A coroutine that was resumed is that of the machine whose turn it is. *)
Resumed == pc \in {"updating", "exiting"} => i <= Len(order) /\ Alive(order[i])

(* A machine whose exit ran is dead. *)
ExitedDead == \A f \in exited : thread[f] = "dead"

(***************************************************************************)
(* A coroutine is resumed with false, and an update counts as stray, only  *)
(* when the flag is down; after either no coroutine is inside an update.   *)
(***************************************************************************)
Over ==
  /\ pc = "exiting" => ~running
  /\ exited # {} => ~running /\ pc # "updating"
  /\ stray # 0 => stray = 1 /\ ~running /\ pc # "updating"

WizardInv == TypeOK /\ Placed /\ Rounds /\ Resumed /\ ExitedDead /\ Over

-----------------------------------------------------------------------------
LEMMA Numbers ==
  /\ Cardinality(Machine) \in Nat
  /\ Laps \in Nat /\ Laps >= 4
  BY WizardAssumption, FS_CardinalityType

LEMMA OrderSeq ==
  ASSUME TypeOK
  PROVE  /\ Len(order) = Cardinality(Machine)
         /\ DOMAIN order = 1 .. Len(order)
         /\ \A j \in DOMAIN order : order[j] \in Machine
         /\ \A j, k \in DOMAIN order : order[j] = order[k] => j = k
         /\ i \in 1 .. Len(order) + 1
<1>1. /\ order \in [1 .. Cardinality(Machine) -> Machine]
      /\ \A j, k \in DOMAIN order : order[j] = order[k] => j = k
      /\ i \in 1 .. Cardinality(Machine) + 1
  BY DEF TypeOK, Orders
<1>2. Len(order) = Cardinality(Machine)
  BY <1>1, Numbers
<1> QED
  BY <1>1, <1>2

(* Counting modulo Laps. *)
LEMMA Successor ==
  ASSUME NEW u \in 0 .. Laps - 1
  PROVE  /\ (u + 1) % Laps \in 0 .. Laps - 1
         /\ u + 1 < Laps => (u + 1) % Laps = u + 1
         /\ u + 1 = Laps => (u + 1) % Laps = 0
  BY Numbers

LEMMA Difference ==
  ASSUME NEW u \in 0 .. Laps - 1, NEW v \in 0 .. Laps - 1, u = (v + 1) % Laps
  PROVE  (u - v) % Laps = 1 /\ (v - u) % Laps = Laps - 1
<1> USE Numbers
<1>1. CASE v + 1 < Laps
  <2>1. u = v + 1
    BY <1>1, Successor
  <2>2. u - v = 1 /\ v - u = -1
    BY <2>1
  <2>3. 1 % Laps = 1 /\ (-1) % Laps = Laps - 1
    OBVIOUS
  <2> QED
    BY <2>2, <2>3
<1>2. CASE v + 1 = Laps
  <2>1. u = 0
    BY <1>2, Successor
  <2>2. u - v = 1 - Laps /\ v - u = Laps - 1
    BY <1>2, <2>1
  <2>3. (1 - Laps) % Laps = 1 /\ (Laps - 1) % Laps = Laps - 1
    OBVIOUS
  <2> QED
    BY <2>2, <2>3
<1> QED
  BY <1>1, <1>2

-----------------------------------------------------------------------------
(* The scheduler alone. *)

LEMMA WizardInit == Init => WizardInv
<1> SUFFICES ASSUME Init PROVE WizardInv
  OBVIOUS
<1>1. TypeOK
  BY Numbers DEF Init, TypeOK
<1>2. Placed
  BY DEF Init, Placed, Alive
<1>3. Rounds /\ Resumed /\ ExitedDead /\ Over
  BY DEF Init, Rounds, Resumed, ExitedDead, Over
<1> QED
  BY <1>1, <1>2, <1>3 DEF WizardInv

LEMMA SignalKeeps == WizardInv /\ Signal => WizardInv'
<1> SUFFICES ASSUME WizardInv, Signal PROVE WizardInv'
  OBVIOUS
<1>1. UNCHANGED <<order, pc, i, thread, updates, exited, stray>> /\ running' = FALSE
  BY DEF Signal
<1>2. TypeOK'
  BY <1>1 DEF WizardInv, TypeOK
<1>3. Placed' /\ ExitedDead'
  BY <1>1 DEF WizardInv, Placed, ExitedDead, Alive
<1>4. Rounds'
  BY <1>1 DEF WizardInv, Rounds, Even, Alive
<1>5. Resumed' /\ Over'
  BY <1>1 DEF WizardInv, Resumed, Over, Alive
<1> QED
  BY <1>2, <1>3, <1>4, <1>5 DEF WizardInv

LEMMA CreateKeeps == WizardInv /\ Create => WizardInv'
<1> SUFFICES ASSUME WizardInv, Create PROVE WizardInv'
  OBVIOUS
<1>1. TypeOK
  BY DEF WizardInv
<1>2. i \in DOMAIN order /\ order[i] \in Machine /\ i + 1 \in 1 .. Cardinality(Machine) + 1
  BY <1>1, OrderSeq, Numbers DEF Create
<1>3. PICK s \in {"suspended", "dead"} : thread' = [thread EXCEPT ![order[i]] = s]
  BY DEF Create
<1>4. UNCHANGED <<order, pc, running, updates, exited, stray>> /\ pc = "create" /\ i' = i + 1
  BY DEF Create
<1>5. TypeOK'
  BY <1>1, <1>2, <1>3, <1>4 DEF TypeOK
<1>6. Placed'
  BY <1>1, <1>2, <1>3, <1>4 DEF WizardInv, TypeOK, Placed, Alive
<1>7. Rounds' /\ Resumed' /\ ExitedDead' /\ Over'
  BY <1>4 DEF WizardInv, Rounds, Resumed, ExitedDead, Over
<1> QED
  BY <1>5, <1>6, <1>7 DEF WizardInv

LEMMA BeginRoundsKeeps == WizardInv /\ BeginRounds => WizardInv'
<1> SUFFICES ASSUME WizardInv, BeginRounds PROVE WizardInv'
  OBVIOUS
<1>1. TypeOK /\ UNCHANGED <<order, running, thread, updates, exited, stray>>
  BY DEF WizardInv, BeginRounds
<1>2. pc = "create" /\ pc' = "round" /\ i' = 1
  BY DEF BeginRounds
<1>3. TypeOK'
  BY <1>1, <1>2, Numbers DEF TypeOK
<1>4. Placed' /\ ExitedDead'
  BY <1>1 DEF WizardInv, Placed, ExitedDead, Alive
<1>5. Even'
  <2>1. \A j, k \in DOMAIN order : updates[order[j]] = updates[order[k]]
    BY <1>1, <1>2, OrderSeq DEF WizardInv, Rounds
  <2>2. \A j \in DOMAIN order : ~(j < i')
    BY <1>1, <1>2, OrderSeq
  <2> QED
    BY <1>1, <2>1, <2>2 DEF Even, Alive
<1>6. Resumed' /\ Over'
  BY <1>1, <1>2 DEF WizardInv, Resumed, Over
<1> QED
  BY <1>2, <1>3, <1>4, <1>5, <1>6 DEF WizardInv, Rounds

(***************************************************************************)
(* The steps in which the machine at i has its turn: its coroutine ends up *)
(* with a status, its count is the next one if it is still alive.          *)
(***************************************************************************)
LEMMA TurnKeepsEven ==
  ASSUME TypeOK, Even, i <= Len(order), i' = i + 1, order' = order,
         NEW s \in {"suspended", "dead"},
         thread' = [thread EXCEPT ![order[i]] = s],
         \/ updates' = [updates EXCEPT ![order[i]] = (@ + 1) % Laps]
         \/ updates' = updates /\ s = "dead",
         s = "suspended" => thread[order[i]] = "suspended"
  PROVE  Even'
<1>1. /\ i \in DOMAIN order
      /\ \A j \in DOMAIN order : j \in Int /\ order[j] \in Machine
      /\ \A j, k \in DOMAIN order : order[j] = order[k] => j = k
  BY OrderSeq
<1>2. \A j \in DOMAIN order : j # i =>
        thread'[order[j]] = thread[order[j]] /\ updates'[order[j]] = updates[order[j]]
  BY <1>1 DEF TypeOK
<1>3. thread'[order[i]] = "suspended" =>
        Alive(order[i]) /\ updates'[order[i]] = (updates[order[i]] + 1) % Laps
  BY <1>1 DEF TypeOK, Alive
<1>4. SUFFICES ASSUME NEW j \in DOMAIN order, NEW k \in DOMAIN order,
                      Alive(order[j])', Alive(order[k])'
               PROVE  /\ (j < i' <=> k < i') => updates'[order[j]] = updates'[order[k]]
                      /\ j < i' /\ i' <= k =>
                           updates'[order[j]] = (updates'[order[k]] + 1) % Laps
  BY DEF Even, Alive
<1>5. Alive(order[j]) /\ Alive(order[k])
  BY <1>2, <1>3, <1>4 DEF Alive
<1>6. i' = i + 1 /\ i \in Int
  BY <1>1
<1>7. /\ (j < i <=> k < i) => updates[order[j]] = updates[order[k]]
      /\ j < i /\ i <= k => updates[order[j]] = (updates[order[k]] + 1) % Laps
      /\ k < i /\ i <= j => updates[order[k]] = (updates[order[j]] + 1) % Laps
  BY <1>5 DEF Even
<1>8. CASE j = i /\ k = i
  BY <1>8, <1>6
<1>9. CASE j = i /\ k # i
  <2>1. updates'[order[j]] = (updates[order[j]] + 1) % Laps /\ updates'[order[k]] = updates[order[k]]
    BY <1>2, <1>3, <1>4, <1>9 DEF Alive
  <2>2. k < i => updates'[order[j]] = updates'[order[k]]
    BY <1>1, <1>7, <1>9, <2>1
  <2>3. i < k => updates'[order[j]] = (updates'[order[k]] + 1) % Laps
    BY <1>1, <1>7, <1>9, <2>1
  <2> QED
    BY <1>1, <1>6, <1>9, <2>2, <2>3
<1>10. CASE j # i /\ k = i
  <2>1. updates'[order[k]] = (updates[order[k]] + 1) % Laps /\ updates'[order[j]] = updates[order[j]]
    BY <1>2, <1>3, <1>4, <1>10 DEF Alive
  <2>2. j < i => updates'[order[j]] = updates'[order[k]]
    BY <1>1, <1>7, <1>10, <2>1
  <2> QED
    BY <1>1, <1>6, <1>10, <2>2
<1>11. CASE j # i /\ k # i
  <2>1. updates'[order[k]] = updates[order[k]] /\ updates'[order[j]] = updates[order[j]]
    BY <1>2, <1>11
  <2>2. (j < i' <=> j < i) /\ (k < i' <=> k < i)
    BY <1>1, <1>6, <1>11
  <2> QED
    BY <1>1, <1>6, <1>7, <1>11, <2>1, <2>2
<1> QED
  BY <1>8, <1>9, <1>10, <1>11

(* The conditions of a turn, with what is left of the invariant. *)
LEMMA TurnKeeps ==
  ASSUME WizardInv, pc \in {"updating", "exiting"}, pc' = "round", i' = i + 1,
         UNCHANGED <<order, running>>,
         NEW s \in {"suspended", "dead"},
         thread' = [thread EXCEPT ![order[i]] = s],
         \/ updates' = [updates EXCEPT ![order[i]] = (@ + 1) % Laps]
         \/ updates' = updates /\ s = "dead",
         exited' \in {exited, exited \cup {order[i]}},
         exited' # exited => s = "dead" /\ pc = "exiting",
         \/ stray' = stray
         \/ stray' = stray + 1 /\ ~running /\ pc = "updating"
  PROVE  WizardInv'
<1>1. TypeOK /\ Even /\ i <= Len(order) /\ thread[order[i]] = "suspended"
  BY DEF WizardInv, Rounds, Resumed, Alive
<1>2. Even'
  BY <1>1, TurnKeepsEven
<1>3. /\ order[i] \in Machine /\ i \in DOMAIN order
      /\ i' \in 1 .. Cardinality(Machine) + 1
  BY <1>1, OrderSeq, Numbers
<1>4. updates' \in [Machine -> 0 .. Laps - 1]
  <2>1. updates[order[i]] \in 0 .. Laps - 1 /\ updates \in [Machine -> 0 .. Laps - 1]
    BY <1>1, <1>3 DEF TypeOK
  <2>2. (updates[order[i]] + 1) % Laps \in 0 .. Laps - 1
    BY <2>1, Successor
  <2> QED
    BY <2>1, <2>2
<1>5. thread' \in [Machine -> {"none", "suspended", "dead"}] /\ exited' \subseteq Machine
  BY <1>1, <1>3 DEF TypeOK
<1>6. TypeOK'
  <2>1. stray' \in Nat
    BY <1>1 DEF TypeOK
  <2> QED
    BY <1>1, <1>3, <1>4, <1>5, <2>1 DEF TypeOK
<1>7. Placed'
  BY <1>1, <1>3 DEF WizardInv, TypeOK, Placed, Alive
<1>8. ExitedDead'
  <2>1. ASSUME NEW f \in exited' PROVE thread'[f] = "dead"
    <3>1. CASE f = order[i] /\ s = "dead"
      BY <1>1, <1>3, <3>1 DEF TypeOK
    <3>2. CASE f # order[i]
      BY <1>1, <2>1, <3>2 DEF WizardInv, ExitedDead, TypeOK
    <3>3. CASE f = order[i] /\ s # "dead"
      BY <1>1, <2>1, <3>3 DEF WizardInv, ExitedDead
    <3> QED
      BY <3>1, <3>2, <3>3
  <2> QED
    BY <2>1 DEF ExitedDead
<1>9. Rounds'
  BY <1>2 DEF Rounds
<1>10. Resumed' /\ Over'
  <2>1. exited' # {} => ~running'
    BY DEF WizardInv, Over
  <2>2. stray' # 0 => stray' = 1 /\ ~running'
    BY DEF WizardInv, Over
  <2> QED
    BY <2>1, <2>2 DEF Resumed, Over
<1> QED
  BY <1>6, <1>7, <1>8, <1>9, <1>10 DEF WizardInv

LEMMA ReadRunningKeeps == WizardInv /\ ReadRunning => WizardInv'
<1> SUFFICES ASSUME WizardInv, ReadRunning PROVE WizardInv'
  OBVIOUS
<1>1. /\ UNCHANGED <<order, i, running, thread, updates, exited, stray>>
      /\ pc = "round" /\ i <= Len(order) /\ Alive(order[i])
      /\ pc' = IF running THEN "updating" ELSE "exiting"
  BY DEF ReadRunning, Alive
<1>2. TypeOK'
  BY <1>1 DEF WizardInv, TypeOK
<1>3. Placed' /\ ExitedDead'
  BY <1>1 DEF WizardInv, Placed, ExitedDead, Alive
<1>4. Rounds'
  BY <1>1 DEF WizardInv, Rounds, Even, Alive
<1>5. Resumed'
  BY <1>1 DEF Resumed, Alive
<1>6. Over'
  <2>1. CASE running
    BY <1>1, <2>1 DEF WizardInv, Over
  <2>2. CASE ~running
    BY <1>1, <2>2 DEF WizardInv, Over
  <2> QED
    BY <2>1, <2>2
<1> QED
  BY <1>2, <1>3, <1>4, <1>5, <1>6 DEF WizardInv

LEMMA ResumeKeeps == WizardInv /\ Resume => WizardInv'
<1> SUFFICES ASSUME WizardInv, Resume PROVE WizardInv'
  OBVIOUS
<1>1. PICK s \in {"suspended", "dead"} : thread' = [thread EXCEPT ![order[i]] = s]
  BY DEF Resume
<1>2. stray' = stray \/ (stray' = stray + 1 /\ ~running)
  BY DEF Resume
<1> QED
  BY <1>1, <1>2, TurnKeeps DEF Resume

LEMMA ResumeToExitKeeps == WizardInv /\ ResumeToExit => WizardInv'
  BY TurnKeeps DEF ResumeToExit

LEMMA SkipDeadKeeps == WizardInv /\ SkipDead => WizardInv'
<1> SUFFICES ASSUME WizardInv, SkipDead PROVE WizardInv'
  OBVIOUS
<1>1. /\ TypeOK /\ Even /\ pc = "round" /\ i <= Len(order) /\ i' = i + 1
      /\ thread[order[i]] = "dead"
      /\ UNCHANGED <<order, pc, running, thread, updates, exited, stray>>
  BY DEF WizardInv, Rounds, SkipDead
<1>2. /\ i \in DOMAIN order /\ order[i] \in Machine /\ \A j \in DOMAIN order : j \in Int
      /\ i' \in 1 .. Cardinality(Machine) + 1
  BY <1>1, OrderSeq, Numbers
<1>3. TypeOK'
  BY <1>1, <1>2 DEF TypeOK
<1>4. Placed' /\ ExitedDead'
  BY <1>1 DEF WizardInv, Placed, ExitedDead, Alive
<1>5. Even'
  <2>1. ASSUME NEW j \in DOMAIN order, Alive(order[j]) PROVE j \in Int /\ (j < i' <=> j < i)
    BY <1>1, <1>2, <2>1 DEF Alive
  <2>2. ASSUME NEW j \in DOMAIN order, NEW k \in DOMAIN order, Alive(order[j]), Alive(order[k])
        PROVE  /\ (j < i' <=> k < i') => updates[order[j]] = updates[order[k]]
               /\ j < i' /\ i' <= k => updates[order[j]] = (updates[order[k]] + 1) % Laps
    BY <1>1, <1>2, <2>1, <2>2 DEF Even
  <2> QED
    BY <1>1, <2>2 DEF Even, Alive
<1>6. Resumed' /\ Over'
  BY <1>1 DEF WizardInv, Resumed, Over
<1> QED
  BY <1>1, <1>3, <1>4, <1>5, <1>6 DEF WizardInv, Rounds

LEMMA EndRoundKeeps == WizardInv /\ EndRound => WizardInv'
<1> SUFFICES ASSUME WizardInv, EndRound PROVE WizardInv'
  OBVIOUS
<1>1. /\ UNCHANGED <<order, i, running, thread, updates, exited, stray>>
      /\ i > Len(order) /\ pc = "round" /\ pc' = "sleep"
  BY DEF EndRound
<1>2. TypeOK'
  BY <1>1 DEF WizardInv, TypeOK
<1>3. Placed' /\ ExitedDead'
  BY <1>1 DEF WizardInv, Placed, ExitedDead, Alive
<1>4. Rounds'
  BY <1>1 DEF WizardInv, Rounds, Even, Alive
<1>5. Resumed' /\ Over'
  BY <1>1 DEF WizardInv, Resumed, Over
<1> QED
  BY <1>2, <1>3, <1>4, <1>5 DEF WizardInv

LEMMA UntilNotRunningKeeps == WizardInv /\ UntilNotRunning => WizardInv'
<1> SUFFICES ASSUME WizardInv, UntilNotRunning PROVE WizardInv'
  OBVIOUS
<1>1. /\ UNCHANGED <<order, running, thread, updates, exited, stray>>
      /\ TypeOK /\ Even /\ i > Len(order) /\ pc' \in {"round", "over"} /\ i' = 1
  BY DEF WizardInv, Rounds, UntilNotRunning
<1>2. \A j \in DOMAIN order : j < i /\ ~(j < 1)
  BY <1>1, OrderSeq
<1>3. TypeOK'
  BY <1>1, Numbers DEF TypeOK
<1>4. Placed' /\ ExitedDead'
  BY <1>1 DEF WizardInv, Placed, ExitedDead, Alive
<1>5. Even'
  BY <1>1, <1>2 DEF Even, Alive
<1>6. Resumed' /\ Over'
  BY <1>1 DEF WizardInv, Resumed, Over
<1> QED
  BY <1>1, <1>3, <1>4, <1>5, <1>6 DEF WizardInv, Rounds

LEMMA WizardKeeps == WizardInv /\ Wizard => WizardInv'
  BY CreateKeeps, BeginRoundsKeeps, ReadRunningKeeps, ResumeKeeps, ResumeToExitKeeps,
     SkipDeadKeeps, EndRoundKeeps, UntilNotRunningKeeps DEF Wizard

(* No step of the scheduler undoes an exit, or updates when one was made. *)
LEMMA WizardStops ==
  ASSUME WizardInv, Wizard
  PROVE  /\ stray' <= 1
         /\ exited # {} => updates' = updates
         /\ \A f \in exited : thread'[f] = "dead"
<1>1. stray' <= 1
  BY WizardKeeps DEF WizardInv, Over
<1>2. exited # {} => updates' = updates
  <2>1. exited # {} => pc # "updating"
    BY DEF WizardInv, Over
  <2> QED
    BY <2>1 DEF Wizard, Create, BeginRounds, ReadRunning, Resume, ResumeToExit, SkipDead,
                EndRound, UntilNotRunning
<1>3. exited \subseteq exited'
  BY DEF Wizard, Create, BeginRounds, ReadRunning, Resume, ResumeToExit, SkipDead,
         EndRound, UntilNotRunning
<1>4. ExitedDead'
  BY WizardKeeps DEF WizardInv
<1> QED
  BY <1>1, <1>2, <1>3, <1>4 DEF ExitedDead

-----------------------------------------------------------------------------
(* The queue of signals. *)

(***************************************************************************)
(* The links lead to later signals, and the hook is at a signal that is    *)
(* later than those it has handled.  While an event is being handled the   *)
(* list is not empty, so the C handler leaves its beginning alone.         *)
(***************************************************************************)
Later ==
  /\ signal_queue <= arrived /\ last_event <= arrived
  /\ signal_queue # 0 => last_event # 0
  /\ \A e \in 1 .. MaxSignals :
       next_event[e] # 0 => e < next_event[e] /\ next_event[e] <= arrived
  /\ hookpc \in {"call", "next", "store"} => event = signal_queue
  /\ hookpc \in {"call", "next", "store", "free"} => event # 0
  /\ hookpc = "store" => next = 0 \/ (event < next /\ next <= arrived)

(***************************************************************************)
(* The list holds every event from its first to the last that arrived, one *)
(* link from each to the next; what is freed, or is about to be, came      *)
(* before it.                                                              *)
(***************************************************************************)
Linked ==
  /\ signal_queue # 0 =>
       /\ last_event = arrived
       /\ \A e \in 1 .. MaxSignals :
            signal_queue <= e /\ e < arrived => next_event[e] = e + 1
  /\ \A e \in freed : e <= arrived /\ (signal_queue # 0 => e < signal_queue)
  /\ hookpc = "free" => event <= arrived /\ (signal_queue # 0 => event < signal_queue)
  /\ hookpc = "store" => next = 0 \/ next = event + 1

HandledBefore ==
  /\ \A j \in DOMAIN handled :
       /\ handled[j] <= arrived
       /\ hookpc \notin {"next", "store", "killed"} /\ signal_queue # 0 => handled[j] < signal_queue
       /\ hookpc \in {"next", "store"} => handled[j] <= event
  /\ hookpc \in {"next", "store"} => \E j \in DOMAIN handled : handled[j] = event
  /\ InOrder

QueueInv == Q!TypeOK /\ Later /\ Linked /\ HandledBefore

LEMMA QueueInit == Q!Init => QueueInv
<1> SUFFICES ASSUME Q!Init PROVE QueueInv
  OBVIOUS
<1>1. Q!TypeOK
  BY SignalAssumption DEF Q!Init, Q!TypeOK, Q!Event, Q!Null
<1>2. Later
  BY SignalAssumption DEF Q!Init, Later, Q!Event, Q!Null
<1>3. HandledBefore
  BY DEF Q!Init, HandledBefore, InOrder, Q!InOrder
<1>4. Linked
  BY DEF Q!Init, Linked, Q!Null
<1> QED
  BY <1>1, <1>2, <1>3, <1>4 DEF QueueInv

LEMMA HandleKeeps == \A s \in Sig : QueueInv /\ Q!Handle(s) => QueueInv'
<1> SUFFICES ASSUME NEW s \in Sig, QueueInv, Q!Handle(s) PROVE QueueInv'
  OBVIOUS
<1> USE SignalAssumption DEF Q!Event, Q!Null
<1>1. /\ arrived \in 0 .. MaxSignals /\ arrived' = arrived + 1 /\ arrived < MaxSignals
      /\ arrived' \in 1 .. MaxSignals
      /\ UNCHANGED <<hookpc, event, next, func, handled, freed>>
      /\ hookpc # "killed"
  BY DEF QueueInv, Q!TypeOK, Q!Handle
<1>2. \/ signal_queue = 0 /\ Q!Begin(arrived')
      \/ signal_queue # 0 /\ Q!AppendEvent(arrived')
  BY DEF Q!Handle
<1>3. \A j \in DOMAIN handled : handled[j] \in 1 .. MaxSignals
  BY DEF QueueInv, Q!TypeOK
<1>4. CASE signal_queue = 0 /\ Q!Begin(arrived')
  <2>1. Q!TypeOK'
    BY <1>1, <1>4 DEF QueueInv, Q!TypeOK, Q!Begin
  <2>2. Later'
    BY <1>1, <1>4 DEF QueueInv, Q!TypeOK, Later, Q!Begin
  <2>3. HandledBefore'
    BY <1>1, <1>3, <1>4 DEF QueueInv, HandledBefore, InOrder, Q!InOrder, Later, Q!Begin
  <2>4. Linked'
    BY <1>1, <1>4 DEF QueueInv, Q!TypeOK, Later, Linked, Q!Begin
  <2> QED
    BY <2>1, <2>2, <2>3, <2>4 DEF QueueInv
<1>5. CASE signal_queue # 0 /\ Q!AppendEvent(arrived')
  <2>1. last_event \in 1 .. MaxSignals /\ last_event < arrived'
    BY <1>1, <1>5 DEF QueueInv, Q!TypeOK, Later
  <2>2. Q!TypeOK'
    BY <1>1, <1>5, <2>1 DEF QueueInv, Q!TypeOK, Q!AppendEvent
  <2>3. Later'
    BY <1>1, <1>5, <2>1 DEF QueueInv, Q!TypeOK, Later, Q!AppendEvent
  <2>4. HandledBefore'
    BY <1>1, <1>3, <1>5 DEF QueueInv, HandledBefore, InOrder, Q!InOrder, Later, Q!AppendEvent
  <2>5. Linked'
    <3>1. /\ last_event = arrived /\ signal_queue' = signal_queue
          /\ last_event' = arrived' /\ signal_queue <= arrived
          /\ next_event' = [next_event EXCEPT ![arrived] = arrived + 1]
          /\ next_event \in [1 .. MaxSignals -> 1 .. MaxSignals \cup {0}]
      BY <1>1, <1>5 DEF QueueInv, Q!TypeOK, Later, Linked, Q!AppendEvent
    <3>2. ASSUME NEW e \in 1 .. MaxSignals, signal_queue <= e, e < arrived'
          PROVE  next_event'[e] = e + 1
      <4>1. CASE e = arrived
        BY <3>1, <4>1
      <4>2. CASE e < arrived
        BY <1>5, <3>1, <3>2, <4>2 DEF QueueInv, Linked
      <4> QED
        BY <1>1, <3>2, <4>1, <4>2
    <3>3. \A e \in freed : e <= arrived' /\ e < signal_queue
      BY <1>1, <1>5 DEF QueueInv, Q!TypeOK, Linked
    <3>4. hookpc = "free" => event <= arrived' /\ event < signal_queue
      BY <1>1, <1>5 DEF QueueInv, Q!TypeOK, Linked
    <3>5. hookpc = "store" => next = 0 \/ next = event + 1
      BY DEF QueueInv, Linked
    <3> QED
      BY <1>1, <1>5, <3>1, <3>2, <3>3, <3>4, <3>5 DEF Linked
  <2> QED
    BY <2>2, <2>3, <2>4, <2>5 DEF QueueInv
<1> QED
  BY <1>2, <1>4, <1>5

LEMMA KillKeeps == \A s \in Sig : QueueInv /\ Q!Kill(s) => QueueInv'
<1> SUFFICES ASSUME NEW s \in Sig, QueueInv, Q!Kill(s) PROVE QueueInv'
  OBVIOUS
<1>1. /\ UNCHANGED <<Q!queue, hook, Hsig, event, next, func, arrived, handled, freed>>
      /\ hookpc' = "killed"
  BY DEF Q!Kill
<1>2. Q!TypeOK'
  BY <1>1 DEF QueueInv, Q!TypeOK, Q!queue
<1>3. Later'
  BY <1>1 DEF QueueInv, Later, Q!queue
<1>4. HandledBefore'
  BY <1>1 DEF QueueInv, HandledBefore, InOrder, Q!InOrder, Q!queue
<1>5. Linked'
  BY <1>1 DEF QueueInv, Linked, Q!queue
<1> QED
  BY <1>2, <1>3, <1>4, <1>5 DEF QueueInv

LEMMA RegisterKeeps == \A s \in Sig : QueueInv /\ Q!Register(s) => QueueInv'
<1> SUFFICES ASSUME NEW s \in Sig, QueueInv, Q!Register(s) PROVE QueueInv'
  OBVIOUS
<1>1. /\ UNCHANGED <<Q!queue, hook, Hsig, hookpc, event, next, arrived, handled, freed>>
      /\ func' = func \cup {s}
  BY DEF Q!Register
<1>2. Q!TypeOK'
  BY <1>1 DEF QueueInv, Q!TypeOK, Q!queue
<1>3. Later' /\ HandledBefore'
  BY <1>1 DEF QueueInv, Later, HandledBefore, InOrder, Q!InOrder, Q!queue
<1>4. Linked'
  BY <1>1 DEF QueueInv, Linked, Q!queue
<1> QED
  BY <1>2, <1>3, <1>4 DEF QueueInv

(* The steps of the hook that call no function. *)
LEMMA HookKeeps ==
  QueueInv /\ (Q!HookFires \/ Q!TestQueue \/ Q!ReadNext \/ Q!StoreNext \/ Q!FreeEvent)
    => QueueInv'
<1> USE SignalAssumption DEF Q!Event, Q!Null
<1>1. QueueInv /\ Q!HookFires => QueueInv'
  <2> SUFFICES ASSUME QueueInv, Q!HookFires PROVE QueueInv'
    OBVIOUS
  <2>1. Q!TypeOK'
    BY DEF QueueInv, Q!TypeOK, Q!HookFires, Q!queue
  <2>2. Later' /\ HandledBefore'
    BY DEF QueueInv, Later, HandledBefore, InOrder, Q!InOrder, Q!HookFires, Q!queue
  <2>3. Linked'
    BY DEF QueueInv, Linked, Q!HookFires, Q!queue
  <2> QED
    BY <2>1, <2>2, <2>3 DEF QueueInv
<1>2. QueueInv /\ Q!TestQueue => QueueInv'
  <2> SUFFICES ASSUME QueueInv, Q!TestQueue PROVE QueueInv'
    OBVIOUS
  <2>1. Q!TypeOK'
    BY DEF QueueInv, Q!TypeOK, Q!TestQueue, Q!queue
  <2>2. Later' /\ HandledBefore'
    BY DEF QueueInv, Later, HandledBefore, InOrder, Q!InOrder, Q!TestQueue, Q!queue
  <2>3. Linked'
    BY DEF QueueInv, Linked, Q!TestQueue, Q!queue
  <2> QED
    BY <2>1, <2>2, <2>3 DEF QueueInv
<1>3. QueueInv /\ Q!ReadNext => QueueInv'
  <2> SUFFICES ASSUME QueueInv, Q!ReadNext PROVE QueueInv'
    OBVIOUS
  <2>1. event \in 1 .. MaxSignals
    BY DEF QueueInv, Q!TypeOK, Later, Q!ReadNext
  <2>2. Q!TypeOK'
    BY <2>1 DEF QueueInv, Q!TypeOK, Q!ReadNext, Q!queue
  <2>3. Later' /\ HandledBefore'
    BY <2>1 DEF QueueInv, Later, HandledBefore, InOrder, Q!InOrder, Q!ReadNext, Q!queue
  <2>4. Linked'
    <3>1. /\ arrived \in Nat /\ event = signal_queue /\ signal_queue # 0 /\ event <= arrived
          /\ next' = next_event[event] /\ next_event[event] \in Nat
          /\ next_event[event] # 0 => event < next_event[event] /\ next_event[event] <= arrived
          /\ event < arrived => next_event[event] = event + 1
      BY <2>1 DEF QueueInv, Q!TypeOK, Later, Linked, Q!ReadNext
    <3>2. next' = 0 \/ next' = event + 1
      BY <2>1, <3>1
    <3> QED
      BY <3>2 DEF QueueInv, Linked, Q!ReadNext, Q!queue
  <2> QED
    BY <2>2, <2>3, <2>4 DEF QueueInv
<1>4. QueueInv /\ Q!StoreNext => QueueInv'
  <2> SUFFICES ASSUME QueueInv, Q!StoreNext PROVE QueueInv'
    OBVIOUS
  <2>1. Q!TypeOK'
    BY DEF QueueInv, Q!TypeOK, Q!StoreNext
  <2>2. Later'
    BY DEF QueueInv, Q!TypeOK, Later, Q!StoreNext
  <2>3. \A j \in DOMAIN handled : handled[j] \in 1 .. MaxSignals
    BY DEF QueueInv, Q!TypeOK
  <2>4. HandledBefore'
    BY <2>3 DEF QueueInv, Q!TypeOK, Later, HandledBefore, InOrder, Q!InOrder, Q!StoreNext
  <2>5. Linked'
    BY DEF QueueInv, Q!TypeOK, Later, Linked, Q!StoreNext
  <2> QED
    BY <2>1, <2>2, <2>4, <2>5 DEF QueueInv
<1>5. QueueInv /\ Q!FreeEvent => QueueInv'
  <2> SUFFICES ASSUME QueueInv, Q!FreeEvent PROVE QueueInv'
    OBVIOUS
  <2>1. Q!TypeOK'
    BY DEF QueueInv, Q!TypeOK, Later, Q!FreeEvent, Q!queue
  <2>2. Later' /\ HandledBefore'
    BY DEF QueueInv, Later, HandledBefore, InOrder, Q!InOrder, Q!FreeEvent, Q!queue
  <2>3. Linked'
    BY DEF QueueInv, Linked, Q!FreeEvent, Q!queue
  <2> QED
    BY <2>1, <2>2, <2>3 DEF QueueInv
<1> QED
  BY <1>1, <1>2, <1>3, <1>4, <1>5

(* The function returns: its event joins those that were handled. *)
LEMMA CallKeeps == QueueInv /\ Q!CallReturns => QueueInv'
<1> SUFFICES ASSUME QueueInv, Q!CallReturns PROVE QueueInv'
  OBVIOUS
<1> USE SignalAssumption DEF Q!Event, Q!Null
<1>1. /\ handled \in Seq(1 .. MaxSignals) /\ event \in 1 .. MaxSignals
      /\ event = signal_queue /\ event <= arrived /\ signal_queue # 0
      /\ hookpc = "call" /\ hookpc' = "next"
  BY DEF QueueInv, Q!TypeOK, Later, Q!CallReturns
<1>2. /\ UNCHANGED <<signal_queue, last_event, next_event, hook, Hsig, event, next,
                     func, arrived, freed>>
      /\ handled' = Append(handled, event)
  BY DEF Q!CallReturns, Q!queue
<1>3. Q!TypeOK'
  BY <1>1, <1>2 DEF QueueInv, Q!TypeOK
<1>4. Later'
  BY <1>1, <1>2 DEF QueueInv, Later
<1>5. \A j \in DOMAIN handled : handled[j] < event /\ handled[j] <= arrived
  BY <1>1 DEF QueueInv, HandledBefore
<1>6. /\ DOMAIN handled' = 1 .. Len(handled) + 1 /\ DOMAIN handled = 1 .. Len(handled)
      /\ \A j \in 1 .. Len(handled) : handled'[j] = handled[j] /\ handled[j] \in 1 .. MaxSignals
      /\ handled'[Len(handled) + 1] = event
      /\ Len(handled) \in Nat
  BY <1>1, <1>2
<1>7. \A j \in DOMAIN handled' : handled'[j] <= arrived /\ handled'[j] <= event
  <2>1. ASSUME NEW j \in 1 .. Len(handled) + 1
        PROVE  handled'[j] <= arrived /\ handled'[j] <= event
    <3>1. CASE j = Len(handled) + 1
      BY <1>1, <1>6, <3>1
    <3>2. CASE j \in 1 .. Len(handled)
      BY <1>1, <1>5, <1>6, <3>2
    <3> QED
      BY <1>6, <2>1, <3>1, <3>2
  <2> QED
    BY <1>6, <2>1
<1>8. InOrder'
  BY <1>1, <1>5, <1>6 DEF QueueInv, HandledBefore, InOrder, Q!InOrder
<1>9. HandledBefore'
  BY <1>1, <1>2, <1>7, <1>8 DEF HandledBefore
<1>10. Linked'
  BY <1>1, <1>2 DEF QueueInv, Linked
<1> QED
  BY <1>3, <1>4, <1>9, <1>10 DEF QueueInv

-----------------------------------------------------------------------------
(* Both together. *)

(***************************************************************************)
(* The scheduler starts when both functions are registered: a signal that  *)
(* kills the program finds it before its first machine.                    *)
(***************************************************************************)
Waiting == func # Sig => i = 1

IInv == WizardInv /\ QueueInv /\ Waiting

LEMMA InitIInv == SignalledInit => IInv
  BY WizardInit, QueueInit DEF SignalledInit, IInv, Waiting, Init

LEMMA WizardIdle == WizardInv /\ UNCHANGED vars => WizardInv'
  BY DEF WizardInv, vars, TypeOK, Placed, Rounds, Even, Resumed, ExitedDead, Over, Alive

LEMMA QueueIdle == QueueInv /\ UNCHANGED sigvars => QueueInv'
<1> SUFFICES ASSUME QueueInv, UNCHANGED sigvars PROVE QueueInv'
  OBVIOUS
<1>1. Q!TypeOK'
  BY DEF QueueInv, sigvars, Q!TypeOK
<1>2. Later' /\ HandledBefore'
  BY DEF QueueInv, sigvars, Later, HandledBefore, InOrder, Q!InOrder
<1>3. Linked'
  BY DEF QueueInv, sigvars, Linked
<1> QED
  BY <1>1, <1>2, <1>3 DEF QueueInv

LEMMA KilledKeeps == \A s \in Sig : IInv /\ Killed(s) => WizardInv'
<1> SUFFICES ASSUME NEW s \in Sig, IInv, Killed(s) PROVE WizardInv'
  OBVIOUS
<1>1. /\ UNCHANGED <<order, i, running, thread, updates, exited, stray>>
      /\ pc' = "over" /\ TypeOK /\ i = 1
  BY DEF IInv, WizardInv, Killed, Q!Kill, Waiting
<1>2. Even
  <2>1. CASE pc = "create"
    <3>1. ASSUME NEW j \in DOMAIN order, NEW k \in DOMAIN order
          PROVE  updates[order[j]] = updates[order[k]] /\ ~(j < i)
      BY <1>1, <2>1, OrderSeq DEF IInv, WizardInv, Rounds
    <3> QED
      BY <3>1 DEF Even
  <2> QED
    BY <2>1 DEF IInv, WizardInv, Rounds
<1>3. TypeOK'
  BY <1>1 DEF TypeOK
<1>4. Placed' /\ ExitedDead'
  BY <1>1 DEF IInv, WizardInv, Placed, ExitedDead, Alive
<1>5. Even'
  BY <1>1, <1>2 DEF Even, Alive
<1>6. Resumed' /\ Over'
  BY <1>1 DEF IInv, WizardInv, Resumed, Over
<1> QED
  BY <1>1, <1>3, <1>4, <1>5, <1>6 DEF WizardInv, Rounds

LEMMA StepIInv == IInv /\ [SignalledNext]_swvars => IInv'
<1> SUFFICES ASSUME IInv, [SignalledNext]_swvars PROVE IInv'
  OBVIOUS
<1>1. ASSUME NEW s \in Sig, Arrives(s) PROVE IInv'
  <2>1. QueueInv' /\ WizardInv'
    BY <1>1, HandleKeeps, WizardIdle DEF IInv, Arrives
  <2>2. Waiting'
    BY <1>1 DEF IInv, Waiting, Arrives, Q!Handle, vars
  <2> QED
    BY <2>1, <2>2 DEF IInv
<1>2. ASSUME NEW s \in Sig, Killed(s) PROVE IInv'
  <2>1. QueueInv' /\ WizardInv'
    BY <1>2, KillKeeps, KilledKeeps DEF IInv, Killed
  <2>2. Waiting'
    BY <1>2 DEF IInv, Waiting, Killed, Q!Kill
  <2> QED
    BY <2>1, <2>2 DEF IInv
<1>3. CASE Hook
  <2>1. CASE CallShutdown
    <3>1. QueueInv'
      BY <2>1, CallKeeps DEF IInv, CallShutdown
    <3>2. WizardInv'
      BY <2>1, SignalKeeps, WizardIdle DEF IInv, CallShutdown
    <3>3. Waiting'
      BY <2>1 DEF IInv, Waiting, CallShutdown, Q!CallReturns, Signal, vars
    <3> QED
      BY <3>1, <3>2, <3>3 DEF IInv
  <2>2. CASE /\ Q!HookFires \/ Q!TestQueue \/ Q!ReadNext \/ Q!StoreNext \/ Q!FreeEvent
             /\ UNCHANGED vars
    <3>1. QueueInv' /\ WizardInv'
      BY <2>2, HookKeeps, WizardIdle DEF IInv
    <3>2. Waiting'
      BY <2>2 DEF IInv, Waiting, vars, Q!HookFires, Q!TestQueue, Q!ReadNext, Q!StoreNext,
                  Q!FreeEvent
    <3> QED
      BY <3>1, <3>2 DEF IInv
  <2> QED
    BY <1>3, <2>1, <2>2 DEF Hook
<1>4. CASE Lua
  <2>1. CASE RegisterShutdown
    <3>1. QueueInv' /\ WizardInv'
      BY <2>1, RegisterKeeps, WizardIdle DEF IInv, RegisterShutdown, Sig
    <3>2. Waiting'
      <4>1. func \subseteq Sig /\ func # Sig
        BY <2>1 DEF IInv, QueueInv, Q!TypeOK, RegisterShutdown, Q!Register, Sig
      <4> QED
        BY <2>1, <4>1 DEF IInv, Waiting, RegisterShutdown, vars
    <3> QED
      BY <3>1, <3>2 DEF IInv
  <2>2. CASE func = Sig /\ Wizard /\ UNCHANGED sigvars
    <3>1. QueueInv' /\ WizardInv'
      BY <2>2, WizardKeeps, QueueIdle DEF IInv
    <3>2. Waiting'
      BY <2>2 DEF Waiting, sigvars
    <3> QED
      BY <3>1, <3>2 DEF IInv
  <2> QED
    BY <1>4, <2>1, <2>2 DEF Lua
<1>5. CASE UNCHANGED swvars
  <2>1. UNCHANGED vars /\ UNCHANGED sigvars
    BY <1>5 DEF swvars
  <2>2. QueueInv' /\ WizardInv'
    BY <2>1, QueueIdle, WizardIdle DEF IInv
  <2>3. Waiting'
    BY <2>1 DEF IInv, Waiting, vars, sigvars
  <2> QED
    BY <2>2, <2>3 DEF IInv
<1> QED
  BY <1>1, <1>2, <1>3, <1>4, <1>5 DEF SignalledNext

LEMMA Invariance == SignalledSpec => []IInv
  BY InitIInv, StepIInv, PTL DEF SignalledSpec

-----------------------------------------------------------------------------
(***************************************************************************)
(* The scheduler of state_wizard.lua and the list of lua_signal.c keep to  *)
(* their types, however many machines and signals there are.               *)
(***************************************************************************)
THEOREM TypeCorrect == SignalledSpec => []SignalledTypeOK
<1>1. IInv => SignalledTypeOK
  BY DEF IInv, WizardInv, QueueInv, SignalledTypeOK
<1> QED
  BY <1>1, Invariance, PTL

(***************************************************************************)
(* The machines that are alive advance together (state_wizard.lua:90-106), *)
(* in any order of pairs() and whichever of them die.                      *)
(***************************************************************************)
THEOREM LockstepCorrect == SignalledSpec => []Lockstep
<1>1. IInv => Lockstep
  <2> SUFFICES ASSUME IInv, NEW f \in Machine, NEW g \in Machine, Alive(f), Alive(g)
               PROVE  (updates[f] - updates[g]) % Laps \in {0, 1, Laps - 1}
    BY DEF Lockstep
  <2>1. /\ TypeOK /\ updates[f] \in 0 .. Laps - 1 /\ updates[g] \in 0 .. Laps - 1
    BY DEF IInv, WizardInv, TypeOK
  <2>2. updates[f] = updates[g] => (updates[f] - updates[g]) % Laps = 0
    BY <2>1, Numbers
  <2>3. CASE pc = "create"
    BY <2>2, <2>3 DEF IInv, WizardInv, Rounds
  <2>4. CASE pc # "create"
    <3>1. PICK j \in DOMAIN order, k \in DOMAIN order : order[j] = f /\ order[k] = g
      BY DEF IInv, WizardInv, Placed
    <3>2. j \in Int /\ k \in Int /\ i \in Int
      BY <2>1, OrderSeq
    <3>3. /\ (j < i <=> k < i) => updates[f] = updates[g]
          /\ j < i /\ i <= k => updates[f] = (updates[g] + 1) % Laps
          /\ k < i /\ i <= j => updates[g] = (updates[f] + 1) % Laps
      BY <2>4, <3>1 DEF IInv, WizardInv, Rounds, Even
    <3> QED
      BY <2>1, <2>2, <3>2, <3>3, Difference
  <2> QED
    BY <2>3, <2>4
<1> QED
  BY <1>1, Invariance, PTL

-----------------------------------------------------------------------------
(* The list.  Induction, as a fact about sets.                             *)

LEMMA LeastNumber ==
  ASSUME NEW S \in SUBSET Nat, S # {}
  PROVE  \E n \in S : \A k \in S : n <= k
<1> DEFINE R == OpToRel(<, Nat)
<1>1. IsWellFoundedOn(R, Nat)
  BY NatLessThanWellFounded
<1>2. R = {ss \in Nat \X Nat : ss[1] < ss[2]}
  BY DEF OpToRel
<1> HIDE DEF R
<1>3. \A x, y \in Nat : y < x => <<y, x>> \in R
  BY <1>2
<1>4. PICK x \in S : \A y \in S : <<y, x>> \notin R
  BY <1>1, WFMin
<1>5. \A y \in S : y \in Nat
  OBVIOUS
<1>6. \A y \in S : ~(y < x)
  BY <1>3, <1>4, <1>5, Zenon
<1> QED
  BY <1>5, <1>6

LEMMA InductionOverSet ==
  ASSUME NEW S, 0 \in S, \A n \in Nat : n \in S => n + 1 \in S
  PROVE  \A n \in Nat : n \in S
<1> SUFFICES ASSUME Nat \ S # {} PROVE FALSE
  OBVIOUS
<1>1. PICK n \in Nat \ S : \A k \in Nat \ S : n <= k
  BY LeastNumber
<1>2. n - 1 \in Nat /\ n - 1 \notin S
  BY <1>1
<1> QED
  BY <1>1, <1>2

(* What is met on the way from the last k events. *)
Walks(f, k) ==
  f = [e \in MaxSignals - k + 1 .. MaxSignals |->
         <<e>> \o IF next_event[e] \in 1 .. MaxSignals /\ next_event[e] > e
                  THEN f[next_event[e]] ELSE <<>>]

LEMMA WalkExists == \A k \in Nat : k <= MaxSignals => \E f : Walks(f, k)
<1> DEFINE S == {k \in Nat : k <= MaxSignals => \E f : Walks(f, k)}
<1> USE SignalAssumption
<1>1. 0 \in S
  <2> DEFINE f == [e \in MaxSignals - 0 + 1 .. MaxSignals |-> <<>>]
  <2>1. MaxSignals - 0 + 1 .. MaxSignals = {}
    OBVIOUS
  <2>2. Walks(f, 0)
    BY <2>1 DEF Walks
  <2> QED
    BY <2>2
<1>2. ASSUME NEW k \in Nat, k \in S PROVE k + 1 \in S
  <2> SUFFICES ASSUME k + 1 <= MaxSignals PROVE \E f : Walks(f, k + 1)
    OBVIOUS
  <2>1. PICK f : Walks(f, k)
    BY <1>2
  <2> DEFINE a == MaxSignals - k
             To(h, e) == <<e>> \o IF next_event[e] \in 1 .. MaxSignals /\ next_event[e] > e
                                  THEN h[next_event[e]] ELSE <<>>
             g == [e \in a .. MaxSignals |-> IF e = a THEN To(f, a) ELSE f[e]]
  <2>2. a \in 1 .. MaxSignals /\ a + 1 = MaxSignals - k + 1 /\ a = MaxSignals - (k + 1) + 1
    OBVIOUS
  <2>3. \A e \in a + 1 .. MaxSignals : f[e] = To(f, e)
    BY <2>1, <2>2 DEF Walks
  <2> HIDE DEF a
  <2>4. \A e \in a + 1 .. MaxSignals : e \in a .. MaxSignals /\ e # a
    BY <2>2
  <2>5. \A e \in a + 1 .. MaxSignals : g[e] = f[e]
    BY <2>4
  <2>6. g[a] = To(f, a)
    BY <2>2
  <2> HIDE DEF g
  <2>7. ASSUME NEW e \in a .. MaxSignals PROVE To(g, e) = To(f, e)
    <3>1. CASE next_event[e] \in 1 .. MaxSignals /\ next_event[e] > e
      <4>1. next_event[e] \in a + 1 .. MaxSignals
        BY <2>2, <3>1
      <4> QED
        BY <2>5, <4>1
    <3> QED
      BY <3>1
  <2>8. \A e \in a .. MaxSignals : g[e] = To(g, e)
    <3> SUFFICES ASSUME NEW e \in a .. MaxSignals PROVE g[e] = To(f, e)
      BY <2>7
    <3>1. e = a \/ e \in a + 1 .. MaxSignals
      BY <2>2
    <3> QED
      BY <2>3, <2>5, <2>6, <3>1
  <2>9. g = [e \in a .. MaxSignals |-> g[e]]
    BY DEF g
  <2>10. g = [e \in a .. MaxSignals |-> To(g, e)]
    BY <2>8, <2>9
  <2> QED
    BY <2>2, <2>10 DEF Walks
<1> HIDE DEF S
<1>3. \A k \in Nat : k \in S
  BY <1>1, <1>2, InductionOverSet
<1> QED
  BY <1>3 DEF S

LEMMA WalkDef ==
  \A e \in 1 .. MaxSignals :
    Q!Walk[e] = <<e>> \o IF next_event[e] \in 1 .. MaxSignals /\ next_event[e] > e
                         THEN Q!Walk[next_event[e]] ELSE <<>>
<1>1. MaxSignals \in Nat /\ MaxSignals - MaxSignals + 1 = 1
  BY SignalAssumption
<1>2. \E f : Walks(f, MaxSignals)
  BY <1>1, WalkExists
<1>3. \E f : f = [e \in 1 .. MaxSignals |->
                    <<e>> \o IF next_event[e] \in 1 .. MaxSignals /\ next_event[e] > e
                             THEN f[next_event[e]] ELSE <<>>]
  BY <1>1, <1>2 DEF Walks
<1>4. Q!Walk = [e \in 1 .. MaxSignals |->
                    <<e>> \o IF next_event[e] \in 1 .. MaxSignals /\ next_event[e] > e
                             THEN Q!Walk[next_event[e]] ELSE <<>>]
  BY <1>3 DEF Q!Walk, Q!Event
<1> QED
  BY <1>4

(* The events from one to another. *)
From(a, b) == [k \in 1 .. b - a + 1 |-> a + k - 1]

LEMMA FromFacts ==
  ASSUME NEW a \in Nat, NEW b \in Nat, a <= b + 1
  PROVE  /\ From(a, b) \in Seq(Nat)
         /\ Len(From(a, b)) = b - a + 1
         /\ DOMAIN From(a, b) = 1 .. b - a + 1
         /\ \A k \in 1 .. b - a + 1 : From(a, b)[k] = a + k - 1
  BY DEF From

LEMMA FromNone ==
  ASSUME NEW b \in Nat
  PROVE  From(b + 1, b) = <<>>
<1>1. From(b + 1, b) \in Seq(Nat) /\ Len(From(b + 1, b)) = 0
  BY FromFacts
<1> QED
  BY <1>1

LEMMA FromSplit ==
  ASSUME NEW a \in Nat, NEW b \in Nat, a <= b
  PROVE  /\ From(a, b) = <<a>> \o From(a + 1, b)
         /\ From(a, b) # <<>> /\ Head(From(a, b)) = a /\ Tail(From(a, b)) = From(a + 1, b)
<1>1. /\ From(a, b) \in Seq(Nat) /\ Len(From(a, b)) = b - a + 1
      /\ \A k \in 1 .. b - a + 1 : From(a, b)[k] = a + k - 1
  BY FromFacts
<1>2. /\ From(a + 1, b) \in Seq(Nat) /\ Len(From(a + 1, b)) = b - a
      /\ \A k \in 1 .. b - a : From(a + 1, b)[k] = a + k
  <2>1. a + 1 \in Nat /\ a + 1 <= b + 1
    OBVIOUS
  <2>2. From(a + 1, b) \in Seq(Nat) /\ Len(From(a + 1, b)) = b - (a + 1) + 1
    BY <2>1, FromFacts
  <2>3. \A k \in 1 .. b - (a + 1) + 1 : From(a + 1, b)[k] = (a + 1) + k - 1
    BY <2>1, FromFacts
  <2> QED
    BY <2>2, <2>3
<1> DEFINE s == From(a, b)
           t == From(a + 1, b)
<1> HIDE DEF s, t
<1>3. s = <<a>> \o t
  <2> DEFINE l == <<a>> \o t
  <2>1. l \in Seq(Nat) /\ Len(l) = b - a + 1
    BY <1>2 DEF t
  <2>2. \A k \in 1 .. b - a + 1 : l[k] = a + k - 1
    BY <1>2 DEF t
  <2> HIDE DEF l
  <2>3. s \in Seq(Nat) /\ Len(s) = b - a + 1 /\ \A k \in 1 .. b - a + 1 : s[k] = a + k - 1
    BY <1>1 DEF s
  <2>4. Len(l) = Len(s) /\ \A k \in 1 .. Len(l) : l[k] = s[k]
    BY <2>1, <2>2, <2>3
  <2>5. l = s
    BY <2>1, <2>3, <2>4, SeqEqual
  <2> QED
    BY <2>5 DEF l
<1>4. s # <<>> /\ Head(s) = a /\ Tail(s) = t
  <2>1. t \in Seq(Nat)
    BY <1>2 DEF t
  <2> QED
    BY <1>3, <2>1
<1> QED
  BY <1>3, <1>4 DEF s, t

LEMMA FromAppend ==
  ASSUME NEW a \in Nat, NEW b \in Nat, a <= b + 1
  PROVE  From(a, b + 1) = Append(From(a, b), b + 1)
<1>1. /\ From(a, b) \in Seq(Nat) /\ Len(From(a, b)) = b - a + 1
      /\ \A k \in 1 .. b - a + 1 : From(a, b)[k] = a + k - 1
  BY FromFacts
<1>2. /\ From(a, b + 1) \in Seq(Nat) /\ Len(From(a, b + 1)) = (b + 1) - a + 1
      /\ \A k \in 1 .. (b + 1) - a + 1 : From(a, b + 1)[k] = a + k - 1
  BY FromFacts
<1> DEFINE s == From(a, b)
           t == From(a, b + 1)
<1> HIDE DEF s, t
<1>3. Append(s, b + 1) \in Seq(Nat) /\ Len(Append(s, b + 1)) = b - a + 2
  BY <1>1 DEF s
<1>4. \A k \in 1 .. b - a + 2 : Append(s, b + 1)[k] = a + k - 1
  BY <1>1 DEF s
<1>5. t = Append(s, b + 1)
  <2> DEFINE l == Append(s, b + 1)
  <2>1. l \in Seq(Nat) /\ Len(l) = b - a + 2 /\ \A k \in 1 .. b - a + 2 : l[k] = a + k - 1
    BY <1>3, <1>4
  <2>2. t \in Seq(Nat) /\ Len(t) = b - a + 2 /\ \A k \in 1 .. b - a + 2 : t[k] = a + k - 1
    BY <1>2 DEF t
  <2> HIDE DEF l
  <2>3. Len(l) = Len(t) /\ \A k \in 1 .. Len(l) : l[k] = t[k]
    BY <2>1, <2>2
  <2>4. l = t
    BY <2>1, <2>2, <2>3, SeqEqual
  <2> QED
    BY <2>4 DEF l
<1> QED
  BY <1>5 DEF s, t

(* From any event of the list all those that came after it are met. *)
LEMMA WalkIsRest ==
  ASSUME QueueInv, signal_queue # 0
  PROVE  \A e \in signal_queue .. arrived : Q!Walk[e] = From(e, arrived)
<1>1. /\ MaxSignals \in Nat /\ arrived \in 0 .. MaxSignals
      /\ signal_queue \in 1 .. MaxSignals /\ signal_queue <= arrived
      /\ \A e \in signal_queue .. arrived - 1 : next_event[e] = e + 1
      /\ \A e \in 1 .. MaxSignals :
           /\ next_event[e] \in Nat
           /\ next_event[e] = 0 \/ (e < next_event[e] /\ next_event[e] <= arrived)
  BY SignalAssumption DEF QueueInv, Q!TypeOK, Q!Event, Q!Null, Later, Linked
<1> DEFINE S == {k \in Nat : k <= arrived - signal_queue =>
                               Q!Walk[arrived - k] = From(arrived - k, arrived)}
<1>2. 0 \in S
  <2>1. arrived \in 1 .. MaxSignals /\ next_event[arrived] = 0
    <3>1. arrived \in 1 .. MaxSignals
      BY <1>1
    <3> QED
      BY <1>1, <3>1
  <2>2. Q!Walk[arrived] = <<arrived>> \o <<>>
    <3>1. ~(next_event[arrived] \in 1 .. MaxSignals)
      BY <1>1, <2>1
    <3> QED
      BY <2>1, <3>1, WalkDef
  <2>3. arrived \in Nat /\ arrived - 0 = arrived
    BY <1>1
  <2>4. From(arrived, arrived) = <<arrived>> \o <<>>
    <3>1. arrived <= arrived
      BY <2>3
    <3>2. From(arrived, arrived) = <<arrived>> \o From(arrived + 1, arrived)
      BY <2>3, <3>1, FromSplit
    <3> QED
      BY <2>3, <3>2, FromNone
  <2> QED
    BY <2>2, <2>3, <2>4
<1>3. ASSUME NEW k \in Nat, k \in S PROVE k + 1 \in S
  <2> SUFFICES ASSUME k + 1 <= arrived - signal_queue
               PROVE  Q!Walk[arrived - (k + 1)] = From(arrived - (k + 1), arrived)
    OBVIOUS
  <2> DEFINE e == arrived - (k + 1)
  <2>1. Q!Walk[e + 1] = From(e + 1, arrived)
    <3>1. k <= arrived - signal_queue /\ arrived - k = e + 1
      BY <1>1
    <3> QED
      BY <1>3, <3>1
  <2>2. /\ e \in 1 .. MaxSignals /\ e \in signal_queue .. arrived - 1
        /\ e + 1 \in 1 .. MaxSignals /\ e + 1 > e /\ e \in Nat /\ e <= arrived
        /\ arrived \in Nat
    BY <1>1
  <2> HIDE DEF e
  <2>3. next_event[e] = e + 1
    BY <1>1, <2>2
  <2>4. Q!Walk[e] = <<e>> \o Q!Walk[e + 1]
    BY <2>2, <2>3, WalkDef
  <2>5. From(e, arrived) = <<e>> \o From(e + 1, arrived)
    BY <2>2, FromSplit
  <2> QED
    BY <2>1, <2>4, <2>5 DEF e
<1> HIDE DEF S
<1>4. \A k \in Nat : k \in S
  BY <1>2, <1>3, InductionOverSet
<1>5. ASSUME NEW e \in signal_queue .. arrived PROVE Q!Walk[e] = From(e, arrived)
  <2>1. arrived - e \in Nat /\ arrived - e <= arrived - signal_queue /\ arrived - (arrived - e) = e
    BY <1>1
  <2> QED
    BY <1>4, <2>1 DEF S
<1> QED
  BY <1>5

LEMMA ListIsRest ==
  ASSUME QueueInv
  PROVE  /\ signal_queue = 0 => Q!List = <<>> /\ Q!InList = {}
         /\ signal_queue # 0 =>
              /\ signal_queue \in Nat /\ arrived \in Nat /\ signal_queue <= arrived
              /\ signal_queue >= 1
              /\ Q!List = From(signal_queue, arrived)
              /\ Q!InList = signal_queue .. arrived
<1>1. CASE signal_queue = 0
  BY <1>1 DEF Q!List, Q!InList, Q!Null
<1>2. CASE signal_queue # 0
  <2>1. signal_queue \in Nat /\ arrived \in Nat /\ signal_queue <= arrived /\ signal_queue >= 1
    BY <1>2, SignalAssumption DEF QueueInv, Q!TypeOK, Q!Event, Q!Null, Later
  <2>2. Q!List = From(signal_queue, arrived)
    BY <1>2, <2>1, WalkIsRest DEF Q!List, Q!Null
  <2>3. Q!InList = signal_queue .. arrived
    <3> DEFINE s == From(signal_queue, arrived)
    <3>1. /\ DOMAIN s = 1 .. arrived - signal_queue + 1
          /\ \A k \in DOMAIN s : s[k] = signal_queue + k - 1
      BY <2>1, FromFacts
    <3> HIDE DEF s
    <3>2. \A k \in DOMAIN s : s[k] \in signal_queue .. arrived
      BY <2>1, <3>1
    <3>3. ASSUME NEW e \in signal_queue .. arrived PROVE \E k \in DOMAIN s : s[k] = e
      <4>1. e - signal_queue + 1 \in DOMAIN s /\ s[e - signal_queue + 1] = e
        BY <2>1, <3>1
      <4> QED
        BY <4>1
    <3>4. {s[k] : k \in DOMAIN s} = signal_queue .. arrived
      BY <3>2, <3>3
    <3> QED
      BY <2>2, <3>4 DEF Q!InList, s
  <2> QED
    BY <1>2, <2>1, <2>2, <2>3
<1> QED
  BY <1>1, <1>2

(***************************************************************************)
(* Wherever the handler interrupts the hook, the list it appends to is     *)
(* whole: it ends at last_event and holds no event that was freed          *)
(* (lua_signal.c:170-177, 183-209).                                        *)
(***************************************************************************)
THEOREM ListWholeCorrect == SignalledSpec => []ListWhole
<1>1. IInv => ListWhole
  <2> SUFFICES ASSUME IInv, signal_queue # 0
               PROVE  /\ last_event \in Q!InList
                      /\ next_event[last_event] = 0
                      /\ Q!InList \cap freed = {}
    BY DEF ListWhole, Q!ListWhole, Q!Null
  <2>1. /\ arrived \in 1 .. MaxSignals /\ signal_queue \in 1 .. arrived
        /\ last_event = arrived
        /\ next_event[arrived] = 0
        /\ \A e \in freed : e \in 1 .. MaxSignals /\ e < signal_queue
    BY SignalAssumption DEF IInv, QueueInv, Q!TypeOK, Q!Event, Q!Null, Later, Linked
  <2>2. Q!InList = signal_queue .. arrived
    BY ListIsRest DEF IInv
  <2> QED
    BY <2>1, <2>2
<1> QED
  BY <1>1, Invariance, PTL

(***************************************************************************)
(* The functions are called in the order of the signals                    *)
(* (lua_signal.c:170-177), however many arrive while one is handled.       *)
(***************************************************************************)
THEOREM InOrderCorrect == SignalledSpec => []InOrder
<1>1. IInv => InOrder
  BY DEF IInv, QueueInv, HandledBefore
<1> QED
  BY <1>1, Invariance, PTL

(***************************************************************************)
(* No event stays in the list without a hook: the handler installs one     *)
(* before its event can be seen, and the hook leaves only an empty list    *)
(* (lua_signal.c:160-209).                                                 *)
(***************************************************************************)
THEOREM NotForgottenCorrect == SignalledSpec => []NotForgotten
<1> USE DEF NotForgotten, Q!NotForgotten
<1>1. SignalledInit => NotForgotten
  BY DEF SignalledInit, Q!Init
<1>2. NotForgotten /\ [SignalledNext]_swvars => NotForgotten'
  <2> SUFFICES ASSUME NotForgotten, [SignalledNext]_swvars PROVE NotForgotten'
    OBVIOUS
  <2>1. ASSUME NEW s \in Sig, Q!Handle(s) PROVE NotForgotten'
    BY <2>1 DEF Q!Handle, Q!Begin, Q!AppendEvent
  <2>2. ASSUME NEW s \in Sig, Q!Kill(s) PROVE NotForgotten'
    BY <2>2 DEF Q!Kill
  <2>3. CASE Q!HookFires
    BY <2>3 DEF Q!HookFires
  <2>4. CASE Q!TestQueue
    BY <2>4 DEF Q!TestQueue, Q!queue
  <2>5. CASE Q!CallReturns \/ Q!ReadNext \/ Q!StoreNext \/ Q!FreeEvent
    BY <2>5 DEF Q!CallReturns, Q!ReadNext, Q!StoreNext, Q!FreeEvent
  <2>6. ASSUME NEW s \in Sig, Q!Register(s) PROVE NotForgotten'
    BY <2>6 DEF Q!Register, Q!queue
  <2>7. CASE UNCHANGED sigvars
    BY <2>7 DEF sigvars
  <2> QED
    BY <2>1, <2>2, <2>3, <2>4, <2>5, <2>6, <2>7 DEF SignalledNext, Arrives, Killed, Hook,
       CallShutdown, Lua, RegisterShutdown, Sig, swvars
<1> QED
  BY <1>1, <1>2, PTL DEF SignalledSpec

(***************************************************************************)
(* What InterruptEnds takes of every state: once a signal has arrived, the *)
(* flag of the scheduler is down, or the event of a signal is in the list  *)
(* and a hook will come to it and call shutdown (state_wizard.lua:25-35).  *)
(* What the queue loses is lost after the first call only.                 *)
(***************************************************************************)
InterruptKept ==
  arrived > 0 /\ running => signal_queue # 0 /\ (hook = "sighook" \/ hookpc # "off")

(* The first function that returns is shutdown; until then the list stays. *)
CallsEnd ==
  /\ running => handled = <<>>
  /\ arrived > 0 /\ handled = <<>> => signal_queue # 0

LEMMA CallsEndStep == QueueInv /\ CallsEnd /\ [SignalledNext]_swvars => CallsEnd'
<1> SUFFICES ASSUME QueueInv, CallsEnd, [SignalledNext]_swvars PROVE CallsEnd'
  OBVIOUS
<1>1. ASSUME NEW s \in Sig, Q!Handle(s), UNCHANGED running PROVE CallsEnd'
  <2>1. arrived \in Nat /\ arrived' = arrived + 1 /\ UNCHANGED handled
    BY <1>1, SignalAssumption DEF QueueInv, Q!TypeOK, Q!Handle
  <2>2. CASE signal_queue = 0
    <3>1. signal_queue' = arrived + 1
      BY <1>1, <2>2 DEF Q!Handle, Q!Begin, Q!Null
    <3> QED
      BY <1>1, <2>1, <3>1 DEF CallsEnd
  <2>3. CASE signal_queue # 0
    <3>1. signal_queue' = signal_queue
      BY <1>1, <2>3 DEF Q!Handle, Q!AppendEvent, Q!Null
    <3> QED
      BY <1>1, <2>1, <2>3, <3>1 DEF CallsEnd
  <2> QED
    BY <2>2, <2>3
<1>2. CASE UNCHANGED <<running, signal_queue, arrived, handled>>
  BY <1>2 DEF CallsEnd
<1>3. CASE Q!StoreNext /\ UNCHANGED running
  <2>1. UNCHANGED <<running, arrived, handled>> /\ \E j \in DOMAIN handled : TRUE
    BY <1>3 DEF Q!StoreNext, QueueInv, HandledBefore
  <2> QED
    BY <2>1 DEF CallsEnd
<1>4. CASE CallShutdown /\ pc # "over"
  <2>1. ~running'
    BY <1>4 DEF CallShutdown, Signal, vars
  <2>2. handled' # <<>>
    <3>1. handled' = Append(handled, event) /\ handled \in Seq(Q!Event)
      BY <1>4 DEF CallShutdown, Q!CallReturns, QueueInv, Q!TypeOK
    <3> QED
      BY <3>1
  <2> QED
    BY <2>1, <2>2 DEF CallsEnd
<1>5. ASSUME NEW s \in Sig, Killed(s) PROVE CallsEnd'
  BY <1>5, <1>2 DEF Killed, Q!Kill, Q!queue
<1>6. CASE Hook
  <2>1. CASE CallShutdown
    BY <1>4, <1>6, <2>1 DEF Hook
  <2>2. CASE Q!StoreNext /\ UNCHANGED vars
    BY <1>3, <2>2 DEF vars
  <2>3. CASE (Q!HookFires \/ Q!TestQueue \/ Q!ReadNext \/ Q!FreeEvent) /\ UNCHANGED vars
    BY <1>2, <2>3 DEF vars, Q!HookFires, Q!TestQueue, Q!ReadNext, Q!FreeEvent, Q!queue
  <2> QED
    BY <1>6, <2>1, <2>2, <2>3 DEF Hook
<1>7. CASE Lua
  <2>1. CASE RegisterShutdown
    BY <1>2, <2>1 DEF RegisterShutdown, Q!Register, Q!queue, vars
  <2>2. CASE Wizard /\ UNCHANGED sigvars
    BY <1>2, <2>2 DEF sigvars, Wizard, Create, BeginRounds, ReadRunning, Resume, ResumeToExit,
                      SkipDead, EndRound, UntilNotRunning
  <2> QED
    BY <1>7, <2>1, <2>2 DEF Lua
<1>8. CASE UNCHANGED swvars
  BY <1>2, <1>8 DEF swvars, vars, sigvars
<1> QED
  BY <1>1, <1>5, <1>6, <1>7, <1>8 DEF SignalledNext, Arrives, vars

(* Ctrl-C is not lost, although the queue may lose a signal. *)
THEOREM InterruptKeptCorrect == SignalledSpec => []InterruptKept
<1>1. SignalledInit => CallsEnd
  BY DEF SignalledInit, Init, Q!Init, CallsEnd
<1>2. IInv => QueueInv
  BY DEF IInv
<1>3. CallsEnd /\ NotForgotten => InterruptKept
  BY DEF CallsEnd, NotForgotten, Q!NotForgotten, Q!Null, InterruptKept
<1> QED
  BY <1>1, <1>2, <1>3, CallsEndStep, Invariance, NotForgottenCorrect, PTL DEF SignalledSpec

(***************************************************************************)
(* After shutdown at most the machine that was resumed before is updated   *)
(* once more, none when a machine has exited, and those that have exited   *)
(* stay dead (state_wizard.lua:25-35, 54-59, 97-106), wherever the signal  *)
(* interrupts the loop or a coroutine.                                     *)
(***************************************************************************)
THEOREM NoUpdateAfterSignalCorrect == SignalledSpec => NoUpdateAfterSignal
<1>1. IInv /\ [SignalledNext]_swvars =>
        [/\ stray' <= 1
         /\ exited # {} => updates' = updates
         /\ \A f \in exited : thread'[f] = "dead"]_vars
  <2> SUFFICES ASSUME IInv, SignalledNext, ~UNCHANGED vars
               PROVE  /\ stray' <= 1
                      /\ exited # {} => updates' = updates
                      /\ \A f \in exited : thread'[f] = "dead"
    BY DEF swvars
  <2>1. CASE Wizard
    BY <2>1, WizardStops DEF IInv
  <2>2. CASE ~Wizard
    <3>1. UNCHANGED <<thread, updates, exited, stray>>
      BY <2>2 DEF SignalledNext, Arrives, Killed, Hook, CallShutdown, Signal, Lua,
                  RegisterShutdown, vars
    <3>2. stray <= 1
      BY DEF IInv, WizardInv, Over
    <3> QED
      BY <3>1, <3>2 DEF IInv, WizardInv, ExitedDead
  <2> QED
    BY <2>1, <2>2
<1> QED
  BY <1>1, Invariance, PTL DEF SignalledSpec, NoUpdateAfterSignal

-----------------------------------------------------------------------------
(* The service. *)

WasHandled(e) == \E j \in DOMAIN handled : handled[j] = e

(* The first event that waits for its function. *)
FirstWaiting == IF WasHandled(signal_queue) THEN signal_queue + 1 ELSE signal_queue

(* What waits is every event from the first that waits to the last. *)
Waits ==
  /\ arrived \in Nat /\ signal_queue \in Nat
  /\ signal_queue = 0 => Q!Pending = <<>>
  /\ signal_queue # 0 =>
       /\ FirstWaiting \in Nat /\ FirstWaiting <= arrived + 1
       /\ Q!Pending = From(FirstWaiting, arrived)

LEMMA PendingIs == QueueInv => Waits
<1> SUFFICES ASSUME QueueInv PROVE Waits
  OBVIOUS
<1>1. arrived \in Nat /\ signal_queue \in Nat
  BY SignalAssumption DEF QueueInv, Q!TypeOK, Q!Event, Q!Null
<1>2. signal_queue = 0 => Q!Pending = <<>>
  BY ListIsRest DEF Q!Pending
<1>3. ASSUME signal_queue # 0
      PROVE  /\ FirstWaiting \in Nat /\ FirstWaiting <= arrived + 1
             /\ Q!Pending = From(FirstWaiting, arrived)
  <2>1. signal_queue <= arrived /\ Q!List = From(signal_queue, arrived)
    BY <1>3, ListIsRest
  <2>2. /\ Q!List # <<>> /\ Head(Q!List) = signal_queue
        /\ Tail(Q!List) = From(signal_queue + 1, arrived)
    BY <1>1, <2>1, FromSplit
  <2>3. signal_queue \in {handled[k] : k \in DOMAIN handled} <=> WasHandled(signal_queue)
    BY DEF WasHandled
  <2>4. Q!Pending = From(FirstWaiting, arrived)
    BY <2>1, <2>2, <2>3 DEF Q!Pending, FirstWaiting
  <2> QED
    BY <1>1, <2>1, <2>4 DEF FirstWaiting
<1> QED
  BY <1>1, <1>2, <1>3 DEF Waits

(* A step that leaves the list and what was handled leaves what waits. *)
LEMMA PendingStays ==
  ASSUME Waits, Waits', UNCHANGED <<signal_queue, arrived, handled>>
  PROVE  UNCHANGED Q!Pending
<1>1. FirstWaiting' = FirstWaiting
  BY DEF FirstWaiting, WasHandled
<1>2. CASE signal_queue = 0
  BY <1>2 DEF Waits
<1>3. CASE signal_queue # 0
  <2>1. Q!Pending = From(FirstWaiting, arrived)
    BY <1>3 DEF Waits
  <2>2. Q!Pending' = From(FirstWaiting', arrived')
    BY <1>3 DEF Waits, From
  <2> QED
    BY <1>1, <2>1, <2>2
<1> QED
  BY <1>2, <1>3

LEMMA EndStep ==
  ASSUME Waits, Waits', UNCHANGED <<signal_queue, arrived, handled>>, ~Q!Looked'
  PROVE  Service!Next
<1>1. UNCHANGED Q!Pending
  BY PendingStays
<1>2. Q!Looked' = FALSE
  BY Zenon DEF Q!Looked
<1>3. Service!End
  BY <1>1, <1>2 DEF Service!End
<1> QED
  BY <1>3 DEF Service!Next

(* The handler adds the event that arrives behind those that wait. *)
LEMMA HandleArrives ==
  ASSUME QueueInv, Waits, Waits', NEW s \in Sig, Q!Handle(s)
  PROVE  Service!Next
<1>1. arrived' = arrived + 1 /\ UNCHANGED <<handled, hookpc, next>>
  BY DEF Q!Handle
<1>2. Q!Looked' = Q!Looked
  BY <1>1 DEF Q!Looked
<1>3. Q!Pending' = Append(Q!Pending, arrived')
  <2>1. CASE signal_queue = 0
    <3>1. signal_queue' = arrived + 1 /\ Q!Pending = <<>> /\ arrived \in Nat
      BY <2>1 DEF Q!Handle, Q!Begin, Q!Null, Waits
    <3>2. ~WasHandled(signal_queue)'
      <4>1. \A j \in DOMAIN handled : handled[j] <= arrived /\ handled[j] \in Nat
        BY SignalAssumption DEF QueueInv, HandledBefore, Q!TypeOK, Q!Event
      <4>2. \A j \in DOMAIN handled : handled[j] # arrived + 1
        BY <3>1, <4>1
      <4> QED
        BY <1>1, <3>1, <4>2 DEF WasHandled
    <3>3. FirstWaiting' = arrived + 1
      BY <3>1, <3>2 DEF FirstWaiting, WasHandled
    <3>4. signal_queue' # 0
      BY <3>1
    <3>5. Q!Pending' = From(arrived + 1, arrived + 1)
      BY <1>1, <3>3, <3>4 DEF Waits, From
    <3>6. From(arrived + 1, arrived + 1) = Append(From(arrived + 1, arrived), arrived + 1)
      <4>1. arrived + 1 \in Nat /\ arrived + 1 <= arrived + 1
        BY <3>1
      <4> QED
        BY <3>1, <4>1, FromAppend
    <3>7. From(arrived + 1, arrived) = <<>>
      BY <3>1, FromNone
    <3> QED
      BY <1>1, <3>1, <3>5, <3>6, <3>7
  <2>2. CASE signal_queue # 0
    <3>1. signal_queue' = signal_queue
      BY <2>2 DEF Q!Handle, Q!AppendEvent, Q!Null
    <3>2. FirstWaiting' = FirstWaiting
      BY <1>1, <3>1 DEF FirstWaiting, WasHandled
    <3>3. /\ FirstWaiting \in Nat /\ arrived \in Nat /\ FirstWaiting <= arrived + 1
          /\ Q!Pending = From(FirstWaiting, arrived)
      BY <2>2 DEF Waits
    <3>4. Q!Pending' = From(FirstWaiting', arrived')
      BY <2>2, <3>1 DEF Waits, From
    <3>5. From(FirstWaiting, arrived + 1) = Append(From(FirstWaiting, arrived), arrived + 1)
      BY <3>3, FromAppend
    <3> QED
      BY <1>1, <3>2, <3>3, <3>4, <3>5
  <2> QED
    BY <2>1, <2>2
<1>4. Service!Arrive
  BY <1>1, <1>2, <1>3 DEF Service!Arrive
<1> QED
  BY <1>4 DEF Service!Next

(* The function the hook calls is that of the first event that waits. *)
LEMMA CallServes ==
  ASSUME QueueInv, Waits, Waits', Q!CallReturns
  PROVE  Service!Next
<1>1. /\ hookpc = "call" /\ hookpc' = "next" /\ handled' = Append(handled, event)
      /\ UNCHANGED <<signal_queue, arrived>>
  BY DEF Q!CallReturns, Q!queue
<1>2. signal_queue = event /\ event \in Nat /\ event # 0 /\ event <= arrived
  BY <1>1, SignalAssumption DEF QueueInv, Later, Q!TypeOK, Q!Event, Q!Null
<1>3. /\ \A j \in DOMAIN handled : handled[j] # event
      /\ handled \in Seq(Nat)
  <2>1. \A j \in DOMAIN handled : handled[j] < event /\ handled[j] \in Nat
    BY <1>1, <1>2, SignalAssumption DEF QueueInv, HandledBefore, Q!TypeOK, Q!Event
  <2> QED
    BY <1>2, <2>1, SignalAssumption DEF QueueInv, Q!TypeOK, Q!Event
<1>4. FirstWaiting = event
  BY <1>2, <1>3 DEF FirstWaiting, WasHandled
<1>5. FirstWaiting' = event + 1
  <2>1. \E j \in DOMAIN handled' : handled'[j] = event
    BY <1>1, <1>2, <1>3
  <2> QED
    BY <1>1, <1>2, <2>1 DEF FirstWaiting, WasHandled
<1>6. Q!Pending = From(event, arrived) /\ arrived \in Nat
  BY <1>2, <1>4 DEF Waits
<1>7. Q!Pending' = From(event + 1, arrived)
  BY <1>1, <1>2, <1>5 DEF Waits, From
<1>8. /\ From(event, arrived) # <<>> /\ Head(From(event, arrived)) = event
      /\ Tail(From(event, arrived)) = From(event + 1, arrived)
  BY <1>2, <1>6, FromSplit
<1>9. ~Q!Looked /\ ~Q!Looked'
  BY <1>1 DEF Q!Looked
<1>10. Q!Looked = FALSE /\ Q!Looked' = FALSE
  BY <1>9, Zenon DEF Q!Looked
<1>11. Service!Serve
  BY <1>1, <1>6, <1>7, <1>8, <1>10 DEF Service!Serve
<1> QED
  BY <1>11 DEF Service!Next

(* The hook that reads that no event follows has looked, and none waits. *)
LEMMA ReadLooks ==
  ASSUME QueueInv, Waits, Waits', Q!ReadNext
  PROVE  Service!Next
<1>1. /\ hookpc = "next" /\ hookpc' = "store" /\ next' = next_event[event]
      /\ UNCHANGED <<signal_queue, arrived, handled>>
  BY DEF Q!ReadNext, Q!queue
<1>2. CASE next' # 0
  BY <1>1, <1>2, EndStep DEF Q!Looked, Q!Null
<1>3. CASE next' = 0
  <2>1. /\ signal_queue = event /\ event \in 1 .. MaxSignals /\ event <= arrived
        /\ event < arrived => next_event[event] = event + 1
    BY <1>1, SignalAssumption DEF QueueInv, Later, Linked, Q!TypeOK, Q!Event, Q!Null
  <2>2. event = arrived /\ arrived \in Nat
    BY <1>1, <1>3, <2>1 DEF Waits
  <2>3. FirstWaiting = arrived + 1
    BY <1>1, <2>1, <2>2 DEF QueueInv, HandledBefore, FirstWaiting, WasHandled
  <2>4. Q!Pending = <<>>
    <3>1. Q!Pending = From(arrived + 1, arrived)
      BY <2>1, <2>2, <2>3 DEF Waits
    <3> QED
      BY <2>2, <3>1, FromNone
  <2>5. UNCHANGED Q!Pending
    BY <1>1, PendingStays
  <2>6. Q!Looked' = TRUE
    BY <1>1, <1>3, Zenon DEF Q!Looked, Q!Null
  <2>7. Service!Look
    BY <1>1, <2>4, <2>5, <2>6 DEF Service!Look
  <2> QED
    BY <2>7 DEF Service!Next
<1> QED
  BY <1>2, <1>3

(* What it read is what follows, or the list is dropped with all that came. *)
LEMMA StoreLoses ==
  ASSUME QueueInv, Waits, Waits', Q!StoreNext
  PROVE  Service!Next
<1>1. /\ hookpc = "store" /\ hookpc' = "free" /\ signal_queue' = next
      /\ UNCHANGED <<arrived, handled>>
  BY DEF Q!StoreNext
<1>2. ~Q!Looked'
  BY <1>1 DEF Q!Looked
<1>3. Q!Looked' = FALSE
  BY <1>2, Zenon DEF Q!Looked
<1>4. CASE next = 0
  <2>1. Q!Looked
    BY <1>1, <1>4 DEF Q!Looked, Q!Null
  <2>2. Q!Pending' = <<>>
    BY <1>1, <1>4 DEF Waits
  <2>3. Service!Lose
    BY <1>1, <1>3, <2>1, <2>2 DEF Service!Lose
  <2> QED
    BY <2>3 DEF Service!Next
<1>5. CASE next # 0
  <2>1. /\ signal_queue = event /\ event \in Nat /\ event # 0 /\ next = event + 1
        /\ \A j \in DOMAIN handled : handled[j] \in Nat /\ handled[j] <= event
        /\ WasHandled(event)
    BY <1>1, <1>5, SignalAssumption
       DEF QueueInv, Later, Linked, HandledBefore, WasHandled, Q!TypeOK, Q!Event, Q!Null
  <2>2. ~WasHandled(event + 1)
    BY <2>1 DEF WasHandled
  <2>3. FirstWaiting = event + 1
    BY <2>1 DEF FirstWaiting
  <2>4. FirstWaiting' = event + 1
    BY <1>1, <2>1, <2>2 DEF FirstWaiting, WasHandled
  <2>5. Q!Pending = From(event + 1, arrived)
    BY <2>1, <2>3 DEF Waits
  <2>6. Q!Pending' = From(event + 1, arrived)
    BY <1>1, <1>5, <2>4 DEF Waits, From
  <2>7. Service!End
    BY <1>1, <1>3, <2>5, <2>6 DEF Service!End
  <2> QED
    BY <2>7 DEF Service!Next
<1> QED
  BY <1>4, <1>5

(* Every step of the program is one of the service or none. *)
LEMMA ServiceStep ==
  ASSUME QueueInv, Waits, Waits', [SignalledNext]_swvars
  PROVE  [Service!Next]_(Service!svars)
<1>1. ASSUME NEW s \in Sig, Q!Handle(s) PROVE Service!Next
  BY <1>1, HandleArrives
<1>2. ASSUME NEW s \in Sig, Q!Kill(s) PROVE Service!Next
  BY <1>2, EndStep DEF Q!Kill, Q!queue, Q!Looked
<1>3. ASSUME NEW s \in Sig, Q!Register(s) PROVE Service!Next
  BY <1>3, EndStep DEF Q!Register, Q!queue, Q!Looked
<1>4. CASE Q!HookFires
  BY <1>4, EndStep DEF Q!HookFires, Q!queue, Q!Looked
<1>5. CASE Q!TestQueue
  BY <1>5, EndStep DEF Q!TestQueue, Q!queue, Q!Looked
<1>6. CASE Q!CallReturns
  BY <1>6, CallServes
<1>7. CASE Q!ReadNext
  BY <1>7, ReadLooks
<1>8. CASE Q!StoreNext
  BY <1>8, StoreLoses
<1>9. CASE Q!FreeEvent
  BY <1>9, EndStep DEF Q!FreeEvent, Q!queue, Q!Looked
<1>10. CASE UNCHANGED sigvars
  <2>1. UNCHANGED Q!Pending
    BY <1>10, PendingStays DEF sigvars
  <2>2. Q!Looked' = Q!Looked
    BY <1>10 DEF sigvars, Q!Looked
  <2> QED
    BY <1>10, <2>1, <2>2 DEF sigvars, Service!svars
<1> QED
  BY <1>1, <1>2, <1>3, <1>4, <1>5, <1>6, <1>7, <1>8, <1>9, <1>10 DEF SignalledNext, Arrives,
     Killed, Hook, CallShutdown, Lua, RegisterShutdown, Sig, swvars

(***************************************************************************)
(* The linked list, its hook and the handler that interrupts it implement  *)
(* a queue that loses signals only between the read of the next event and  *)
(* the write of the queue (lua_signal.c:170-177, 183-209).                 *)
(***************************************************************************)
THEOREM ServiceRefinement == SignalledSpec => IsService
<1>1. SignalledInit => Service!Init
  <2> SUFFICES ASSUME SignalledInit PROVE Service!Init
    OBVIOUS
  <2>1. signal_queue = 0 /\ hookpc = "off" /\ arrived = 0 /\ handled = <<>>
    BY DEF SignalledInit, Q!Init, Q!Null
  <2>2. Q!Pending = <<>>
    BY <2>1 DEF Q!Pending, Q!List, Q!Null
  <2>3. Q!Looked = FALSE
    BY <2>1 DEF Q!Looked
  <2> QED
    BY <2>1, <2>2, <2>3 DEF Service!Init
<1>2. IInv => QueueInv /\ Waits
  BY PendingIs DEF IInv
<1>3. QueueInv /\ Waits /\ Waits' /\ [SignalledNext]_swvars => [Service!Next]_(Service!svars)
  BY ServiceStep
<1> QED
  BY <1>1, <1>2, <1>3, Invariance, PTL DEF SignalledSpec, IsService, Service!Spec
=============================================================================
