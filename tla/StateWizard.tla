---------------------------- MODULE StateWizard ----------------------------
(***************************************************************************)
(* The scheduler of Run/state_wizard.lua on the robot: one coroutine per   *)
(* state machine of the configuration, resumed one after the other in the  *)
(* order of pairs(), and a signal handler that Lua runs between any two    *)
(* instructions.                                                           *)
(***************************************************************************)
EXTENDS Integers, Sequences, FiniteSets

CONSTANTS
  Machine,      \* the state machines Config.fsm.enabled names
  Enabled,      \* those it names with a true value
  Laps          \* bound: updates are counted modulo this number

ASSUME WizardAssumption ==
  /\ IsFiniteSet(Machine) /\ Machine # {}
  /\ Enabled \subseteq Machine
  /\ Laps \in Nat /\ Laps >= 4

VARIABLES
  order,        \* the order of pairs(), the same in every round
  pc,           \* "create", "round", "updating" or "exiting" inside a
                \* coroutine resumed with true or with false, "sleep", "over"
  i,            \* position in the loop over the machines
  running,
  thread,       \* status of each coroutine
  updates,      \* history: how often each machine was updated, modulo Laps
  exited,       \* history: machines whose exit ran to its end
  stray         \* history: updates that ended with the flag cleared

vars == <<order, pc, i, running, thread, updates, exited, stray>>

(* The orders in which pairs() may list the machines. *)
Orders == {s \in [1 .. Cardinality(Machine) -> Machine] :
             \A j, k \in DOMAIN s : s[j] = s[k] => j = k}

TypeOK ==
  /\ order \in Orders
  /\ pc \in {"create", "round", "updating", "exiting", "sleep", "over"}
  /\ i \in 1 .. Cardinality(Machine) + 1
  /\ running \in BOOLEAN
  /\ thread \in [Machine -> {"none", "suspended", "dead"}]
  /\ updates \in [Machine -> 0 .. Laps - 1]
  /\ exited \subseteq Machine
  /\ stray \in Nat

Init ==
  /\ order \in Orders
  /\ pc = "create"
  /\ i = 1
  /\ running = TRUE
  /\ thread = [f \in Machine |-> "none"]
  /\ updates = [f \in Machine |-> 0]
  /\ exited = {}
  /\ stray = 0

-----------------------------------------------------------------------------

(* SIGINT or SIGTERM: the handler clears a flag. *)
Signal ==
  /\ running
  /\ pc # "over"
  /\ running' = FALSE
  /\ UNCHANGED <<order, pc, i, thread, updates, exited, stray>>

(* The coroutine runs to its first yield; a disabled machine, a module that *)
(* is missing and an entry that raises all kill it.                         *)
Create ==
  /\ pc = "create"
  /\ i <= Len(order)
  /\ \E s \in IF order[i] \in Enabled THEN {"suspended", "dead"} ELSE {"dead"} :
       thread' = [thread EXCEPT ![order[i]] = s]
  /\ i' = i + 1
  /\ UNCHANGED <<order, pc, running, updates, exited, stray>>

BeginRounds ==
  /\ pc = "create"
  /\ i > Len(order)
  /\ pc' = "round"
  /\ i' = 1
  /\ UNCHANGED <<order, running, thread, updates, exited, stray>>

(* Mutant: the coroutine is resumed with true, whatever the flag says. *)
ReadRunningTrue ==
  /\ pc = "round"
  /\ i <= Len(order)
  /\ thread[order[i]] = "suspended"
  /\ pc' = "updating"
  /\ UNCHANGED <<order, i, running, thread, updates, exited, stray>>

(* The flag is read as the argument of resume; the hook may clear it later. *)
ReadRunning ==
  /\ pc = "round"
  /\ i <= Len(order)
  /\ thread[order[i]] = "suspended"
  /\ pc' = IF running THEN "updating" ELSE "exiting"
  /\ UNCHANGED <<order, i, running, thread, updates, exited, stray>>

(***************************************************************************)
(* Resumed with true, the coroutine has updated its machine and yields, or *)
(* has died of an error.  The step is the end of the update: a hook may    *)
(* have called shutdown since the flag was read, before the coroutine      *)
(* tested its argument, after, or inside the update.                       *)
(***************************************************************************)
Resume ==
  /\ pc = "updating"
  /\ \E s \in {"suspended", "dead"} : thread' = [thread EXCEPT ![order[i]] = s]
  /\ updates' = [updates EXCEPT ![order[i]] = (@ + 1) % Laps]
  /\ stray' = IF running THEN stray ELSE stray + 1
  /\ i' = i + 1
  /\ pc' = "round"
  /\ UNCHANGED <<order, running, exited>>

(* Resumed with false, it has left its loop and called exit, or raised. *)
ResumeToExit ==
  /\ pc = "exiting"
  /\ thread' = [thread EXCEPT ![order[i]] = "dead"]
  /\ exited' \in {exited, exited \cup {order[i]}}
  /\ i' = i + 1
  /\ pc' = "round"
  /\ UNCHANGED <<order, running, updates, stray>>

(* Mutant: a dead coroutine ends the loop over the machines. *)
SkipDeadBreaks ==
  /\ pc = "round"
  /\ i <= Len(order)
  /\ thread[order[i]] = "dead"
  /\ i' = Len(order) + 1
  /\ UNCHANGED <<order, pc, running, thread, updates, exited, stray>>

SkipDead ==
  /\ pc = "round"
  /\ i <= Len(order)
  /\ thread[order[i]] = "dead"
  /\ i' = i + 1
  /\ UNCHANGED <<order, pc, running, thread, updates, exited, stray>>

(* Mutant: the flag is set again for the round to come. *)
EndRoundResets ==
  /\ pc = "round"
  /\ i > Len(order)
  /\ pc' = "sleep"
  /\ running' = TRUE
  /\ UNCHANGED <<order, i, thread, updates, exited, stray>>

(* The rest of the round: statistics and the sleep. *)
EndRound ==
  /\ pc = "round"
  /\ i > Len(order)
  /\ pc' = "sleep"
  /\ UNCHANGED <<order, i, running, thread, updates, exited, stray>>

(* until not running. *)
UntilNotRunning ==
  /\ pc = "sleep"
  /\ pc' = IF running THEN "round" ELSE "over"
  /\ i' = 1
  /\ UNCHANGED <<order, running, thread, updates, exited, stray>>

Wizard == \/ Create \/ BeginRounds \/ ReadRunning \/ Resume \/ ResumeToExit
          \/ SkipDead \/ EndRound \/ UntilNotRunning

Next == Signal \/ Wizard

Spec == Init /\ [][Next]_vars

(* No call of the loop blocks: updates of machines return, sleeps end. *)
FairSpec == Spec /\ WF_vars(Wizard)

-----------------------------------------------------------------------------
(* Properties. *)

Alive(f) == thread[f] = "suspended"

(***************************************************************************)
(* All machines that are alive advance together: a machine that dies of an *)
(* error (state_wizard.lua:98-104) costs the others no update.             *)
(***************************************************************************)
Lockstep ==
  \A f, g \in Machine : Alive(f) /\ Alive(g) =>
    (updates[f] - updates[g]) % Laps \in {0, 1, Laps - 1}

(***************************************************************************)
(* Once shutdown has run at most one more update is made, that of the      *)
(* machine whose argument was read before (state_wizard.lua:54, 55, 100):  *)
(* wherever in the loop or in a coroutine the hook called it.  Once a      *)
(* machine has exited no other is updated, and it stays dead: no machine   *)
(* goes on beside those that believe that the program ends.                *)
(***************************************************************************)
NoUpdateAfterSignal ==
  [][/\ stray' <= 1
     /\ exited # {} => updates' = updates
     /\ \A f \in exited : thread'[f] = "dead"]_vars

(* A machine that stays alive is updated again and again, until a signal   *)
(* comes or the program ends (state_wizard.lua:90-106).                    *)
AllUpdated ==
  \A f \in Machine :
    \/ []<>(~Alive(f) \/ ~running \/ pc = "over")
    \/ []<><<updates'[f] # updates[f]>>_vars

(***************************************************************************)
(* "Cleanly exit on Ctrl-C" (state_wizard.lua:23): when the program ends,  *)
(* every machine still alive has had its exit called.  A signal during the *)
(* sleep, or behind a machine in the loop, ends the program without it.    *)
(***************************************************************************)
CleanExit == pc = "over" => \A f \in Machine : ~Alive(f)
=============================================================================
