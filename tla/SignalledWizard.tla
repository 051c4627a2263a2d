-------------------------- MODULE SignalledWizard --------------------------
(***************************************************************************)
(* The scheduler of Run/state_wizard.lua on top of the queue of signals of *)
(* Modules/signal.  The flag that ends the scheduler is cleared by the     *)
(* function shutdown, which the debug hook calls for SIGINT and SIGTERM.   *)
(***************************************************************************)
EXTENDS StateWizard

CONSTANTS
  SIGINT, SIGTERM,
  MaxSignals    \* bound: signals that arrive

ASSUME SignalAssumption == SIGINT # SIGTERM /\ MaxSignals \in Nat \ {0}

VARIABLES signal_queue, last_event, next_event, hook, Hsig, hookpc, event, next,
          func, arrived, handled, freed

Sig == {SIGINT, SIGTERM}
Q == INSTANCE SignalQueue

sigvars == <<signal_queue, last_event, next_event, hook, Hsig, hookpc, event,
             next, func, arrived, handled, freed>>
swvars == <<vars, sigvars>>

SignalledTypeOK == TypeOK /\ Q!TypeOK

SignalledInit == Init /\ Q!Init

-----------------------------------------------------------------------------

Arrives(s) == pc # "over" /\ Q!Handle(s) /\ UNCHANGED vars

(* The default action of a signal that has no handler yet. *)
Killed(s) ==
  /\ Q!Kill(s)
  /\ pc' = "over"
  /\ UNCHANGED <<order, i, running, thread, updates, exited, stray>>

(* signal.signal("SIGINT", shutdown), then SIGTERM. *)
RegisterShutdown ==
  /\ IF SIGINT \in func THEN SIGTERM \notin func /\ Q!Register(SIGTERM)
                        ELSE Q!Register(SIGINT)
  /\ UNCHANGED vars

(* No Lua code runs while the hook does. *)
Lua ==
  /\ hookpc = "off"
  /\ RegisterShutdown \/ (func = Sig /\ Wizard /\ UNCHANGED sigvars)

(* The function the hook calls is shutdown. *)
CallShutdown ==
  /\ Q!CallReturns
  /\ IF running THEN Signal ELSE UNCHANGED vars

Hook ==
  /\ pc # "over"
  /\ \/ /\ Q!HookFires \/ Q!TestQueue \/ Q!ReadNext \/ Q!StoreNext \/ Q!FreeEvent
        /\ UNCHANGED vars
     \/ CallShutdown

SignalledNext ==
  \/ \E s \in Sig : Arrives(s) \/ Killed(s)
  \/ Hook
  \/ Lua

SignalledSpec == SignalledInit /\ [][SignalledNext]_swvars

(***************************************************************************)
(* None of the steps of the hook waits, and no call of the loop blocks.    *)
(* After the hook Lua executes at least one instruction before it calls a  *)
(* hook again: the loop gets on even when the hook stays installed.        *)
(***************************************************************************)
SignalledFairSpec == SignalledSpec /\ WF_swvars(Hook) /\ SF_swvars(Lua)

-----------------------------------------------------------------------------
(* Properties. *)

(***************************************************************************)
(* The list is whole, handled in order and never without a hook, as        *)
(* SignalQueue states.                                                     *)
(***************************************************************************)
ListWhole == Q!ListWhole
InOrder == Q!InOrder
NotForgotten == Q!NotForgotten

(***************************************************************************)
(* The list is the queue of SignalService: functions are called in order,  *)
(* and the one loss is that of signals between the read of the next event  *)
(* and the write of the queue (lua_signal.c:175).                          *)
(***************************************************************************)
Service == INSTANCE SignalService WITH pending <- Q!Pending, looked <- Q!Looked

IsService == Service!Spec

(***************************************************************************)
(* Ctrl-C ends the program (state_wizard.lua:25-35, 160), whenever it      *)
(* comes and although the queue may lose a signal: one that arrives between*)
(* the read of the next event and the write of the queue                   *)
(* (lua_signal.c:175).  Then shutdown has been called for an earlier one.  *)
(***************************************************************************)
InterruptEnds == arrived > 0 ~> pc = "over"
=============================================================================
