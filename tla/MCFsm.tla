------------------------------- MODULE MCFsm -------------------------------
(***************************************************************************)
(* The machine of Config_TB3_FSM.lua, motionIdle -done-> motionWebots, with*)
(* a way back on a second event and an action on the first transition.     *)
(***************************************************************************)
EXTENDS Fsm

CONSTANTS Idle, Drive, done, stop

MCState == {Idle, Drive}
MCEvent == {done, stop}
MCTable == [x \in Edge |-> CASE x = <<Idle, done>> -> Drive
                             [] x = <<Drive, stop>> -> Idle
                             [] OTHER -> NoState]
MCActs == [x \in Edge |-> x = <<Idle, done>>]
=============================================================================
