---------------------------- MODULE MCStateWizard ----------------------------
(* Three state machines, all enabled. *)
EXTENDS StateWizard

CONSTANTS Motion, Arm, Legs

MCMachine == {Motion, Arm, Legs}
=============================================================================
