------------------------- MODULE MCSignalledWizard -------------------------
(* Three state machines of which one is listed but not enabled. *)
EXTENDS SignalledWizard

CONSTANTS Motion, Arm, Legs

MCMachine == {Motion, Arm, Legs}
MCEnabled == {Motion, Arm}
=============================================================================
