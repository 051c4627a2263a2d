--------------------------- MODULE MCSharedMemory ---------------------------
(***************************************************************************)
(* Three processes, two arrays in three places.  The length of joints is   *)
(* edited once, and it is also set with few elements; gain is always one.  *)
(***************************************************************************)
EXTENDS SharedMemory, TLC

CONSTANTS controller, rosio, gamepad, joints, gain, a1, a2, a3, one, few, short, long

MCProcess == {controller, rosio, gamepad}
MCKey == {joints, gain}
MCLength == {one, few, short, long}
MCAddress == {a1, a2, a3}
MCLayouts == {[k \in MCKey |-> IF k = joints THEN n ELSE one] : n \in {short, long}}
MCOtherLengths == [k \in MCKey |-> IF k = joints THEN {few} ELSE {}]

(* Processes and places are interchangeable, and so are the two layouts. *)
Symmetry ==
  Permutations(MCProcess) \cup Permutations(MCAddress) \cup Permutations({short, long})
=============================================================================
