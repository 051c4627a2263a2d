--------------------------- MODULE MCJointCommand ---------------------------
(* The two wheels of the autorace robot, with two velocities. *)
EXTENDS JointCommand

(* Every wheel, as in Test/test_tb3.lua, or one left out. *)
AnyShapes == {<<2>>, <<2, 1>>}
=============================================================================
