------------------------------ MODULE MCTeleop ------------------------------
EXTENDS Teleop
(* ROS drives backwards: what the gamepad has to ramp away from. *)
MCRosVel == {-2}
=============================================================================
