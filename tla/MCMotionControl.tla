-------------------------- MODULE MCMotionControl --------------------------
(***************************************************************************)
(* A small instance of MotionControl: going forward at two speeds of which *)
(* one saturates to the wheels' limit, and stopping.                       *)
(***************************************************************************)
EXTENDS MotionControl

MCTwist == {0, 1, 3}
MCWheelVel == 0 .. 2
MCMotor == [v \in MCTwist |-> IF v > 2 THEN 2 ELSE v]
=============================================================================
