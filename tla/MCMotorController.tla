-------------------------- MODULE MCMotorController --------------------------
(***************************************************************************)
(* Instances of MotorController for TLC.                                   *)
(***************************************************************************)
EXTENDS MotorController

\* Ahead, and back while turning: every kind of step, a speed below MinSpeed
\* included.
MCCommands == {<<5, 4>>, <<-5, 5>>}

=============================================================================
