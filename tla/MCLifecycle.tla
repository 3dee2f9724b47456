---------------------------- MODULE MCLifecycle ----------------------------
(***************************************************************************)
(* Two runs of the program that use the same name.                         *)
(***************************************************************************)
EXTENDS Lifecycle, TLC

CONSTANTS r1, r2

MCProgram == {r1, r2}
=============================================================================
