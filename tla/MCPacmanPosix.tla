--------------------------- MODULE MCPacmanPosix ---------------------------
(***************************************************************************)
(* A maze of two rows with one wall, and two ghosts.  In their first turn  *)
(* one ghost asks for the higher and one for the lower priority; in their  *)
(* second one they move, the first of them to the cell Pac-Man starts in,  *)
(* and Pac-Man to the cell of the first.                                   *)
(***************************************************************************)
EXTENDS PacmanPosix

I == INSTANCE Instructions

MCWalls == {<<1, 1>>}
MCPacmanStart == <<1, 0>>
MCGhostStart == <<<<2, 0>>, <<2, 1>>>>
MCMoves == <<I!Move("RIGHT"), I!SetPriority(1)>>
MCGhostMoves == <<<<I!SetPriority(2), I!Move("LEFT")>>, <<I!SetPriority(1), I!Move("UP")>>>>

\* The same maze with equal priorities that nobody asks to change.
MCFewMoves == <<I!Move("RIGHT")>>
MCFewGhostMoves == <<<<I!Move("LEFT")>>, <<I!Move("UP")>>>>
=============================================================================
