---------------------------- MODULE MCPacmanGame ----------------------------
(***************************************************************************)
(* A maze of two rows with one wall, and a file with moves into the wall,  *)
(* out of the maze and into the open, a priority request, and one that is  *)
(* out of range.                                                           *)
(***************************************************************************)
EXTENDS PacmanGame

MCWalls == {<<1, 1>>}
MCStart == <<0, 0>>
MCMoves == <<Move("RIGHT"), SetPriority(200), Move("DOWN"), SetPriority(7),
             Move("UP")>>
=============================================================================
