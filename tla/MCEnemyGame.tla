---------------------------- MODULE MCEnemyGame ----------------------------
(***************************************************************************)
(* A maze of two rows with one wall and two ghosts; the ghosts can meet    *)
(* Pac-Man together, one walks against the edge of the map, and one file   *)
(* is longer than the other.                                               *)
(***************************************************************************)
EXTENDS EnemyGame

MCWalls == {<<1, 1>>}
MCPacmanStart == <<2, 0>>
MCGhostStart == <<<<0, 0>>, <<2, 1>>>>
MCGhostMoves == <<<<Move("RIGHT"), Move("RIGHT"), SetPriority(9)>>,
                  <<SetPriority(200), Move("UP"), Move("UP")>>>>

\* Both ghosts ask for a priority in their first turn.
MCTwoRequests == <<<<SetPriority(9)>>, <<SetPriority(7)>>>>
=============================================================================
