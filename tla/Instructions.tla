---------------------------- MODULE Instructions ----------------------------
(***************************************************************************)
(* The instructions of the movement files and the maze they move in, as P1 *)
(* (pacman.c) and P2 (enemy.c) both implement them.                        *)
(* A line is one that main() has accepted (movement.c): a direction, or    *)
(* SET_PRIORITY and a number, however large.                               *)
(***************************************************************************)
EXTENDS Integers, Sequences, SequencesExt

CONSTANTS
  Rows, Cols,   \* map_rows, map_cols
  Walls         \* the cells <<x, y>> that hold an 'X'

ASSUME MazeAssumption ==
  /\ Rows \in Nat /\ Cols \in Nat
  /\ Walls \subseteq (0..Cols-1) \X (0..Rows-1)

\* The cells a player can be in.
Open == ((0..Cols-1) \X (0..Rows-1)) \ Walls

Abs(n) == IF n < 0 THEN -n ELSE n
Distance(a, b) == Abs(a[1] - b[1]) + Abs(a[2] - b[2])

Pacman  == "pacman"
Enemy   == "enemy"
Process == {Pacman, Enemy}

Direction == {"UP", "DOWN", "LEFT", "RIGHT"}
MAX_PRIORITY == 100

\* The struct of an instruction; the field its type does not use is zeroed.
Move(direction)   == [type |-> "MOVE", direction |-> direction, priority |-> 0]
SetPriority(n)    == [type |-> "SET_PRIORITY", direction |-> "UP", priority |-> n]
NoInstruction     == [type |-> "NONE", direction |-> "UP", priority |-> 0]

\* A line that main() has accepted.
Line == [type : {"MOVE", "SET_PRIORITY"}, direction : Direction, priority : Nat]

\* main() accepts any number in a file; the children skip one out of range.
parse_instruction_accepts(line) ==
  line.type = "SET_PRIORITY" => line.priority <= MAX_PRIORITY

\* What the first n lines of a file leave in the queue, in order.
ParsedUpTo(file) ==
  LET f[n \in 0..Len(file)] ==
        IF n = 0 THEN <<>>
          ELSE IF parse_instruction_accepts(file[n]) THEN Append(f[n-1], file[n])
                 ELSE f[n-1]
  IN  f

Parsed(file) == ParsedUpTo(file)[Len(file)]

movement_delta(direction) ==
  [UP |-> <<0, -1>>, DOWN |-> <<0, 1>>, LEFT |-> <<-1, 0>>, RIGHT |-> <<1, 0>>][direction]

\* Mutant: the edges of the map are not checked.
is_wall_or_out_of_bounds_no_edges(cell) == cell \in Walls

is_wall_or_out_of_bounds(cell) ==
  \/ cell \notin (0..Cols-1) \X (0..Rows-1)
  \/ cell \in Walls

\* A move into a wall leaves the player where it is.
Moved(cell, direction) ==
  LET d    == movement_delta(direction)
      next == <<cell[1] + d[1], cell[2] + d[2]>>
  IN  IF is_wall_or_out_of_bounds(next) THEN cell ELSE next
=============================================================================
