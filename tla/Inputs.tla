------------------------------- MODULE Inputs -------------------------------
(***************************************************************************)
(* What main() accepts before it starts the game: the arguments, the       *)
(* environment, map.txt (map.c) and the movement files (movement.c), and   *)
(* how they reach the shared memory (shared.c) and, by a second reading,   *)
(* the children.  The input is chosen in the initial state.                *)
(*                                                                         *)
(* A line of map.txt is the sequence of its cells; one of a movement file  *)
(* is a record of its word and number.  Files hold no NUL character.       *)
(***************************************************************************)
EXTENDS Integers, Sequences, FiniteSets, SequencesExt

CONSTANTS
  Cases,              \* the inputs
  GhostCount,
  MaxRows, MaxCols,   \* PACMAN_MAX_MAP_ROWS, PACMAN_MAX_MAP_COLS
  LineMax,            \* the characters fgets puts in line[] at most
  IntMax, LongMax,    \* INT_MAX, LONG_MAX
  CallsMayFail        \* may a file or an allocation fail?

VARIABLES
  input,             \* the case in question
  pc,
  map,               \* struct Map
  next, offset,      \* where the next fgets reads
  counts,            \* the lines main() has counted in the movement files
  shared,            \* shared_state_t, the part that comes from the input
  failed             \* history: has a call failed?

vars == <<input, pc, map, next, offset, counts, shared, failed>>

I == INSTANCE Instructions WITH Rows <- MaxRows, Cols <- MaxCols, Walls <- {}

\* What a text is as a number: its form and its value.
Texts == {text \in [form : {"none", "digits", "signed", "spaced", "mixed"}, value : Int] :
            text.form = "digits" => text.value >= 0}

ASSUME InputsAssumption ==
  /\ GhostCount \in Nat /\ MaxRows \in Nat /\ MaxCols \in Nat
  /\ LineMax \in Nat /\ MaxCols + 2 <= LineMax   \* a full row and CR LF
  /\ IntMax \in Nat /\ LongMax \in Nat
  /\ 100 < IntMax /\ IntMax <= LongMax

\* A last line without a newline is not empty.
ASSUME CasesAssumption ==
  \A case \in Cases :
    /\ case.map \in Seq(Seq(STRING)) /\ case.newline \in BOOLEAN
    /\ case.map # <<>> /\ ~case.newline => case.map[Len(case.map)] # <<>>
    /\ case.moves \in Seq(Seq([word : STRING, number : Texts]))
    /\ case.max_ticks \in Texts /\ case.environment \in [I!Process -> Texts]

Ghost == 1..GhostCount
Nobody == <<0, 0>>    \* the zeroed Position
NoState == [rows |-> 0, cols |-> 0]

Goto(label) == pc' = label

-----------------------------------------------------------------------------
(* strtol with end pointer and errno.  A number in a text has a form: bare *)
(* digits, a sign or a space before them, or something else in it.         *)

strtol_accepts(text) ==
  text.form \in {"digits", "signed", "spaced"} /\ text.value \in -LongMax-1..LongMax

to_int(n) == ((n + IntMax + 1) % (2 * (IntMax + 1))) - IntMax - 1

parse_max_ticks(text) ==
  strtol_accepts(text) /\ text.value > 0 /\ text.value <= IntMax

\* parse_priority_value of both children, and parse_priority_env.
parse_priority(text) == strtol_accepts(text) /\ text.value \in 0..I!MAX_PRIORITY

Default == [p \in I!Process |-> IF p = I!Pacman THEN 20 ELSE 30]

parse_priority_env(p) ==
  LET text == input.environment[p]
  IN  IF text.form = "none" THEN Default[p] ELSE to_int(text.value)

-----------------------------------------------------------------------------
(* movement.c, and the parsers of the children *)

\* Mutant: whatever strtol takes is a number.
is_valid_instruction_as_strtol(line) ==
  \/ line.word \in I!Direction
  \/ line.word = "SET_PRIORITY" /\ line.number.form # "mixed"

is_valid_instruction(line) ==
  \/ line.word \in I!Direction
  \/ line.word = "SET_PRIORITY" /\ line.number.form = "digits"

movement_load_file_accepts(lines) ==
  \A i \in DOMAIN lines : lines[i].word # "" /\ is_valid_instruction(lines[i])

\* A child that reads the file again skips what it cannot parse.
parse_instruction(line) ==
  IF line.word \in I!Direction THEN I!Move(line.word)
  ELSE IF line.word = "SET_PRIORITY" /\ parse_priority(line.number)
    THEN I!SetPriority(to_int(line.number.value))
  ELSE I!NoInstruction

InstructionsUpTo(lines) ==
  LET f[n \in 0..Len(lines)] ==
        IF n = 0 THEN <<>>
          ELSE LET instruction == parse_instruction(lines[n])
               IN  IF instruction = I!NoInstruction THEN f[n-1]
                     ELSE Append(f[n-1], instruction)
  IN  f

Instructions(lines) == InstructionsUpTo(lines)[Len(lines)]

-----------------------------------------------------------------------------
(* map_load *)

\* What fgets reads of line next from offset on, and where it goes on: a line
\* longer than the buffer, with its newline, comes in pieces.
Rest ==
  IF next > Len(input.map) THEN <<>>
  ELSE SubSeq(input.map[next], offset + 1, Len(input.map[next]))

HasNewline == next < Len(input.map) \/ input.newline

Whole == Len(Rest) + (IF HasNewline THEN 1 ELSE 0) <= LineMax

Piece == SubSeq(Rest, 1, IF Len(Rest) < LineMax THEN Len(Rest) ELSE LineMax)

AtEnd == Rest = <<>> /\ (next > Len(input.map) \/ ~HasNewline)

\* strip_line_ending, which takes every CR before the end of what was read.
strip_line_ending(cells) ==
  LET kept == {n \in 0..Len(cells) : \A i \in n+1..Len(cells) : cells[i] = "CR"}
  IN  SubSeq(cells, 1, CHOOSE n \in kept : \A k \in kept : n <= k)

validate_row_width(cells) ==
  cells # <<>> /\ (map.cells = <<>> \/ Len(cells) = map.cols)

RejectsArguments ==
  /\ pc = "arguments"
  /\ ~parse_max_ticks(input.max_ticks)
  /\ Goto("rejected")
  /\ UNCHANGED <<input, map, next, offset, counts, shared, failed>>

OpenMap ==
  /\ pc = "arguments"
  /\ parse_max_ticks(input.max_ticks)
  /\ \/ Goto("read_map") /\ UNCHANGED failed
     \/ CallsMayFail /\ Goto("free_map") /\ failed' = TRUE
  /\ UNCHANGED <<input, map, next, offset, counts, shared>>

append_row(cells) ==
  map' = [map EXCEPT !.cells = Append(@, cells), !.cols = Len(cells)]

\* One round of the loop: fgets, the width, and append_row, which may run out
\* of memory once the width of the first row is noted.
ReadRow ==
  /\ pc = "read_map" /\ ~AtEnd
  /\ LET cells == strip_line_ending(Piece)
     IN  \/ /\ validate_row_width(cells)
            /\ append_row(cells)
            /\ UNCHANGED <<pc, failed>>
         \/ /\ ~validate_row_width(cells)
            /\ Goto("free_map")
            /\ UNCHANGED <<map, failed>>
         \/ /\ CallsMayFail /\ validate_row_width(cells)
            /\ Goto("free_map") /\ failed' = TRUE
            /\ map' = [map EXCEPT !.cols = Len(cells)]
  /\ next' = IF Whole THEN next + 1 ELSE next
  /\ offset' = IF Whole THEN 0 ELSE offset + LineMax
  /\ UNCHANGED <<input, counts, shared>>

\* fgets returns NULL; ferror, and a file without lines.
EndOfMap ==
  /\ pc = "read_map"
  /\ AtEnd \/ CallsMayFail
  /\ failed' = (failed \/ ~AtEnd)
  /\ Goto(IF AtEnd /\ map.cells # <<>> THEN "validate_entities" ELSE "free_map")
  /\ UNCHANGED <<input, map, next, offset, counts, shared>>

Letter == <<"A", "B", "C", "D">>    \* ghost_index_for_cell

\* Mutant: rows and columns are exchanged.
Found_transposed(cell) ==
  {at \in (0..Len(map.cells)-1) \X (0..map.cols-1) :
     map.cells[at[1] + 1][at[2] + 1] = cell}

Found(cell) ==
  {at \in (0..map.cols-1) \X (0..Len(map.cells)-1) :
     map.cells[at[2] + 1][at[1] + 1] = cell}

The(set) == CHOOSE x \in set : TRUE

validate_map_cell(cell) == cell \in {"X", "O", "P"} \cup {Letter[g] : g \in Ghost}

\* validate_map_cell for each cell, and the counts of register_entity.
EntitiesValid ==
  /\ \A row \in DOMAIN map.cells : \A col \in DOMAIN map.cells[row] :
       validate_map_cell(map.cells[row][col])
  /\ Cardinality(Found("P")) = 1
  /\ \A g \in Ghost : Cardinality(Found(Letter[g])) = 1

validate_entities ==
  /\ pc = "validate_entities"
  /\ \/ /\ EntitiesValid
        /\ map' = [map EXCEPT !.pacman_start = The(Found("P")),
                              !.ghost_starts = [g \in Ghost |-> The(Found(Letter[g]))]]
        /\ Goto("load_movements")
     \/ ~EntitiesValid /\ Goto("free_map") /\ UNCHANGED map
  /\ UNCHANGED <<input, next, offset, counts, shared, failed>>

-----------------------------------------------------------------------------
\* load_movements: the files in their order, up to the first that is refused.
load_movements ==
  /\ pc = "load_movements"
  /\ LET file == Len(counts) + 1
     IN  \/ /\ file <= Len(input.moves)
            /\ movement_load_file_accepts(input.moves[file])
            /\ counts' = Append(counts, Len(input.moves[file]))
            /\ UNCHANGED <<pc, failed>>
         \/ /\ file <= Len(input.moves)
            /\ \/ ~movement_load_file_accepts(input.moves[file]) /\ UNCHANGED failed
               \/ CallsMayFail /\ failed' = TRUE
            /\ Goto("free_map")
            /\ UNCHANGED counts
         \/ /\ file > Len(input.moves)
            /\ Goto("initialize")
            /\ UNCHANGED <<counts, failed>>
  /\ UNCHANGED <<input, map, next, offset, shared>>

EnvironmentValid ==
  \A p \in I!Process :
    input.environment[p].form = "none" \/ parse_priority(input.environment[p])

\* Mutant: the size of the map is not looked at.
MapFits_always == TRUE

\* The test of copy_map_to_shared.
MapFits == Len(map.cells) <= MaxRows /\ map.cols <= MaxCols

\* shared_state_initialize, as far as the input goes: the priorities, then
\* copy_map_to_shared and copy_initial_positions (x is a column, y a row).
shared_state_initialize ==
  /\ pc = "initialize"
  /\ \/ /\ EnvironmentValid /\ MapFits
        /\ shared' = [rows |-> Len(map.cells), cols |-> map.cols,
                      grid |-> map.cells,
                      pacman |-> map.pacman_start, ghosts |-> map.ghost_starts,
                      prioridad |-> [p \in I!Process |-> parse_priority_env(p)],
                      max_ticks |-> to_int(input.max_ticks.value)]
        /\ Goto("ready")
     \/ ~(EnvironmentValid /\ MapFits) /\ Goto("free_map") /\ UNCHANGED shared
  /\ UNCHANGED <<input, map, next, offset, counts, failed>>

NoMap == [cells |-> <<>>, cols |-> 0, pacman_start |-> Nobody,
          ghost_starts |-> [g \in Ghost |-> Nobody]]

\* main() frees the map on every path on which it does not start the game.
map_free ==
  /\ pc = "free_map"
  /\ map' = [map EXCEPT !.cells = <<>>, !.cols = 0]
  /\ Goto("rejected")
  /\ UNCHANGED <<input, next, offset, counts, shared, failed>>

Init ==
  /\ input \in Cases
  /\ pc = "arguments"
  /\ map = NoMap
  /\ next = 1 /\ offset = 0
  /\ counts = <<>> /\ shared = NoState /\ failed = FALSE

Decided == pc \in {"ready", "rejected"} /\ UNCHANGED vars

Next ==
  \/ RejectsArguments \/ OpenMap \/ ReadRow \/ EndOfMap \/ validate_entities
  \/ load_movements \/ shared_state_initialize \/ map_free
  \/ Decided

Spec == Init /\ [][Next]_vars

-----------------------------------------------------------------------------
(* The reference: what the README says of the input, without buffers. *)

Number(text) == text.form \in {"digits", "signed", "spaced"}

Grid == [i \in DOMAIN input.map |-> strip_line_ending(input.map[i])]

Cells(letter) ==
  {at \in (0..MaxCols-1) \X (0..MaxRows-1) :
     /\ at[2] < Len(Grid) /\ at[1] < Len(Grid[at[2] + 1])
     /\ Grid[at[2] + 1][at[1] + 1] = letter}

WellFormed ==
  /\ Number(input.max_ticks) /\ input.max_ticks.value \in 1..IntMax
  /\ Len(Grid) \in 1..MaxRows
  /\ \E cols \in 1..MaxCols : \A y \in DOMAIN Grid : Len(Grid[y]) = cols
  /\ \A y \in DOMAIN Grid :
       Range(Grid[y]) \subseteq {"X", "O", "P"} \cup {Letter[g] : g \in Ghost}
  /\ \A letter \in {"P"} \cup {Letter[g] : g \in Ghost} : Cardinality(Cells(letter)) = 1
  /\ \A f \in DOMAIN input.moves : \A i \in DOMAIN input.moves[f] :
       LET line == input.moves[f][i]
       IN  \/ line.word \in I!Direction
           \/ line.word = "SET_PRIORITY" /\ line.number.form = "digits"
  /\ \A p \in I!Process : LET text == input.environment[p] IN
       text.form # "none" => Number(text) /\ text.value \in 0..I!MAX_PRIORITY

\* A line that fgets reads in pieces, with CRs that may end a piece.
Padded(line) == Len(line) >= LineMax /\ "CR" \in Range(line)

\* main() starts the game on every well-formed case, and on no other, unless
\* a call fails: the pieces fgets makes of a long line of map.txt neither hide
\* a mistake nor make one (unless CRs fill the buffer).
AcceptsWellFormed ==
  (\A y \in DOMAIN input.map : ~Padded(input.map[y])) =>
    /\ pc = "ready" => WellFormed
    /\ pc = "rejected" => ~WellFormed \/ failed

\* The game starts from exactly what the files say: the maze, every player on
\* its letter (columns are x, rows are y), the priorities and the length.
StartsAsWritten ==
  pc = "ready" /\ WellFormed =>
    /\ shared.grid = Grid
    /\ shared.rows = Len(Grid) /\ \A y \in DOMAIN Grid : Len(Grid[y]) = shared.cols
    /\ Cells("P") = {shared.pacman}
    /\ \A g \in Ghost : Cells(Letter[g]) = {shared.ghosts[g]}
    /\ \A p \in I!Process : shared.prioridad[p] =
         IF input.environment[p].form = "none" THEN Default[p]
         ELSE input.environment[p].value
    /\ shared.max_ticks = input.max_ticks.value

\* The children carry out the lines main() has counted, but for the priorities
\* out of range: nothing else that main() accepts is lost in the second
\* reading, which is what Instructions takes for granted.
ChildrenFollowFiles ==
  pc = "ready" => \A f \in DOMAIN input.moves :
    LET lines == input.moves[f]
        asked == [i \in DOMAIN lines |-> IF lines[i].word = "SET_PRIORITY"
                    THEN I!SetPriority(lines[i].number.value) ELSE I!Move(lines[i].word)]
    IN  /\ counts[f] = Len(asked)
        /\ Instructions(lines) = I!Parsed(asked)
=============================================================================
