---------------------------- MODULE InputsProofs ----------------------------
(***************************************************************************)
(* Which input main() accepts and what it starts from, for every case,     *)
(* every size of the buffer and of the shared memory, every width of an    *)
(* int, and every call that fails.                                         *)
(*                                                                         *)
(* The reading of map.txt follows the file line by line until a line does  *)
(* not fit in the buffer.  From there on what is read is not the file any  *)
(* more, but the case is not well formed, or the next round refuses it.    *)
(***************************************************************************)
EXTENDS Inputs, FiniteSetTheorems, SequenceTheorems, TLAPS

L == INSTANCE InstructionsProofs WITH Rows <- MaxRows, Cols <- MaxCols, Walls <- {}

-----------------------------------------------------------------------------
(* The inductive invariant. *)

\* Some line of the map fills the buffer and has a CR in it.
Padding == \E y \in DOMAIN input.map : Padded(input.map[y])

\* The variables have their types, and no piece begins behind its line.
Types ==
  /\ input \in Cases
  /\ pc \in {"arguments", "read_map", "validate_entities", "load_movements", "initialize",
             "ready", "free_map", "rejected"}
  /\ map \in [cells : Seq(Seq(STRING)), cols : Nat, pacman_start : Nat \X Nat,
              ghost_starts : [Ghost -> Nat \X Nat]]
  /\ next \in 1..Len(input.map) + 1 /\ offset \in Nat
  /\ offset > 0 => next <= Len(input.map) /\ offset <= Len(input.map[next])
  /\ counts \in Seq(Nat) /\ failed \in BOOLEAN

\* The rows taken so far are as wide as main() has noted.
Uniform ==
  map.cells # <<>> =>
    map.cols > 0 /\ \A y \in 1..Len(map.cells) : Len(map.cells[y]) = map.cols

\* The rows are the lines before the next one.
Straight ==
  /\ offset = 0 /\ Len(map.cells) = next - 1
  /\ \A y \in 1..next-1 : map.cells[y] = Grid[y]

\* The rows do not fit in the shared memory, and so they will be refused.
Wide == map.cells # <<>> /\ map.cols > MaxCols

\* The first piece was a whole row: only the CRs that filled it up are left.
Stuck ==
  /\ offset = LineMax /\ next <= Len(input.map)
  /\ Len(input.map[next]) > LineMax \/ HasNewline
  /\ \A i \in LineMax+1..Len(input.map[next]) : input.map[next][i] = "CR"

\* Where the loop of map_load stands.
ReadSoFar ==
  \/ Straight
  \/ ~WellFormed /\ (Wide \/ Padding)
  \/ Padding /\ Stuck

\* What map_load has read.
Read ==
  /\ map.cells # <<>>
  /\ map.cells = Grid \/ (~WellFormed /\ (Wide \/ Padding))

\* What validate_entities has found.
Placed ==
  /\ EntitiesValid
  /\ map.pacman_start = The(Found("P"))
  /\ map.ghost_starts = [g \in Ghost |-> The(Found(Letter[g]))]

\* The files accepted so far have been counted.
Counted ==
  /\ Len(counts) <= Len(input.moves)
  /\ \A f \in 1..Len(counts) :
       movement_load_file_accepts(input.moves[f]) /\ counts[f] = Len(input.moves[f])

\* What shared_state_initialize has written.
Written ==
  /\ EnvironmentValid /\ MapFits
  /\ shared = [rows |-> Len(map.cells), cols |-> map.cols,
               grid |-> map.cells,
               pacman |-> map.pacman_start, ghosts |-> map.ghost_starts,
               prioridad |-> [p \in I!Process |-> parse_priority_env(p)],
               max_ticks |-> to_int(input.max_ticks.value)]

\* What is known at each label.
Labels ==
  /\ pc = "arguments" => map.cells = <<>> /\ next = 1 /\ offset = 0
  /\ pc \notin {"arguments", "free_map", "rejected"} => parse_max_ticks(input.max_ticks)
  /\ pc = "read_map" => ReadSoFar
  /\ pc \in {"validate_entities", "load_movements", "initialize", "ready"} => Read
  /\ pc \in {"load_movements", "initialize", "ready"} => Placed
  /\ pc \in {"initialize", "ready"} => Len(counts) = Len(input.moves)
  /\ pc = "ready" => Written
  /\ pc \in {"free_map", "rejected"} => ~WellFormed \/ failed \/ Padding

\* The inductive invariant.
IInv == Types /\ Uniform /\ Counted /\ Labels

-----------------------------------------------------------------------------
(* The input, and strip_line_ending. *)

\* The sizes of the memory make a maze.
LEMMA MazeIsThere == L!MazeAssumption
BY InputsAssumption DEF L!MazeAssumption

\* A set of numbers that is not empty has a least one.
LEMMA Least ==
  ASSUME NEW T \in SUBSET Nat, T # {}
  PROVE  \E m \in T : \A n \in T : m <= n
BY MazeIsThere, L!LeastNumber

\* The files and texts of a case have their types.
LEMMA CaseTypes ==
  ASSUME Types
  PROVE  /\ input.map \in Seq(Seq(STRING)) /\ input.newline \in BOOLEAN
         /\ input.map # <<>> /\ ~input.newline => input.map[Len(input.map)] # <<>>
         /\ input.moves \in Seq(Seq([word : STRING, number : Texts]))
         /\ input.max_ticks \in Texts /\ input.environment \in [I!Process -> Texts]
BY CasesAssumption DEF Types

\* A sequence that is cut is as it was up to there.
LEMMA Cut ==
  ASSUME NEW S, NEW cells \in Seq(S), NEW n \in 0..Len(cells)
  PROVE  /\ SubSeq(cells, 1, n) \in Seq(S) /\ Len(SubSeq(cells, 1, n)) = n
         /\ \A i \in 1..n : SubSeq(cells, 1, n)[i] = cells[i]
<1>1. SubSeq(cells, 1, n) = [i \in 1..n |-> cells[i]]
  OBVIOUS
<1>2. \A i \in 1..n : cells[i] \in S
  OBVIOUS
<1> QED
  BY <1>1, <1>2

\* Two sequences of one length with the same elements are one.
LEMMA SameSequence ==
  ASSUME NEW S, NEW T, NEW s \in Seq(S), NEW t \in Seq(T), Len(s) = Len(t),
         \A i \in 1..Len(s) : s[i] = t[i]
  PROVE  s = t
OBVIOUS

\* What is left of a line is what comes before the CRs at its end.
LEMMA StripIs ==
  ASSUME NEW S, NEW cells \in Seq(S)
  PROVE  \E m \in 0..Len(cells) :
           /\ strip_line_ending(cells) = SubSeq(cells, 1, m)
           /\ \A i \in m+1..Len(cells) : cells[i] = "CR"
           /\ \A k \in 0..Len(cells) :
                (\A i \in k+1..Len(cells) : cells[i] = "CR") => m <= k
<1> DEFINE kept == {n \in 0..Len(cells) : \A i \in n+1..Len(cells) : cells[i] = "CR"}
           m == CHOOSE n \in kept : \A k \in kept : n <= k
<1>1. Len(cells) \in Nat
  OBVIOUS
<1>2. Len(cells) \in kept
  BY <1>1
<1>3. kept \in SUBSET Nat
  BY <1>1
<1>4. m \in kept /\ \A k \in kept : m <= k
  <2> HIDE DEF kept
  <2>1. \E n \in kept : \A k \in kept : n <= k
    BY <1>2, <1>3, Least
  <2> QED
    BY <2>1
<1>5. strip_line_ending(cells) = SubSeq(cells, 1, m)
  BY DEF strip_line_ending
<1> HIDE DEF m
<1> QED
  BY <1>4, <1>5

\* A stripped line is a line, and no longer than it was.
LEMMA StripTypes ==
  ASSUME NEW S, NEW cells \in Seq(S)
  PROVE  /\ strip_line_ending(cells) \in Seq(S)
         /\ Len(strip_line_ending(cells)) \in 0..Len(cells)
<1>1. PICK m \in 0..Len(cells) : strip_line_ending(cells) = SubSeq(cells, 1, m)
  BY StripIs
<1> QED
  BY <1>1, Cut

\* A line without a CR is kept as it is.
LEMMA StripKeeps ==
  ASSUME NEW S, NEW cells \in Seq(S), "CR" \notin Range(cells)
  PROVE  strip_line_ending(cells) = cells
<1>1. PICK m \in 0..Len(cells) :
        /\ strip_line_ending(cells) = SubSeq(cells, 1, m)
        /\ \A i \in m+1..Len(cells) : cells[i] = "CR"
  BY StripIs
<1>2. Len(cells) \in Nat
  OBVIOUS
<1>3. m = Len(cells)
  <2>1. SUFFICES ASSUME m # Len(cells)
                 PROVE  FALSE
    OBVIOUS
  <2>2. m \in 0..Len(cells)
    BY <1>1
  <2>3. Len(cells) \in m+1..Len(cells) /\ Len(cells) \in 1..Len(cells)
    BY <1>2, <2>1, <2>2
  <2>4. cells[Len(cells)] = "CR"
    BY <1>1, <2>3
  <2>5. DOMAIN cells = 1..Len(cells)
    OBVIOUS
  <2> QED
    BY <2>3, <2>4, <2>5 DEF Range
<1>4. SubSeq(cells, 1, Len(cells)) = cells
  OBVIOUS
<1> QED
  BY <1>1, <1>3, <1>4

\* Of CRs alone nothing is left.
LEMMA StripsAll ==
  ASSUME NEW S, NEW cells \in Seq(S), \A i \in 1..Len(cells) : cells[i] = "CR"
  PROVE  strip_line_ending(cells) = <<>>
<1>1. PICK m \in 0..Len(cells) :
        /\ strip_line_ending(cells) = SubSeq(cells, 1, m)
        /\ \A k \in 0..Len(cells) :
             (\A i \in k+1..Len(cells) : cells[i] = "CR") => m <= k
  BY StripIs
<1>2. 0 \in 0..Len(cells) /\ \A i \in 0+1..Len(cells) : cells[i] = "CR"
  OBVIOUS
<1>3. m <= 0
  BY <1>1, <1>2
<1>4. m = 0
  BY <1>3
<1>5. SubSeq(cells, 1, 0) = <<>>
  OBVIOUS
<1> QED
  BY <1>1, <1>4, <1>5

\* If all that is left of a line is in its first piece, it is what is left of
\* the piece, and the rest is CRs.
LEMMA StripPiece ==
  ASSUME NEW S, NEW cells \in Seq(S), NEW n \in 0..Len(cells),
         Len(strip_line_ending(cells)) <= n
  PROVE  /\ strip_line_ending(SubSeq(cells, 1, n)) = strip_line_ending(cells)
         /\ \A i \in n+1..Len(cells) : cells[i] = "CR"
<1> DEFINE piece == SubSeq(cells, 1, n)
<1>1. PICK m \in 0..Len(cells) :
        /\ strip_line_ending(cells) = SubSeq(cells, 1, m)
        /\ \A i \in m+1..Len(cells) : cells[i] = "CR"
        /\ \A k \in 0..Len(cells) :
             (\A i \in k+1..Len(cells) : cells[i] = "CR") => m <= k
  BY StripIs
<1>2. Len(cells) \in Nat /\ m <= n
  <2>1. Len(SubSeq(cells, 1, m)) = m
    BY Cut
  <2> QED
    BY <1>1, <2>1
<1>3. piece \in Seq(S) /\ Len(piece) = n /\ \A i \in 1..n : piece[i] = cells[i]
  BY Cut
<1> HIDE DEF piece
<1>4. PICK q \in 0..n :
        /\ strip_line_ending(piece) = SubSeq(piece, 1, q)
        /\ \A i \in q+1..n : piece[i] = "CR"
        /\ \A k \in 0..n : (\A i \in k+1..n : piece[i] = "CR") => q <= k
  BY <1>3, StripIs
<1>5. q <= m
  <2>1. m \in 0..n /\ \A i \in m+1..n : piece[i] = "CR"
    BY <1>1, <1>2, <1>3
  <2> QED
    BY <1>4, <2>1
<1>6. m <= q
  <2>1. ASSUME NEW i \in q+1..Len(cells)
        PROVE  cells[i] = "CR"
    <3>1. CASE i <= n
      <4>1. i \in q+1..n /\ i \in 1..n
        BY <1>2, <3>1
      <4> QED
        BY <1>3, <1>4, <4>1
    <3>2. CASE i > n
      BY <1>1, <1>2, <3>2
    <3> QED
      BY <1>2, <3>1, <3>2
  <2>2. q \in 0..Len(cells)
    BY <1>2
  <2> QED
    BY <1>1, <2>1, <2>2
<1>7. SubSeq(piece, 1, m) = SubSeq(cells, 1, m)
  <2>1. m \in 0..n /\ m \in 0..Len(piece)
    BY <1>2, <1>3
  <2>2. SubSeq(piece, 1, m) = [i \in 1..m |-> piece[i]]
    BY <1>3, <2>1
  <2>3. SubSeq(cells, 1, m) = [i \in 1..m |-> cells[i]]
    BY <1>2
  <2>4. \A i \in 1..m : piece[i] = cells[i]
    BY <1>3, <2>1
  <2> QED
    BY <2>2, <2>3, <2>4
<1>8. q = m
  BY <1>2, <1>5, <1>6
<1> QED
  BY <1>1, <1>2, <1>4, <1>7, <1>8 DEF piece

\* The grid is the map, line by line.
LEMMA GridIs ==
  ASSUME Types
  PROVE  /\ Grid \in Seq(Seq(STRING)) /\ Len(Grid) = Len(input.map)
         /\ DOMAIN Grid = 1..Len(input.map)
         /\ \A y \in 1..Len(input.map) :
              Grid[y] = strip_line_ending(input.map[y]) /\ Grid[y] \in Seq(STRING)
<1>1. input.map \in Seq(Seq(STRING))
  BY CaseTypes
<1>2. Len(input.map) \in Nat /\ DOMAIN input.map = 1..Len(input.map)
  BY <1>1
<1>3. \A y \in 1..Len(input.map) : input.map[y] \in Seq(STRING)
  BY <1>1
<1>4. \A y \in 1..Len(input.map) : strip_line_ending(input.map[y]) \in Seq(STRING)
  BY <1>3, StripTypes
<1>5. Grid = [y \in 1..Len(input.map) |-> strip_line_ending(input.map[y])]
  BY <1>2 DEF Grid
<1> QED
  BY <1>2, <1>4, <1>5

-----------------------------------------------------------------------------
(* Reading the map. *)

\* The case, and with it whether it is well formed, does not change.
LEMMA CaseStays ==
  ASSUME input' = input
  PROVE  /\ WellFormed' <=> WellFormed
         /\ Padding' <=> Padding
         /\ Grid' = Grid
<1>1. Grid' = Grid
  BY DEF Grid
<1>2. Padding' <=> Padding
  BY DEF Padding
<1>3. \A letter : Cells(letter)' = Cells(letter)
  BY <1>1 DEF Cells
<1>4. WellFormed' <=> WellFormed
  BY <1>1, <1>3 DEF WellFormed
<1> QED
  BY <1>1, <1>2, <1>4

\* The rows of a well-formed map are all as wide, and fit in the memory.
LEMMA WellFormedRows ==
  ASSUME Types, WellFormed
  PROVE  /\ Len(Grid) \in 1..MaxRows
         /\ \E cols \in 1..MaxCols : \A y \in 1..Len(input.map) : Len(Grid[y]) = cols
BY GridIs DEF WellFormed

\* Before its end the file has a line to read.
LEMMA LineToRead ==
  ASSUME Types, ~AtEnd
  PROVE  next \in 1..Len(input.map)
<1>1. Len(input.map) \in Nat
  BY CaseTypes
<1>2. ~(next > Len(input.map))
  BY DEF AtEnd, Rest
<1> QED
  BY <1>1, <1>2 DEF Types

\* What fgets returns is a piece of the line; a piece that does not end it
\* fills the buffer.
LEMMA Pieces ==
  ASSUME Types, next \in 1..Len(input.map)
  PROVE  LET line == input.map[next]
         IN  /\ line \in Seq(STRING)
             /\ Rest \in Seq(STRING) /\ Len(Rest) = Len(line) - offset
             /\ \A i \in 1..Len(Rest) : Rest[i] = line[i + offset]
             /\ Piece \in Seq(STRING) /\ Len(Piece) <= Len(Rest)
             /\ \A i \in 1..Len(Piece) : Piece[i] = line[i + offset]
             /\ Whole => Piece = Rest
             /\ ~Whole => /\ Len(Rest) >= LineMax
                          /\ Len(Rest) > LineMax \/ HasNewline
                          /\ Piece = SubSeq(Rest, 1, LineMax)
<1> DEFINE line == input.map[next]
<1>1. line \in Seq(STRING) /\ Len(line) \in Nat
  BY CaseTypes
<1>2. offset \in Nat /\ offset <= Len(line)
  BY <1>1 DEF Types
<1>3. Rest = SubSeq(line, offset + 1, Len(line))
  <2>1. ~(next > Len(input.map))
    BY CaseTypes
  <2> QED
    BY <2>1 DEF Rest
<1> HIDE DEF line
<1>4. Rest = [i \in 1..(Len(line) - offset) |-> line[i + offset]]
  BY <1>1, <1>2, <1>3
<1>5. \A i \in 1..(Len(line) - offset) : line[i + offset] \in STRING
  BY <1>1, <1>2
<1>6. /\ Rest \in Seq(STRING) /\ Len(Rest) = Len(line) - offset
      /\ \A i \in 1..Len(Rest) : Rest[i] = line[i + offset]
  BY <1>1, <1>2, <1>4, <1>5
<1>7. LineMax \in Nat
  BY InputsAssumption
<1>8. ASSUME NEW n \in 0..Len(Rest), Piece = SubSeq(Rest, 1, n)
      PROVE  /\ Piece \in Seq(STRING) /\ Len(Piece) <= Len(Rest)
             /\ \A i \in 1..Len(Piece) : Piece[i] = line[i + offset]
  <2>1. Piece \in Seq(STRING) /\ Len(Piece) = n /\ \A i \in 1..n : Piece[i] = Rest[i]
    BY <1>6, <1>8, Cut
  <2> QED
    BY <1>6, <1>8, <2>1
<1>9. CASE Whole
  <2>1. Len(Rest) \in Nat /\ Len(Rest) <= LineMax
    BY <1>6, <1>7, <1>9 DEF Whole
  <2>2. Piece = SubSeq(Rest, 1, Len(Rest))
    BY <1>7, <2>1 DEF Piece
  <2>3. SubSeq(Rest, 1, Len(Rest)) = Rest
    BY <1>6
  <2>4. Len(Rest) \in 0..Len(Rest)
    BY <2>1
  <2> QED
    BY <1>1, <1>6, <1>8, <1>9, <2>2, <2>3, <2>4 DEF line
<1>10. CASE ~Whole
  <2>1. Len(Rest) \in Nat /\ Len(Rest) >= LineMax /\ (Len(Rest) > LineMax \/ HasNewline)
    BY <1>6, <1>7, <1>10 DEF Whole
  <2>2. Piece = SubSeq(Rest, 1, LineMax)
    BY <1>7, <2>1 DEF Piece
  <2>3. LineMax \in 0..Len(Rest)
    BY <1>7, <2>1
  <2> QED
    BY <1>1, <1>6, <1>8, <1>10, <2>1, <2>2, <2>3 DEF line
<1> QED
  BY <1>9, <1>10

\* From the beginning of a line, a round that reads all of it reads a row.
LEMMA WholeRow ==
  ASSUME Types, next \in 1..Len(input.map), offset = 0, Whole
  PROVE  strip_line_ending(Piece) = Grid[next]
<1> DEFINE line == input.map[next]
<1>1. /\ line \in Seq(STRING) /\ Rest \in Seq(STRING) /\ Len(Rest) = Len(line) - 0
      /\ \A i \in 1..Len(Rest) : Rest[i] = line[i + 0]
      /\ Piece = Rest
  BY Pieces
<1>2. Len(line) \in Nat
  BY <1>1
<1> HIDE DEF line
<1>3. Len(Rest) = Len(line) /\ \A i \in 1..Len(Rest) : Rest[i] = line[i]
  BY <1>1, <1>2
<1>4. Rest = line
  BY <1>1, <1>3, SameSequence
<1> QED
  BY <1>1, <1>4, GridIs DEF line

\* From the beginning of a line, a round that does not reach its end finds a
\* row that is too wide, or CRs.
LEMMA LongRow ==
  ASSUME Types, next \in 1..Len(input.map), offset = 0, ~Whole
  PROVE  LET line == input.map[next]
         IN  /\ Len(line) >= LineMax
             /\ Len(line) > LineMax \/ HasNewline
             /\ Padding \/ (~WellFormed /\ Len(strip_line_ending(Piece)) = LineMax)
             /\ WellFormed => \A i \in LineMax+1..Len(line) : line[i] = "CR"
<1> DEFINE line == input.map[next]
<1>1. /\ line \in Seq(STRING) /\ Len(Rest) = Len(line) - 0
      /\ Rest \in Seq(STRING) /\ \A i \in 1..Len(Rest) : Rest[i] = line[i + 0]
      /\ Len(Rest) >= LineMax /\ (Len(Rest) > LineMax \/ HasNewline)
      /\ Piece = SubSeq(Rest, 1, LineMax)
  BY Pieces
<1>2. Len(line) \in Nat /\ LineMax \in Nat /\ MaxCols \in Nat /\ MaxCols + 2 <= LineMax
  BY <1>1, InputsAssumption
<1>3. Grid[next] = strip_line_ending(line)
  BY GridIs
<1>4. Padded(line) => Padding
  <2>1. next \in DOMAIN input.map
    BY CaseTypes
  <2> QED
    BY <2>1 DEF Padding
<1>5. WellFormed => Len(Grid[next]) <= MaxCols
  BY <1>2, WellFormedRows
<1> HIDE DEF line
<1>6. Rest = line
  <2>1. Len(Rest) = Len(line) /\ \A i \in 1..Len(Rest) : Rest[i] = line[i]
    BY <1>1, <1>2
  <2> QED
    BY <1>1, <2>1, SameSequence
<1>7. LineMax \in 0..Len(line) /\ (Len(line) > LineMax \/ HasNewline)
  BY <1>1, <1>2, <1>6
<1>8. WellFormed => \A i \in LineMax+1..Len(line) : line[i] = "CR"
  <2>1. SUFFICES ASSUME WellFormed
                 PROVE  \A i \in LineMax+1..Len(line) : line[i] = "CR"
    OBVIOUS
  <2>2. Len(strip_line_ending(line)) <= LineMax
    <3>1. Len(strip_line_ending(line)) \in 0..Len(line)
      BY <1>1, StripTypes
    <3> QED
      BY <1>2, <1>3, <1>5, <2>1, <3>1
  <2> QED
    BY <1>1, <1>7, <2>2, StripPiece
<1>9. Padding \/ (~WellFormed /\ Len(strip_line_ending(Piece)) = LineMax)
  <2>1. CASE "CR" \in Range(line)
    <3>1. Padded(line)
      BY <1>2, <1>7, <2>1 DEF Padded
    <3> QED
      BY <1>4, <3>1
  <2>2. CASE "CR" \notin Range(line)
    <3>1. strip_line_ending(line) = line
      BY <1>1, <2>2, StripKeeps
    <3>2. ~WellFormed
      BY <1>2, <1>3, <1>5, <1>7, <3>1
    <3>3. /\ Piece \in Seq(STRING) /\ Len(Piece) = LineMax
          /\ \A i \in 1..LineMax : Piece[i] = line[i]
      BY <1>1, <1>6, <1>7, Cut
    <3>4. "CR" \notin Range(Piece)
      <4>1. DOMAIN Piece = 1..LineMax /\ DOMAIN line = 1..Len(line)
        BY <1>1, <3>3
      <4>2. \A i \in 1..LineMax : i \in 1..Len(line)
        BY <1>2, <1>7
      <4> QED
        BY <2>2, <3>3, <4>1, <4>2 DEF Range
    <3>5. strip_line_ending(Piece) = Piece
      BY <3>3, <3>4, StripKeeps
    <3> QED
      BY <3>2, <3>3, <3>5
  <2> QED
    BY <2>1, <2>2
<1> QED
  BY <1>2, <1>7, <1>8, <1>9 DEF line

-----------------------------------------------------------------------------
(* What does not change when the rows and the case do not. *)

\* Where nothing is read and the game does not start, only the verdict counts.
LEMMA ToRefusal ==
  ASSUME input' = input, pc' \in {"free_map", "rejected"}, ~WellFormed \/ failed' \/ Padding
  PROVE  Labels'
BY CaseStays DEF Labels

\* The count of the files does not depend on the map.
LEMMA CountedStays ==
  ASSUME Counted, input' = input, counts' = counts
  PROVE  Counted'
BY DEF Counted

\* The same rows have the same letters and the same width.
LEMMA RowsStay ==
  ASSUME input' = input, map'.cells = map.cells, map'.cols = map.cols
  PROVE  /\ \A letter : Found(letter)' = Found(letter)
         /\ EntitiesValid' <=> EntitiesValid
         /\ Uniform' <=> Uniform
         /\ Read' <=> Read
         /\ MapFits' <=> MapFits
<1>1. \A letter : Found(letter)' = Found(letter)
  BY DEF Found
<1>2. EntitiesValid' <=> EntitiesValid
  BY <1>1 DEF EntitiesValid
<1>3. Uniform' <=> Uniform
  BY DEF Uniform
<1>4. Read' <=> Read
  BY CaseStays DEF Read, Wide
<1>5. MapFits' <=> MapFits
  BY DEF MapFits
<1> QED
  BY <1>1, <1>2, <1>3, <1>4, <1>5

-----------------------------------------------------------------------------
(* The numbers. *)

\* A number within the range of an int is that int.
LEMMA IntKeeps ==
  ASSUME NEW n \in 0..IntMax
  PROVE  to_int(n) = n
<1>1. IntMax \in Nat /\ n \in Nat /\ n <= IntMax
  BY InputsAssumption
<1>2. (n + IntMax + 1) % (2 * (IntMax + 1)) = n + IntMax + 1
  <2>1. /\ n + IntMax + 1 \in 0..(2 * (IntMax + 1))-1
        /\ 2 * (IntMax + 1) \in Nat /\ 2 * (IntMax + 1) > 0
    BY <1>1
  <2> QED
    BY <2>1
<1> QED
  BY <1>1, <1>2 DEF to_int

\* The parsers of main() take the numbers in their range, as the README says.
LEMMA NumbersAgree ==
  ASSUME NEW text \in Texts
  PROVE  /\ parse_max_ticks(text) <=> (Number(text) /\ text.value \in 1..IntMax)
         /\ parse_priority(text) <=> (Number(text) /\ text.value \in 0..I!MAX_PRIORITY)
<1>1. /\ IntMax \in Nat /\ LongMax \in Nat /\ 100 < IntMax /\ IntMax <= LongMax
      /\ text.value \in Int /\ I!MAX_PRIORITY = 100
  BY InputsAssumption DEF Texts, I!MAX_PRIORITY
<1>2. parse_max_ticks(text) <=> (Number(text) /\ text.value \in 1..IntMax)
  BY <1>1 DEF parse_max_ticks, strtol_accepts, Number
<1>3. parse_priority(text) <=> (Number(text) /\ text.value \in 0..I!MAX_PRIORITY)
  BY <1>1 DEF parse_priority, strtol_accepts, Number
<1> QED
  BY <1>2, <1>3

\* Of bare digits, only a number that is too high is refused.
LEMMA DigitsAgree ==
  ASSUME NEW text \in Texts, text.form = "digits"
  PROVE  parse_priority(text) <=> text.value <= 100
<1> DEFINE v == text.value
<1>1. v \in Nat /\ Number(text)
  BY DEF Texts, Number
<1>2. parse_priority(text) <=> v \in 0..100
  BY <1>1, NumbersAgree DEF I!MAX_PRIORITY
<1> HIDE DEF v
<1>3. v \in 0..100 <=> v <= 100
  BY <1>1
<1> QED
  BY <1>2, <1>3 DEF v

\* The environment is refused if and only if the README refuses it.
LEMMA EnvironmentAgrees ==
  ASSUME Types
  PROVE  EnvironmentValid <=>
           \A p \in I!Process :
             input.environment[p].form # "none" =>
               /\ Number(input.environment[p])
               /\ input.environment[p].value \in 0..I!MAX_PRIORITY
<1>1. \A p \in I!Process : input.environment[p] \in Texts
  BY CaseTypes
<1> QED
  BY <1>1, NumbersAgree DEF EnvironmentValid

-----------------------------------------------------------------------------
(* The letters. *)

\* A letter is on finitely many cells, in columns and rows.
LEMMA FoundTypes ==
  ASSUME Types, NEW letter
  PROVE  IsFiniteSet(Found(letter)) /\ Found(letter) \subseteq Nat \X Nat
<1> DEFINE cols == 0..map.cols-1
           rows == 0..Len(map.cells)-1
<1>1. map.cols \in Nat /\ Len(map.cells) \in Nat
  BY DEF Types
<1>2. IsFiniteSet(cols) /\ IsFiniteSet(rows) /\ cols \subseteq Nat /\ rows \subseteq Nat
  <2>1. map.cols-1 \in Int /\ Len(map.cells)-1 \in Int
    BY <1>1
  <2>2. IsFiniteSet(cols) /\ IsFiniteSet(rows)
    BY <2>1, FS_Interval
  <2>3. cols \subseteq Nat /\ rows \subseteq Nat
    BY <1>1
  <2> QED
    BY <2>2, <2>3
<1>3. Found(letter) \subseteq cols \X rows
  BY DEF Found
<1> HIDE DEF cols, rows
<1>4. IsFiniteSet(cols \X rows)
  BY <1>2, FS_Product
<1>5. IsFiniteSet(Found(letter))
  BY <1>3, <1>4, FS_Subset
<1> QED
  BY <1>2, <1>3, <1>5

\* A letter found once has a place.
LEMMA OnePlace ==
  ASSUME Types, NEW letter, Cardinality(Found(letter)) = 1
  PROVE  The(Found(letter)) \in Nat \X Nat /\ Found(letter) = {The(Found(letter))}
<1> DEFINE F == Found(letter)
<1>1. IsFiniteSet(F) /\ F \subseteq Nat \X Nat
  BY FoundTypes
<1> HIDE DEF F
<1>2. PICK at : F = {at}
  BY <1>1, FS_Singleton DEF F
<1>3. The(F) = at
  BY <1>2 DEF The
<1> QED
  BY <1>1, <1>2, <1>3 DEF F

\* If the rows are the grid and fit, the letters are where the file has them.
LEMMA SamePlaces ==
  ASSUME Types, Uniform, map.cells # <<>>, map.cells = Grid, MapFits, NEW letter
  PROVE  Found(letter) = Cells(letter)
<1>1. /\ map.cols \in Nat /\ Len(map.cells) \in Nat
      /\ Len(map.cells) = Len(Grid) /\ Len(Grid) <= MaxRows /\ map.cols <= MaxCols
      /\ \A y \in 1..Len(Grid) : Len(Grid[y]) = map.cols
      /\ MaxRows \in Nat /\ MaxCols \in Nat
  BY InputsAssumption DEF Types, Uniform, MapFits
<1>2. ASSUME NEW at \in Found(letter)
      PROVE  at \in Cells(letter)
  <2>1. /\ at \in (0..map.cols-1) \X (0..Len(Grid)-1) /\ Grid[at[2] + 1][at[1] + 1] = letter
    BY <1>1 DEF Found
  <2>2. at[1] \in 0..map.cols-1 /\ at[2] \in 0..Len(Grid)-1 /\ at = <<at[1], at[2]>>
    BY <2>1
  <2>3. at[2] + 1 \in 1..Len(Grid) /\ at[1] \in 0..MaxCols-1 /\ at[2] \in 0..MaxRows-1
    BY <1>1, <2>2
  <2>4. Len(Grid[at[2] + 1]) = map.cols
    BY <1>1, <2>3
  <2>5. at[2] < Len(Grid) /\ at[1] < Len(Grid[at[2] + 1])
    BY <1>1, <2>2, <2>4
  <2>6. at \in (0..MaxCols-1) \X (0..MaxRows-1)
    BY <2>2, <2>3
  <2> QED
    BY <2>1, <2>5, <2>6 DEF Cells
<1>3. ASSUME NEW at \in Cells(letter)
      PROVE  at \in Found(letter)
  <2>1. /\ at \in (0..MaxCols-1) \X (0..MaxRows-1) /\ Grid[at[2] + 1][at[1] + 1] = letter
        /\ at[2] < Len(Grid) /\ at[1] < Len(Grid[at[2] + 1])
    BY DEF Cells
  <2>2. at[1] \in 0..MaxCols-1 /\ at[2] \in 0..MaxRows-1 /\ at = <<at[1], at[2]>>
    BY <2>1
  <2>3. at[2] + 1 \in 1..Len(Grid)
    BY <1>1, <2>1, <2>2
  <2>4. Len(Grid[at[2] + 1]) = map.cols
    BY <1>1, <2>3
  <2>5. at[1] \in 0..map.cols-1 /\ at[2] \in 0..Len(map.cells)-1
    BY <1>1, <2>1, <2>2, <2>4
  <2>6. at \in (0..map.cols-1) \X (0..Len(map.cells)-1)
    BY <2>2, <2>5
  <2> QED
    BY <2>1, <2>6 DEF Found
<1> QED
  BY <1>2, <1>3

\* A well-formed map fits in the memory.
LEMMA WellFormedFits ==
  ASSUME Types, Uniform, Read, map.cells = Grid, WellFormed
  PROVE  MapFits
<1>1. Len(Grid) \in 1..MaxRows /\ MaxRows \in Nat /\ MaxCols \in Nat
  BY WellFormedRows, InputsAssumption
<1>2. PICK cols \in 1..MaxCols : \A y \in 1..Len(input.map) : Len(Grid[y]) = cols
  BY WellFormedRows
<1>3. Len(Grid) = Len(input.map) /\ Len(Grid[1]) = map.cols
  BY <1>1, GridIs DEF Uniform, Read
<1>4. map.cols = cols
  BY <1>1, <1>2, <1>3
<1> QED
  BY <1>1, <1>2, <1>4 DEF MapFits

\* validate_entities accepts the rows of the file if and only if their letters
\* are as the README wants them.
LEMMA EntitiesAgree ==
  ASSUME Types, Uniform, Read, map.cells = Grid, MapFits
  PROVE  EntitiesValid <=>
           /\ \A y \in DOMAIN Grid :
                Range(Grid[y]) \subseteq {"X", "O", "P"} \cup {Letter[g] : g \in Ghost}
           /\ \A letter \in {"P"} \cup {Letter[g] : g \in Ghost} :
                Cardinality(Cells(letter)) = 1
<1>1. \A letter : Found(letter) = Cells(letter)
  BY SamePlaces DEF Read
<1>2. (/\ Cardinality(Found("P")) = 1
       /\ \A g \in Ghost : Cardinality(Found(Letter[g])) = 1)
      <=> \A letter \in {"P"} \cup {Letter[g] : g \in Ghost} : Cardinality(Cells(letter)) = 1
  BY <1>1
<1>3. (\A row \in DOMAIN map.cells : \A col \in DOMAIN map.cells[row] :
         validate_map_cell(map.cells[row][col]))
      <=> \A y \in DOMAIN Grid :
            Range(Grid[y]) \subseteq {"X", "O", "P"} \cup {Letter[g] : g \in Ghost}
  BY DEF validate_map_cell, Range
<1> QED
  BY <1>2, <1>3 DEF EntitiesValid

-----------------------------------------------------------------------------
(* The steps. *)

\* Before anything is read.
LEMMA InvInit ==
  ASSUME Init
  PROVE  IInv
<1>1. input.map \in Seq(Seq(STRING)) /\ input.moves \in Seq(Seq([word : STRING, number : Texts]))
  BY CasesAssumption DEF Init
<1>2. Len(input.map) \in Nat /\ Len(input.moves) \in Nat
  BY <1>1
<1>3. map.cells = <<>> /\ map.cols = 0
  BY DEF Init, NoMap
<1>4. Types
  <2>1. map \in [cells : Seq(Seq(STRING)), cols : Nat, pacman_start : Nat \X Nat,
                 ghost_starts : [Ghost -> Nat \X Nat]]
    BY DEF Init, NoMap, Nobody
  <2>2. next \in 1..Len(input.map) + 1
    BY <1>2 DEF Init
  <2>3. offset \in Nat /\ ~(offset > 0)
    BY DEF Init
  <2>6. failed \in BOOLEAN
    BY DEF Init
  <2>5. counts \in Seq(Nat)
    BY DEF Init
  <2>4. input \in Cases /\ pc = "arguments"
    BY DEF Init
  <2> QED
    BY <2>1, <2>2, <2>3, <2>4, <2>5, <2>6 DEF Types
<1>5. Uniform
  BY <1>3 DEF Uniform
<1>6. Counted
  BY <1>2 DEF Counted, Init
<1>7. Labels
  BY <1>3 DEF Labels, Init
<1> QED
  BY <1>4, <1>5, <1>6, <1>7 DEF IInv

\* The arguments.
LEMMA ArgumentsStep ==
  ASSUME IInv, RejectsArguments \/ OpenMap
  PROVE  IInv'
<1> USE DEF Goto
<1>1. Types /\ Uniform /\ Counted /\ Labels
  BY DEF IInv
<1>2. /\ pc = "arguments" /\ input' = input /\ map' = map /\ next' = next
      /\ offset' = offset /\ counts' = counts
  BY DEF RejectsArguments, OpenMap
<1>3. Types'
  BY <1>1, <1>2 DEF Types, RejectsArguments, OpenMap
<1>4. Uniform'
  BY <1>1, <1>2, RowsStay
<1>5. Counted'
  BY <1>1, <1>2, CountedStays
<1>6. CASE RejectsArguments
  <2>1. ~WellFormed
    BY <1>1, <1>6, CaseTypes, NumbersAgree DEF RejectsArguments, WellFormed
  <2>2. Labels'
    BY <1>2, <1>6, <2>1, ToRefusal DEF RejectsArguments
  <2> QED
    BY <1>3, <1>4, <1>5, <2>2 DEF IInv
<1>7. CASE OpenMap /\ pc' = "free_map"
  <2>1. failed'
    BY <1>7 DEF OpenMap
  <2>2. Labels'
    BY <1>2, <1>7, <2>1, ToRefusal
  <2> QED
    BY <1>3, <1>4, <1>5, <2>2 DEF IInv
<1>8. CASE OpenMap /\ pc' = "read_map"
  <2>1. parse_max_ticks(input.max_ticks)'
    BY <1>2, <1>8 DEF OpenMap
  <2>2. map.cells = <<>> /\ next = 1 /\ offset = 0
    BY <1>1, <1>2 DEF Labels
  <2>3. Straight'
    BY <1>2, <2>2 DEF Straight
  <2>4. Labels'
    BY <1>8, <2>1, <2>3 DEF Labels, ReadSoFar
  <2> QED
    BY <1>3, <1>4, <1>5, <2>4 DEF IInv
<1> QED
  BY <1>6, <1>7, <1>8 DEF IInv, OpenMap

\* A row that is taken is as wide as those before it.
LEMMA RowTypes ==
  ASSUME Types, Uniform, ReadRow
  PROVE  Types' /\ Uniform'
<1> USE DEF Goto
<1> DEFINE cells == strip_line_ending(Piece)
           M == Len(input.map)
<1>1. next \in 1..M /\ M \in Nat
  BY LineToRead, CaseTypes DEF ReadRow
<1>2. /\ Rest \in Seq(STRING) /\ Len(Rest) = Len(input.map[next]) - offset
      /\ Piece \in Seq(STRING)
      /\ ~Whole => Len(Rest) >= LineMax
      /\ Len(input.map[next]) \in Nat
  BY <1>1, Pieces
<1>3. cells \in Seq(STRING) /\ Len(cells) \in Nat
  BY <1>2, StripTypes
<1>4. /\ input' = input /\ counts' = counts /\ pc = "read_map"
      /\ next' = IF Whole THEN next + 1 ELSE next
      /\ offset' = IF Whole THEN 0 ELSE offset + LineMax
  BY DEF ReadRow
<1>5. next' \in 1..M + 1 /\ offset' \in Nat
      /\ (offset' > 0 => next' <= M /\ offset' <= Len(input.map[next']))
  <2>1. offset \in Nat /\ LineMax \in Nat
    BY InputsAssumption DEF Types
  <2>2. CASE Whole
    BY <1>1, <1>4, <2>2
  <2>3. CASE ~Whole
    <3>1. next' = next /\ offset' = offset + LineMax
      BY <1>4, <2>3
    <3>2. offset + LineMax <= Len(input.map[next])
      BY <1>2, <2>1, <2>3
    <3> QED
      BY <1>1, <2>1, <3>1, <3>2
  <2> QED
    BY <2>2, <2>3
<1> HIDE DEF cells, M
<1>6. CASE validate_row_width(cells) /\ append_row(cells) /\ UNCHANGED <<pc, failed>>
  <2>1. map' = [map EXCEPT !.cells = Append(@, cells), !.cols = Len(cells)]
    BY <1>6 DEF append_row
  <2>2. map.cells \in Seq(Seq(STRING)) /\ Append(map.cells, cells) \in Seq(Seq(STRING))
    BY <1>3 DEF Types
  <2>3. map' \in [cells : Seq(Seq(STRING)), cols : Nat, pacman_start : Nat \X Nat,
                  ghost_starts : [Ghost -> Nat \X Nat]]
    BY <1>3, <2>1, <2>2 DEF Types
  <2>4. map'.cells = Append(map.cells, cells) /\ map'.cols = Len(cells)
    BY <2>1 DEF Types
  <2>5. Types'
    BY <1>4, <1>5, <1>6, <2>3 DEF Types, M
  <2>6. Uniform'
    <3>1. Len(cells) > 0
      BY <1>3, <1>6 DEF validate_row_width
    <3>2. /\ Len(map.cells) \in Nat /\ Len(map'.cells) = Len(map.cells) + 1
          /\ map'.cells[Len(map.cells) + 1] = cells
          /\ \A y \in 1..Len(map.cells) : map'.cells[y] = map.cells[y]
      BY <2>2, <2>4
    <3>3. \A y \in 1..Len(map.cells) : Len(map.cells[y]) = Len(cells)
      <4>1. CASE map.cells = <<>>
        BY <4>1
      <4>2. CASE map.cells # <<>>
        BY <1>6, <4>2 DEF validate_row_width, Uniform
      <4> QED
        BY <4>1, <4>2
    <3>4. \A y \in 1..Len(map'.cells) : Len(map'.cells[y]) = Len(cells)
      BY <3>2, <3>3
    <3> QED
      BY <2>4, <3>1, <3>4 DEF Uniform
  <2> QED
    BY <2>5, <2>6
<1>7. CASE ~validate_row_width(cells) /\ Goto("free_map") /\ UNCHANGED <<map, failed>>
  BY <1>4, <1>5, <1>7, RowsStay DEF Types, M
<1>8. CASE validate_row_width(cells) /\ Goto("free_map") /\ failed' = TRUE
           /\ map' = [map EXCEPT !.cols = Len(cells)]
  <2>1. map' \in [cells : Seq(Seq(STRING)), cols : Nat, pacman_start : Nat \X Nat,
                  ghost_starts : [Ghost -> Nat \X Nat]]
    BY <1>3, <1>8 DEF Types
  <2>2. map'.cells = map.cells /\ map'.cols = Len(cells)
    BY <1>8 DEF Types
  <2>3. map.cells # <<>> => map.cols = Len(cells)
    BY <1>8 DEF validate_row_width
  <2>4. Types'
    BY <1>4, <1>5, <1>8, <2>1 DEF Types, M
  <2>5. Uniform'
    BY <2>2, <2>3 DEF Uniform
  <2> QED
    BY <2>4, <2>5
<1> QED
  BY <1>6, <1>7, <1>8 DEF ReadRow, cells

\* While every line fits, a row that is taken is the next line; the first that
\* does not fit ends this.
LEMMA StraightOn ==
  ASSUME Types, Uniform, Straight, ReadRow, pc' = "read_map"
  PROVE  ReadSoFar'
<1> USE DEF Goto
<1> DEFINE cells == strip_line_ending(Piece)
           line == input.map[next]
<1>1. /\ next \in 1..Len(input.map) /\ offset = 0 /\ Len(map.cells) = next - 1
      /\ \A y \in 1..next-1 : map.cells[y] = Grid[y]
  BY LineToRead DEF ReadRow, Straight
<1>2. /\ input' = input
      /\ next' = IF Whole THEN next + 1 ELSE next
      /\ offset' = IF Whole THEN 0 ELSE offset + LineMax
      /\ validate_row_width(cells) /\ append_row(cells)
  BY DEF ReadRow
<1>3. cells \in Seq(STRING)
  BY <1>1, Pieces, StripTypes
<1>4. /\ map.cells \in Seq(Seq(STRING))
      /\ map'.cells = Append(map.cells, cells) /\ map'.cols = Len(cells)
  BY <1>2 DEF append_row, Types
<1>5. Grid' = Grid /\ (WellFormed' <=> WellFormed) /\ (Padding' <=> Padding)
  BY <1>2, CaseStays
<1>6. next \in Nat /\ LineMax \in Nat /\ MaxCols \in Nat /\ MaxCols + 2 <= LineMax
  BY InputsAssumption DEF Types
<1>7. CASE Whole
  <2>1. cells = Grid[next]
    BY <1>1, <1>7, WholeRow
  <2>2. next' = next + 1 /\ offset' = 0
    BY <1>2, <1>7
  <2> HIDE DEF cells
  <2>3. Len(map'.cells) = next /\ map'.cells[next] = cells
        /\ \A y \in 1..next-1 : map'.cells[y] = map.cells[y]
    BY <1>1, <1>3, <1>4, <1>6
  <2>4. \A y \in 1..next : map'.cells[y] = Grid[y]
    BY <1>1, <1>6, <2>1, <2>3
  <2>5. Straight'
    BY <1>5, <1>6, <2>2, <2>3, <2>4 DEF Straight
  <2> QED
    BY <2>5 DEF ReadSoFar
<1>8. CASE ~Whole
  <2>1. /\ Len(line) >= LineMax /\ (Len(line) > LineMax \/ HasNewline)
        /\ Padding \/ (~WellFormed /\ Len(cells) = LineMax)
        /\ WellFormed => \A i \in LineMax+1..Len(line) : line[i] = "CR"
    BY <1>1, <1>8, LongRow
  <2>2. next' = next /\ offset' = LineMax
    BY <1>1, <1>2, <1>6, <1>8
  <2>3. HasNewline' <=> HasNewline
    BY <1>2, <2>2 DEF HasNewline
  <2> HIDE DEF cells
  <2>4. CASE WellFormed
    <3>1. Padding
      BY <2>1, <2>4
    <3>2. Stuck'
      BY <1>1, <1>2, <2>1, <2>2, <2>3, <2>4 DEF Stuck
    <3> QED
      BY <1>5, <3>1, <3>2 DEF ReadSoFar
  <2>5. CASE ~WellFormed /\ Padding
    BY <1>5, <2>5 DEF ReadSoFar
  <2>6. CASE ~WellFormed /\ Len(cells) = LineMax
    <3>1. map'.cells # <<>>
      BY <1>3, <1>4
    <3>2. map'.cols > MaxCols
      <4>1. map'.cols = LineMax
        BY <1>4, <2>6
      <4> QED
        BY <1>6, <4>1
    <3> QED
      BY <1>5, <2>6, <3>1, <3>2 DEF ReadSoFar, Wide
  <2> QED
    BY <2>1, <2>4, <2>5, <2>6
<1> QED
  BY <1>7, <1>8

\* A row that is refused while every line fits is a mistake in the map, or
\* there are CRs.
LEMMA RefusedRow ==
  ASSUME Types, Uniform, Straight, ~AtEnd, ~validate_row_width(strip_line_ending(Piece))
  PROVE  ~WellFormed \/ Padding
<1>1. /\ next \in 1..Len(input.map) /\ offset = 0 /\ Len(map.cells) = next - 1
      /\ \A y \in 1..next-1 : map.cells[y] = Grid[y]
  BY LineToRead DEF Straight
<1>2. CASE Whole
  <2>1. strip_line_ending(Piece) = Grid[next]
    BY <1>1, <1>2, WholeRow
  <2>2. SUFFICES ASSUME WellFormed
                 PROVE  FALSE
    OBVIOUS
  <2>3. PICK cols \in 1..MaxCols : \A y \in 1..Len(input.map) : Len(Grid[y]) = cols
    BY <2>2, WellFormedRows
  <2>4. Len(Grid[next]) = cols /\ Grid[next] \in Seq(STRING) /\ cols > 0 /\ MaxCols \in Nat
    BY <1>1, <2>3, GridIs, InputsAssumption
  <2>5. Grid[next] # <<>>
    BY <2>4
  <2>6. CASE map.cells = <<>>
    BY <2>1, <2>5, <2>6 DEF validate_row_width
  <2>7. CASE map.cells # <<>>
    <3>1. Len(map.cells) \in Nat /\ Len(map.cells) > 0
      BY <2>7 DEF Types
    <3>2. 1 \in 1..next-1 /\ 1 \in 1..Len(map.cells) /\ 1 \in 1..Len(input.map)
      BY <1>1, <3>1, CaseTypes
    <3>3. map.cols = cols
      BY <1>1, <2>3, <2>7, <3>2 DEF Uniform
    <3> QED
      BY <2>1, <2>4, <2>5, <3>3 DEF validate_row_width
  <2> QED
    BY <2>6, <2>7
<1>3. CASE ~Whole
  BY <1>1, <1>3, LongRow
<1> QED
  BY <1>2, <1>3

\* When only CRs are left of a line, the next round refuses it.
LEMMA StuckIsRefused ==
  ASSUME Types, Stuck
  PROVE  ~AtEnd /\ ~validate_row_width(strip_line_ending(Piece))
<1> DEFINE line == input.map[next]
<1>1. /\ offset = LineMax /\ next \in 1..Len(input.map) /\ LineMax \in Nat
      /\ Len(line) > LineMax \/ HasNewline
      /\ \A i \in LineMax+1..Len(line) : line[i] = "CR"
  BY InputsAssumption DEF Types, Stuck
<1>2. /\ line \in Seq(STRING) /\ Rest \in Seq(STRING) /\ Len(Rest) = Len(line) - offset
      /\ Piece \in Seq(STRING) /\ Len(Piece) <= Len(Rest)
      /\ \A i \in 1..Len(Piece) : Piece[i] = line[i + offset]
  BY <1>1, Pieces
<1>3. Len(line) \in Nat /\ Len(Piece) \in Nat /\ next <= Len(input.map)
  BY <1>1, <1>2
<1> HIDE DEF line
<1>4. ASSUME NEW i \in 1..Len(Piece)
      PROVE  Piece[i] = "CR"
  <2>1. Len(Piece) <= Len(line) - LineMax
    BY <1>1, <1>2
  <2>2. i + LineMax \in LineMax+1..Len(line)
    BY <1>1, <1>3, <2>1
  <2> QED
    BY <1>1, <1>2, <2>2
<1>5. strip_line_ending(Piece) = <<>>
  BY <1>2, <1>4, StripsAll
<1>6. ~AtEnd
  <2>1. Len(line) > LineMax => Rest # <<>>
    BY <1>1, <1>2, <1>3
  <2>2. ~(next > Len(input.map))
    BY <1>1, CaseTypes
  <2> QED
    BY <1>1, <2>1, <2>2 DEF AtEnd
<1> QED
  BY <1>5, <1>6 DEF validate_row_width

\* One round of the loop.
LEMMA ReadRowStep ==
  ASSUME IInv, ReadRow
  PROVE  IInv'
<1> USE DEF Goto
<1> DEFINE cells == strip_line_ending(Piece)
<1>1. Types /\ Uniform /\ Counted /\ Labels
  BY DEF IInv
<1>2. /\ input' = input /\ counts' = counts /\ pc = "read_map" /\ ~AtEnd
      /\ parse_max_ticks(input.max_ticks) /\ ReadSoFar
  BY <1>1 DEF ReadRow, Labels
<1>3. Types' /\ Uniform'
  BY <1>1, RowTypes
<1>4. Counted'
  BY <1>1, <1>2, CountedStays
<1>5. CASE validate_row_width(cells) /\ append_row(cells) /\ UNCHANGED <<pc, failed>>
  <2>1. pc' = "read_map"
    BY <1>2, <1>5
  <2>2. ReadSoFar'
    <3>1. CASE Straight
      BY <1>1, <2>1, <3>1, StraightOn
    <3>2. CASE ~WellFormed /\ Padding
      BY <1>2, <3>2, CaseStays DEF ReadSoFar
    <3>3. CASE ~WellFormed /\ Wide
      <4>1. map'.cells = Append(map.cells, cells) /\ map'.cols = Len(cells)
        BY <1>1, <1>5 DEF append_row, Types
      <4>2. Len(cells) = map.cols
        BY <1>5, <3>3 DEF validate_row_width, Wide
      <4>3. map'.cells # <<>>
        <5>1. map.cells \in Seq(Seq(STRING))
          BY <1>1 DEF Types
        <5>2. cells \in Seq(STRING)
          <6>1. next \in 1..Len(input.map)
            BY <1>1, <1>2, LineToRead
          <6> QED
            BY <1>1, <6>1, Pieces, StripTypes
        <5> HIDE DEF cells
        <5>3. Len(Append(map.cells, cells)) = Len(map.cells) + 1 /\ Len(map.cells) \in Nat
          BY <5>1, <5>2
        <5>4. Append(map.cells, cells) # <<>>
          BY <5>3
        <5> QED
          BY <4>1, <5>4
      <4>4. Wide'
        BY <3>3, <4>1, <4>2, <4>3 DEF Wide
      <4> QED
        BY <1>2, <3>3, <4>4, CaseStays DEF ReadSoFar
    <3>4. CASE Padding /\ Stuck
      BY <1>1, <1>5, <3>4, StuckIsRefused
    <3> QED
      BY <1>2, <3>1, <3>2, <3>3, <3>4 DEF ReadSoFar
  <2>3. parse_max_ticks(input.max_ticks)'
    BY <1>2
  <2>4. Labels'
    BY <2>1, <2>2, <2>3 DEF Labels
  <2> QED
    BY <1>3, <1>4, <2>4 DEF IInv
<1>6. CASE ~validate_row_width(cells) /\ Goto("free_map") /\ UNCHANGED <<map, failed>>
  <2>1. ~WellFormed \/ Padding
    BY <1>1, <1>2, <1>6, RefusedRow DEF ReadSoFar
  <2>2. Labels'
    BY <1>2, <1>6, <2>1, ToRefusal
  <2> QED
    BY <1>3, <1>4, <2>2 DEF IInv
<1>7. CASE Goto("free_map") /\ failed' = TRUE
  <2>1. Labels'
    BY <1>2, <1>7, ToRefusal
  <2> QED
    BY <1>3, <1>4, <2>1 DEF IInv
<1> QED
  BY <1>5, <1>6, <1>7 DEF ReadRow

\* The end of the file is behind its last line.
LEMMA StraightEnd ==
  ASSUME Types, Straight, AtEnd
  PROVE  map.cells = Grid
<1>1. offset = 0 /\ Len(map.cells) = next - 1 /\ \A y \in 1..next-1 : map.cells[y] = Grid[y]
  BY DEF Straight
<1>2. /\ Len(input.map) \in Nat /\ input.map \in Seq(Seq(STRING)) /\ next \in 1..Len(input.map) + 1
      /\ map.cells \in Seq(Seq(STRING))
  BY CaseTypes DEF Types
<1>3. next = Len(input.map) + 1
  <2>1. SUFFICES ASSUME next \in 1..Len(input.map)
                 PROVE  FALSE
    BY <1>2
  <2>2. Rest = <<>> /\ ~(next > Len(input.map)) /\ ~HasNewline
    BY <1>2, <2>1 DEF AtEnd
  <2>3. next = Len(input.map) /\ ~input.newline
    BY <1>2, <2>1, <2>2, CaseTypes DEF HasNewline
  <2>4. Len(Rest) = Len(input.map[next]) - 0 /\ input.map[next] \in Seq(STRING)
    BY <1>1, <2>1, Pieces
  <2>5. input.map[next] = <<>>
    BY <2>2, <2>4
  <2>6. input.map # <<>>
    BY <1>2, <2>1
  <2> QED
    BY <2>3, <2>5, <2>6, CaseTypes
<1>4. Len(map.cells) = Len(Grid) /\ \A y \in 1..Len(map.cells) : map.cells[y] = Grid[y]
  BY <1>1, <1>2, <1>3, GridIs
<1> QED
  BY <1>2, <1>4, GridIs, SameSequence

\* The end of the file, or an error of fgets.
LEMMA EndOfMapStep ==
  ASSUME IInv, EndOfMap
  PROVE  IInv'
<1> USE DEF Goto
<1>1. Types /\ Uniform /\ Counted /\ Labels
  BY DEF IInv
<1>2. /\ pc = "read_map" /\ input' = input /\ map' = map /\ next' = next
      /\ offset' = offset /\ counts' = counts /\ failed' = (failed \/ ~AtEnd)
      /\ pc' = IF AtEnd /\ map.cells # <<>> THEN "validate_entities" ELSE "free_map"
      /\ parse_max_ticks(input.max_ticks) /\ ReadSoFar
  BY <1>1 DEF EndOfMap, Labels
<1>3. Types'
  <2>1. failed' \in BOOLEAN
    BY <1>2
  <2>2. pc' \in {"validate_entities", "free_map"}
    BY <1>2
  <2> QED
    BY <1>1, <1>2, <2>1, <2>2 DEF Types
<1>4. Uniform'
  BY <1>1, <1>2, RowsStay
<1>5. Counted'
  BY <1>1, <1>2, CountedStays
<1>6. CASE ~AtEnd
  <2>1. pc' = "free_map" /\ failed'
    BY <1>2, <1>6
  <2>2. Labels'
    BY <1>2, <2>1, ToRefusal
  <2> QED
    BY <1>3, <1>4, <1>5, <2>2 DEF IInv
<1>7. CASE AtEnd
  <2>1. map.cells = Grid \/ (~WellFormed /\ (Wide \/ Padding))
    BY <1>1, <1>2, <1>7, StraightEnd, StuckIsRefused DEF ReadSoFar
  <2>2. CASE map.cells = <<>>
    <3>1. ~WellFormed
      <4>1. SUFFICES ASSUME WellFormed
                     PROVE  FALSE
        OBVIOUS
      <4>2. Len(Grid) \in 1..MaxRows /\ Grid = <<>>
        BY <1>1, <2>1, <2>2, <4>1, WellFormedRows
      <4>3. Len(Grid) = 0
        BY <4>2
      <4> QED
        BY <4>2, <4>3, InputsAssumption
    <3>2. pc' = "free_map"
      BY <1>2, <2>2
    <3>3. Labels'
      BY <1>2, <3>1, <3>2, ToRefusal
    <3> QED
      BY <1>3, <1>4, <1>5, <3>3 DEF IInv
  <2>3. CASE map.cells # <<>>
    <3>1. pc' = "validate_entities"
      BY <1>2, <1>7, <2>3
    <3>2. Read
      BY <2>1, <2>3 DEF Read
    <3>3. Read'
      BY <1>2, <3>2, RowsStay
    <3>4. parse_max_ticks(input.max_ticks)'
      BY <1>2
    <3>5. Labels'
      BY <3>1, <3>3, <3>4 DEF Labels
    <3> QED
      BY <1>3, <1>4, <1>5, <3>5 DEF IInv
  <2> QED
    BY <2>2, <2>3
<1> QED
  BY <1>6, <1>7

\* The letters of the map.
LEMMA EntitiesStep ==
  ASSUME IInv, validate_entities
  PROVE  IInv'
<1> USE DEF Goto
<1>1. Types /\ Uniform /\ Counted /\ Labels
  BY DEF IInv
<1>2. /\ pc = "validate_entities" /\ input' = input /\ next' = next /\ offset' = offset
      /\ counts' = counts /\ failed' = failed
      /\ Read /\ parse_max_ticks(input.max_ticks)
  BY <1>1 DEF validate_entities, Labels
<1>3. Counted'
  BY <1>1, <1>2, CountedStays
<1>4. CASE ~EntitiesValid /\ pc' = "free_map" /\ map' = map
  <2>1. ~WellFormed \/ Padding
    <3>1. SUFFICES ASSUME WellFormed
                   PROVE  FALSE
      OBVIOUS
    <3>2. map.cells = Grid
      BY <1>2, <3>1 DEF Read
    <3>3. MapFits
      BY <1>1, <1>2, <3>1, <3>2, WellFormedFits
    <3> QED
      BY <1>1, <1>2, <1>4, <3>1, <3>2, <3>3, EntitiesAgree DEF WellFormed
  <2>2. Labels'
    BY <1>2, <1>4, <2>1, ToRefusal
  <2>3. Types'
    BY <1>1, <1>2, <1>4 DEF Types
  <2>4. Uniform'
    BY <1>1, <1>2, <1>4, RowsStay
  <2> QED
    BY <1>3, <2>2, <2>3, <2>4 DEF IInv
<1>5. CASE /\ EntitiesValid
           /\ map' = [map EXCEPT !.pacman_start = The(Found("P")),
                                 !.ghost_starts = [g \in Ghost |-> The(Found(Letter[g]))]]
           /\ pc' = "load_movements"
  <2> DEFINE starts == [g \in Ghost |-> The(Found(Letter[g]))]
  <2>1. The(Found("P")) \in Nat \X Nat
    BY <1>1, <1>5, OnePlace DEF EntitiesValid
  <2>2. \A g \in Ghost : The(Found(Letter[g])) \in Nat \X Nat
    BY <1>1, <1>5, OnePlace DEF EntitiesValid
  <2>3. starts \in [Ghost -> Nat \X Nat]
    BY <2>2
  <2>4. map' = [map EXCEPT !.pacman_start = The(Found("P")), !.ghost_starts = starts]
    BY <1>5
  <2> HIDE DEF starts
  <2>5. /\ map' \in [cells : Seq(Seq(STRING)), cols : Nat, pacman_start : Nat \X Nat,
                     ghost_starts : [Ghost -> Nat \X Nat]]
        /\ map'.cells = map.cells /\ map'.cols = map.cols
        /\ map'.pacman_start = The(Found("P")) /\ map'.ghost_starts = starts
    BY <1>1, <2>1, <2>3, <2>4 DEF Types
  <2>6. Types'
    BY <1>1, <1>2, <1>5, <2>5 DEF Types
  <2>7. /\ \A letter : Found(letter)' = Found(letter)
        /\ EntitiesValid' /\ Uniform' /\ Read'
    BY <1>1, <1>2, <1>5, <2>5, RowsStay
  <2>8. Placed'
    BY <2>5, <2>7 DEF Placed, starts
  <2>9. parse_max_ticks(input.max_ticks)'
    BY <1>2
  <2>10. Labels'
    BY <1>5, <2>7, <2>8, <2>9 DEF Labels
  <2> QED
    BY <1>3, <2>6, <2>7, <2>10 DEF IInv
<1> QED
  BY <1>4, <1>5 DEF validate_entities

\* What has been read and placed stays as it is.
LEMMA PlacedStays ==
  ASSUME Placed, input' = input, map' = map
  PROVE  Placed'
<1>1. (\A letter : Found(letter)' = Found(letter)) /\ EntitiesValid'
  BY RowsStay DEF Placed
<1> QED
  BY <1>1 DEF Placed

\* A file that is refused has a line that the README does not allow.
LEMMA FilesAgree ==
  ASSUME NEW lines \in Seq([word : STRING, number : Texts])
  PROVE  movement_load_file_accepts(lines) <=>
           \A i \in DOMAIN lines :
             LET line == lines[i]
             IN  \/ line.word \in I!Direction
                 \/ line.word = "SET_PRIORITY" /\ line.number.form = "digits"
BY DEF movement_load_file_accepts, is_valid_instruction, I!Direction

\* The movement files.
LEMMA MovementsStep ==
  ASSUME IInv, load_movements
  PROVE  IInv'
<1> USE DEF Goto
<1> DEFINE file == Len(counts) + 1
<1>1. Types /\ Uniform /\ Counted /\ Labels
  BY DEF IInv
<1>2. /\ pc = "load_movements" /\ input' = input /\ map' = map /\ next' = next
      /\ offset' = offset
      /\ Read /\ Placed /\ parse_max_ticks(input.max_ticks)
  BY <1>1 DEF load_movements, Labels
<1>3. Uniform' /\ Read' /\ Placed' /\ parse_max_ticks(input.max_ticks)'
  BY <1>1, <1>2, RowsStay, PlacedStays
<1>4. /\ counts \in Seq(Nat) /\ Len(counts) \in Nat
      /\ Len(input.moves) \in Nat /\ Len(counts) <= Len(input.moves)
  BY <1>1, CaseTypes DEF Types, Counted
<1>5. CASE /\ file <= Len(input.moves)
           /\ movement_load_file_accepts(input.moves[file])
           /\ counts' = Append(counts, Len(input.moves[file]))
           /\ UNCHANGED <<pc, failed>>
  <2>1. file \in 1..Len(input.moves) /\ Len(input.moves[file]) \in Nat
    BY <1>1, <1>4, <1>5, CaseTypes
  <2>2. counts' \in Seq(Nat) /\ Len(counts') = file
        /\ counts'[file] = Len(input.moves[file])
        /\ \A f \in 1..Len(counts) : counts'[f] = counts[f]
    BY <1>4, <1>5, <2>1
  <2>3. Types'
    BY <1>1, <1>2, <1>5, <2>2 DEF Types
  <2>4. \A f \in 1..file :
          movement_load_file_accepts(input.moves[f]) /\ counts'[f] = Len(input.moves[f])
    <3>1. \A f \in 1..file : f = file \/ f \in 1..Len(counts)
      BY <1>4
    <3> HIDE DEF file
    <3> QED
      BY <1>1, <1>5, <2>2, <3>1 DEF Counted
  <2>5. Counted'
    BY <1>2, <1>5, <2>2, <2>4 DEF Counted
  <2>6. Labels'
    BY <1>2, <1>3, <1>5 DEF Labels
  <2> QED
    BY <1>3, <2>3, <2>5, <2>6 DEF IInv
<1>6. CASE /\ file <= Len(input.moves)
           /\ \/ ~movement_load_file_accepts(input.moves[file]) /\ UNCHANGED failed
              \/ CallsMayFail /\ failed' = TRUE
           /\ pc' = "free_map"
           /\ counts' = counts
  <2>1. failed' \/ ~WellFormed
    <3>1. SUFFICES ASSUME ~movement_load_file_accepts(input.moves[file])
                   PROVE  ~WellFormed
      BY <1>6
    <3>2. /\ file \in DOMAIN input.moves
          /\ input.moves[file] \in Seq([word : STRING, number : Texts])
      BY <1>1, <1>4, <1>6, CaseTypes
    <3> HIDE DEF file
    <3> QED
      BY <3>1, <3>2, FilesAgree DEF WellFormed
  <2>2. Labels'
    BY <1>2, <1>6, <2>1, ToRefusal
  <2>3. failed' \in BOOLEAN
    BY <1>1, <1>6 DEF Types
  <2>4. Types'
    BY <1>1, <1>2, <1>6, <2>3 DEF Types
  <2>5. Counted'
    BY <1>1, <1>2, <1>6, CountedStays
  <2> QED
    BY <1>3, <2>2, <2>4, <2>5 DEF IInv
<1>7. CASE file > Len(input.moves) /\ pc' = "initialize" /\ UNCHANGED <<counts, failed>>
  <2>1. Len(counts') = Len(input'.moves)
    BY <1>2, <1>4, <1>7
  <2>2. Types'
    BY <1>1, <1>2, <1>7 DEF Types
  <2>3. Counted'
    BY <1>1, <1>2, <1>7, CountedStays
  <2>4. Labels'
    BY <1>3, <1>7, <2>1 DEF Labels
  <2> QED
    BY <1>3, <2>2, <2>3, <2>4 DEF IInv
<1> QED
  BY <1>5, <1>6, <1>7 DEF load_movements

\* The shared memory.
LEMMA InitializeStep ==
  ASSUME IInv, shared_state_initialize
  PROVE  IInv'
<1> USE DEF Goto
<1>1. Types /\ Uniform /\ Counted /\ Labels
  BY DEF IInv
<1>2. /\ pc = "initialize" /\ input' = input /\ map' = map /\ next' = next
      /\ offset' = offset /\ counts' = counts /\ failed' = failed
      /\ Read /\ Placed /\ parse_max_ticks(input.max_ticks)
      /\ Len(counts) = Len(input.moves)
  BY <1>1 DEF shared_state_initialize, Labels
<1>3. Uniform' /\ Read' /\ Placed' /\ parse_max_ticks(input.max_ticks)' /\ (MapFits' <=> MapFits)
  BY <1>1, <1>2, RowsStay, PlacedStays
<1>4. Counted'
  BY <1>1, <1>2, CountedStays
<1>5. Types'
  BY <1>1, <1>2 DEF Types, shared_state_initialize
<1>6. CASE ~(EnvironmentValid /\ MapFits) /\ pc' = "free_map"
  <2>1. ~WellFormed \/ Padding
    <3>1. SUFFICES ASSUME WellFormed
                   PROVE  FALSE
      OBVIOUS
    <3>2. MapFits
      <4>1. map.cells = Grid
        BY <1>2, <3>1 DEF Read
      <4> QED
        BY <1>1, <1>2, <3>1, <4>1, WellFormedFits
    <3>3. EnvironmentValid
      BY <1>1, <3>1, EnvironmentAgrees DEF WellFormed
    <3> QED
      BY <1>6, <3>2, <3>3
  <2>2. Labels'
    BY <1>2, <1>6, <2>1, ToRefusal
  <2> QED
    BY <1>3, <1>4, <1>5, <2>2 DEF IInv
<1>7. CASE /\ EnvironmentValid /\ MapFits
           /\ shared' = [rows |-> Len(map.cells), cols |-> map.cols,
                         grid |-> map.cells,
                         pacman |-> map.pacman_start, ghosts |-> map.ghost_starts,
                         prioridad |-> [p \in I!Process |-> parse_priority_env(p)],
                         max_ticks |-> to_int(input.max_ticks.value)]
           /\ pc' = "ready"
  <2>1. EnvironmentValid'
    BY <1>2, <1>7 DEF EnvironmentValid
  <2>2. \A p : parse_priority_env(p)' = parse_priority_env(p)
    BY <1>2 DEF parse_priority_env
  <2>3. Written'
    BY <1>2, <1>3, <1>7, <2>1, <2>2 DEF Written
  <2>4. Len(counts') = Len(input'.moves)
    BY <1>2
  <2>5. Labels'
    BY <1>3, <1>7, <2>3, <2>4 DEF Labels
  <2> QED
    BY <1>3, <1>4, <1>5, <2>5 DEF IInv
<1> QED
  BY <1>6, <1>7 DEF shared_state_initialize

\* The way out.
LEMMA FreeStep ==
  ASSUME IInv, map_free
  PROVE  IInv'
<1> USE DEF Goto
<1>1. Types /\ Uniform /\ Counted /\ Labels
  BY DEF IInv
<1>2. /\ pc = "free_map" /\ pc' = "rejected" /\ input' = input /\ next' = next
      /\ offset' = offset /\ counts' = counts /\ failed' = failed
      /\ map' = [map EXCEPT !.cells = <<>>, !.cols = 0]
  BY DEF map_free
<1>3. map' \in [cells : Seq(Seq(STRING)), cols : Nat, pacman_start : Nat \X Nat,
                ghost_starts : [Ghost -> Nat \X Nat]]
  <2>1. <<>> \in Seq(Seq(STRING)) /\ 0 \in Nat
    OBVIOUS
  <2> QED
    BY <1>1, <1>2, <2>1 DEF Types
<1>4. Types'
  BY <1>1, <1>2, <1>3 DEF Types
<1>5. Uniform'
  BY <1>1, <1>2 DEF Types, Uniform
<1>6. Counted'
  BY <1>1, <1>2, CountedStays
<1>7. Labels'
  BY <1>1, <1>2, ToRefusal DEF Labels
<1> QED
  BY <1>4, <1>5, <1>6, <1>7 DEF IInv

\* Nothing changes.
LEMMA StutterStep ==
  ASSUME IInv, UNCHANGED vars
  PROVE  IInv'
<1>1. Types /\ Uniform /\ Counted /\ Labels
  BY DEF IInv
<1>2. /\ pc' = pc /\ input' = input /\ map' = map /\ next' = next /\ offset' = offset
      /\ counts' = counts /\ shared' = shared /\ failed' = failed
  BY DEF vars
<1>3. Types'
  BY <1>1, <1>2 DEF Types
<1>4. Uniform' /\ (Read' <=> Read) /\ (MapFits' <=> MapFits)
  BY <1>1, <1>2, RowsStay
<1>5. Counted'
  BY <1>1, <1>2, CountedStays
<1>6. (WellFormed' <=> WellFormed) /\ (Padding' <=> Padding) /\ Grid' = Grid
  BY <1>2, CaseStays
<1>7. ReadSoFar => ReadSoFar'
  <2>1. (Straight' <=> Straight) /\ (Wide' <=> Wide)
    BY <1>2, <1>6 DEF Straight, Wide
  <2>2. Stuck' <=> Stuck
    BY <1>2 DEF Stuck, HasNewline
  <2> QED
    BY <1>6, <2>1, <2>2 DEF ReadSoFar
<1>8. Placed => Placed'
  BY <1>2, PlacedStays
<1>9. Written => Written'
  <2>1. EnvironmentValid' <=> EnvironmentValid
    BY <1>2 DEF EnvironmentValid
  <2>2. \A p : parse_priority_env(p)' = parse_priority_env(p)
    BY <1>2 DEF parse_priority_env
  <2> QED
    BY <1>2, <1>4, <2>1, <2>2 DEF Written
<1>10. parse_max_ticks(input.max_ticks)' <=> parse_max_ticks(input.max_ticks)
  BY <1>2
<1>11. Labels'
  BY <1>1, <1>2, <1>4, <1>6, <1>7, <1>8, <1>9, <1>10 DEF Labels
<1> QED
  BY <1>3, <1>4, <1>5, <1>11 DEF IInv

\* Every step keeps the inductive invariant.
LEMMA InvStep ==
  ASSUME IInv, [Next]_vars
  PROVE  IInv'
<1>1. CASE RejectsArguments \/ OpenMap
  BY <1>1, ArgumentsStep
<1>2. CASE ReadRow
  BY <1>2, ReadRowStep
<1>3. CASE EndOfMap
  BY <1>3, EndOfMapStep
<1>4. CASE validate_entities
  BY <1>4, EntitiesStep
<1>5. CASE load_movements
  BY <1>5, MovementsStep
<1>6. CASE shared_state_initialize
  BY <1>6, InitializeStep
<1>7. CASE map_free
  BY <1>7, FreeStep
<1>8. CASE UNCHANGED vars
  BY <1>8, StutterStep
<1> QED
  BY <1>1, <1>2, <1>3, <1>4, <1>5, <1>6, <1>7, <1>8 DEF Next, Decided

-----------------------------------------------------------------------------
(* The theorems. *)

\* Where the reading of the input stands, whatever the input and the calls
\* that fail.
THEOREM Invariance == Spec => []IInv
<1>1. Init => IInv
  BY InvInit
<1>2. IInv /\ [Next]_vars => IInv'
  BY InvStep
<1> QED
  BY <1>1, <1>2, PTL DEF Spec

\* What has been read at the end is the grid, if the map is well formed, or if
\* it is accepted without CRs that fill the buffer.
LEMMA ReadyHasGrid ==
  ASSUME IInv, pc = "ready", WellFormed \/ ~Padding
  PROVE  map.cells = Grid
<1>1. Read /\ MapFits
  BY DEF IInv, Labels, Written
<1> QED
  BY <1>1, InputsAssumption DEF Read, Wide, MapFits, IInv, Types

\* What main() accepts is well formed, if no CRs fill the buffer.
LEMMA ReadyIsWellFormed ==
  ASSUME IInv, pc = "ready", ~Padding
  PROVE  WellFormed
<1>1. /\ Types /\ Uniform /\ Counted /\ Read /\ Placed /\ Written
      /\ parse_max_ticks(input.max_ticks) /\ Len(counts) = Len(input.moves)
  BY DEF IInv, Labels
<1>2. map.cells = Grid /\ MapFits /\ EnvironmentValid /\ EntitiesValid
  BY <1>1, ReadyHasGrid DEF Written, Placed
<1>3. Number(input.max_ticks) /\ input.max_ticks.value \in 1..IntMax
  BY <1>1, CaseTypes, NumbersAgree
<1>4. /\ Len(Grid) \in 1..MaxRows
      /\ \E cols \in 1..MaxCols : \A y \in DOMAIN Grid : Len(Grid[y]) = cols
  <2>1. /\ map.cells # <<>> /\ map.cells \in Seq(Seq(STRING)) /\ map.cols \in Nat
        /\ map.cols > 0 /\ \A y \in 1..Len(map.cells) : Len(map.cells[y]) = map.cols
        /\ Len(map.cells) <= MaxRows /\ map.cols <= MaxCols
        /\ MaxRows \in Nat /\ MaxCols \in Nat
    BY <1>1, <1>2, InputsAssumption DEF Types, Read, Uniform, MapFits
  <2>2. Len(map.cells) \in 1..MaxRows /\ map.cols \in 1..MaxCols
        /\ DOMAIN map.cells = 1..Len(map.cells)
    BY <2>1
  <2> QED
    BY <1>2, <2>1, <2>2
<1>5. /\ \A y \in DOMAIN Grid :
           Range(Grid[y]) \subseteq {"X", "O", "P"} \cup {Letter[g] : g \in Ghost}
      /\ \A letter \in {"P"} \cup {Letter[g] : g \in Ghost} : Cardinality(Cells(letter)) = 1
  BY <1>1, <1>2, EntitiesAgree
<1>6. \A f \in DOMAIN input.moves : \A i \in DOMAIN input.moves[f] :
        LET line == input.moves[f][i]
        IN  \/ line.word \in I!Direction
            \/ line.word = "SET_PRIORITY" /\ line.number.form = "digits"
  <2>1. ASSUME NEW f \in DOMAIN input.moves
        PROVE  /\ input.moves[f] \in Seq([word : STRING, number : Texts])
               /\ movement_load_file_accepts(input.moves[f])
    <3>1. f \in 1..Len(counts) /\ input.moves[f] \in Seq([word : STRING, number : Texts])
      BY <1>1, CaseTypes
    <3> QED
      BY <1>1, <3>1 DEF Counted
  <2> QED
    BY <2>1, FilesAgree
<1>7. \A p \in I!Process : LET text == input.environment[p] IN
        text.form # "none" => Number(text) /\ text.value \in 0..I!MAX_PRIORITY
  BY <1>1, <1>2, EnvironmentAgrees
<1> QED
  BY <1>3, <1>4, <1>5, <1>6, <1>7 DEF WellFormed

\* main() starts the game on every well-formed case, and on no other.
THEOREM WellFormedIsAccepted == Spec => []AcceptsWellFormed
<1>1. IInv => AcceptsWellFormed
  <2>1. SUFFICES ASSUME IInv, ~Padding
                 PROVE  /\ pc = "ready" => WellFormed
                        /\ pc = "rejected" => ~WellFormed \/ failed
    BY DEF AcceptsWellFormed, Padding
  <2>2. pc = "ready" => WellFormed
    BY <2>1, ReadyIsWellFormed
  <2>3. pc = "rejected" => ~WellFormed \/ failed
    BY <2>1 DEF IInv, Labels
  <2> QED
    BY <2>2, <2>3
<1> QED
  BY <1>1, Invariance, PTL

\* The game starts from what the files, the environment and the argument say.
THEOREM GameIsAsWritten == Spec => []StartsAsWritten
<1>1. IInv => StartsAsWritten
  <2>1. SUFFICES ASSUME IInv, pc = "ready", WellFormed
                 PROVE  StartsAsWritten
    BY DEF StartsAsWritten
  <2>2. Types /\ Uniform /\ Read /\ Placed /\ Written
    BY <2>1 DEF IInv, Labels
  <2>3. map.cells = Grid /\ map.cells # <<>> /\ MapFits /\ EntitiesValid
    BY <2>1, <2>2, ReadyHasGrid DEF Read, Placed, Written
  <2>4. shared.grid = Grid /\ shared.rows = Len(Grid)
    BY <2>2, <2>3 DEF Written
  <2>5. \A y \in DOMAIN Grid : Len(Grid[y]) = shared.cols
    <3>1. DOMAIN Grid = 1..Len(map.cells) /\ shared.cols = map.cols
      BY <2>2, <2>3, GridIs DEF Written
    <3> QED
      BY <2>2, <2>3, <3>1 DEF Uniform
  <2>6. Cells("P") = {shared.pacman}
    <3>1. shared.pacman = The(Found("P"))
      BY <2>2 DEF Written, Placed
    <3>2. Found("P") = {The(Found("P"))}
      BY <2>2, <2>3, OnePlace DEF EntitiesValid
    <3> QED
      BY <2>2, <2>3, <3>1, <3>2, SamePlaces
  <2>7. ASSUME NEW g \in Ghost
        PROVE  Cells(Letter[g]) = {shared.ghosts[g]}
    <3>1. shared.ghosts[g] = The(Found(Letter[g]))
      BY <2>2 DEF Written, Placed
    <3>2. Found(Letter[g]) = {The(Found(Letter[g]))}
      BY <2>2, <2>3, OnePlace DEF EntitiesValid
    <3> QED
      BY <2>2, <2>3, <3>1, <3>2, SamePlaces
  <2>8. ASSUME NEW p \in I!Process
        PROVE  shared.prioridad[p] =
                 IF input.environment[p].form = "none" THEN Default[p]
                 ELSE input.environment[p].value
    <3>1. shared.prioridad[p] = parse_priority_env(p)
      BY <2>2 DEF Written
    <3>2. CASE input.environment[p].form = "none"
      BY <3>1, <3>2 DEF parse_priority_env
    <3>3. CASE input.environment[p].form # "none"
      <4>1. input.environment[p].value \in 0..100
        BY <2>1, <3>3 DEF WellFormed, I!MAX_PRIORITY
      <4>2. input.environment[p].value \in 0..IntMax
        BY <4>1, InputsAssumption
      <4> QED
        BY <3>1, <3>3, <4>2, IntKeeps DEF parse_priority_env
    <3> QED
      BY <3>2, <3>3
  <2>9. shared.max_ticks = input.max_ticks.value
    <3>1. input.max_ticks.value \in 0..IntMax
      BY <2>1, InputsAssumption DEF WellFormed
    <3> QED
      BY <2>2, <3>1, IntKeeps DEF Written
  <2> QED
    BY <2>4, <2>5, <2>6, <2>7, <2>8, <2>9 DEF StartsAsWritten
<1> QED
  BY <1>1, Invariance, PTL

\* The lines that a file asks for.
Asked(lines) ==
  [i \in DOMAIN lines |-> IF lines[i].word = "SET_PRIORITY"
     THEN I!SetPriority(lines[i].number.value) ELSE I!Move(lines[i].word)]

\* The children queue, of the lines main() has accepted, those they ask for
\* whose priority is in range.
LEMMA ChildrenRead ==
  ASSUME NEW lines \in Seq([word : STRING, number : Texts]),
         movement_load_file_accepts(lines)
  PROVE  Len(Asked(lines)) = Len(lines) /\ Instructions(lines) = I!Parsed(Asked(lines))
<1> DEFINE asked == Asked(lines)
           n == Len(lines)
<1>1. n \in Nat /\ DOMAIN lines = 1..n
  OBVIOUS
<1>2. asked = [i \in 1..n |-> IF lines[i].word = "SET_PRIORITY"
                 THEN I!SetPriority(lines[i].number.value) ELSE I!Move(lines[i].word)]
  BY <1>1 DEF Asked
<1>3. Len(asked) = n
  BY <1>1, <1>2
<1>4. ASSUME NEW i \in 1..n
      PROVE  IF parse_instruction(lines[i]) = I!NoInstruction
               THEN ~I!parse_instruction_accepts(asked[i])
               ELSE /\ I!parse_instruction_accepts(asked[i])
                    /\ parse_instruction(lines[i]) = asked[i]
  <2> DEFINE line == lines[i]
  <2>1. /\ line \in [word : STRING, number : Texts]
        /\ line.word \in I!Direction
             \/ (line.word = "SET_PRIORITY" /\ line.number.form = "digits")
    <3>1. line \in [word : STRING, number : Texts]
      <4> DEFINE S == [word : STRING, number : Texts]
      <4>1. lines \in Seq(S)
        OBVIOUS
      <4> HIDE DEF S
      <4>2. lines[i] \in S
        BY <4>1
      <4> QED
        BY <4>2 DEF S
    <3>2. \A k \in 1..n :
            \/ lines[k].word \in I!Direction
            \/ lines[k].word = "SET_PRIORITY" /\ lines[k].number.form = "digits"
      BY <1>1, FilesAgree
    <3> QED
      BY <3>1, <3>2
  <2>2. asked[i] = IF line.word = "SET_PRIORITY"
                     THEN I!SetPriority(line.number.value) ELSE I!Move(line.word)
    BY <1>2
  <2> HIDE DEF line, asked
  <2>3. CASE line.word \in I!Direction
    <3>1. line.word # "SET_PRIORITY"
      BY <2>3 DEF I!Direction
    <3>2. parse_instruction(line) = I!Move(line.word) /\ asked[i] = I!Move(line.word)
      BY <2>2, <2>3, <3>1 DEF parse_instruction
    <3>3. I!Move(line.word) # I!NoInstruction /\ I!parse_instruction_accepts(I!Move(line.word))
      BY DEF I!Move, I!NoInstruction, I!parse_instruction_accepts
    <3> QED
      BY <3>2, <3>3 DEF line
  <2>4. CASE line.word \notin I!Direction
    <3>1. line.word = "SET_PRIORITY" /\ line.number.form = "digits" /\ line.number \in Texts
      BY <2>1, <2>4
    <3>2. line.number.value \in Nat
      BY <3>1 DEF Texts
    <3>3. asked[i] = I!SetPriority(line.number.value)
      BY <2>2, <3>1
    <3>4. parse_priority(line.number) <=> line.number.value <= 100
      BY <3>1, DigitsAgree
    <3>5. I!parse_instruction_accepts(asked[i]) <=> line.number.value <= 100
      BY <3>3 DEF I!parse_instruction_accepts, I!SetPriority, I!MAX_PRIORITY
    <3>6. CASE line.number.value <= 100
      <4>1. to_int(line.number.value) = line.number.value
        BY <3>2, <3>6, IntKeeps, InputsAssumption
      <4>2. parse_instruction(line) = asked[i]
        BY <2>4, <3>1, <3>3, <3>4, <3>6, <4>1 DEF parse_instruction
      <4>3. asked[i] # I!NoInstruction
        BY <3>3 DEF I!SetPriority, I!NoInstruction
      <4> QED
        BY <3>5, <3>6, <4>2, <4>3 DEF line
    <3>7. CASE ~(line.number.value <= 100)
      <4>1. parse_instruction(line) = I!NoInstruction
        BY <2>4, <3>4, <3>7 DEF parse_instruction
      <4> QED
        BY <3>5, <3>7, <4>1 DEF line
    <3> QED
      BY <3>6, <3>7
  <2> QED
    BY <2>3, <2>4
<1>5. InstructionsUpTo(lines) = I!ParsedUpTo(asked)
  <2>1. ASSUME NEW f
        PROVE  [k \in 0..n |->
                  IF k = 0 THEN <<>>
                    ELSE IF parse_instruction(lines[k]) = I!NoInstruction THEN f[k-1]
                           ELSE Append(f[k-1], parse_instruction(lines[k]))] =
               [k \in 0..n |->
                  IF k = 0 THEN <<>>
                    ELSE IF I!parse_instruction_accepts(asked[k]) THEN Append(f[k-1], asked[k])
                           ELSE f[k-1]]
    <3>1. \A k \in 0..n : k = 0 \/ k \in 1..n
      BY <1>1
    <3> HIDE DEF n, asked
    <3> QED
      BY <1>4, <3>1
  <2> DEFINE Mine(f) ==
        [k \in 0..n |->
           IF k = 0 THEN <<>>
             ELSE IF parse_instruction(lines[k]) = I!NoInstruction THEN f[k-1]
                    ELSE Append(f[k-1], parse_instruction(lines[k]))]
      Theirs(f) ==
        [k \in 0..n |->
           IF k = 0 THEN <<>>
             ELSE IF I!parse_instruction_accepts(asked[k]) THEN Append(f[k-1], asked[k])
                    ELSE f[k-1]]
  <2> HIDE DEF asked
  <2>2. InstructionsUpTo(lines) = CHOOSE f : f = Mine(f)
    BY DEF InstructionsUpTo
  <2>3. I!ParsedUpTo(asked) = CHOOSE f : f = Theirs(f)
    BY <1>3 DEF I!ParsedUpTo
  <2>4. \A f : Mine(f) = Theirs(f)
    BY <2>1
  <2> HIDE DEF Mine, Theirs
  <2>5. (CHOOSE f : f = Mine(f)) = (CHOOSE f : f = Theirs(f))
    BY <2>4
  <2> QED
    BY <2>2, <2>3, <2>5
<1> QED
  BY <1>3, <1>5 DEF Instructions, I!Parsed

\* The children carry out the lines main() has counted.
THEOREM ChildrenReadTheSame == Spec => []ChildrenFollowFiles
<1>1. IInv => ChildrenFollowFiles
  <2>1. SUFFICES ASSUME IInv, pc = "ready", NEW f \in DOMAIN input.moves
                 PROVE  /\ counts[f] = Len(Asked(input.moves[f]))
                        /\ Instructions(input.moves[f]) = I!Parsed(Asked(input.moves[f]))
    BY DEF ChildrenFollowFiles, Asked
  <2>2. Types /\ Counted /\ Len(counts) = Len(input.moves)
    BY <2>1 DEF IInv, Labels
  <2>3. f \in 1..Len(counts) /\ input.moves[f] \in Seq([word : STRING, number : Texts])
    BY <2>2, CaseTypes
  <2>4. movement_load_file_accepts(input.moves[f]) /\ counts[f] = Len(input.moves[f])
    BY <2>2, <2>3 DEF Counted
  <2> QED
    BY <2>3, <2>4, ChildrenRead
<1> QED
  BY <1>1, Invariance, PTL
=============================================================================
