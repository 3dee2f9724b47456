------------------------- MODULE InstructionsProofs -------------------------
(***************************************************************************)
(* What the operators of Instructions do for every maze and every file:    *)
(* where a move leads, and what is left of the lines that are parsed.      *)
(***************************************************************************)
EXTENDS Instructions, SequenceTheorems, WellFoundedInduction, TLAPS

-----------------------------------------------------------------------------
(* The maze. *)

\* No cell is away from itself.
LEMMA DistanceToItself ==
  ASSUME MazeAssumption, NEW cell \in Open
  PROVE  Distance(cell, cell) = 0
<1>1. cell[1] \in Int /\ cell[2] \in Int
  BY DEF Open, MazeAssumption
<1> QED
  BY <1>1 DEF Distance, Abs

\* apply_move (pacman.c, enemy.c) leads from an open cell to an open cell, one
\* step away at most.
LEMMA MovedStaysOpen ==
  ASSUME MazeAssumption, NEW cell \in Open, NEW direction \in Direction
  PROVE  /\ Moved(cell, direction) \in Open
         /\ Distance(Moved(cell, direction), cell) <= 1
<1> DEFINE d    == movement_delta(direction)
           next == <<cell[1] + d[1], cell[2] + d[2]>>
<1>1. cell[1] \in Int /\ cell[2] \in Int /\ cell = <<cell[1], cell[2]>>
  BY DEF Open, MazeAssumption
<1>2. d \in {<<0, -1>>, <<0, 1>>, <<-1, 0>>, <<1, 0>>}
  BY DEF movement_delta, Direction
<1>3. next[1] = cell[1] + d[1] /\ next[2] = cell[2] + d[2]
  OBVIOUS
<1>4. Distance(next, cell) = 1
  <2>1. \/ d[1] = 0 /\ d[2] \in {-1, 1}
        \/ d[2] = 0 /\ d[1] \in {-1, 1}
    BY <1>2
  <2> HIDE DEF next, d
  <2> QED
    BY <1>1, <1>3, <2>1 DEF Distance, Abs
<1>5. Distance(cell, cell) = 0
  BY DistanceToItself
<1>6. CASE is_wall_or_out_of_bounds(next)
  <2>1. Moved(cell, direction) = cell
    BY <1>6 DEF Moved
  <2> QED
    BY <1>5, <2>1
<1>7. CASE ~is_wall_or_out_of_bounds(next)
  <2>1. Moved(cell, direction) = next
    BY <1>7 DEF Moved
  <2>2. next \in Open
    BY <1>7 DEF is_wall_or_out_of_bounds, Open
  <2> QED
    BY <1>4, <2>1, <2>2
<1> QED
  BY <1>6, <1>7

-----------------------------------------------------------------------------
(* The parser.  Induction on the number of lines is by the least number    *)
(* for which a statement fails.                                            *)

\* A set of numbers that is not empty has a least one.
LEMMA LeastNumber ==
  ASSUME NEW T \in SUBSET Nat, T # {}
  PROVE  \E m \in T : \A n \in T : m <= n
<1> DEFINE R == {ss \in Nat \X Nat : ss[1] < ss[2]}
<1>1. R = OpToRel(<, Nat)
  BY DEF OpToRel
<1>2. IsWellFoundedOn(R, Nat)
  BY <1>1, NatLessThanWellFounded
<1>3. PICK m \in T : \A n \in T : ~(<<n, m>> \in R)
  <2> HIDE DEF R
  <2> QED
    BY <1>2, WFMin
<1>4. ASSUME NEW n \in T
      PROVE  m <= n
  <2>1. ~(n < m)
    <3>1. <<n, m>> \in Nat \X Nat /\ <<n, m>>[1] = n /\ <<n, m>>[2] = m
      OBVIOUS
    <3> QED
      BY <1>3, <3>1
  <2> QED
    BY <2>1
<1> QED
  BY <1>4

\* Reading one more line appends it, or skips it.
ParsesUpTo(f, file, n) ==
  f = [i \in 0..n |->
         IF i = 0 THEN <<>>
           ELSE IF parse_instruction_accepts(file[i]) THEN Append(f[i-1], file[i])
                  ELSE f[i-1]]

\* The parser is defined for a file of any length.
LEMMA ParserExists ==
  ASSUME NEW file, NEW n \in Nat
  PROVE  \E f : ParsesUpTo(f, file, n)
<1> DEFINE Stuck == {k \in Nat : ~ \E f : ParsesUpTo(f, file, k)}
<1>1. SUFFICES ASSUME Stuck # {}
               PROVE  FALSE
  OBVIOUS
<1>2. PICK k \in Stuck : \A l \in Stuck : k <= l
  <2> HIDE DEF Stuck
  <2>1. Stuck \in SUBSET Nat
    BY DEF Stuck
  <2> QED
    BY <1>1, <2>1, LeastNumber
<1>3. CASE k = 0
  <2> DEFINE f == [i \in 0..0 |-> <<>>]
  <2>1. f = [i \in 0..k |->
               IF i = 0 THEN <<>>
                 ELSE IF parse_instruction_accepts(file[i]) THEN Append(f[i-1], file[i])
                        ELSE f[i-1]]
    BY <1>3
  <2> QED
    BY <2>1 DEF ParsesUpTo
<1>4. CASE k # 0
  <2>1. k - 1 \in Nat /\ k - 1 \notin Stuck
    BY <1>2, <1>4
  <2>2. PICK f : ParsesUpTo(f, file, k - 1)
    BY <2>1
  <2> DEFINE last == IF parse_instruction_accepts(file[k]) THEN Append(f[k-1], file[k])
                       ELSE f[k-1]
             g == [i \in 0..k |-> IF i = k THEN last ELSE f[i]]
  <2>3. ASSUME NEW i \in 0..k
        PROVE  g[i] = IF i = 0 THEN <<>>
                        ELSE IF parse_instruction_accepts(file[i]) THEN Append(g[i-1], file[i])
                               ELSE g[i-1]
    <3>1. CASE i = k
      <4>1. i # 0 /\ g[i] = last /\ g[i-1] = f[i-1]
        BY <1>4, <2>1, <3>1
      <4> QED
        BY <3>1, <4>1
    <3>2. CASE i = 0
      <4>1. g[0] = f[0]
        BY <1>4, <3>2
      <4>2. f[0] = <<>>
        BY <2>1, <2>2 DEF ParsesUpTo
      <4> QED
        BY <3>2, <4>1, <4>2
    <3>3. CASE i # k /\ i # 0
      <4>1. i \in 0..k-1 /\ i-1 \in 0..k
        BY <1>2, <3>3
      <4>2. g[i] = f[i] /\ g[i-1] = f[i-1]
        BY <1>2, <3>3, <4>1
      <4>3. f[i] = IF i = 0 THEN <<>>
                     ELSE IF parse_instruction_accepts(file[i]) THEN Append(f[i-1], file[i])
                            ELSE f[i-1]
        BY <2>2, <4>1 DEF ParsesUpTo
      <4> QED
        BY <4>2, <4>3
    <3> QED
      BY <3>1, <3>2, <3>3
  <2>4. ParsesUpTo(g, file, k)
    <3>1. g = [i \in 0..k |-> g[i]]
      OBVIOUS
    <3> HIDE DEF g
    <3> QED
      BY <2>3, <3>1 DEF ParsesUpTo
  <2> QED
    BY <2>4
<1> QED
  BY <1>3, <1>4

\* What the parser makes of no line, and of one more line.
LEMMA ParsedStep ==
  ASSUME NEW S, NEW file \in Seq(S)
  PROVE  /\ ParsedUpTo(file)[0] = <<>>
         /\ \A n \in 1..Len(file) :
              ParsedUpTo(file)[n] =
                IF parse_instruction_accepts(file[n])
                  THEN Append(ParsedUpTo(file)[n-1], file[n])
                  ELSE ParsedUpTo(file)[n-1]
<1>1. Len(file) \in Nat
  OBVIOUS
<1>2. \E f : ParsesUpTo(f, file, Len(file))
  BY <1>1, ParserExists
<1>3. ParsesUpTo(ParsedUpTo(file), file, Len(file))
  BY <1>2 DEF ParsedUpTo, ParsesUpTo
<1> DEFINE P == ParsedUpTo(file)
<1>4. \A i \in 0..Len(file) :
        P[i] = IF i = 0 THEN <<>>
                 ELSE IF parse_instruction_accepts(file[i]) THEN Append(P[i-1], file[i])
                        ELSE P[i-1]
  <2> HIDE DEF P
  <2>1. ParsesUpTo(P, file, Len(file))
    BY <1>3 DEF P
  <2> QED
    BY <2>1 DEF ParsesUpTo
<1> HIDE DEF P
<1>5. P[0] = <<>>
  BY <1>1, <1>4
<1>6. ASSUME NEW n \in 1..Len(file)
      PROVE  P[n] = IF parse_instruction_accepts(file[n]) THEN Append(P[n-1], file[n])
                      ELSE P[n-1]
  <2>1. n \in 0..Len(file) /\ n # 0
    BY <1>1
  <2> QED
    BY <1>4, <2>1
<1> QED
  BY <1>5, <1>6 DEF P

\* The parser keeps accepted lines only.
LEMMA ParsedLines ==
  ASSUME NEW S, NEW file \in Seq(S)
  PROVE  \A n \in 0..Len(file) :
           ParsedUpTo(file)[n] \in Seq({line \in S : parse_instruction_accepts(line)})
<1> DEFINE P == ParsedUpTo(file)
           A == {line \in S : parse_instruction_accepts(line)}
           Bad == {n \in 0..Len(file) : P[n] \notin Seq(A)}
<1> HIDE DEF P
<1>1. Len(file) \in Nat /\ \A n \in 1..Len(file) : file[n] \in S
  OBVIOUS
<1>2. SUFFICES ASSUME Bad # {}
               PROVE  FALSE
  BY DEF P
<1>3. PICK k \in Bad : \A l \in Bad : k <= l
  <2>1. Bad \in SUBSET Nat
    BY <1>1
  <2> HIDE DEF Bad
  <2> QED
    BY <1>2, <2>1, LeastNumber
<1>4. CASE k = 0
  <2>1. P[0] = <<>>
    BY ParsedStep DEF P
  <2>2. P[k] \notin Seq(A)
    BY <1>3
  <2> HIDE DEF A
  <2> QED
    BY <1>4, <2>1, <2>2
<1>5. CASE k # 0
  <2>1. k \in 1..Len(file) /\ k - 1 \in 0..Len(file)
    BY <1>1, <1>3, <1>5
  <2>2. P[k-1] \in Seq(A)
    BY <1>1, <1>3, <2>1
  <2>3. P[k] = IF parse_instruction_accepts(file[k]) THEN Append(P[k-1], file[k])
                 ELSE P[k-1]
    BY <2>1, ParsedStep DEF P
  <2>4. parse_instruction_accepts(file[k]) => file[k] \in A
    BY <1>1, <2>1
  <2>5. P[k] \notin Seq(A)
    BY <1>3
  <2> HIDE DEF A
  <2> QED
    BY <2>2, <2>3, <2>4, <2>5
<1> QED
  BY <1>4, <1>5

\* A sequence is a prefix of itself, and of what is appended to it.
LEMMA PrefixAppend ==
  ASSUME NEW S, NEW s \in Seq(S), NEW t \in Seq(S), NEW x \in S, IsPrefix(s, t)
  PROVE  IsPrefix(s, Append(t, x))
<1>1. /\ Len(s) \in Nat /\ Len(t) \in Nat /\ Len(s) <= Len(t)
      /\ Len(Append(t, x)) = Len(t) + 1
  BY DEF IsPrefix
<1>2. SubSeq(s, 1, Len(s)) = [i \in 1..Len(s) |-> s[i]]
  BY <1>1
<1>3. SubSeq(t, 1, Len(s)) = [i \in 1..Len(s) |-> t[i]]
  BY <1>1
<1>4. SubSeq(Append(t, x), 1, Len(s)) = [i \in 1..Len(s) |-> Append(t, x)[i]]
  BY <1>1
<1>5. \A i \in 1..Len(s) : Append(t, x)[i] = t[i]
  BY <1>1
<1> QED
  BY <1>1, <1>2, <1>3, <1>4, <1>5 DEF IsPrefix

\* What the parser has queued so far is the beginning of what it will have
\* queued at the end of the file.
LEMMA ParsedGrows ==
  ASSUME NEW S, NEW file \in Seq(S), NEW n \in 0..Len(file)
  PROVE  IsPrefix(ParsedUpTo(file)[n], Parsed(file))
<1> DEFINE P == ParsedUpTo(file)
           A == {line \in S : parse_instruction_accepts(line)}
           Bad == {m \in n..Len(file) : ~IsPrefix(P[n], P[m])}
<1>1. /\ \A m \in 0..Len(file) : P[m] \in Seq(A)
      /\ \A m \in 1..Len(file) :
           P[m] = IF parse_instruction_accepts(file[m]) THEN Append(P[m-1], file[m])
                    ELSE P[m-1]
  BY ParsedLines, ParsedStep
<1> HIDE DEF P
<1>2. Len(file) \in Nat /\ n \in Nat /\ \A m \in 1..Len(file) : file[m] \in S
  OBVIOUS
<1>3. Bad = {}
  <2>1. SUFFICES ASSUME Bad # {}
                 PROVE  FALSE
    OBVIOUS
  <2>2. PICK k \in Bad : \A l \in Bad : k <= l
    <3>1. Bad \in SUBSET Nat
      BY <1>2
    <3> HIDE DEF Bad
    <3> QED
      BY <2>1, <3>1, LeastNumber
  <2>3. CASE k = n
    BY <2>2, <2>3 DEF IsPrefix
  <2>4. CASE k # n
    <3>1. k \in 1..Len(file) /\ k - 1 \in n..Len(file) /\ k - 1 \in 0..Len(file)
      BY <1>2, <2>2, <2>4
    <3>2. IsPrefix(P[n], P[k-1])
      BY <1>2, <2>2, <3>1
    <3>3. P[n] \in Seq(A) /\ P[k-1] \in Seq(A)
      BY <1>1, <3>1
    <3>4. CASE parse_instruction_accepts(file[k])
      <4>1. P[k] = Append(P[k-1], file[k]) /\ file[k] \in A
        BY <1>1, <1>2, <3>1, <3>4
      <4>2. IsPrefix(P[n], P[k])
        <5> HIDE DEF A
        <5> QED
          BY <3>2, <3>3, <4>1, PrefixAppend
      <4> QED
        BY <2>2, <4>2
    <3>5. CASE ~parse_instruction_accepts(file[k])
      BY <1>1, <2>2, <3>1, <3>2, <3>5
    <3> QED
      BY <3>4, <3>5
  <2> QED
    BY <2>3, <2>4
<1>4. Len(file) \in n..Len(file)
  BY <1>2
<1> QED
  BY <1>3, <1>4 DEF P, Parsed

-----------------------------------------------------------------------------
(* The queue between the reader and the executor: e is what has been       *)
(* carried out, q what is queued.                                          *)

\* Pushing appends to the whole.
LEMMA PushAppends ==
  ASSUME NEW S, NEW e \in Seq(S), NEW q \in Seq(S), NEW x \in S
  PROVE  e \o Append(q, x) = Append(e \o q, x)
BY AppendIsConcat, ConcatAssociative, ConcatProperties

\* Popping takes the head in hand.
LEMMA PopKeeps ==
  ASSUME NEW S, NEW e \in Seq(S), NEW q \in Seq(S), q # <<>>
  PROVE  /\ Head(q) \in S /\ Tail(q) \in Seq(S)
         /\ e \o <<>> \o q = e \o <<Head(q)>> \o Tail(q)
<1>1. Head(q) \in S /\ Tail(q) \in Seq(S)
  BY HeadTailProperties
<1>2. q = <<Head(q)>> \o Tail(q)
  BY <1>1
<1>3. <<Head(q)>> \in Seq(S)
  BY <1>1
<1>4. e \o (<<Head(q)>> \o Tail(q)) = (e \o <<Head(q)>>) \o Tail(q)
  BY <1>1, <1>3, ConcatAssociative
<1>5. e \o <<>> = e
  BY ConcatEmptySeq
<1> QED
  BY <1>1, <1>2, <1>4, <1>5

\* Carrying out what is in hand appends it.
LEMMA CarryKeeps ==
  ASSUME NEW S, NEW e \in Seq(S), NEW q \in Seq(S), NEW x \in S
  PROVE  e \o <<x>> \o q = Append(e, x) \o <<>> \o q
<1>1. Append(e, x) = e \o <<x>> /\ Append(e, x) \in Seq(S)
  BY AppendIsConcat
<1>2. Append(e, x) \o <<>> = Append(e, x)
  BY <1>1, ConcatEmptySeq
<1> QED
  BY <1>1, <1>2
=============================================================================
