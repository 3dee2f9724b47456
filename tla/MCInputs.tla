------------------------------ MODULE MCInputs ------------------------------
(***************************************************************************)
(* A buffer of four characters, a memory of two rows and columns, and one *)
(* ghost.  The cases vary the map, the movement files or the numbers, with *)
(* the rest in order.                                                      *)
(***************************************************************************)
EXTENDS Inputs

Text(form, value) == [form |-> form, value |-> value]
Blank == Text("none", 0)

Numbers == {Text("digits", n) : n \in {0, 1, 100, 101, IntMax, IntMax + 1, LongMax + 1}}
             \cup {Text("signed", n) : n \in {-LongMax - 2, -1, 5}}
             \cup {Text("spaced", 5), Text("mixed", 5), Blank}

Line(word, number) == [word |-> word, number |-> number]
Lines == {Line(w, Blank) : w \in {"UP", "", "UP DOWN"}}
           \cup {Line("SET_PRIORITY", n) : n \in Numbers}

Strings(S, lengths) == UNION {[1..n -> S] : n \in lengths}

GoodMap == <<<<"X", "P">>, <<"A", "O">>>>
GoodMoves == <<<<Line("UP", Blank)>>, <<Line("SET_PRIORITY", Text("digits", 7))>>>>
GoodTicks == Text("digits", 5)
NoEnvironment == [p \in I!Process |-> Blank]

Case(m, newline, moves, ticks, environment) ==
  [map |-> m, newline |-> newline, moves |-> moves, max_ticks |-> ticks,
   environment |-> environment]

\* Two short lines of any characters; lines longer than the buffer; many rows.
Maps ==
  Strings(Strings({"X", "P", "A", "?", "CR"}, 0..2), 0..2)
    \cup [1..1 -> Strings({"P", "A", "CR"}, 3..6)]
    \cup [1..1 -> [1..8 -> {"P", "A"}]]
    \cup [1..2 -> Strings({"P", "A"}, 2..4)]
    \cup [1..3 -> Strings({"X", "P", "A"}, 1..2)]

\* A last line without a newline is not empty.
MCCases ==
  {Case(m, TRUE, GoodMoves, GoodTicks, NoEnvironment) : m \in Maps}
  \cup {Case(m, FALSE, GoodMoves, GoodTicks, NoEnvironment) :
     m \in {n \in Maps : n # <<>> => n[Len(n)] # <<>>}}
  \cup {Case(GoodMap, TRUE, moves, GoodTicks, NoEnvironment) :
     moves \in [1..2 -> Strings(Lines, 0..1)] \cup [1..1 -> Strings(Lines, {2})]}
  \cup {Case(GoodMap, TRUE, GoodMoves, ticks, environment) :
     ticks \in Numbers, environment \in [I!Process -> Numbers]}
=============================================================================
