----------------------------- MODULE GameRules -----------------------------
(***************************************************************************)
(* The rules of the game, one step per tick and no processes: what the     *)
(* movement files, the maze and the initial priorities allow to happen.    *)
(*                                                                         *)
(* A tick gives one turn to the process with the higher priority, or       *)
(* alternately to equals, after the requests of the previous tick have     *)
(* been applied.  Pac-Man carries out the next line of its file; in an     *)
(* enemy turn every ghost carries out the next line of its own.  A life is *)
(* lost when an enemy turn ends with a ghost on Pac-Man, and only then:    *)
(* Pac-Man may walk onto a ghost, or through it, in its own turn.          *)
(*                                                                         *)
(* The program is nondeterministic in two points: of the requests several  *)
(* ghosts make in one turn the last one written counts, and Pac-Man may    *)
(* once miss its turn while its file is still being read.                  *)
(***************************************************************************)
EXTENDS Instructions

CONSTANTS
  MaxTicks, InitialLives, GhostCount, Priorities,
  Moves, GhostMoves,         \* the lines of the movement files
  PacmanStart, GhostStart    \* the positions the map gives

VARIABLES
  tick, lives,
  pacman, ghosts,      \* positions
  played, spent,       \* lines of Pac-Man carried out, enemy turns granted
  missed,              \* has Pac-Man missed a turn it had a line for?
  prio, asked,         \* priorities, and the requests of the last tick
  tie                  \* who had the last turn disputed between equals

vars == <<tick, lives, pacman, ghosts, played, spent, missed, prio, asked, tie>>

Ghost == 1..GhostCount
NoRequest == -1
Silence == [p \in Process |-> NoRequest]

After(cell, line)  == IF line.type = "MOVE" THEN Moved(cell, line.direction) ELSE cell

Applied == [p \in Process |-> IF asked[p] = NoRequest THEN prio[p] ELSE asked[p]]

Tied == Applied[Pacman] = Applied[Enemy]

Granted(p) ==
  \/ \A q \in Process \ {p} : Applied[p] > Applied[q]
  \/ Tied /\ tie # p

\* The line of ghost g in this enemy turn, if there is one left.
GhostLine(g) ==
  LET all == Parsed(GhostMoves[g])
  IN  IF spent < Len(all) THEN all[spent + 1] ELSE NoInstruction

PacmanPlays ==
  LET all == Parsed(Moves)
  IN  /\ played < Len(all)
      /\ played' = played + 1
      /\ pacman' = After(pacman, all[played + 1])
      /\ asked' = IF all[played + 1].type = "SET_PRIORITY"
                    THEN [Silence EXCEPT ![Pacman] = all[played + 1].priority]
                    ELSE Silence
      /\ UNCHANGED missed

PacmanIdles ==
  /\ \/ played = Len(Parsed(Moves)) /\ UNCHANGED missed
     \/ played < Len(Parsed(Moves)) /\ ~missed /\ missed' = TRUE
  /\ asked' = Silence
  /\ UNCHANGED <<played, pacman>>

PacmanTurn ==
  /\ Granted(Pacman)
  /\ PacmanPlays \/ PacmanIdles
  /\ UNCHANGED <<ghosts, spent, lives>>

GhostsTurn ==
  LET requests == {GhostLine(g).priority : g \in
                     {h \in Ghost : GhostLine(h).type = "SET_PRIORITY"}}
  IN  /\ Granted(Enemy)
      /\ spent' = spent + 1
      /\ ghosts' = [g \in Ghost |-> After(ghosts[g], GhostLine(g))]
      /\ lives' = IF \E g \in Ghost : ghosts'[g] = pacman THEN lives - 1 ELSE lives
      /\ \/ requests = {} /\ asked' = Silence
         \/ \E r \in requests : asked' = [Silence EXCEPT ![Enemy] = r]
      /\ UNCHANGED <<pacman, played, missed>>

Init ==
  /\ tick = 0 /\ lives = InitialLives
  /\ pacman = PacmanStart /\ ghosts = GhostStart
  /\ played = 0 /\ spent = 0 /\ missed = FALSE
  /\ prio \in [Process -> Priorities] /\ asked = Silence
  /\ tie = Enemy

Next ==
  /\ tick < MaxTicks /\ lives > 0
  /\ tick' = tick + 1
  /\ prio' = Applied
  /\ tie' = IF Tied THEN CHOOSE p \in Process : p # tie ELSE tie
  /\ PacmanTurn \/ GhostsTurn

Spec == Init /\ [][Next]_vars
=============================================================================
