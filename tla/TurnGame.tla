------------------------------ MODULE TurnGame ------------------------------
(***************************************************************************)
(* What P0 promises, with no threads, flags or semaphores: a game of       *)
(* ticks.  Each tick grants exactly one turn, to the process that wants it *)
(* most, or alternately between equals; the request a process makes in its *)
(* turn counts from the next tick on; a collision found in an enemy turn   *)
(* costs one life before the next tick begins; the game is over after the  *)
(* last life or the last tick.                                             *)
(***************************************************************************)
EXTENDS Integers

CONSTANTS MaxTicks, InitialLives, Priorities,
          MayAbort    \* may the program give up at any moment?

VARIABLES
  tick, lives, over,
  phase,     \* settled -> open -> granted -> answered -> settled
  holder,    \* who has the turn, when phase = "granted"
  tie,       \* who was granted the last turn disputed between equals
  wants,     \* the priority each process has asked for
  hit        \* has this turn found a collision that is still to be paid?

vars == <<tick, lives, over, phase, holder, tie, wants, hit>>

Process == {"pacman", "enemy"}
Rival(p) == IF p = "pacman" THEN "enemy" ELSE "pacman"

Init ==
  /\ tick = 0 /\ lives = InitialLives /\ over = FALSE
  /\ phase = "settled" /\ holder = "none" /\ tie = "enemy"
  /\ wants \in [Process -> Priorities]
  /\ hit = FALSE

Begin ==
  /\ phase = "settled" /\ ~over /\ tick < MaxTicks
  /\ tick' = tick + 1
  /\ phase' = "open"
  /\ UNCHANGED <<lives, over, holder, tie, wants, hit>>

LastTick ==
  /\ phase = "settled" /\ ~over /\ tick = MaxTicks
  /\ over' = TRUE
  /\ UNCHANGED <<tick, lives, phase, holder, tie, wants, hit>>

Grant(p) ==
  /\ phase = "open" /\ ~over
  /\ \/ wants[p] > wants[Rival(p)] /\ UNCHANGED tie
     \/ wants[p] = wants[Rival(p)] /\ tie = Rival(p) /\ tie' = p
  /\ phase' = "granted"
  /\ holder' = p
  /\ UNCHANGED <<tick, lives, over, wants, hit>>

Request(p, priority) ==
  /\ phase = "granted" /\ holder = p /\ ~over
  /\ wants' = [wants EXCEPT ![p] = priority]
  /\ UNCHANGED <<tick, lives, over, phase, holder, tie, hit>>

Hit ==
  /\ phase = "granted" /\ holder = "enemy" /\ ~over
  /\ hit' = TRUE
  /\ UNCHANGED <<tick, lives, over, phase, holder, tie, wants>>

Answer ==
  /\ phase = "granted" /\ ~over
  /\ phase' = "answered"
  /\ holder' = "none"
  /\ UNCHANGED <<tick, lives, over, tie, wants, hit>>

Charge ==
  /\ phase = "answered" /\ hit
  /\ hit' = FALSE
  /\ lives' = lives - 1
  /\ over' = (over \/ lives' = 0)
  /\ UNCHANGED <<tick, phase, holder, tie, wants>>

Close ==
  /\ phase = "answered" /\ ~hit
  /\ phase' = "settled"
  /\ UNCHANGED <<tick, lives, over, holder, tie, wants, hit>>

Abort ==
  /\ MayAbort
  /\ over' = TRUE
  /\ UNCHANGED <<tick, lives, phase, holder, tie, wants, hit>>

Advance == Begin \/ LastTick \/ (\E p \in Process : Grant(p)) \/ Answer
             \/ Charge \/ Close

Next ==
  \/ Advance
  \/ \E p \in Process, priority \in Priorities : Request(p, priority)
  \/ Hit
  \/ Abort

Spec == Init /\ [][Next]_vars

\* The game goes on until it is over.
FairSpec == Spec /\ WF_vars(Advance /\ ~over)
=============================================================================
