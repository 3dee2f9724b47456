--------------------------- MODULE GameRulesProofs ---------------------------
(***************************************************************************)
(* The program plays by the rules: every step of it is one tick of         *)
(* GameRules, when P0 closes a tick, or none, for every maze, every set of *)
(* files and every number of ticks, ghosts and lives.                      *)
(*                                                                         *)
(* The invariant says what the program has changed since the last tick was *)
(* closed: the priorities (Requests), Pac-Man (PacmanPart), the ghosts     *)
(* (GhostsPart) and the lives (Lives).                                     *)
(***************************************************************************)
EXTENDS PacmanPosixProofs

-----------------------------------------------------------------------------
(* The inductive invariant. *)

\* A process has been chosen, and its turn is not posted yet.
Choosing ==
  \/ pc["scheduler"] = "publish"
  \/ "selection_ready" \in flags
  \/ pc["signal"] = "post"

\* The process chosen for the tick.
Choice ==
  IF pc["scheduler"] = "publish" THEN choice
  ELSE IF "selection_ready" \in flags THEN selected_process ELSE dispatched

\* The mailboxes.
Asked == [p \in Process |-> IF p \in request_active THEN pending_priority[p]
                              ELSE Rules!NoRequest]

\* The requests are applied once, and the choice is made with what they leave.
Requests ==
  /\ ~Choosing /\ ~Posted /\ pc["scheduler"] # "select" =>
       prioridad = settled.prio /\ last_round_robin = settled.tie /\ Asked = settled.asked
  /\ pc["scheduler"] = "select" =>
       prioridad = Rules!Applied /\ last_round_robin = settled.tie
  /\ Choosing \/ Posted =>
       /\ prioridad = Rules!Applied /\ Rules!Granted(Choice)
       /\ last_round_robin = IF Rules!Tied THEN Other(settled.tie) ELSE settled.tie
  /\ Choosing \/ pc["scheduler"] = "select" => request_active = {}
  /\ settled.tie \in Process

\* The turn of the tick is of P1, or of P2.
PacmanPlays == Posted /\ dispatched = Pacman
EnemyPlays  == Posted /\ dispatched = Enemy

\* P1 has not come to the end of the turn it was granted.
PacmanUndone ==
  /\ Awaiting /\ dispatched = Pacman
  /\ sem_turn[Pacman] > 0 \/ p1_pc["executor"] \in {"read_over"} \cup G1!Playing

\* The next line of Pac-Man's file.
HasLine  == settled.played < Len(Rules!Parsed(Moves))
NextLine == Rules!Parsed(Moves)[settled.played + 1]

\* P1 has carried it out ...
Played ==
  /\ HasLine /\ Len(executed) = settled.played + 1
  /\ local_at = Rules!After(settled.pacman, NextLine)
  /\ Asked = IF NextLine.type = "SET_PRIORITY"
               THEN [Rules!Silence EXCEPT ![Pacman] = NextLine.priority]
               ELSE Rules!Silence

\* ... or has given the turn up, for the first time or for want of lines.
GivenUp ==
  /\ local_at = settled.pacman /\ Len(executed) = settled.played
  /\ request_active = {}
  /\ reader_done /\ (settled.missed => ~HasLine)

\* Pac-Man carries out one line in its turn, and publishes where it is.
PacmanPart ==
  /\ ~PacmanPlays => pacman_at = settled.pacman
  /\ ~PacmanPlays \/ PacmanUndone =>
       local_at = settled.pacman /\ Len(executed) = settled.played
  /\ PacmanUndone => request_active = {}
  /\ PacmanPlays /\ ~PacmanUndone => Played \/ GivenUp
  /\ PacmanPlays /\ ~Awaiting => pacman_at = local_at
  /\ settled.played \in Nat

\* Once Pac-Man has missed a turn its file has been read to the end, and the
\* queue holds what is left of it.
ReadToTheEnd ==
  /\ settled.missed \in BOOLEAN
  /\ settled.missed => reader_done
  /\ settled.missed /\ p1_pc["executor"] = "check" => queue = <<>>
  /\ reader_done => p1_pc["reader"] \in {"done_post", "done"}
  /\ p1_pc["reader"] \in {"mark_done", "done_post", "done"} => next_line = Len(Moves) + 1
  /\ p1_should_stop => p1_pc["executor"] \in {"stop_post", "stop_publish", "done"}

\* A ghost on Pac-Man costs a life, in a turn of the ghosts.
Met == \E g \in P2!Ghost : ghost_at[g] = pacman_at

Lives ==
  /\ settled.lives \in Nat
  /\ ~game_over => pacman_lives > 0
  /\ TickOpen => settled.lives > 0
  /\ pc["collision"] \notin {"read_over", "report"} => pacman_lives = settled.lives
  /\ pc["collision"] \in {"read_over", "report"} =>
       pacman_lives = IF dispatched = Enemy /\ Met THEN settled.lives - 1 ELSE settled.lives
  /\ pc["collision"] = "charge" => dispatched = Enemy /\ Met

\* Ghost g has yet to play in the turn that is out.
Yet(g) == Awaiting /\ G2!Pending(g)

\* The ghosts that have played have carried out their lines ...
GhostsMoved ==
  \A g \in P2!Ghost :
    ghost_at[g] = IF Yet(g) THEN settled.ghosts[g]
                    ELSE Rules!After(settled.ghosts[g], Rules!GhostLine(g))

\* ... and the mailbox holds what one of them has asked for, if any has.
Asks(g) == ~Yet(g) /\ Rules!GhostLine(g).type = "SET_PRIORITY"

GhostsAsk ==
  \/ request_active = {} /\ \A g \in P2!Ghost : ~Asks(g)
  \/ /\ request_active = {Enemy}
     /\ \E g \in P2!Ghost : Asks(g) /\ pending_priority[Enemy] = Rules!GhostLine(g).priority

GhostsPart ==
  /\ ~EnemyPlays => ghost_at = settled.ghosts
  /\ EnemyPlays => GhostsMoved /\ GhostsAsk

\* The inductive invariant.
RulesInv == IInv /\ Requests /\ PacmanPart /\ ReadToTheEnd /\ Lives /\ GhostsPart

-----------------------------------------------------------------------------
(* The words of the rules and of the program mean the same. *)

LEMMA RuleNames ==
  /\ Rules!Process = Process /\ Rules!Pacman = Pacman /\ Rules!Enemy = Enemy
  /\ Rules!Ghost = P2!Ghost /\ P2!Ghost = 1..GhostCount /\ G2!Ghost = P2!Ghost
  /\ Rules!NoRequest = -1 /\ Pacman # Enemy /\ Process = {Pacman, Enemy}
BY Names DEF Rules!Process, Rules!Pacman, Rules!Enemy, Rules!Ghost, Rules!NoRequest, Process,
             Pacman, Enemy

\* The parser of the rules is that of P1 and that of P2.
LEMMA RuleParser ==
  ASSUME NEW file
  PROVE  Rules!Parsed(file) = G1!Parsed(file) /\ Rules!Parsed(file) = G2!Parsed(file)
BY DEF Rules!Parsed, Rules!ParsedUpTo, Rules!parse_instruction_accepts, Rules!MAX_PRIORITY,
       G1!Parsed, G1!ParsedUpTo, G1!parse_instruction_accepts, G1!MAX_PRIORITY,
       G2!Parsed, G2!ParsedUpTo, G2!parse_instruction_accepts, G2!MAX_PRIORITY

\* And so is the way a move leads.
LEMMA RuleMoves ==
  ASSUME NEW cell, NEW direction
  PROVE  /\ Rules!Moved(cell, direction) = P1!Moved(cell, direction)
         /\ Rules!Moved(cell, direction) = P2!Moved(cell, direction)
BY DEF Rules!Moved, Rules!movement_delta, Rules!is_wall_or_out_of_bounds,
       P1!Moved, P1!movement_delta, P1!is_wall_or_out_of_bounds,
       P2!Moved, P2!movement_delta, P2!is_wall_or_out_of_bounds

-----------------------------------------------------------------------------
(* What a step leaves alone. *)

\* The step is not one of the choice.
SameChoice ==
  /\ UNCHANGED <<prioridad, last_round_robin, request_active, pending_priority, settled>>
  /\ Choosing' => Choosing
  /\ (Choosing \/ Posted)' <=> Choosing \/ Posted
  /\ pc'["scheduler"] = "select" <=> pc["scheduler"] = "select"
  /\ Choosing \/ Posted => Choice' = Choice

\* It is not one of the turn, as far as process p goes.
SameTurn(p) ==
  /\ UNCHANGED settled
  /\ Posted' <=> Posted
  /\ Awaiting' <=> Awaiting
  /\ Posted => dispatched' = dispatched
  /\ Posted /\ dispatched = p => UNCHANGED <<request_active, pending_priority>>
  /\ Awaiting /\ dispatched = p => sem_turn'[p] = sem_turn[p]

LEMMA RequestsRest ==
  ASSUME Requests, SameChoice
  PROVE  Requests'
<1>1. Asked' = Asked
  BY DEF SameChoice, Asked
<1>2. Rules!Applied' = Rules!Applied
  BY DEF SameChoice, Rules!Applied
<1>3. /\ UNCHANGED <<prioridad, last_round_robin, settled, request_active>>
      /\ Choosing' => Choosing
      /\ (Choosing' \/ Posted') <=> (Choosing \/ Posted)
      /\ pc'["scheduler"] = "select" <=> pc["scheduler"] = "select"
  BY DEF SameChoice
<1>4. Choosing \/ Posted =>
        /\ prioridad = Rules!Applied /\ Rules!Granted(Choice)
        /\ last_round_robin = IF Rules!Tied THEN Other(settled.tie) ELSE settled.tie
  BY DEF Requests
<1>5. Choosing' \/ Posted' =>
        /\ prioridad' = Rules!Applied' /\ Rules!Granted(Choice)'
        /\ last_round_robin' = IF Rules!Tied' THEN Other(settled.tie)' ELSE settled.tie'
  <2>1. Choosing \/ Posted => Choice' = Choice
    BY DEF SameChoice
  <2> QED
    BY <1>2, <1>3, <1>4, <2>1 DEF Rules!Granted, Rules!Tied, Other
<1>6. /\ Choosing' \/ pc'["scheduler"] = "select" => request_active' = {}
      /\ settled.tie' \in Process
      /\ pc'["scheduler"] = "select" =>
           prioridad' = Rules!Applied' /\ last_round_robin' = settled.tie'
      /\ ~Choosing' /\ ~Posted' /\ pc'["scheduler"] # "select" =>
           /\ prioridad' = settled.prio' /\ last_round_robin' = settled.tie'
           /\ Asked' = settled.asked'
  BY <1>1, <1>2, <1>3 DEF Requests
<1> QED
  BY <1>5, <1>6 DEF Requests

LEMMA PacmanRests ==
  ASSUME PacmanPart, SameTurn(Pacman), UNCHANGED <<pacman_at, p1_private>>
  PROVE  PacmanPart'
<1>1. UNCHANGED <<local_at, executed, reader_done, p1_pc, settled>>
  BY DEF SameTurn, p1_private
<1>2. Awaiting => Posted
  BY DEF Posted
<1>3. (PacmanPlays' <=> PacmanPlays) /\ (PacmanUndone' <=> PacmanUndone)
  BY <1>1, <1>2 DEF SameTurn, PacmanPlays, PacmanUndone
<1>4. PacmanPlays => Asked' = Asked /\ request_active' = request_active
  BY DEF SameTurn, PacmanPlays, Asked
<1>5. UNCHANGED <<HasLine, NextLine>>
  BY <1>1 DEF HasLine, NextLine
<1>6. /\ PacmanPlays /\ Played => Played'
      /\ PacmanPlays /\ GivenUp => GivenUp'
  BY <1>1, <1>4, <1>5 DEF Played, GivenUp, Rules!After, Rules!Silence
<1>7. PacmanUndone => PacmanPlays
  BY <1>2 DEF PacmanUndone, PacmanPlays
<1> QED
  BY <1>1, <1>3, <1>4, <1>6, <1>7 DEF PacmanPart, SameTurn

LEMMA GhostsRest ==
  ASSUME GhostsPart, SameTurn(Enemy),
         UNCHANGED <<ghost_at, p2_pc, ghost_pc, next_ghost, turn_requested>>
  PROVE  GhostsPart'
<1>1. EnemyPlays' <=> EnemyPlays
  BY DEF SameTurn, EnemyPlays
<1>2. ASSUME EnemyPlays, NEW g \in P2!Ghost
      PROVE  Yet(g)' <=> Yet(g)
  BY <1>2, Names DEF SameTurn, EnemyPlays, Yet, G2!Pending
<1>3. ASSUME NEW g \in P2!Ghost
      PROVE  Rules!GhostLine(g)' = Rules!GhostLine(g)
  BY DEF SameTurn, Rules!GhostLine
<1>4. EnemyPlays => (GhostsMoved' <=> GhostsMoved)
  BY <1>2, <1>3 DEF SameTurn, GhostsMoved, Rules!After
<1>5. EnemyPlays => (GhostsAsk' <=> GhostsAsk)
  BY <1>2, <1>3 DEF SameTurn, EnemyPlays, GhostsAsk, Asks
<1> QED
  BY <1>1, <1>4, <1>5 DEF GhostsPart, SameTurn

-----------------------------------------------------------------------------
(* The steps of P0. *)

\* Before the tick is opened, and from the answer on, P0 does nothing that the
\* choice or the turn depends on; nor does its main thread.
LEMMA QuietSteps ==
  ASSUME IInv, Record,
         \/ TickThread \/ SchedulerAwaitsTick
         \/ SignalCompletes \/ CollisionAwaitsTurn \/ ConsumeCollision
         \/ decrement_life_for_collision \/ read_game_over
         \/ MainThread
  PROVE  SameChoice /\ SameTurn(Pacman) /\ SameTurn(Enemy)
<1>1. /\ pc \in [Thread -> G0!ThreadLabel] /\ Thread = {"tick", "scheduler", "signal", "collision"}
      /\ G0!IInv /\ NoError
  BY SharedMemory DEF Thread, IInv
<1> USE DEF SameChoice, SameTurn, Choosing, Choice, Record, CollisionCloses, Awaiting, Unconsumed,
            Posted, Running, Goto, AwaitFlag, clock_vars, priority_vars, semaphore_vars,
            local_vars, thread_vars, memory_vars, main_vars
<1>2. CASE TickAdvance
  BY <1>1, <1>2 DEF TickAdvance
<1>3. CASE TickEnds
  BY <1>1, <1>3 DEF TickEnds
<1>4. CASE TickStops
  BY <1>1, <1>4 DEF TickStops
<1>5. CASE TickOpens
  <2>1. "selection_ready" \notin flags /\ "turn_done" \notin flags
    BY <1>1, <1>5, Baton DEF TickOpens, Works, Carried
  <2> QED
    BY <1>1, <1>5, <2>1 DEF TickOpens
<1>6. CASE TickCloses
  BY <1>1, <1>6 DEF TickCloses
<1>7. CASE SchedulerAwaitsTick
  BY <1>1, <1>7 DEF SchedulerAwaitsTick
<1>8. CASE SignalCompletes
  BY <1>1, <1>8 DEF SignalCompletes
<1>9. CASE CollisionAwaitsTurn
  BY <1>1, <1>9 DEF CollisionAwaitsTurn
<1>10. CASE ConsumeCollision
  BY <1>1, <1>10 DEF ConsumeCollision
<1>11. CASE decrement_life_for_collision
  BY <1>1, <1>11 DEF decrement_life_for_collision
<1>12. CASE read_game_over
  BY <1>1, <1>12 DEF read_game_over
<1>13. CASE runtime_init \/ set_game_over \/ WaitChildren \/ JoinThreads
  BY <1>1, <1>13 DEF runtime_init, set_game_over, WaitChildren, JoinThreads
<1>14. CASE CancelThreads
  BY <1>1, <1>14, AtEnd DEF CancelThreads, NoError
<1>15. CASE CreateThread
  <2>1. /\ pc[CreationOrder[created + 1]] = "unborn" /\ CreationOrder[created + 1] \in Thread
    <3>1. created \in 0..3
      BY <1>1, <1>15 DEF CreateThread, G0!IInv, G0!TypeOK, G0!LocalTypes, G0!Creation, G0!ThreadCount
    <3>2. /\ created < 1 => pc["tick"] = "unborn"
          /\ created < 2 => pc["scheduler"] = "unborn"
          /\ created < 3 => pc["signal"] = "unborn"
          /\ created < 4 => pc["collision"] = "unborn"
      BY <1>1 DEF G0!IInv, G0!Creation
    <3>3. /\ CreationOrder[1] = "tick" /\ CreationOrder[2] = "scheduler"
          /\ CreationOrder[3] = "signal" /\ CreationOrder[4] = "collision"
      BY DEF CreationOrder
    <3>4. created = 0 \/ created = 1 \/ created = 2 \/ created = 3
      BY <3>1
    <3> QED
      BY <1>1, <3>2, <3>3, <3>4
  <2> QED
    BY <1>1, <1>15, <2>1 DEF CreateThread, StartLabel
<1>16. CASE PostPacmanShutdown \/ PostEnemyShutdown
  <2>1. pc["signal"] # "await_done"
    BY <1>1, <1>16, AtEnd DEF PostPacmanShutdown, PostEnemyShutdown, NoError, G0!BeforeShutdown
  <2> QED
    BY <1>1, <1>16, <2>1 DEF PostPacmanShutdown, PostEnemyShutdown
<1> QED
  BY <1>2, <1>3, <1>4, <1>5, <1>6, <1>7, <1>8, <1>9, <1>10, <1>11, <1>12, <1>13, <1>14, <1>15,
     <1>16 DEF TickThread, MainThread

\* The choice is handed over from one thread to the next until the turn is posted.
LEMMA HandOver ==
  ASSUME IInv, Record, SchedulerPublishes \/ SignalAwaitsSelection
  PROVE  SameChoice /\ SameTurn(Pacman) /\ SameTurn(Enemy)
<1>1. /\ pc \in [Thread -> G0!ThreadLabel] /\ Thread = {"tick", "scheduler", "signal", "collision"}
      /\ G0!IInv /\ NoError
  BY SharedMemory DEF Thread, IInv
<1> USE DEF SameChoice, SameTurn, Choosing, Choice, Record, CollisionCloses, Awaiting, Unconsumed,
            Posted, Running, Goto, AwaitFlag, clock_vars, priority_vars, semaphore_vars,
            local_vars, thread_vars, memory_vars, main_vars
<1>2. CASE SchedulerPublishes
  BY <1>1, <1>2 DEF SchedulerPublishes
<1>3. CASE SignalAwaitsSelection
  <2>1. CASE pc'["signal"] = "post"
    <3>1. "selection_ready" \in flags
      BY <1>1, <1>3, <2>1 DEF SignalAwaitsSelection
    <3>2. /\ \A t \in Thread : ~Works(t)
          /\ "turn_done" \notin flags
      BY <1>1, <3>1, Baton DEF Carried
    <3> QED
      BY <1>1, <1>3, <2>1, <3>1, <3>2 DEF SignalAwaitsSelection, Works
  <2>2. CASE pc'["signal"] # "post"
    BY <1>1, <1>3, <2>2 DEF SignalAwaitsSelection
  <2> QED
    BY <2>1, <2>2
<1> QED
  BY <1>2, <1>3

\* And the answer is taken.
LEMMA AnswerTaken ==
  ASSUME IInv, Record, WaitDone
  PROVE  /\ SameChoice /\ Posted /\ Posted' /\ Awaiting /\ ~Awaiting'
         /\ UNCHANGED <<dispatched, settled, request_active, pending_priority>>
         /\ sem_done[dispatched] > 0
<1>1. /\ pc \in [Thread -> G0!ThreadLabel] /\ Thread = {"tick", "scheduler", "signal", "collision"}
  BY SharedMemory DEF Thread, IInv
<1> QED
  BY <1>1 DEF WaitDone, SameChoice, Choosing, Choice, Record, CollisionCloses, Awaiting, Unconsumed,
              Posted, Running, Goto, clock_vars, priority_vars, semaphore_vars, local_vars,
              thread_vars, memory_vars, main_vars

\* The requests are applied: the mailboxes are what the last tick has left in them.
LEMMA Applies ==
  ASSUME IInv, Requests, Record, scheduler_apply_priority_requests
  PROVE  Requests' /\ SameTurn(Pacman) /\ SameTurn(Enemy)
<1>1. /\ pc \in [Thread -> G0!ThreadLabel] /\ Thread = {"tick", "scheduler", "signal", "collision"}
      /\ G0!IInv /\ NoError
  BY SharedMemory DEF Thread, IInv
<1>2. flags \cap Carried = {} /\ \A u \in Thread : u # "scheduler" => ~Works(u)
  <2>1. Works("scheduler") /\ "scheduler" \in Thread
    BY <1>1 DEF scheduler_apply_priority_requests, Running, Works
  <2> QED
    BY <1>1, <2>1, Alone
<1>3. /\ pc["scheduler"] = "apply" /\ pc' = [pc EXCEPT !["scheduler"] = "select"]
      /\ UNCHANGED <<flags, dispatched, last_round_robin, selected_process, pending_priority,
                     sem_turn>>
      /\ request_active' = {}
      /\ prioridad' = [p \in Process |->
           IF p \in request_active /\ is_priority_in_range(pending_priority[p])
             THEN pending_priority[p] ELSE prioridad[p]]
  BY DEF scheduler_apply_priority_requests, Running, Goto, semaphore_vars, memory_vars, local_vars
<1>4. ~Choosing /\ ~Posted /\ ~Awaiting
  BY <1>1, <1>2, <1>3 DEF Choosing, Posted, Awaiting, Unconsumed, Works, Carried
<1>5. ~Choosing' /\ ~Posted' /\ ~Awaiting' /\ pc'["scheduler"] = "select"
  BY <1>1, <1>2, <1>3 DEF Choosing, Posted, Awaiting, Unconsumed, Works, Carried
<1>6. settled' = settled
  BY <1>1, <1>3 DEF Record, CollisionCloses
<1>7. prioridad' = Rules!Applied'
  <2>1. prioridad = settled.prio /\ Asked = settled.asked
    BY <1>3, <1>4 DEF Requests
  <2>2. Rules!Applied' = [p \in Process |-> IF Asked[p] = -1 THEN prioridad[p] ELSE Asked[p]]
    BY <1>6, <2>1, RuleNames DEF Rules!Applied
  <2>3. ASSUME NEW p \in Process
        PROVE  (IF p \in request_active /\ is_priority_in_range(pending_priority[p])
                  THEN pending_priority[p] ELSE prioridad[p])
               = IF Asked[p] = -1 THEN prioridad[p] ELSE Asked[p]
    <3>1. pending_priority[p] \in 0..100
      BY <1>1, SharedMemory, Assumptions
    <3>2. is_priority_in_range(pending_priority[p]) /\ pending_priority[p] # -1
      BY <3>1 DEF is_priority_in_range, MIN_PRIORITY, MAX_PRIORITY
    <3>3. Asked[p] = IF p \in request_active THEN pending_priority[p] ELSE -1
      BY RuleNames DEF Asked
    <3> QED
      BY <3>2, <3>3
  <2> QED
    BY <1>3, <2>2, <2>3
<1>8. last_round_robin' = settled'.tie /\ settled'.tie \in Process
  BY <1>3, <1>4, <1>6 DEF Requests
<1> QED
  BY <1>3, <1>4, <1>5, <1>6, <1>7, <1>8 DEF Requests, SameTurn

\* The choice is the one the rules make.
LEMMA Selects ==
  ASSUME IInv, Requests, Record, scheduler_select_next_process
  PROVE  Requests' /\ SameTurn(Pacman) /\ SameTurn(Enemy)
<1>1. /\ pc \in [Thread -> G0!ThreadLabel] /\ Thread = {"tick", "scheduler", "signal", "collision"}
      /\ G0!IInv /\ NoError
  BY SharedMemory DEF Thread, IInv
<1>2. flags \cap Carried = {} /\ \A u \in Thread : u # "scheduler" => ~Works(u)
  <2>1. Works("scheduler") /\ "scheduler" \in Thread
    BY <1>1 DEF scheduler_select_next_process, Running, Works
  <2> QED
    BY <1>1, <2>1, Alone
<1>3. /\ pc["scheduler"] = "select" /\ pc' = [pc EXCEPT !["scheduler"] = "publish"]
      /\ UNCHANGED <<flags, dispatched, selected_process, pending_priority, sem_turn, prioridad,
                     request_active>>
      /\ choice' = Preferred
      /\ last_round_robin' = IF prioridad[Pacman] = prioridad[Enemy]
                               THEN Preferred ELSE last_round_robin
  BY DEF scheduler_select_next_process, Running, Goto, semaphore_vars, priority_vars
<1>4. ~Choosing /\ ~Posted /\ ~Awaiting
  BY <1>1, <1>2, <1>3 DEF Choosing, Posted, Awaiting, Unconsumed, Works, Carried
<1>5. /\ ~Posted' /\ ~Awaiting' /\ Choosing' /\ pc'["scheduler"] # "select"
      /\ Choice' = Preferred
  BY <1>1, <1>2, <1>3 DEF Choosing, Choice, Posted, Awaiting, Unconsumed, Works, Carried
<1>6. settled' = settled
  BY <1>1, <1>3 DEF Record, CollisionCloses
<1>7. /\ prioridad = Rules!Applied /\ last_round_robin = settled.tie /\ request_active = {}
      /\ settled.tie \in Process
  BY <1>3 DEF Requests
<1>8. Rules!Applied' = prioridad
  BY <1>6, <1>7 DEF Rules!Applied
<1>9. prioridad[Pacman] \in Int /\ prioridad[Enemy] \in Int
  <2>1. prioridad \in [Process -> Priorities] /\ Priorities \subseteq Int
    BY <1>1, Assumptions, Names DEF G0!IInv, G0!TypeOK, G0!SharedTypes
  <2> QED
    BY <2>1, Names
<1>10. Rules!Tied' <=> prioridad[Pacman] = prioridad[Enemy]
  BY <1>8, RuleNames DEF Rules!Tied
<1>11. last_round_robin' = IF Rules!Tied' THEN Other(settled'.tie) ELSE settled'.tie
  <2>1. prioridad[Pacman] = prioridad[Enemy] => Preferred = Other(last_round_robin)
    BY <1>9 DEF Preferred
  <2> QED
    BY <1>3, <1>6, <1>7, <1>10, <2>1
<1>12. ASSUME NEW p, p = Preferred
       PROVE  Rules!Granted(p)'
  <2>1. CASE prioridad[Pacman] > prioridad[Enemy]
    <3>1. p = Pacman /\ \A q \in Rules!Process \ {Pacman} : q = Enemy
      BY <1>12, <2>1, RuleNames DEF Preferred
    <3> QED
      BY <1>3, <1>8, <2>1, <3>1, RuleNames DEF Rules!Granted
  <2>2. CASE prioridad[Enemy] > prioridad[Pacman]
    <3>1. p = Enemy /\ \A q \in Rules!Process \ {Enemy} : q = Pacman
      BY <1>9, <1>12, <2>2, RuleNames DEF Preferred
    <3> QED
      BY <1>3, <1>8, <2>2, <3>1, RuleNames DEF Rules!Granted
  <2>3. CASE prioridad[Enemy] = prioridad[Pacman]
    <3>1. p = Other(settled.tie)
      BY <1>7, <1>9, <1>12, <2>3 DEF Preferred
    <3>2. Other(settled.tie) # settled.tie
      BY <1>7, RuleNames DEF Other
    <3> QED
      BY <1>3, <1>6, <1>10, <2>3, <3>1, <3>2 DEF Rules!Granted
  <2> QED
    BY <1>9, <2>1, <2>2, <2>3
<1>13. Rules!Granted(Choice)'
  BY <1>5, <1>12 DEF Rules!Granted
<1> QED
  BY <1>3, <1>4, <1>5, <1>6, <1>7, <1>8, <1>11, <1>13 DEF Requests, SameTurn, Other

\* The turn is posted, and nobody has begun to play it.
LEMMA Posts ==
  ASSUME IInv, Requests, PacmanPart, GhostsPart, Record, PostTurn,
         UNCHANGED <<pacman_at, p1_private, p2_private>>
  PROVE  Requests' /\ PacmanPart' /\ GhostsPart' /\ settled' = settled
<1>1. /\ pc \in [Thread -> G0!ThreadLabel] /\ Thread = {"tick", "scheduler", "signal", "collision"}
      /\ G0!IInv /\ NoError
  BY SharedMemory DEF Thread, IInv
<1>2. flags \cap Carried = {} /\ \A u \in Thread : u # "signal" => ~Works(u)
  <2>1. Works("signal") /\ "signal" \in Thread
    BY <1>1 DEF PostTurn, Running, Works
  <2> QED
    BY <1>1, <2>1, Alone
<1>3. /\ pc["signal"] = "post" /\ pc' = [pc EXCEPT !["signal"] = "await_done"]
      /\ UNCHANGED <<flags, dispatched, last_round_robin, selected_process, pending_priority,
                     prioridad, request_active, choice>>
      /\ sem_turn' = [sem_turn EXCEPT ![dispatched] = @ + 1]
      /\ request_active = {}
  BY <1>1, NoRequest
     DEF PostTurn, Running, Goto, priority_vars, memory_vars, local_vars, thread_vars
<1>4. ~Posted /\ ~Awaiting /\ Choosing /\ Choice = dispatched
  BY <1>1, <1>2, <1>3
     DEF Choosing, Choice, Posted, Awaiting, Unconsumed, Works, Carried
<1>5. Posted' /\ Awaiting' /\ ~Choosing' /\ Choice' = dispatched
  BY <1>1, <1>2, <1>3
     DEF Choosing, Choice, Posted, Awaiting, Unconsumed, Works, Carried
<1>6. settled' = settled
  BY <1>1, <1>3 DEF Record, CollisionCloses
<1>7. Requests'
  <2>1. SameChoice
    BY <1>1, <1>3, <1>4, <1>5, <1>6 DEF SameChoice
  <2> QED
    BY <2>1, RequestsRest
<1>8. sem_turn'[dispatched] > 0
  <2>1. sem_turn \in [Process -> Nat] /\ dispatched \in Process
    BY <1>1, SharedMemory
  <2>2. sem_turn[dispatched] \in Nat /\ sem_turn'[dispatched] = sem_turn[dispatched] + 1
    BY <1>3, <2>1
  <2> QED
    BY <2>2
<1>9. PacmanPart'
  <2>1. ~PacmanPlays
    BY <1>4 DEF PacmanPlays
  <2>2. PacmanPlays' => PacmanUndone'
    BY <1>3, <1>5, <1>8 DEF PacmanPlays, PacmanUndone
  <2>3. UNCHANGED <<local_at, executed>>
    BY DEF p1_private
  <2> QED
    BY <1>3, <1>5, <1>6, <2>1, <2>2, <2>3 DEF PacmanPart
<1>10. GhostsPart'
  <2>1. ghost_at = settled.ghosts
    BY <1>4 DEF GhostsPart, EnemyPlays
  <2>2. EnemyPlays' => \A g \in P2!Ghost : Yet(g)'
    BY <1>3, <1>5, <1>8, Names DEF EnemyPlays, Yet, G2!Pending
  <2>3. EnemyPlays' => GhostsMoved' /\ GhostsAsk'
    BY <1>3, <1>6, <2>1, <2>2 DEF GhostsMoved, GhostsAsk, Asks, p2_private
  <2> QED
    BY <1>6, <2>1, <2>3 DEF GhostsPart, p2_private
<1> QED
  BY <1>6, <1>7, <1>9, <1>10

\* The answer is taken when the turn has been played.
LEMMA Takes ==
  ASSUME IInv, Requests, PacmanPart, GhostsPart, Record, WaitDone,
         UNCHANGED <<pacman_at, p1_private, p2_private>>
  PROVE  Requests' /\ PacmanPart' /\ GhostsPart' /\ settled' = settled
<1>1. /\ pc \in [Thread -> G0!ThreadLabel] /\ Thread = {"tick", "scheduler", "signal", "collision"}
      /\ G0!IInv /\ NoError /\ dispatched \in Process
  BY SharedMemory DEF Thread, IInv
<1>2. /\ SameChoice /\ Posted /\ Posted' /\ Awaiting /\ ~Awaiting'
      /\ UNCHANGED <<dispatched, settled, request_active, pending_priority>>
      /\ sem_done[dispatched] > 0
  BY AnswerTaken
<1>3. ~Unconsumed /\ ~game_over /\ G0!BeforeShutdown
  <2>1. Works("signal") /\ "signal" \in Thread
    BY <1>1, <1>2 DEF Awaiting, Works
  <2>2. ~Works("collision") /\ flags \cap Carried = {} /\ G0!BeforeShutdown
    BY <1>1, <2>1, Alone
  <2> QED
    BY <1>2, <2>2 DEF Unconsumed, Awaiting, Carried, Works, IInv, Quiet
<1>4. Requests'
  BY <1>2, RequestsRest
<1>5. Asked' = Asked
  BY <1>2 DEF Asked
<1>6. dispatched = Pacman => pacman_at = local_at /\ ~PacmanUndone
  <2>1. SUFFICES ASSUME dispatched = Pacman
                 PROVE  pacman_at = local_at /\ ~PacmanUndone
    OBVIOUS
  <2>2. P0SeenByPacman = "waiting" /\ sem_done[Pacman] > 0
    BY <1>2, <1>3, <2>1, SeenInGame
  <2>3. /\ pacman_at = local_at /\ sem_turn[Pacman] = 0
        /\ p1_pc["executor"] \notin G1!Playing \cup {"read_over", "publish"}
    BY <2>2, G1!Answer, Assumptions, Names DEF IInv
  <2> QED
    BY <2>3 DEF PacmanUndone
<1>7. PacmanPart'
  <2>1. (PacmanPlays' <=> PacmanPlays) /\ ~PacmanUndone'
    BY <1>2 DEF PacmanPlays, PacmanUndone
  <2>2. UNCHANGED <<local_at, executed, reader_done, settled, pacman_at>>
    BY <1>2 DEF p1_private
  <2>3. PacmanPlays => dispatched = Pacman
    BY DEF PacmanPlays
  <2>4. (Played => Played') /\ (GivenUp => GivenUp')
    BY <1>2, <1>5, <2>2
       DEF Played, GivenUp, HasLine, NextLine, Rules!After, Rules!Silence
  <2> QED
    BY <1>2, <1>6, <2>1, <2>2, <2>3, <2>4 DEF PacmanPart
<1>8. GhostsPart'
  <2>1. EnemyPlays' <=> EnemyPlays
    BY <1>2 DEF EnemyPlays
  <2>2. EnemyPlays => \A g \in P2!Ghost : ~Yet(g) /\ ~Yet(g)'
    <3>1. SUFFICES ASSUME EnemyPlays
                   PROVE  \A g \in P2!Ghost : ~Yet(g)
      BY <1>2 DEF Yet
    <3>2. P0SeenByEnemy = "waiting" /\ sem_done[Enemy] > 0 /\ AnswersSeen = sem_done
      BY <1>2, <1>3, <3>1, SeenInGame DEF EnemyPlays, AnswersSeen
    <3>3. G2!Answered
      BY <3>2, Names DEF G2!Answered
    <3> QED
      BY <3>3, G2!AnsweredIsDone, Assumptions, Names DEF IInv, Yet
  <2>3. UNCHANGED <<ghost_at, settled, request_active, pending_priority>>
    BY <1>2 DEF p2_private
  <2>4. EnemyPlays /\ GhostsMoved => GhostsMoved'
    BY <2>2, <2>3 DEF GhostsMoved, Rules!After, Rules!GhostLine
  <2>5. EnemyPlays /\ GhostsAsk => GhostsAsk'
    BY <2>2, <2>3 DEF GhostsAsk, Asks, Rules!GhostLine
  <2> QED
    BY <2>1, <2>3, <2>4, <2>5 DEF GhostsPart
<1> QED
  BY <1>2, <1>4, <1>7, <1>8

-----------------------------------------------------------------------------
(* The tick is closed: the program has made a step of the rules. *)

\* What the collision thread finds when it closes the tick.
LEMMA Reports ==
  ASSUME RulesInv, Record, CollisionReports, UNCHANGED <<pacman_at, p1_private, p2_private>>
  PROVE  /\ Posted /\ TickOpen /\ ~Awaiting /\ ~Choosing /\ Choice = dispatched
         /\ pc["collision"] = "report" /\ dispatched \in {Pacman, Enemy}
         /\ ~Posted' /\ ~TickOpen' /\ ~Awaiting' /\ ~Choosing' /\ pc'["scheduler"] # "select"
         /\ pc'["collision"] = "wait"
         /\ UNCHANGED <<prioridad, last_round_robin, request_active, pending_priority,
                        pacman_lives, game_over, local_at, executed, ghost_at, reader_done,
                        p1_pc, queue, next_line, p1_should_stop>>
         /\ /\ settled'.tick = global_tick /\ settled'.lives = pacman_lives
            /\ settled'.pacman = pacman_at /\ settled'.ghosts = ghost_at
            /\ settled'.played = Len(executed)
            /\ settled'.spent = settled.spent + (IF dispatched = Enemy THEN 1 ELSE 0)
            /\ settled'.prio = prioridad /\ settled'.asked = Asked
            /\ settled'.tie = last_round_robin
            /\ settled'.missed = \/ settled.missed
                                 \/ /\ dispatched = Pacman
                                    /\ Len(executed) = settled.played
                                    /\ HasLine
         /\ /\ G0!BeforeShutdown /\ last_round_robin \in Process
            /\ Len(executed) \in Nat /\ pacman_lives \in Nat
<1>1. /\ pc \in [Thread -> G0!ThreadLabel] /\ Thread = {"tick", "scheduler", "signal", "collision"}
      /\ G0!IInv /\ NoError /\ dispatched \in {Pacman, Enemy}
  BY SharedMemory, Names DEF Thread, IInv, RulesInv
<1>2. /\ flags \cap Carried = {} /\ \A u \in Thread : u # "collision" => ~Works(u)
      /\ G0!BeforeShutdown
  <2>1. Works("collision") /\ "collision" \in Thread
    BY <1>1 DEF CollisionReports, Running, Works
  <2> QED
    BY <1>1, <2>1, Alone
<1>3. /\ UNCHANGED <<prioridad, request_active, pending_priority, pacman_lives, game_over,
                     last_round_robin, dispatched>>
      /\ pc["collision"] = "report" /\ pc' = [pc EXCEPT !["collision"] = "wait"]
      /\ flags' \subseteq flags \cup {"collision_done", "shutdown_requested"}
  BY DEF CollisionReports, Running, Goto, clock_vars, priority_vars, memory_vars, local_vars
<1>4. Posted /\ TickOpen /\ ~Awaiting /\ ~Choosing /\ Choice = dispatched
  BY <1>1, <1>2, <1>3
     DEF Awaiting, Unconsumed, Posted, TickOpen, Works, Carried, Choosing, Choice
<1>5. ~Posted' /\ ~TickOpen' /\ ~Awaiting' /\ ~Choosing' /\ pc'["scheduler"] # "select"
  BY <1>1, <1>2, <1>3
     DEF Awaiting, Unconsumed, Posted, TickOpen, Works, Carried, Choosing
<1>6. settled' = Snapshot
  BY <1>1, <1>3 DEF Record, CollisionCloses
<1>7. /\ settled'.tick = global_tick /\ settled'.lives = pacman_lives
      /\ settled'.pacman = pacman_at /\ settled'.ghosts = ghost_at
      /\ settled'.played = Len(executed)
      /\ settled'.spent = settled.spent + (IF dispatched = Enemy THEN 1 ELSE 0)
      /\ settled'.prio = prioridad /\ settled'.tie = last_round_robin
      /\ settled'.missed = \/ settled.missed
                           \/ /\ dispatched = Pacman
                              /\ Len(executed) = settled.played
                              /\ HasLine
  BY <1>6 DEF Snapshot, HasLine
<1>8. settled'.asked = Asked
  BY <1>6 DEF Snapshot, Asked
<1>9. last_round_robin \in Process /\ pacman_lives \in Nat
  BY <1>1, Names DEF G0!IInv, G0!TypeOK, G0!SharedTypes, G0!LocalTypes
<1>10. Len(executed) \in Nat
  BY G1!CarriedOut, Assumptions DEF RulesInv, IInv
<1> QED
  BY <1>1, <1>2, <1>3, <1>4, <1>5, <1>7, <1>8, <1>9, <1>10 DEF p1_private, p2_private

\* In a turn of Pac-Man's it has carried out a line, or idled.
LEMMA PacmanTurnEnds ==
  ASSUME RulesInv, Record, CollisionReports, UNCHANGED <<pacman_at, p1_private, p2_private>>,
         dispatched = Pacman
  PROVE  Rules!PacmanTurn
<1>1. /\ Posted /\ ~Awaiting /\ Choice = dispatched /\ pc["collision"] = "report"
      /\ settled'.lives = pacman_lives /\ settled'.pacman = pacman_at
      /\ settled'.ghosts = ghost_at /\ settled'.played = Len(executed)
      /\ settled'.spent = settled.spent + (IF dispatched = Enemy THEN 1 ELSE 0)
      /\ settled'.asked = Asked
      /\ settled'.missed = \/ settled.missed
                           \/ dispatched = Pacman /\ Len(executed) = settled.played /\ HasLine
  BY Reports
<1>2. PacmanPlays /\ ~EnemyPlays /\ ~PacmanUndone
  BY <1>1, Names DEF PacmanPlays, EnemyPlays, PacmanUndone
<1>3. dispatched # Enemy
  BY Names
<1>4. Rules!Granted(Rules!Pacman)
  <2>1. Rules!Granted(Choice) /\ Choice = Rules!Pacman
    BY <1>1, RuleNames DEF RulesInv, Requests
  <2> QED
    BY <2>1 DEF Rules!Granted
<1>5. UNCHANGED <<settled.ghosts, settled.spent, settled.lives>>
  <2>1. settled'.ghosts = settled.ghosts
    BY <1>1, <1>2 DEF RulesInv, GhostsPart
  <2>2. settled'.lives = settled.lives
    BY <1>1, <1>3 DEF RulesInv, Lives
  <2>3. settled'.spent = settled.spent
    <3>1. settled.spent \in Nat /\ settled'.spent = settled.spent + 0
      BY <1>1, <1>3 DEF RulesInv, IInv, Count
    <3> QED
      BY <3>1
  <2> QED
    BY <2>1, <2>2, <2>3
<1>6. /\ Played \/ GivenUp
      /\ pacman_at = local_at /\ settled.played \in Nat
  BY <1>1, <1>2 DEF RulesInv, PacmanPart
<1>7. settled.missed \in BOOLEAN
  BY DEF RulesInv, ReadToTheEnd
<1>8. CASE Played
  <2>1. settled'.missed = settled.missed
    <3>1. Len(executed) # settled.played
      BY <1>6, <1>8 DEF Played
    <3> QED
      BY <1>1, <1>7, <3>1
  <2> QED
    BY <1>1, <1>4, <1>5, <1>6, <1>8, <2>1, RuleNames
       DEF Played, HasLine, NextLine, Rules!PacmanTurn, Rules!PacmanPlays
<1>9. CASE GivenUp
  <2>1. settled'.asked = Rules!Silence
    BY <1>1, <1>9, RuleNames DEF GivenUp, Asked, Rules!Silence
  <2>2. settled'.played = settled.played /\ settled'.pacman = settled.pacman
    BY <1>1, <1>6, <1>9 DEF GivenUp
  <2>3. CASE HasLine
    <3>1. settled'.missed = TRUE /\ ~settled.missed
      BY <1>1, <1>9, <2>3 DEF GivenUp
    <3> QED
      BY <1>4, <1>5, <2>1, <2>2, <2>3, <3>1 DEF HasLine, Rules!PacmanTurn, Rules!PacmanIdles
  <2>4. CASE ~HasLine
    <3>1. settled'.missed = settled.missed
      BY <1>1, <1>7, <2>4
    <3>2. settled.played = Len(Rules!Parsed(Moves))
      <4>1. /\ Len(executed) \in Nat /\ Len(G1!Parsed(Moves)) \in Nat
            /\ Len(executed) <= Len(G1!Parsed(Moves))
        BY G1!CarriedOut, Assumptions DEF RulesInv, IInv
      <4>2. Rules!Parsed(Moves) = G1!Parsed(Moves)
        BY RuleParser
      <4> QED
        BY <1>9, <2>4, <4>1, <4>2 DEF GivenUp, HasLine
    <3> QED
      BY <1>4, <1>5, <2>1, <2>2, <3>1, <3>2 DEF Rules!PacmanTurn, Rules!PacmanIdles
  <2> QED
    BY <2>3, <2>4
<1> QED
  BY <1>6, <1>8, <1>9

\* In a turn of the ghosts each has carried out a line, if it had one left.
LEMMA GhostsTurnEnds ==
  ASSUME RulesInv, Record, CollisionReports, UNCHANGED <<pacman_at, p1_private, p2_private>>,
         dispatched = Enemy
  PROVE  Rules!GhostsTurn
<1>1. /\ Posted /\ ~Awaiting /\ Choice = dispatched /\ pc["collision"] = "report"
      /\ settled'.lives = pacman_lives /\ settled'.pacman = pacman_at
      /\ settled'.ghosts = ghost_at /\ settled'.played = Len(executed)
      /\ settled'.spent = settled.spent + (IF dispatched = Enemy THEN 1 ELSE 0)
      /\ settled'.asked = Asked
      /\ settled'.missed = \/ settled.missed
                           \/ dispatched = Pacman /\ Len(executed) = settled.played /\ HasLine
  BY Reports
<1>2. EnemyPlays /\ ~PacmanPlays /\ dispatched # Pacman
  BY <1>1, Names DEF PacmanPlays, EnemyPlays
<1>3. Rules!Granted(Rules!Enemy)
  <2>1. Rules!Granted(Choice) /\ Choice = Rules!Enemy
    BY <1>1, RuleNames DEF RulesInv, Requests
  <2> QED
    BY <2>1 DEF Rules!Granted
<1>4. settled'.spent = settled.spent + 1
  BY <1>1
<1>5. UNCHANGED <<settled.pacman, settled.played, settled.missed>>
  <2>1. settled'.pacman = settled.pacman /\ settled'.played = settled.played
    BY <1>1, <1>2 DEF RulesInv, PacmanPart
  <2>2. settled'.missed = settled.missed
    BY <1>1, <1>2 DEF RulesInv, ReadToTheEnd
  <2> QED
    BY <2>1, <2>2
<1>6. settled'.ghosts = [g \in Rules!Ghost |-> Rules!After(settled.ghosts[g], Rules!GhostLine(g))]
  <2>1. ghost_at = [g \in P2!Ghost |-> ghost_at[g]]
    BY Names DEF RulesInv, IInv, G2!IInv, G2!TypeOK
  <2>2. \A g \in P2!Ghost : ghost_at[g] = Rules!After(settled.ghosts[g], Rules!GhostLine(g))
    BY <1>1, <1>2 DEF RulesInv, GhostsPart, GhostsMoved, Yet
  <2> QED
    BY <1>1, <2>1, <2>2, RuleNames
<1>7. settled'.lives = IF \E g \in Rules!Ghost : settled'.ghosts[g] = settled.pacman
                         THEN settled.lives - 1 ELSE settled.lives
  <2>1. Met <=> \E g \in Rules!Ghost : settled'.ghosts[g] = settled.pacman
    BY <1>1, <1>5, RuleNames DEF Met
  <2> QED
    BY <1>1, <2>1 DEF RulesInv, Lives
<1> DEFINE requests == {Rules!GhostLine(g).priority : g \in
                          {h \in Rules!Ghost : Rules!GhostLine(h).type = "SET_PRIORITY"}}
<1>8. \/ requests = {} /\ settled'.asked = Rules!Silence
      \/ \E r \in requests : settled'.asked = [Rules!Silence EXCEPT ![Rules!Enemy] = r]
  <2>1. GhostsAsk /\ \A g \in P2!Ghost : Asks(g) <=> Rules!GhostLine(g).type = "SET_PRIORITY"
    BY <1>1, <1>2 DEF RulesInv, GhostsPart, Yet, Asks
  <2>2. CASE request_active = {} /\ \A g \in P2!Ghost : ~Asks(g)
    <3>1. requests = {}
      BY <2>1, <2>2, RuleNames
    <3>2. settled'.asked = Rules!Silence
      BY <1>1, <2>2, RuleNames DEF Asked, Rules!Silence
    <3> QED
      BY <3>1, <3>2
  <2>3. CASE /\ request_active = {Enemy}
             /\ \E g \in P2!Ghost :
                  Asks(g) /\ pending_priority[Enemy] = Rules!GhostLine(g).priority
    <3>1. pending_priority[Enemy] \in requests
      BY <2>1, <2>3, RuleNames
    <3>2. settled'.asked = [Rules!Silence EXCEPT ![Rules!Enemy] = pending_priority[Enemy]]
      BY <1>1, <2>3, RuleNames DEF Asked, Rules!Silence
    <3> QED
      BY <3>1, <3>2
  <2> QED
    BY <2>1, <2>2, <2>3 DEF GhostsAsk
<1> QED
  BY <1>3, <1>4, <1>5, <1>6, <1>7, <1>8 DEF Rules!GhostsTurn

\* Either is a step of the rules.
LEMMA StepOfTheRules ==
  ASSUME RulesInv, Record, CollisionReports, UNCHANGED <<pacman_at, p1_private, p2_private>>
  PROVE  Rules!Next
<1>1. /\ Posted /\ TickOpen /\ dispatched \in {Pacman, Enemy}
      /\ settled'.tick = global_tick /\ settled'.prio = prioridad
      /\ settled'.tie = last_round_robin
  BY Reports
<1>2. settled.tick < MaxTicks /\ settled.lives > 0 /\ settled'.tick = settled.tick + 1
  <2>1. global_tick = settled.tick + 1 /\ settled.tick \in Nat
    BY <1>1 DEF RulesInv, IInv, Count
  <2>2. global_tick <= MaxTicks /\ global_tick \in Int /\ MaxTicks \in Int
    BY SharedMemory, Assumptions DEF RulesInv, IInv
  <2>3. settled.lives > 0
    BY <1>1 DEF RulesInv, Lives
  <2> QED
    BY <1>1, <2>1, <2>2, <2>3
<1>3. settled'.prio = Rules!Applied
  BY <1>1 DEF RulesInv, Requests
<1>4. settled'.tie = IF Rules!Tied THEN CHOOSE p \in Rules!Process : p # settled.tie
                       ELSE settled.tie
  <2>1. /\ settled.tie \in Process
        /\ settled'.tie = IF Rules!Tied THEN Other(settled.tie) ELSE settled.tie
    BY <1>1 DEF RulesInv, Requests
  <2>2. \A p \in Rules!Process : p # settled.tie <=> p = Other(settled.tie)
    BY <2>1, RuleNames DEF Other
  <2>3. Other(settled.tie) \in Rules!Process
    BY RuleNames DEF Other
  <2>4. (CHOOSE p \in Rules!Process : p # settled.tie) = Other(settled.tie)
    BY <2>2, <2>3
  <2> QED
    BY <2>1, <2>4
<1>5. Rules!PacmanTurn \/ Rules!GhostsTurn
  BY <1>1, PacmanTurnEnds, GhostsTurnEnds
<1> QED
  BY <1>2, <1>3, <1>4, <1>5 DEF Rules!Next

\* And what is put down in the history is what the next tick starts from.
LEMMA TickIsClosed ==
  ASSUME RulesInv, Record, CollisionReports, UNCHANGED <<pacman_at, p1_private, p2_private>>
  PROVE  Requests' /\ PacmanPart' /\ ReadToTheEnd' /\ Lives' /\ GhostsPart'
<1>1. /\ Posted /\ TickOpen /\ ~Awaiting /\ ~Choosing /\ Choice = dispatched
      /\ pc["collision"] = "report" /\ dispatched \in {Pacman, Enemy}
      /\ ~Posted' /\ ~TickOpen' /\ ~Awaiting' /\ ~Choosing' /\ pc'["scheduler"] # "select"
      /\ pc'["collision"] = "wait"
      /\ UNCHANGED <<prioridad, last_round_robin, request_active, pending_priority,
                     pacman_lives, game_over, local_at, executed, ghost_at, reader_done,
                     p1_pc, queue, next_line, p1_should_stop>>
  BY Reports
<1>2. /\ settled'.tick = global_tick /\ settled'.lives = pacman_lives
      /\ settled'.pacman = pacman_at /\ settled'.ghosts = ghost_at
      /\ settled'.played = Len(executed)
      /\ settled'.prio = prioridad /\ settled'.asked = Asked
      /\ settled'.tie = last_round_robin
      /\ settled'.missed = \/ settled.missed
                           \/ dispatched = Pacman /\ Len(executed) = settled.played /\ HasLine
      /\ G0!BeforeShutdown /\ last_round_robin \in Process
      /\ Len(executed) \in Nat /\ pacman_lives \in Nat
  BY Reports
<1>3. Asked' = Asked
  BY <1>1 DEF Asked
<1>4. Requests'
  BY <1>1, <1>2, <1>3 DEF Requests
<1>5. pacman_at = local_at
  BY <1>1 DEF RulesInv, PacmanPart
<1>6. PacmanPart'
  BY <1>1, <1>2, <1>5 DEF PacmanPart, PacmanPlays, PacmanUndone
<1>7. ReadToTheEnd'
  <2>1. settled'.missed \in BOOLEAN
    BY <1>2 DEF RulesInv, ReadToTheEnd
  <2>2. settled'.missed => reader_done
    <3>1. SUFFICES ASSUME dispatched = Pacman, Len(executed) = settled.played
                   PROVE  reader_done
      BY <1>2 DEF RulesInv, ReadToTheEnd
    <3>2. PacmanPlays /\ ~PacmanUndone
      BY <1>1, <3>1 DEF PacmanPlays, PacmanUndone
    <3>3. (Played \/ GivenUp) /\ settled.played \in Nat
      BY <3>2 DEF RulesInv, PacmanPart
    <3>4. ~Played
      BY <3>1, <3>3 DEF Played
    <3> QED
      BY <3>3, <3>4 DEF GivenUp
  <2>3. p1_pc["executor"] # "check"
    <3>1. CASE game_over
      BY <3>1 DEF RulesInv, IInv, PacmanWhole, G1!Playing
    <3>2. CASE ~game_over
      <4>1. P0SeenByPacman = "ready"
        BY <1>1, <1>2, <3>2, SeenInGame
      <4>2. G1!Whole /\ G1!IInv
        BY PacmanIsWhole DEF RulesInv, IInv
      <4> QED
        BY <3>2, <4>1, <4>2, G1!TurnIsOne, Assumptions DEF G1!Playing
    <3> QED
      BY <3>1, <3>2
  <2> QED
    BY <1>1, <2>1, <2>2, <2>3 DEF RulesInv, ReadToTheEnd
<1>8. Lives'
  BY <1>1, <1>2 DEF RulesInv, Lives
<1>9. GhostsPart'
  BY <1>1, <1>2 DEF GhostsPart, EnemyPlays
<1> QED
  BY <1>4, <1>6, <1>7, <1>8, <1>9

-----------------------------------------------------------------------------
(* The lives. *)

\* The collision thread has consumed the event of the turn.
Settling == pc["collision"] \in {"charge", "read_over", "report"}

\* A step that charges no life.
LEMMA LivesRest ==
  ASSUME Lives, Count, Count', UNCHANGED <<global_tick, settled, pacman_lives>>,
         game_over => game_over',
         Settling' <=> Settling,
         Settling => UNCHANGED <<pc["collision"], dispatched>> /\ (Met' <=> Met)
  PROVE  Lives'
<1>1. TickOpen' => TickOpen
  <2>1. /\ settled.tick \in Nat
        /\ global_tick = settled.tick + (IF TickOpen THEN 1 ELSE 0)
        /\ global_tick = settled.tick + (IF TickOpen' THEN 1 ELSE 0)
    BY DEF Count
  <2> QED
    BY <2>1
<1>2. CASE Settling
  BY <1>1, <1>2 DEF Lives, Settling
<1>3. CASE ~Settling
  BY <1>1, <1>3 DEF Lives, Settling
<1> QED
  BY <1>2, <1>3

\* Most steps of P0 charge none.
LEMMA LivesUncharged ==
  ASSUME IInv, Record, UNCHANGED <<pacman_at, p1_private, p2_private>>,
         \/ TickEnds \/ TickStops \/ TickOpens \/ TickCloses
         \/ SchedulerThread \/ SignalThread \/ CollisionAwaitsTurn \/ MainThread
  PROVE  /\ UNCHANGED <<global_tick, settled, pacman_lives>>
         /\ game_over => game_over'
         /\ Settling' <=> Settling
         /\ Settling => UNCHANGED <<pc["collision"], dispatched>> /\ (Met' <=> Met)
<1>1. /\ pc \in [Thread -> G0!ThreadLabel] /\ Thread = {"tick", "scheduler", "signal", "collision"}
      /\ G0!IInv /\ NoError
  BY SharedMemory DEF Thread, IInv
<1>2. Met' <=> Met
  BY DEF Met, p2_private
<1> USE DEF Settling, Record, CollisionCloses, Running, Goto, AwaitFlag, clock_vars, priority_vars,
            semaphore_vars, local_vars, thread_vars, memory_vars, main_vars
<1>3. CASE TickEnds \/ TickStops \/ TickOpens \/ TickCloses
  BY <1>1, <1>2, <1>3 DEF TickEnds, TickStops, TickOpens, TickCloses
<1>4. CASE SchedulerThread
  BY <1>1, <1>2, <1>4
     DEF SchedulerThread, SchedulerAwaitsTick, scheduler_apply_priority_requests,
         scheduler_select_next_process, SchedulerPublishes
<1>5. CASE SignalAwaitsSelection
  <2>1. Settling => pc'["signal"] # "post"
    <3>1. SUFFICES ASSUME Settling, pc'["signal"] = "post"
                   PROVE  FALSE
      OBVIOUS
    <3>2. "selection_ready" \in flags /\ "selection_ready" \in Carried
      BY <1>1, <1>5, <3>1 DEF SignalAwaitsSelection, Carried
    <3>3. Works("collision") /\ "collision" \in Thread
      BY <1>1, <3>1 DEF Works
    <3> QED
      BY <1>1, <3>2, <3>3, Baton
  <2> QED
    BY <1>1, <1>2, <1>5, <2>1 DEF SignalAwaitsSelection
<1>6. CASE PostTurn \/ WaitDone \/ SignalCompletes
  BY <1>1, <1>2, <1>6 DEF PostTurn, WaitDone, SignalCompletes
<1>7. CASE CollisionAwaitsTurn
  BY <1>1, <1>2, <1>7 DEF CollisionAwaitsTurn
<1>8. CASE runtime_init \/ CancelThreads \/ JoinThreads \/ set_game_over \/ WaitChildren
  BY <1>1, <1>2, <1>8 DEF runtime_init, CancelThreads, JoinThreads, set_game_over, WaitChildren
<1>9. CASE PostPacmanShutdown \/ PostEnemyShutdown
  BY <1>1, <1>2, <1>9 DEF PostPacmanShutdown, PostEnemyShutdown
<1>10. CASE CreateThread
  <2>1. /\ pc[CreationOrder[created + 1]] = "unborn" /\ CreationOrder[created + 1] \in Thread
    <3>1. created \in 0..3
      BY <1>1, <1>10 DEF CreateThread, G0!IInv, G0!TypeOK, G0!LocalTypes, G0!Creation, G0!ThreadCount
    <3>2. /\ created < 1 => pc["tick"] = "unborn"
          /\ created < 2 => pc["scheduler"] = "unborn"
          /\ created < 3 => pc["signal"] = "unborn"
          /\ created < 4 => pc["collision"] = "unborn"
      BY <1>1 DEF G0!IInv, G0!Creation
    <3>3. /\ CreationOrder[1] = "tick" /\ CreationOrder[2] = "scheduler"
          /\ CreationOrder[3] = "signal" /\ CreationOrder[4] = "collision"
      BY DEF CreationOrder
    <3>4. created = 0 \/ created = 1 \/ created = 2 \/ created = 3
      BY <3>1
    <3> QED
      BY <1>1, <3>2, <3>3, <3>4
  <2> QED
    BY <1>1, <1>2, <1>10, <2>1 DEF CreateThread, StartLabel
<1> QED
  BY <1>3, <1>4, <1>5, <1>6, <1>7, <1>8, <1>9, <1>10 DEF SignalThread, MainThread

\* A tick is opened only while a life is left.
LEMMA LivesAtOpening ==
  ASSUME IInv, Lives, Record, TickAdvance, UNCHANGED <<pacman_at, p1_private, p2_private>>
  PROVE  Lives' /\ settled' = settled
<1>1. /\ pc \in [Thread -> G0!ThreadLabel] /\ Thread = {"tick", "scheduler", "signal", "collision"}
      /\ G0!IInv /\ NoError
  BY SharedMemory DEF Thread, IInv
<1>2. \A u \in Thread : u # "tick" => ~Works(u)
  <2>1. Works("tick") /\ "tick" \in Thread
    BY <1>1 DEF TickAdvance, Running, Works
  <2> QED
    BY <1>1, <2>1, Alone
<1>3. /\ ~game_over /\ UNCHANGED <<game_over, pacman_lives>>
      /\ pc' = [pc EXCEPT !["tick"] = "open"]
  BY DEF TickAdvance, Goto
<1>4. pc["collision"] \notin {"charge", "read_over", "report"} /\ pc'["collision"] = pc["collision"]
  BY <1>1, <1>2, <1>3 DEF Works
<1>5. settled' = settled
  BY <1>1, <1>4 DEF Record, CollisionCloses
<1> QED
  BY <1>3, <1>4, <1>5 DEF Lives

\* The event of the turn is there, and is charged, if and only if the turn was of
\* the ghosts and one of them is on Pac-Man.
LEMMA EventOfTheTurn ==
  ASSUME IInv, pc["collision"] = "consume"
  PROVE  IF dispatched = Enemy /\ Met
           THEN collision # NoCollision /\ collision.tick # last_processed_collision_tick
           ELSE collision = NoCollision
<1>1. /\ pc \in [Thread -> G0!ThreadLabel] /\ Thread = {"tick", "scheduler", "signal", "collision"}
      /\ G0!IInv /\ NoError
  BY SharedMemory DEF Thread, IInv
<1>2. G0!BeforeShutdown /\ \A u \in Thread : u # "collision" => ~Works(u)
  <2>1. Works("collision") /\ "collision" \in Thread
    BY <1>1 DEF Works
  <2> QED
    BY <1>1, <2>1, Alone
<1>3. Unconsumed /\ ~game_over /\ pc["signal"] # "post"
  BY <1>1, <1>2 DEF Unconsumed, Works, IInv, Quiet
<1>4. P0SeenByEnemy = IF dispatched = Enemy THEN "waiting" ELSE "ready"
  BY <1>2, <1>3, SeenInGame
<1>5. CASE dispatched # Enemy
  <2>1. G2!Sound /\ G2!IInv /\ P0SeenByEnemy = "ready"
    BY <1>3, <1>4, <1>5, EnemySound DEF IInv
  <2>2. collision = NoCollision
    BY <2>1, G2!Resting, Assumptions, Names
  <2> QED
    BY <1>5, <2>2
<1>6. CASE dispatched = Enemy
  <2>1. sem_done \in [Process -> Nat]
    BY <1>1, SharedMemory
  <2>2. AnswersSeen[Enemy] > 0
    <3>1. AnswersSeen[Enemy] = sem_done[Enemy] + 1 /\ sem_done[Enemy] \in Nat
      BY <1>3, <1>6, <2>1, Names DEF AnswersSeen
    <3> QED
      BY <3>1
  <2>3. G2!Answered
    BY <1>4, <1>6, <2>2, Names DEF G2!Answered
  <2>4. G2!Exact
    BY <2>3, G2!AnsweredIsExact, Assumptions DEF IInv
  <2>5. G2!Meeting = {} <=> ~Met
    BY RuleNames DEF Met, G2!Meeting
  <2>6. CASE collision = NoCollision
    <3>1. collision.tick # TickSeen
      <4>1. TickSeen = global_tick /\ global_tick \in Nat
        BY <1>1, <1>3, SharedMemory, Assumptions DEF TickSeen
      <4>2. collision.tick = -1
        BY <2>6 DEF NoCollision
      <4> QED
        BY <4>1, <4>2
    <3>2. G2!Meeting = {}
      BY <2>4, <3>1 DEF G2!Exact
    <3> QED
      BY <2>5, <2>6, <3>2
  <2>7. CASE collision # NoCollision
    <3>1. collision.ghost \in G2!Meeting
      BY <2>4, <2>7, Names DEF G2!Exact
    <3>2. Met
      BY <2>5, <3>1
    <3>3. collision.tick = global_tick /\ last_processed_collision_tick < global_tick
      BY <1>1, <2>7, Names DEF G0!IInv, G0!EventFresh
    <3>4. global_tick \in Int /\ last_processed_collision_tick \in Int
      BY <1>1, SharedMemory DEF G0!IInv, G0!TypeOK, G0!LocalTypes
    <3>5. collision.tick # last_processed_collision_tick
      BY <3>3, <3>4
    <3> QED
      BY <1>6, <2>7, <3>2, <3>5
  <2> QED
    BY <2>6, <2>7
<1> QED
  BY <1>5, <1>6

\* From the event to the report one life is charged for it, and no other.
LEMMA LivesCharged ==
  ASSUME IInv, Lives, Record, ConsumeCollision \/ decrement_life_for_collision \/ read_game_over,
         UNCHANGED <<pacman_at, p1_private, p2_private>>
  PROVE  Lives' /\ settled' = settled
<1>1. /\ pc \in [Thread -> G0!ThreadLabel] /\ Thread = {"tick", "scheduler", "signal", "collision"}
      /\ G0!IInv /\ NoError
  BY SharedMemory DEF Thread, IInv
<1>2. /\ pc["collision"] \in {"consume", "charge", "read_over"}
      /\ pc'["collision"] \in {"charge", "read_over", "report"}
      /\ \A t \in Thread \ {"collision"} : pc'[t] = pc[t]
      /\ UNCHANGED <<flags, dispatched>>
  BY <1>1
     DEF ConsumeCollision, decrement_life_for_collision, read_game_over, Running, Goto,
         local_vars, memory_vars
<1>3. settled' = settled
  BY <1>1, <1>2 DEF Record, CollisionCloses
<1>4. Met' <=> Met
  BY DEF Met, p2_private
<1>5. TickOpen
  BY <1>2 DEF TickOpen, Posted, Unconsumed
<1>6. settled.lives > 0 /\ settled.lives \in Nat
  BY <1>5 DEF Lives
<1>7. CASE ConsumeCollision
  <2>1. /\ UNCHANGED <<game_over, pacman_lives>> /\ pc["collision"] = "consume"
        /\ \/ /\ collision # NoCollision /\ collision.tick # last_processed_collision_tick
              /\ pc'["collision"] = "charge"
           \/ /\ \/ collision = NoCollision
                 \/ collision.tick = last_processed_collision_tick
              /\ pc'["collision"] = "read_over"
    BY <1>1, <1>7 DEF ConsumeCollision, Running, Goto, clock_vars
  <2>2. pc'["collision"] = IF dispatched = Enemy /\ Met THEN "charge" ELSE "read_over"
    BY <2>1, EventOfTheTurn
  <2> QED
    BY <1>2, <1>3, <1>4, <1>6, <2>1, <2>2 DEF Lives
<1>8. CASE decrement_life_for_collision
  <2>1. /\ pacman_lives' = IF pacman_lives > 0 THEN pacman_lives - 1 ELSE pacman_lives
        /\ game_over' = (game_over \/ pacman_lives' <= 0)
        /\ pc["collision"] = "charge" /\ pc'["collision"] = "read_over"
    BY <1>1, <1>8 DEF decrement_life_for_collision, Running, Goto
  <2>2. pacman_lives = settled.lives /\ dispatched = Enemy /\ Met
    BY <2>1 DEF Lives
  <2>3. pacman_lives' = settled.lives - 1 /\ pacman_lives' \in Nat
    BY <1>6, <2>1, <2>2
  <2>4. ~game_over' => pacman_lives' > 0
    <3>1. pacman_lives' <= 0 => game_over'
      BY <2>1
    <3>2. pacman_lives' <= 0 \/ pacman_lives' > 0
      BY <2>3
    <3> QED
      BY <3>1, <3>2
  <2> QED
    BY <1>2, <1>3, <1>4, <1>6, <2>1, <2>2, <2>3, <2>4 DEF Lives
<1>9. CASE read_game_over
  <2>1. /\ UNCHANGED <<game_over, pacman_lives>>
        /\ pc["collision"] = "read_over" /\ pc'["collision"] = "report"
    BY <1>1, <1>9 DEF read_game_over, Running, Goto, clock_vars
  <2> QED
    BY <1>2, <1>3, <1>4, <1>6, <2>1 DEF Lives
<1> QED
  BY <1>7, <1>8, <1>9

-----------------------------------------------------------------------------
(* Every step of P0 keeps the invariant, and is a step of the rules or none. *)

LEMMA RulesAtScheduler ==
  ASSUME RulesInv, P0Step(P0Threads)
  PROVE  RulesInv' /\ (Rules!Next \/ settled' = settled)
<1>1. P0Threads /\ Record /\ UNCHANGED <<pacman_at, p1_private, p2_private>>
  BY DEF P0Step
<1>2. IInv /\ Requests /\ PacmanPart /\ ReadToTheEnd /\ Lives /\ GhostsPart
  BY DEF RulesInv
<1>3. IInv' /\ Count /\ Count'
  BY <1>2, SchedulerStep DEF IInv
<1>4. CASE CollisionReports
  BY <1>1, <1>3, <1>4, StepOfTheRules, TickIsClosed DEF RulesInv
<1>5. CASE ~CollisionReports
  <2>1. Requests' /\ PacmanPart' /\ GhostsPart'
    <3>1. ASSUME SameTurn(Pacman), SameTurn(Enemy)
          PROVE  PacmanPart' /\ GhostsPart'
      BY <1>1, <1>2, <3>1, PacmanRests, GhostsRest DEF p2_private
    <3>2. CASE \/ TickThread \/ SchedulerAwaitsTick \/ SignalCompletes \/ CollisionAwaitsTurn
               \/ ConsumeCollision \/ decrement_life_for_collision \/ read_game_over
               \/ MainThread
      BY <1>1, <1>2, <3>1, <3>2, QuietSteps, RequestsRest
    <3>3. CASE SchedulerPublishes \/ SignalAwaitsSelection
      BY <1>1, <1>2, <3>1, <3>3, HandOver, RequestsRest
    <3>4. CASE scheduler_apply_priority_requests
      BY <1>1, <1>2, <3>1, <3>4, Applies
    <3>5. CASE scheduler_select_next_process
      BY <1>1, <1>2, <3>1, <3>5, Selects
    <3>6. CASE PostTurn
      BY <1>1, <1>2, <3>6, Posts
    <3>7. CASE WaitDone
      BY <1>1, <1>2, <3>7, Takes
    <3> QED
      BY <1>1, <1>5, <3>2, <3>3, <3>4, <3>5, <3>6, <3>7
         DEF P0Threads, SchedulerThread, SignalThread, CollisionThread
  <2>2. Lives' /\ settled' = settled
    <3>1. CASE TickAdvance
      BY <1>1, <1>2, <3>1, LivesAtOpening
    <3>2. CASE ConsumeCollision \/ decrement_life_for_collision \/ read_game_over
      BY <1>1, <1>2, <3>2, LivesCharged
    <3>3. CASE \/ TickEnds \/ TickStops \/ TickOpens \/ TickCloses
               \/ SchedulerThread \/ SignalThread \/ CollisionAwaitsTurn \/ MainThread
      BY <1>1, <1>2, <1>3, <3>3, LivesUncharged, LivesRest
    <3> QED
      BY <1>1, <1>5, <3>1, <3>2, <3>3 DEF P0Threads, TickThread, CollisionThread
  <2>3. ReadToTheEnd'
    BY <1>1, <1>2, <2>2 DEF ReadToTheEnd, p1_private
  <2> QED
    BY <1>3, <2>1, <2>2, <2>3 DEF RulesInv
<1> QED
  BY <1>4, <1>5

-----------------------------------------------------------------------------
(* The steps of P1. *)

\* What P1 leaves alone.
LEMMA PacmanLeaves ==
  ASSUME IInv, P1Step(P1!PacmanNext), ~PacmanMayFail
  PROVE  /\ UNCHANGED <<p0_private, p2_private, global_tick, settled, game_over>>
         /\ UNCHANGED <<pc, flags, dispatched, selected_process, choice, prioridad,
                        last_round_robin, pacman_lives>>
         /\ UNCHANGED <<Awaiting, Posted, TickOpen, Choosing, Choice, PacmanPlays>>
         /\ sem_turn'[Enemy] = sem_turn[Enemy]
         /\ pacman_at' = pacman_at \/ (PacmanPlays /\ Awaiting)
         /\ UNCHANGED <<request_active, pending_priority>> \/ (PacmanPlays /\ Awaiting)
<1>1. P1!PacmanNext /\ UNCHANGED <<global_tick, collision, p0_private, p2_private, settled>>
  BY DEF P1Step
<1>2. UNCHANGED <<pc, flags, dispatched, selected_process, choice, prioridad, last_round_robin,
                  pacman_lives>>
  BY <1>1 DEF p0_private, memory_vars, thread_vars, local_vars
<1>3. /\ game_over' = game_over /\ sem_turn'[Enemy] = sem_turn[Enemy]
      /\ p1_pc["publisher"] # "store" => pacman_at' = pacman_at
  BY <1>1, PacmanFrame, SharedMemory DEF IInv
<1>4. UNCHANGED <<Awaiting, Posted, TickOpen, Choosing, Choice, PacmanPlays>>
  BY <1>2 DEF Awaiting, Unconsumed, Posted, TickOpen, Choosing, Choice, PacmanPlays
<1>5. p1_pc["executor"] = "process" \/ p1_pc["publisher"] = "store" => PacmanPlays /\ Awaiting
  BY ActsInTurn DEF ActsOnlyInItsTurn, PacmanPlays, Posted, Awaiting
<1>6. p1_pc["executor"] # "process" => UNCHANGED <<request_active, pending_priority>>
  BY <1>1
     DEF P1!PacmanNext, P1!ContextInitFails, P1!CreateFails, P1!Reader, P1!ReaderOpens,
         P1!ReadLine, P1!queue_push, P1!ReaderPosts, P1!queue_mark_reader_done, P1!Executor,
         P1!ExecutorAwaitsTurn, P1!ExecutorReadsGameOver, P1!TryAvailable, P1!CheckReaderDone,
         P1!AwaitAvailable, P1!queue_pop_locked, P1!process_instruction,
         P1!ExecutorRequestsPublication, P1!ExecutorRequestsStop, P1!ExecutorPostsStop,
         P1!Publisher, P1!PublisherAwaitsRequest, P1!PublisherReadsGameOver,
         P1!PublisherCopies, P1!PublisherStores, P1!PublisherAnswers, P1!Main,
         P1!CreateThread, P1!Creates, P1!MainRequestsStop, P1!MainPostsAvailable,
         P1!MainPostsTurn, P1!MainPostsPublish, P1!JoinThreads, P1!mailbox_vars, P1!At
<1>7. /\ pacman_at' = pacman_at \/ (PacmanPlays /\ Awaiting)
      /\ UNCHANGED <<request_active, pending_priority>> \/ (PacmanPlays /\ Awaiting)
  BY <1>3, <1>5, <1>6
<1> QED
  BY <1>1, <1>2, <1>3, <1>4, <1>7

\* A request made in the turn that is out does not touch what P0 has chosen.
LEMMA RequestsKept ==
  ASSUME IInv, Requests, UNCHANGED <<p0_private, settled>>,
         UNCHANGED <<request_active, pending_priority>> \/ Awaiting
  PROVE  Requests'
<1>1. UNCHANGED <<pc, flags, dispatched, selected_process, choice, prioridad, last_round_robin>>
  BY DEF p0_private, memory_vars, thread_vars, local_vars
<1>2. UNCHANGED <<Awaiting, Posted, Choosing, Choice>>
  BY <1>1 DEF Awaiting, Unconsumed, Posted, Choosing, Choice
<1>3. CASE UNCHANGED <<request_active, pending_priority>>
  BY <1>1, <1>2, <1>3, RequestsRest DEF SameChoice
<1>4. CASE Awaiting
  <2>1. /\ G0!IInv /\ NoError /\ "signal" \in Thread /\ "scheduler" \in Thread
        /\ Works("signal") /\ "selection_ready" \in Carried
    BY <1>4 DEF IInv, Thread, Works, Awaiting, Carried
  <2>2. Posted /\ ~Choosing /\ pc["scheduler"] # "select"
    BY <1>4, <2>1, Alone DEF Posted, Choosing, Works, Awaiting
  <2> QED
    BY <1>1, <1>2, <2>2
       DEF Requests, Rules!Applied, Rules!Granted, Rules!Tied, Other
<1> QED
  BY <1>3, <1>4

\* Whenever the executor is at work P0 waits for it.
LEMMA PacmanInTurn ==
  ASSUME IInv, p1_pc["executor"] \in G1!Playing \cup {"publish"}
  PROVE  Awaiting /\ dispatched = Pacman /\ PacmanPlays /\ sem_turn[Pacman] = 0
<1>1. ~game_over /\ G1!IInv /\ G1!Whole
  BY PacmanIsWhole DEF IInv, PacmanWhole
<1>2. P0SeenByPacman # "ready" /\ sem_turn[Pacman] = 0
  BY <1>1, G1!TurnIsOne, Assumptions, Names
<1>3. P0SeenByPacman = "waiting"
  BY <1>1, <1>2 DEF G1!IInv, G1!OverEnds
<1> QED
  BY <1>2, <1>3 DEF P0SeenByPacman, PacmanPlays, Posted

\* A step of P1 that neither begins nor ends a turn.
LEMMA PacmanKept ==
  ASSUME PacmanPart, UNCHANGED <<settled, Awaiting, PacmanPlays, local_at, executed>>,
         UNCHANGED <<request_active, pending_priority>>,
         pacman_at' = pacman_at \/ (PacmanPlays /\ Awaiting),
         reader_done => reader_done', PacmanUndone' <=> PacmanUndone
  PROVE  PacmanPart'
<1>1. UNCHANGED <<HasLine, NextLine, Asked>>
  BY DEF HasLine, NextLine, Asked
<1>2. (Played => Played') /\ (GivenUp => GivenUp')
  BY <1>1 DEF Played, GivenUp, Rules!After, Rules!Silence
<1> QED
  BY <1>2 DEF PacmanPart

\* The turn has been played, or given up.
LEMMA PacmanFinishes ==
  ASSUME IInv, PacmanPart, UNCHANGED <<settled, Awaiting, PacmanPlays, sem_turn, dispatched>>,
         p1_pc["executor"] \in G1!Playing, p1_pc'["executor"] = "publish",
         PacmanUndone => Played' \/ GivenUp'
  PROVE  PacmanPart'
<1>1. Awaiting /\ dispatched = Pacman /\ PacmanPlays /\ sem_turn[Pacman] = 0
  BY PacmanInTurn
<1>2. PacmanUndone /\ ~PacmanUndone'
  BY <1>1 DEF PacmanUndone, G1!Playing
<1> QED
  BY <1>1, <1>2 DEF PacmanPart

\* When the file has been read and the queue is empty, Pac-Man has no line left.
LEMMA NoLineLeft ==
  ASSUME IInv, PacmanPart, ReadToTheEnd, PacmanUndone, reader_done, queue = <<>>,
         p1_pc["executor"] # "process"
  PROVE  ~HasLine
<1>1. next_line = Len(Moves) + 1
  BY DEF ReadToTheEnd
<1>2. Len(executed) = Len(G1!Parsed(Moves)) /\ Len(executed) \in Nat
  BY <1>1, G1!NothingLeft, G1!CarriedOut, Assumptions DEF IInv
<1>3. Len(executed) = settled.played
  BY DEF PacmanPart
<1>4. Rules!Parsed(Moves) = G1!Parsed(Moves)
  BY RuleParser
<1>5. settled.played = Len(Rules!Parsed(Moves)) /\ settled.played \in Nat
  BY <1>2, <1>3, <1>4
<1>6. ~(settled.played < settled.played)
  BY <1>5
<1> QED
  BY <1>5, <1>6 DEF HasLine

\* The instruction that the executor holds is the next line of the file, and is
\* carried out as the rules say.
LEMMA CarriesOut ==
  ASSUME IInv, PacmanPart, PacmanUndone, P1!process_instruction, settled' = settled
  PROVE  Played'
<1>1. /\ G1!IInv /\ p1_pc["executor"] = "process"
      /\ local_at = settled.pacman /\ Len(executed) = settled.played /\ request_active = {}
  BY DEF IInv, PacmanPart, P1!process_instruction, P1!At
<1>2. HasLine /\ held = NextLine
  <2>1. Len(executed) < Len(G1!Parsed(Moves)) /\ held = G1!Parsed(Moves)[Len(executed) + 1]
    BY <1>1, G1!HeldIsNext, Assumptions
  <2>2. Rules!Parsed(Moves) = G1!Parsed(Moves)
    BY RuleParser
  <2> QED
    BY <1>1, <2>1, <2>2 DEF HasLine, NextLine
<1>3. HasLine' /\ NextLine' = held
  BY <1>2 DEF HasLine, NextLine
<1>4. Len(executed') = settled'.played + 1
  <2>1. executed' = Append(executed, held) /\ executed \in Seq(G1!Kept)
    BY <1>1 DEF P1!process_instruction, G1!IInv, G1!Order
  <2>2. Len(executed') = Len(executed) + 1
    BY <1>1, <2>1 DEF G1!IInv, G1!Order
  <2> QED
    BY <1>1, <2>2
<1>5. Pacman \in Process /\ pending_priority \in [Process -> Priorities]
  BY SharedMemory, Names DEF IInv
<1>6. CASE /\ held.type = "SET_PRIORITY"
           /\ pending_priority' = [pending_priority EXCEPT ![Pacman] = held.priority]
           /\ request_active' = request_active \cup {Pacman}
           /\ local_at' = local_at
  <2>1. local_at' = Rules!After(settled.pacman, held)
    BY <1>1, <1>6 DEF Rules!After
  <2>2. request_active' = {Pacman} /\ pending_priority'[Pacman] = held.priority
    BY <1>1, <1>5, <1>6
  <2>3. Asked' = [Rules!Silence EXCEPT ![Pacman] = held.priority]
    BY <1>5, <2>2, RuleNames DEF Asked, Rules!Silence
  <2> QED
    BY <1>3, <1>4, <1>6, <2>1, <2>3 DEF Played, Rules!After, Rules!Silence
<1>7. CASE /\ held.type = "MOVE" /\ local_at' = P1!Moved(local_at, held.direction)
           /\ UNCHANGED <<pending_priority, request_active>>
  <2>1. local_at' = Rules!After(settled.pacman, held)
    BY <1>1, <1>7, RuleMoves DEF Rules!After
  <2>2. Asked' = Rules!Silence
    BY <1>1, <1>7, RuleNames DEF Asked, Rules!Silence
  <2> QED
    BY <1>3, <1>4, <1>7, <2>1, <2>2 DEF Played, Rules!After, Rules!Silence
<1> QED
  BY <1>6, <1>7, Names DEF P1!process_instruction, P1!mailbox_vars

\* The executor carries out the line, or gives the turn up.
LEMMA ExecutorPlays ==
  ASSUME IInv, PacmanPart, ReadToTheEnd, P1Step(P1!Executor), ~PacmanMayFail
  PROVE  PacmanPart'
<1>1. /\ P1!Thread = {"reader", "executor", "publisher"} /\ p1_pc = [t \in P1!Thread |-> p1_pc[t]]
      /\ G1!IInv /\ sem_turn \in [Process -> Nat] /\ Pacman \in Process
  BY PacmanLabels, SharedMemory, Names DEF IInv
<1>2. /\ P1!PacmanNext
      /\ UNCHANGED <<settled, game_over, dispatched, Awaiting, PacmanPlays>>
  <2>1. P1Step(P1!PacmanNext)
    BY DEF P1Step, P1!PacmanNext
  <2> QED
    BY <2>1, PacmanLeaves DEF P1Step
<1> USE DEF P1!At, P1!Goto, P1!mailbox_vars, P1!queue_vars, P1!turn_vars, P1!out_vars
<1>3. CASE P1!ExecutorAwaitsTurn
  <2>1. /\ p1_pc["executor"] = "turn" /\ sem_turn[Pacman] > 0 /\ p1_pc'["executor"] = "read_over"
        /\ UNCHANGED <<local_at, executed, request_active, pending_priority, pacman_at, reader_done>>
    BY <1>1, <1>3, Names DEF P1!ExecutorAwaitsTurn
  <2>2. PacmanUndone' <=> PacmanUndone
    BY <1>2, <2>1 DEF PacmanUndone
  <2> QED
    BY <1>2, <2>1, <2>2, PacmanKept
<1>4. CASE P1!ExecutorReadsGameOver
  <2>1. /\ p1_pc["executor"] = "read_over"
        /\ p1_pc'["executor"] = IF game_over THEN "stop" ELSE "try"
        /\ UNCHANGED <<local_at, executed, request_active, pending_priority, pacman_at, reader_done,
                       sem_turn>>
    BY <1>1, <1>4 DEF P1!ExecutorReadsGameOver
  <2>2. Awaiting => ~game_over
    BY DEF IInv, Quiet
  <2>3. PacmanUndone' <=> PacmanUndone
    BY <1>2, <2>1, <2>2 DEF PacmanUndone, G1!Playing
  <2> QED
    BY <1>2, <2>1, <2>3, PacmanKept
<1>5. CASE \/ P1!TryAvailable \/ P1!AwaitAvailable
           \/ P1!CheckReaderDone /\ p1_pc'["executor"] # "publish"
           \/ P1!queue_pop_locked /\ p1_pc'["executor"] # "publish"
  <2>1. /\ p1_pc["executor"] \in G1!Playing /\ p1_pc'["executor"] \in G1!Playing
        /\ UNCHANGED <<local_at, executed, request_active, pending_priority, pacman_at, reader_done,
                       sem_turn>>
    BY <1>1, <1>5
       DEF P1!TryAvailable, P1!AwaitAvailable, P1!CheckReaderDone, P1!queue_pop_locked, G1!Playing
  <2>2. PacmanUndone' <=> PacmanUndone
    BY <1>2, <2>1 DEF PacmanUndone
  <2> QED
    BY <1>2, <2>1, <2>2, PacmanKept
<1>6. CASE \/ P1!CheckReaderDone /\ p1_pc'["executor"] = "publish"
           \/ P1!queue_pop_locked /\ p1_pc'["executor"] = "publish"
  <2>1. /\ p1_pc["executor"] \in {"check", "pop"}
        /\ UNCHANGED <<local_at, executed, request_active, reader_done, sem_turn>>
        /\ p1_pc["executor"] = "check" => reader_done \/ p1_should_stop
        /\ p1_pc["executor"] = "pop" => queue = <<>>
    BY <1>1, <1>6 DEF P1!CheckReaderDone, P1!queue_pop_locked
  <2>2. ~p1_should_stop
    BY <2>1 DEF ReadToTheEnd
  <2>3. reader_done
    BY <1>1, <2>1, <2>2, G1!EmptyAtEnd, Assumptions DEF G1!EmptyPopOnlyAtEnd
  <2>4. settled.missed => queue = <<>>
    BY <2>1 DEF ReadToTheEnd
  <2>5. PacmanUndone => GivenUp'
    <3>1. SUFFICES ASSUME PacmanUndone
                   PROVE  GivenUp'
      OBVIOUS
    <3>2. settled.missed => ~HasLine
      BY <2>1, <2>3, <2>4, <3>1, NoLineLeft
    <3>3. /\ local_at = settled.pacman /\ Len(executed) = settled.played /\ request_active = {}
      BY <3>1 DEF PacmanPart
    <3> QED
      BY <1>2, <2>1, <2>3, <3>2, <3>3 DEF GivenUp, HasLine
  <2>6. p1_pc["executor"] \in G1!Playing /\ p1_pc'["executor"] = "publish"
    BY <1>6, <2>1 DEF G1!Playing
  <2> QED
    BY <1>2, <2>1, <2>5, <2>6, PacmanFinishes
<1>7. CASE P1!process_instruction
  <2>1. /\ p1_pc["executor"] \in G1!Playing /\ p1_pc'["executor"] = "publish"
        /\ UNCHANGED sem_turn
    BY <1>1, <1>7 DEF P1!process_instruction, G1!Playing
  <2> QED
    BY <1>2, <1>7, <2>1, CarriesOut, PacmanFinishes
<1>8. CASE P1!ExecutorRequestsPublication \/ P1!ExecutorRequestsStop \/ P1!ExecutorPostsStop
  <2>1. /\ p1_pc["executor"] \notin {"read_over"} \cup G1!Playing
        /\ p1_pc'["executor"] \notin {"read_over"} \cup G1!Playing
        /\ UNCHANGED <<local_at, executed, request_active, pending_priority, pacman_at, reader_done,
                       sem_turn>>
    BY <1>1, <1>8
       DEF P1!ExecutorRequestsPublication, P1!ExecutorRequestsStop, P1!ExecutorPostsStop, G1!Playing
  <2>2. PacmanUndone' <=> PacmanUndone
    BY <1>2, <2>1 DEF PacmanUndone
  <2> QED
    BY <1>2, <2>1, <2>2, PacmanKept
<1> QED
  BY <1>3, <1>4, <1>5, <1>6, <1>7, <1>8 DEF P1Step, P1!Executor

\* The other threads of P1 play nothing.
LEMMA OthersOfPacman ==
  ASSUME IInv, PacmanPart, P1Step(P1!Reader \/ P1!Publisher \/ P1!Main), ~PacmanMayFail
  PROVE  PacmanPart'
<1>1. /\ P1!Thread = {"reader", "executor", "publisher"} /\ p1_pc = [t \in P1!Thread |-> p1_pc[t]]
      /\ G1!IInv /\ sem_turn \in [Process -> Nat] /\ Pacman \in Process
  BY PacmanLabels, SharedMemory, Names DEF IInv
<1>2. /\ UNCHANGED <<settled, dispatched, Awaiting, PacmanPlays>>
      /\ pacman_at' = pacman_at \/ (PacmanPlays /\ Awaiting)
  <2>1. P1Step(P1!PacmanNext)
    BY DEF P1Step, P1!PacmanNext
  <2> QED
    BY <2>1, PacmanLeaves
<1> USE DEF P1!At, P1!Goto, P1!mailbox_vars, P1!queue_vars, P1!turn_vars, P1!out_vars
<1>3. /\ UNCHANGED <<local_at, executed, request_active, pending_priority, sem_turn>>
      /\ reader_done => reader_done'
      /\ \/ p1_pc'["executor"] = p1_pc["executor"]
         \/ p1_pc["executor"] = "unborn" /\ p1_pc'["executor"] = "turn"
  <2>1. CASE P1!Reader
    BY <1>1, <2>1
       DEF P1!Reader, P1!ReaderOpens, P1!ReadLine, P1!queue_push, P1!ReaderPosts,
           P1!queue_mark_reader_done
  <2>2. CASE P1!Publisher
    BY <1>1, <2>2
       DEF P1!Publisher, P1!PublisherAwaitsRequest, P1!PublisherReadsGameOver,
           P1!PublisherCopies, P1!PublisherStores, P1!PublisherAnswers
  <2>3. CASE P1!Main
    <3>1. p1_main_pc \notin {"stop", "post_available", "post_turn", "post_publish"}
      BY DEF IInv, PacmanWhole, G1!Cleanup
    <3>2. CASE P1!CreateThread
      BY <1>1, <3>2 DEF P1!CreateThread, P1!Creates, G1!IInv, G1!Creation, G1!Creating
    <3>3. CASE P1!JoinThreads
      BY <1>1, <3>3 DEF P1!JoinThreads
    <3> QED
      BY <2>3, <3>1, <3>2, <3>3
         DEF P1!Main, P1!MainRequestsStop, P1!MainPostsAvailable, P1!MainPostsTurn,
             P1!MainPostsPublish
  <2> QED
    BY <2>1, <2>2, <2>3 DEF P1Step
<1>4. PacmanUndone' <=> PacmanUndone
  BY <1>2, <1>3 DEF PacmanUndone, G1!Playing
<1> QED
  BY <1>2, <1>3, <1>4, PacmanKept

\* The reader does not stop before the end of the file, and what the queue holds
\* once Pac-Man has missed a turn is all there is left.
LEMMA ReadToTheEndStep ==
  ASSUME IInv, ReadToTheEnd, P1Step(P1!PacmanNext), ~PacmanMayFail
  PROVE  ReadToTheEnd'
<1>1. /\ P1!Thread = {"reader", "executor", "publisher"} /\ p1_pc = [t \in P1!Thread |-> p1_pc[t]]
      /\ G1!IInv /\ settled' = settled
      /\ next_line \in 1..Len(Moves) + 1 /\ Len(Moves) \in Nat
  BY PacmanLabels, Assumptions DEF IInv, P1Step, G1!IInv, G1!TypeOK, G1!PacmanAssumption
<1> USE DEF P1!At, P1!Goto, P1!queue_vars, P1!reader_vars
<1>2. CASE P1!Reader
  <2>1. p1_pc'["executor"] = p1_pc["executor"] /\ p1_should_stop' = p1_should_stop
    BY <1>1, <1>2
       DEF P1!Reader, P1!ReaderOpens, P1!ReadLine, P1!queue_push, P1!ReaderPosts,
           P1!queue_mark_reader_done
  <2>2. CASE P1!ReaderOpens \/ P1!ReadLine
    <3>1. /\ p1_pc["reader"] \in {"open", "read"} /\ UNCHANGED <<reader_done, queue>>
          /\ \/ p1_pc'["reader"] \in {"read", "push"}
             \/ /\ p1_pc'["reader"] = "mark_done"
                /\ next_line > Len(Moves) /\ next_line' = next_line
      BY <1>1, <2>2 DEF P1!ReaderOpens, P1!ReadLine
    <3>2. next_line > Len(Moves) => next_line = Len(Moves) + 1
      BY <1>1
    <3> QED
      BY <1>1, <2>1, <3>1, <3>2 DEF ReadToTheEnd
  <2>3. CASE P1!queue_push
    <3>1. /\ p1_pc["reader"] = "push" /\ p1_pc'["reader"] = "push_post" /\ reader_done' = reader_done
      BY <1>1, <2>3 DEF P1!queue_push
    <3> QED
      BY <1>1, <2>1, <3>1 DEF ReadToTheEnd
  <2>4. CASE P1!ReaderPosts \/ P1!queue_mark_reader_done
    <3>1. /\ UNCHANGED <<queue, next_line>>
          /\ \/ /\ p1_pc["reader"] = "push_post" /\ p1_pc'["reader"] = "read"
                /\ reader_done' = reader_done
             \/ /\ p1_pc["reader"] = "done_post" /\ p1_pc'["reader"] = "done"
                /\ reader_done' = reader_done
             \/ /\ p1_pc["reader"] = "mark_done" /\ p1_pc'["reader"] = "done_post"
                /\ reader_done'
      BY <1>1, <2>4 DEF P1!ReaderPosts, P1!queue_mark_reader_done
    <3> QED
      BY <1>1, <2>1, <3>1 DEF ReadToTheEnd
  <2> QED
    BY <1>2, <2>2, <2>3, <2>4 DEF P1!Reader
<1>3. CASE P1!TryAvailable
  <2>1. /\ p1_pc["executor"] = "try" /\ p1_pc'["executor"] \in {"pop", "check"}
        /\ p1_pc'["executor"] = "check" => available = 0
        /\ p1_pc'["reader"] = p1_pc["reader"]
        /\ UNCHANGED <<queue, reader_done, p1_should_stop, next_line>>
    BY <1>1, <1>3 DEF P1!TryAvailable
  <2>2. available = 0 /\ reader_done => queue = <<>>
    <3>1. SUFFICES ASSUME available = 0, reader_done
                   PROVE  queue = <<>>
      OBVIOUS
    <3>2. G1!Posting = 0 /\ G1!Popping = 0
      BY <2>1, <3>1 DEF ReadToTheEnd, G1!Posting, G1!Popping
    <3>3. Len(queue) <= 0 + 0 + 0 /\ queue \in Seq(G1!Kept)
      BY <1>1, <3>1, <3>2 DEF G1!IInv, G1!Tokens, G1!TokensCoverQueue, G1!Order
    <3> QED
      BY <3>3
  <2> QED
    BY <1>1, <2>1, <2>2 DEF ReadToTheEnd
<1>4. CASE /\ P1!Executor /\ ~P1!TryAvailable
  <2>1. /\ p1_pc'["reader"] = p1_pc["reader"]
        /\ UNCHANGED <<reader_done, next_line>>
        /\ p1_pc'["executor"] # "check"
        /\ \/ p1_should_stop' = p1_should_stop
           \/ p1_pc'["executor"] = "stop_post"
        /\ p1_pc["executor"] \in {"stop_post", "stop_publish", "done"} =>
             p1_pc'["executor"] \in {"stop_publish", "done"}
    BY <1>1, <1>4
       DEF P1!Executor, P1!ExecutorAwaitsTurn, P1!ExecutorReadsGameOver, P1!CheckReaderDone,
           P1!AwaitAvailable, P1!queue_pop_locked, P1!process_instruction,
           P1!ExecutorRequestsPublication, P1!ExecutorRequestsStop, P1!ExecutorPostsStop
  <2> QED
    BY <1>1, <2>1 DEF ReadToTheEnd
<1>5. CASE P1!Publisher \/ P1!Main
  <2>1. /\ UNCHANGED <<reader_done, next_line, queue, p1_should_stop>>
        /\ \/ p1_pc'["executor"] = p1_pc["executor"]
           \/ p1_pc["executor"] = "unborn" /\ p1_pc'["executor"] = "turn"
        /\ \/ p1_pc'["reader"] = p1_pc["reader"]
           \/ p1_pc["reader"] = "unborn" /\ p1_pc'["reader"] = "open"
    <3>1. CASE P1!Publisher
      BY <1>1, <3>1
         DEF P1!Publisher, P1!PublisherAwaitsRequest, P1!PublisherReadsGameOver,
             P1!PublisherCopies, P1!PublisherStores, P1!PublisherAnswers
    <3>2. CASE P1!CreateThread
      BY <1>1, <3>2 DEF P1!CreateThread, P1!Creates, G1!IInv, G1!Creation, G1!Creating
    <3>3. CASE P1!JoinThreads
      BY <1>1, <3>3 DEF P1!JoinThreads
    <3>4. p1_main_pc \notin {"stop", "post_available", "post_turn", "post_publish"}
      BY DEF IInv, PacmanWhole, G1!Cleanup
    <3> QED
      BY <1>5, <3>1, <3>2, <3>3, <3>4
         DEF P1!Main, P1!MainRequestsStop, P1!MainPostsAvailable, P1!MainPostsTurn,
             P1!MainPostsPublish
  <2> QED
    BY <1>1, <2>1 DEF ReadToTheEnd
<1> QED
  BY <1>2, <1>3, <1>4, <1>5 DEF P1Step, P1!PacmanNext, P1!ContextInitFails, P1!CreateFails

\* While P0 waits for a turn, the collision thread has no event in hand.
LEMMA NotSettling ==
  ASSUME IInv, Awaiting
  PROVE  ~Settling
<1>1. /\ G0!IInv /\ NoError /\ "signal" \in Thread /\ "collision" \in Thread /\ Works("signal")
  BY DEF IInv, Thread, Works, Awaiting
<1>2. ~Works("collision")
  BY <1>1, Alone
<1> QED
  BY <1>2 DEF Settling, Works

\* Every step of P1 keeps the invariant.
LEMMA RulesAtPacman ==
  ASSUME RulesInv, P1Step(P1!PacmanNext), ~PacmanMayFail
  PROVE  RulesInv' /\ settled' = settled
<1>1. IInv /\ Requests /\ PacmanPart /\ ReadToTheEnd /\ Lives /\ GhostsPart
  BY DEF RulesInv
<1>2. IInv' /\ Count /\ Count'
  BY <1>1, PacmanStep DEF IInv
<1>3. /\ UNCHANGED <<p0_private, p2_private, global_tick, settled, game_over>>
      /\ UNCHANGED <<pc, dispatched, pacman_lives, Awaiting, Posted>>
      /\ sem_turn'[Enemy] = sem_turn[Enemy]
      /\ pacman_at' = pacman_at \/ (PacmanPlays /\ Awaiting)
      /\ UNCHANGED <<request_active, pending_priority>> \/ (PacmanPlays /\ Awaiting)
  BY <1>1, PacmanLeaves
<1>4. Requests'
  BY <1>1, <1>3, RequestsKept
<1>5. PacmanPart'
  BY <1>1, ExecutorPlays, OthersOfPacman
     DEF P1Step, P1!PacmanNext, P1!ContextInitFails, P1!CreateFails
<1>6. ReadToTheEnd'
  BY <1>1, ReadToTheEndStep
<1>7. Lives'
  <2>1. Settling => (Met' <=> Met)
    BY <1>1, <1>3, NotSettling DEF Met, p2_private
  <2>2. Settling' <=> Settling
    BY <1>3 DEF Settling
  <2> QED
    BY <1>1, <1>2, <1>3, <2>1, <2>2, LivesRest
<1>8. GhostsPart'
  <2>1. PacmanPlays => dispatched # Enemy
    BY Names DEF PacmanPlays
  <2>2. SameTurn(Enemy)
    BY <1>3, <2>1 DEF SameTurn
  <2> QED
    BY <1>1, <1>3, <2>2, GhostsRest DEF p2_private
<1> QED
  BY <1>2, <1>3, <1>4, <1>5, <1>6, <1>7, <1>8 DEF RulesInv

-----------------------------------------------------------------------------
(* The steps of P2. *)

\* What P2 leaves alone.
LEMMA EnemyLeaves ==
  ASSUME IInv, P2Step(P2!EnemyNext)
  PROVE  /\ UNCHANGED <<p0_private, p1_private, settled, global_tick, game_over, pacman_at>>
         /\ UNCHANGED <<pc, dispatched, pacman_lives>>
         /\ UNCHANGED <<Awaiting, Posted, EnemyPlays>>
         /\ sem_turn'[Pacman] = sem_turn[Pacman]
<1>1. P2!EnemyNext /\ UNCHANGED <<p0_private, p1_private, settled>>
  BY DEF P2Step
<1>2. UNCHANGED <<pc, flags, dispatched, pacman_lives>>
  BY <1>1 DEF p0_private, memory_vars, thread_vars, local_vars
<1>3. UNCHANGED <<global_tick, game_over, pacman_at>> /\ sem_turn'[Pacman] = sem_turn[Pacman]
  BY <1>1, EnemyFrame, SharedMemory DEF IInv
<1>4. UNCHANGED <<Awaiting, Posted, EnemyPlays>>
  BY <1>2 DEF Awaiting, Unconsumed, Posted, EnemyPlays
<1> QED
  BY <1>1, <1>2, <1>3, <1>4

\* Only the threads of the ghosts move them, or ask for a priority.
LEMMA OthersOfEnemy ==
  ASSUME IInv, P2!EnemyNext, \A g \in P2!Ghost : ~P2!process_ghost_instruction(g)
  PROVE  /\ UNCHANGED <<ghost_at, request_active, pending_priority>>
         /\ \A g \in P2!Ghost : ~(ghost_pc[g] = "act" /\ ghost_pc'[g] = "answer")
<1> USE DEF P2!mailbox_vars, P2!ghost_vars, P2!At
<1>1. G2!IInv /\ ghost_pc \in [P2!Ghost -> G2!GhostLabel] /\ next_ghost["main"] \in P2!Ghost
  BY EnemyLabels DEF IInv
<1>2. CASE \E g \in P2!Ghost : P2!GhostThread(g)
  BY <1>1, <1>2
     DEF P2!GhostThread, P2!load_ghost_instructions, P2!GhostRequestsStop, P2!GhostAwaitsTurn,
         P2!GhostReadsStop, P2!GhostAnswers, P2!GhostGoto
<1>3. CASE P2!Tracker
  BY <1>3
     DEF P2!Tracker, P2!TrackerAwaitsRequest, P2!ReadsStop, P2!TrackPacman, P2!TrackerAnswers
<1>4. CASE P2!Detector
  BY <1>4
     DEF P2!Detector, P2!DetectorAwaitsRequest, P2!ReadsStop, P2!CopyPacman, P2!CopyGhosts,
         P2!CopyTick, P2!publish_collision, P2!DetectorAnswers
<1>5. CASE P2!Controller
  BY <1>5
     DEF P2!Controller, P2!ControllerAwaitsTurn, P2!ControllerReadsGameOver,
         P2!post_all_ghost_turns, P2!wait_all_ghosts_done, P2!RequestTracker, P2!AwaitTracker,
         P2!RequestDetection, P2!AwaitDetection, P2!ControllerAnswers,
         P2!signal_helper_shutdown, P2!RequestStop, P2!ReleaseGhost, P2!ReleaseTracker,
         P2!ReleaseDetector
<1>6. CASE P2!Main
  BY <1>1, <1>6
     DEF P2!Main, P2!CreateThread, P2!signal_helper_shutdown, P2!RequestStop, P2!ReleaseGhost,
         P2!ReleaseTracker, P2!ReleaseDetector, P2!MainPostsTurn, P2!JoinThreads, P2!GhostGoto
<1> QED
  BY <1>2, <1>3, <1>4, <1>5, <1>6 DEF P2!EnemyNext, P2!ContextInitFails, P2!CreateFails

\* A ghost has its turn to play until it has carried out its line.
LEMMA YetStep ==
  ASSUME IInv, P2Step(P2!EnemyNext), NEW g \in P2!Ghost
  PROVE  IF ghost_pc[g] = "act" /\ ghost_pc'[g] = "answer"
           THEN EnemyPlays /\ Awaiting /\ Yet(g) /\ ~Yet(g)'
           ELSE Yet(g)' <=> Yet(g)
<1>1. /\ P2!EnemyNext /\ UNCHANGED <<p0_private, game_over, Awaiting>> /\ IInv'
      /\ sem_done \in [Process -> Nat]
  BY EnemyLeaves, EnemyStep, SharedMemory DEF P2Step, IInv
<1>2. ghost_pc[g] = "act" => EnemyPlays /\ Awaiting
  BY ActsInTurn DEF ActsOnlyInItsTurn, EnemyPlays, Posted, Awaiting
<1>3. CASE ~Awaiting
  BY <1>1, <1>2, <1>3 DEF Yet
<1>4. CASE Awaiting
  <2>1. ~game_over /\ ~game_over'
    BY <1>1, <1>4 DEF IInv, Quiet
  <2>2. G2!Sound /\ G2!Sound'
    BY <1>1, <2>1
       DEF IInv, EnemyWhole, G2!IInv, G2!OverEnds, G2!StopLabel, G2!Sound
  <2>3. G2!Books
    BY <2>2 DEF IInv, G2!IInv, G2!Books
  <2>4. G2!EnemyNext
    <3>1. p2_pc["detector"] = "copy_tick" => pc["signal"] # "post"
      BY HelpersAreAwaited, EnemyHasTurn DEF G2!Judging, Driving
    <3> QED
      BY <1>1, <3>1, EnemySteps
  <2>5. \/ \E h \in G2!Ghost : G2!GhostThread(h)
        \/ G2!Tracker \/ G2!Detector \/ G2!Controller \/ G2!MainSteps
    BY <2>4 DEF G2!EnemyNext, G2!MainSteps
  <2>6. g \in G2!Ghost
    BY Names
  <2>7. IF ghost_pc[g] = "act" /\ ghost_pc'[g] = "answer"
          THEN G2!Pending(g) /\ ~G2!Pending(g)' ELSE G2!Pending(g)' <=> G2!Pending(g)
    BY <2>1, <2>2, <2>3, <2>5, <2>6, G2!PendingStep, Assumptions
  <2> QED
    BY <1>1, <1>2, <1>4, <2>7 DEF Yet
<1> QED
  BY <1>3, <1>4

\* A ghost about to act has in hand the line that the rules give it in this turn.
LEMMA LineInHand ==
  ASSUME IInv, NEW g \in P2!Ghost, ghost_pc[g] = "act"
  PROVE  Rules!GhostLine(g) = IF left[g] = <<>> THEN Rules!NoInstruction ELSE Head(left[g])
<1> DEFINE all == G2!Parsed(GhostMoves[g])
<1>1. Posted /\ dispatched = Enemy /\ ~game_over
  BY ActsInTurn DEF ActsOnlyInItsTurn, Posted, Awaiting, IInv, Quiet
<1>2. G2!Sound /\ G2!IInv /\ g \in G2!Ghost
  BY <1>1, EnemySound, Names DEF IInv
<1>3. settled.spent \in Nat /\ EnemyTurns = settled.spent + 1
  BY <1>1 DEF IInv, Count, EnemyTurns
<1>4. IF left[g] = <<>> THEN settled.spent >= Len(all)
        ELSE settled.spent < Len(all) /\ Head(left[g]) = all[settled.spent + 1]
  BY <1>1, <1>2, <1>3, G2!HeldByGhost, Assumptions
<1>5. Len(all) \in Nat
  BY <1>2, G2!KeptLines, Assumptions
<1>6. Rules!Parsed(GhostMoves[g]) = all
  BY RuleParser
<1> HIDE DEF all
<1>7. settled.spent >= Len(all) => ~(settled.spent < Len(all))
  BY <1>3, <1>5
<1> QED
  BY <1>4, <1>6, <1>7 DEF Rules!GhostLine

\* It carries that line out, and no other ghost notices.
LEMMA GhostCarriesOut ==
  ASSUME IInv, GhostsPart, NEW g \in P2!Ghost, P2Step(P2!process_ghost_instruction(g))
  PROVE  GhostsPart'
<1> DEFINE line == Rules!GhostLine(g)
<1>1. /\ P2Step(P2!EnemyNext) /\ P2!process_ghost_instruction(g) /\ settled' = settled
      /\ ghost_pc[g] = "act"
  BY DEF P2Step, P2!EnemyNext, P2!GhostThread, P2!process_ghost_instruction
<1>2. /\ ghost_pc \in [P2!Ghost -> G2!GhostLabel] /\ ghost_at \in [P2!Ghost -> G2!Open]
      /\ pending_priority \in [Process -> Priorities] /\ Enemy \in Process
  BY EnemyLabels, SharedMemory, Names DEF IInv, G2!IInv, G2!TypeOK
<1>3. ghost_pc' = [ghost_pc EXCEPT ![g] = "answer"]
  BY <1>1 DEF P2!process_ghost_instruction, P2!GhostGoto
<1>4. EnemyPlays /\ Yet(g) /\ ~Yet(g)' /\ EnemyPlays'
  <2>1. ghost_pc'[g] = "answer"
    BY <1>2, <1>3
  <2>2. EnemyPlays' <=> EnemyPlays
    BY <1>1, EnemyLeaves
  <2> QED
    BY <1>1, <2>1, <2>2, YetStep
<1>5. ASSUME NEW h \in P2!Ghost, h # g
      PROVE  (Yet(h)' <=> Yet(h)) /\ (Asks(h)' <=> Asks(h))
  <2>1. ghost_pc'[h] = ghost_pc[h]
    BY <1>2, <1>3, <1>5
  <2>2. Yet(h)' <=> Yet(h)
    BY <1>1, <2>1, YetStep
  <2> QED
    BY <1>1, <2>2 DEF Asks, Rules!GhostLine
<1>6. ASSUME NEW h \in P2!Ghost
      PROVE  Rules!GhostLine(h)' = Rules!GhostLine(h)
  BY <1>1 DEF Rules!GhostLine
<1>7. ghost_at[g] = settled.ghosts[g] /\ ~Asks(g) /\ (Asks(g)' <=> line.type = "SET_PRIORITY")
  BY <1>4, <1>6 DEF GhostsPart, GhostsMoved, Asks
<1>8. GhostsMoved /\ GhostsAsk
  BY <1>4 DEF GhostsPart
<1>9. line = IF left[g] = <<>> THEN Rules!NoInstruction ELSE Head(left[g])
  BY <1>1, LineInHand DEF IInv
<1> HIDE DEF line
<1>10. CASE line.type = "SET_PRIORITY"
  <2>1. /\ pending_priority' = [pending_priority EXCEPT ![Enemy] = line.priority]
        /\ request_active' = request_active \cup {Enemy} /\ ghost_at' = ghost_at
    BY <1>1, <1>9, <1>10, Names DEF P2!process_ghost_instruction, P2!mailbox_vars, Rules!NoInstruction
  <2>2. pending_priority'[Enemy] = line.priority /\ request_active' = {Enemy}
    BY <1>2, <1>8, <2>1 DEF GhostsAsk
  <2>3. GhostsAsk'
    BY <1>6, <1>7, <1>10, <2>2 DEF GhostsAsk, line
  <2>4. Rules!After(settled.ghosts[g], line) = settled.ghosts[g]
    BY <1>10 DEF Rules!After
  <2>5. GhostsMoved'
    BY <1>1, <1>4, <1>5, <1>6, <1>7, <1>8, <2>1, <2>4 DEF GhostsMoved, Rules!After, line
  <2> QED
    BY <1>4, <2>3, <2>5 DEF GhostsPart
<1>11. CASE line.type # "SET_PRIORITY"
  <2>1. UNCHANGED <<request_active, pending_priority>>
    BY <1>1, <1>9, <1>11 DEF P2!process_ghost_instruction, P2!mailbox_vars
  <2>2. ghost_at' = [ghost_at EXCEPT ![g] = Rules!After(ghost_at[g], line)]
    BY <1>1, <1>2, <1>9, <1>11, RuleMoves
       DEF P2!process_ghost_instruction, Rules!After, Rules!NoInstruction
  <2>3. GhostsAsk'
    BY <1>5, <1>6, <1>7, <1>8, <1>11, <2>1 DEF GhostsAsk
  <2>4. GhostsMoved'
    BY <1>1, <1>2, <1>4, <1>5, <1>6, <1>7, <1>8, <2>2 DEF GhostsMoved, Rules!After, line
  <2> QED
    BY <1>4, <2>3, <2>4 DEF GhostsPart
<1> QED
  BY <1>10, <1>11

\* Every step of P2 keeps the invariant.
LEMMA RulesAtEnemy ==
  ASSUME RulesInv, P2Step(P2!EnemyNext)
  PROVE  RulesInv' /\ settled' = settled
<1>1. IInv /\ Requests /\ PacmanPart /\ ReadToTheEnd /\ Lives /\ GhostsPart
  BY DEF RulesInv
<1>2. IInv' /\ Count /\ Count'
  BY <1>1, EnemyStep DEF IInv
<1>3. /\ UNCHANGED <<p0_private, p1_private, settled, global_tick, game_over, pacman_at>>
      /\ UNCHANGED <<pc, dispatched, pacman_lives, Awaiting, Posted, EnemyPlays>>
      /\ sem_turn'[Pacman] = sem_turn[Pacman]
  BY <1>1, EnemyLeaves
<1>4. \/ UNCHANGED <<ghost_at, request_active, pending_priority>>
      \/ Awaiting /\ EnemyPlays
  <2>1. ASSUME NEW g \in P2!Ghost, P2!process_ghost_instruction(g)
        PROVE  Awaiting /\ EnemyPlays
    BY <1>1, <2>1, ActsInTurn
       DEF P2!process_ghost_instruction, ActsOnlyInItsTurn, EnemyPlays, Posted, Awaiting
  <2> QED
    BY <1>1, <2>1, OthersOfEnemy DEF P2Step
<1>5. Requests'
  BY <1>1, <1>3, <1>4, RequestsKept
<1>6. PacmanPart'
  <2>1. EnemyPlays => dispatched # Pacman
    BY Names DEF EnemyPlays
  <2>2. SameTurn(Pacman)
    BY <1>3, <1>4, <2>1 DEF SameTurn
  <2> QED
    BY <1>1, <1>3, <2>2, PacmanRests
<1>7. ReadToTheEnd'
  BY <1>1, <1>3 DEF ReadToTheEnd, p1_private
<1>8. Lives'
  <2>1. Settling => (Met' <=> Met)
    BY <1>1, <1>3, <1>4, NotSettling DEF Met
  <2>2. Settling' <=> Settling
    BY <1>3 DEF Settling
  <2> QED
    BY <1>1, <1>2, <1>3, <2>1, <2>2, LivesRest
<1>9. GhostsPart'
  <2>1. CASE \E g \in P2!Ghost : P2!process_ghost_instruction(g)
    BY <1>1, <2>1, GhostCarriesOut DEF P2Step
  <2>2. CASE \A g \in P2!Ghost : ~P2!process_ghost_instruction(g)
    <3>1. /\ UNCHANGED <<ghost_at, request_active, pending_priority>>
          /\ \A g \in P2!Ghost : ~(ghost_pc[g] = "act" /\ ghost_pc'[g] = "answer")
      BY <1>1, <2>2, OthersOfEnemy DEF P2Step
    <3>2. \A g \in P2!Ghost : Yet(g)' <=> Yet(g)
      BY <1>1, <3>1, YetStep
    <3>3. \A g \in P2!Ghost : Rules!GhostLine(g)' = Rules!GhostLine(g)
      BY <1>3 DEF Rules!GhostLine
    <3>4. GhostsMoved' <=> GhostsMoved
      BY <1>3, <3>1, <3>2, <3>3 DEF GhostsMoved, Rules!After
    <3>5. GhostsAsk' <=> GhostsAsk
      BY <3>1, <3>2, <3>3 DEF GhostsAsk, Asks
    <3> QED
      BY <1>1, <1>3, <3>1, <3>4, <3>5 DEF GhostsPart
  <2> QED
    BY <2>1, <2>2
<1> QED
  BY <1>2, <1>3, <1>5, <1>6, <1>7, <1>8, <1>9 DEF RulesInv

-----------------------------------------------------------------------------
(* The program plays by the rules. *)

\* A step that changes nothing.
LEMMA RulesStutter ==
  ASSUME RulesInv, UNCHANGED game_vars
  PROVE  RulesInv' /\ settled' = settled
<1>1. IInv /\ Requests /\ PacmanPart /\ ReadToTheEnd /\ Lives /\ GhostsPart
  BY DEF RulesInv
<1>2. IInv' /\ Count /\ Count'
  BY <1>1, Stutters DEF IInv
<1>3. UNCHANGED <<vars, pacman_at, p1_private, p2_private, settled>>
  BY DEF game_vars
<1>4. UNCHANGED <<pc, flags, dispatched, selected_process, choice, prioridad, last_round_robin,
                  request_active, pending_priority, sem_turn, global_tick, game_over, pacman_lives>>
  BY <1>3 DEF vars, clock_vars, priority_vars, semaphore_vars, memory_vars, thread_vars, local_vars
<1>5. UNCHANGED <<Awaiting, Posted, Choosing, Choice>>
  BY <1>4 DEF Awaiting, Unconsumed, Posted, Choosing, Choice
<1>6. SameChoice /\ SameTurn(Pacman) /\ SameTurn(Enemy)
  BY <1>3, <1>4, <1>5 DEF SameChoice, SameTurn
<1>7. Requests' /\ PacmanPart' /\ GhostsPart'
  BY <1>1, <1>3, <1>6, RequestsRest, PacmanRests, GhostsRest DEF p2_private
<1>8. ReadToTheEnd'
  BY <1>1, <1>3 DEF ReadToTheEnd, p1_private
<1>9. Lives'
  <2>1. (Settling' <=> Settling) /\ (Met' <=> Met)
    BY <1>3, <1>4 DEF Settling, Met, p2_private
  <2> QED
    BY <1>1, <1>2, <1>3, <1>4, <2>1, LivesRest
<1> QED
  BY <1>2, <1>3, <1>7, <1>8, <1>9 DEF RulesInv

\* The program starts as the rules do.
LEMMA RulesInit ==
  ASSUME Init
  PROVE  RulesInv /\ Rules!Init
<1>1. /\ SchedulerInit /\ P1!PacmanInit /\ P2!EnemyInit /\ pacman_at = PacmanStart
      /\ settled = [tick |-> 0, lives |-> InitialLives, pacman |-> PacmanStart,
                    ghosts |-> GhostStart, played |-> 0, spent |-> 0,
                    missed |-> FALSE, prio |-> prioridad,
                    asked |-> Rules!Silence, tie |-> Enemy]
  BY DEF Init
<1>2. /\ settled.tick = 0 /\ settled.lives = InitialLives /\ settled.pacman = PacmanStart
      /\ settled.ghosts = GhostStart /\ settled.played = 0 /\ settled.spent = 0
      /\ settled.missed = FALSE /\ settled.prio = prioridad
      /\ settled.asked = Rules!Silence /\ settled.tie = Enemy
  BY <1>1
<1>3. /\ pc = [t \in Thread |-> "unborn"] /\ game_over = FALSE /\ pacman_lives = InitialLives
      /\ flags = {} /\ request_active = {} /\ last_round_robin = Enemy
      /\ prioridad \in [Process -> Priorities]
  BY <1>1 DEF SchedulerInit
<1>4. \A t \in {"tick", "scheduler", "signal", "collision"} : pc[t] = "unborn"
  BY <1>3 DEF Thread
<1>5. ~Awaiting /\ ~Posted /\ ~TickOpen /\ ~Choosing
  BY <1>3, <1>4 DEF Awaiting, Unconsumed, Posted, TickOpen, Choosing
<1>6. /\ local_at = PacmanStart /\ executed = <<>> /\ queue = <<>>
      /\ reader_done = FALSE /\ p1_should_stop = FALSE
      /\ p1_pc["reader"] = "unborn" /\ p1_pc["executor"] = "unborn"
  BY <1>1 DEF P1!PacmanInit, P1!Thread
<1>7. ghost_at = GhostStart
  BY <1>1 DEF P2!EnemyInit
<1>8. Requests
  <2>1. Asked = Rules!Silence
    BY <1>3, RuleNames DEF Asked, Rules!Silence
  <2> QED
    BY <1>2, <1>3, <1>4, <1>5, <2>1, Names DEF Requests
<1>9. PacmanPart
  BY <1>2, <1>5, <1>6, <1>1 DEF PacmanPart, PacmanPlays, PacmanUndone
<1>10. ReadToTheEnd
  BY <1>2, <1>6 DEF ReadToTheEnd
<1>11. Lives
  BY <1>2, <1>3, <1>4, <1>5, SchedulerAssumption DEF Lives, SchedulerAssumption
<1>12. GhostsPart
  BY <1>2, <1>5, <1>7 DEF GhostsPart, EnemyPlays
<1>13. Rules!Init
  BY <1>2, <1>3, RuleNames DEF Rules!Init
<1> QED
  BY <1>8, <1>9, <1>10, <1>11, <1>12, <1>13, InvInit DEF RulesInv

\* Every step of the program is a step of the rules, or none.
LEMMA RulesStep ==
  ASSUME ~PacmanMayFail, RulesInv, [Next]_game_vars
  PROVE  RulesInv' /\ [Rules!Next]_(Rules!vars)
<1>1. RulesInv' /\ (Rules!Next \/ settled' = settled)
  BY RulesAtScheduler, RulesAtPacman, RulesAtEnemy, RulesStutter DEF Next, Finished
<1>2. settled' = settled => UNCHANGED Rules!vars
  BY DEF Rules!vars
<1> QED
  BY <1>1, <1>2

\* Whatever the interleaving of P0, P1 and P2, the game they play is the one of the
\* files, the map and the initial priorities: each closed tick gives one turn to the
\* process with the higher priority, or alternately to equals (scheduler.c), in which
\* Pac-Man or every ghost carries out the next line of its file (pacman.c, enemy.c),
\* a request made in it counts from the next tick on, and a life is lost exactly when
\* the ghosts end their turn on Pac-Man.  What is assumed is that P1 can start.
THEOREM ProgramPlaysByTheRules ==
  ASSUME ~PacmanMayFail
  PROVE  Spec => PlaysByTheRules
<1>1. Init => RulesInv /\ Rules!Init
  BY RulesInit
<1>2. RulesInv /\ [Next]_game_vars => RulesInv' /\ [Rules!Next]_(Rules!vars)
  BY RulesStep
<1> QED
  BY <1>1, <1>2, PTL DEF Spec, PlaysByTheRules, Rules!Spec
=============================================================================
