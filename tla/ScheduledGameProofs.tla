------------------------- MODULE ScheduledGameProofs -------------------------
(***************************************************************************)
(* The safety invariants of ScheduledGame, proved for every number of      *)
(* ticks, lives and ghosts and every set of priorities, with every failure *)
(* the model has.                                                          *)
(*                                                                         *)
(* The inductive invariant IInv says where the tick is (OneBaton), which   *)
(* tokens exist meanwhile (TurnExclusive), what has become of the event of *)
(* the tick (Charges), and how all of it ends.  One lemma per part shows   *)
(* that every action keeps it.                                             *)
(*                                                                         *)
(* The last part shows that P0 plays the game of TurnGame, as long as no   *)
(* call of a running thread fails: each of its steps is a move of that     *)
(* game, or is invisible in it.  That the game also goes on                *)
(* (ImplementsTurnGame) is left to TLC.                                    *)
(***************************************************************************)
EXTENDS ScheduledGameRefinement, TLAPS

-----------------------------------------------------------------------------
(* The inductive invariant. *)

\* The threads are created in order; the first one finds no flag raised and no
\* event pending.
Creation ==
  /\ main_pc = "init" => created = 0
  /\ main_pc = "create" => created < ThreadCount
  /\ created < 1 => pc["tick"] = "unborn"
  /\ created < 2 => pc["scheduler"] = "unborn"
  /\ created < 3 => pc["signal"] = "unborn"
  /\ created < 4 => pc["collision"] = "unborn"
  /\ created = 0 => flags \subseteq {"shutdown_requested"} /\ collision = NoCollision

\* The shutdown starts when no thread is left running.
Joined ==
  /\ ~BeforeShutdown => \A t \in Thread : pc[t] \in {"unborn", "done"}
  /\ main_pc \in {"post_pacman", "post_enemy", "wait_children", "exit"} => game_over

\* Before the shutdown, game_over is set only between the last turn and the
\* end of its tick.
OverAtEnd ==
  BeforeShutdown /\ game_over =>
    /\ Baton \subseteq {"tick", "collision", "collision_done"}
    /\ pc["tick"] # "open"
    /\ pc["collision"] \notin {"consume", "charge"}

\* A turn is orphaned when the signal thread fails before it takes the answer:
\* the tick goes no further.
Orphaned ==
  BeforeShutdown /\ pc["signal"] = "done" /\ Custody(Pacman) + Custody(Enemy) > 0 =>
    /\ "thread_error" \in flags
    /\ Baton = {}

\* Unless a call failed, no child plays during the shutdown.
QuietShutdown ==
  ~BeforeShutdown /\ "thread_error" \notin flags =>
    /\ \A k \in Process : child[k] \notin {"playing", "reported"}
    /\ game_over \/ \A k \in Process : child[k] # "woken" /\ sem_turn[k] = 0

\* The tick is open and P2 may still publish an event in it.
Unsettled ==
  \/ pc["tick"] = "open"
  \/ "tick_ready" \in flags
  \/ pc["scheduler"] \in {"apply", "select", "publish"}
  \/ "selection_ready" \in flags
  \/ pc["signal"] \in {"post", "await_done"}
  \/ child[Enemy] = "playing"
  \/ ~game_over /\ (sem_turn[Enemy] > 0 \/ child[Enemy] = "woken")

\* The event of the tick, if there was one, has been consumed.
Settled ==
  \/ pc["tick"] \in {"top", "open", "stop"}
  \/ pc["tick"] = "wait" /\ "collision_done" \in flags
  \/ pc["collision"] \in {"charge", "read_over", "report"}

\* A tick is charged at most once; once settled, it has no event left.
Charges ==
  /\ last_processed_collision_tick <= global_tick
  /\ Unsettled => last_processed_collision_tick < global_tick
  /\ Settled => collision = NoCollision

\* The selection stands until the turn it announces is posted.
Selection ==
  /\ pc["scheduler"] = "publish" => prioridad[choice] >= prioridad[Other(choice)]
  /\ "selection_ready" \in flags /\ BeforeShutdown =>
       /\ request_active = {}
       /\ prioridad[selected_process] >= prioridad[Other(selected_process)]

\* Without an error, the threads are told to stop only when the game is over.
Ending ==
  /\ main_pc = "cancel" => status = "error"
  /\ main_pc = "join" /\ status = "ok" => created = ThreadCount
  /\ \A t \in Thread : pc[t] = "done" => "shutdown_requested" \in flags
  /\ "thread_error" \in flags => "shutdown_requested" \in flags
  /\ pc["tick"] = "stop" => game_over
  /\ pc["collision"] = "report" /\ saw_game_over => game_over
  /\ "thread_error" \notin flags /\ status = "ok" =>
       /\ "shutdown_requested" \in flags => game_over
       /\ game_over => /\ pacman_lives = 0 \/ global_tick = MaxTicks
                       /\ collision = NoCollision
  /\ ~BeforeShutdown /\ status = "ok" => "thread_error" \notin flags /\ game_over

\* The inductive invariant.
IInv ==
  /\ TypeOK /\ Creation /\ Joined /\ OneBaton /\ OverAtEnd
  /\ TurnExclusive /\ Orphaned /\ QuietShutdown
  /\ EventFresh /\ Charges
  /\ Selection /\ DispatchRespectsPriority
  /\ Ending

-----------------------------------------------------------------------------
(* Facts about the threads. *)

\* The order in which scheduler_run creates the threads (scheduler.c:826-857).
LEMMA FirstThreads ==
  /\ CreationOrder[1] = "tick" /\ CreationOrder[2] = "scheduler"
  /\ CreationOrder[3] = "signal" /\ CreationOrder[4] = "collision"
BY DEF CreationOrder

\* What a wait may do.
LEMMA Awaited ==
  ASSUME ThreadTypes,
         NEW t \in Thread, NEW flag, NEW consumed, NEW label,
         AwaitFlag(t, flag, consumed, label)
  PROVE  /\ pc[t] = "wait"
         /\ asleep' \subseteq Thread
         /\ \/ pc' = pc /\ flags' = flags
            \/ pc' = [pc EXCEPT ![t] = "done"] /\ flags' = flags /\ Stopping
            \/ /\ pc' = [pc EXCEPT ![t] = label]
               /\ flag \in flags /\ flags' = flags \ consumed
<1> USE DEF ThreadTypes, AwaitFlag, Running, Goto
<1>1. pc[t] = "wait" /\ asleep' \subseteq Thread
  OBVIOUS
<1>2. CASE flag \notin flags /\ ~Stopping
  BY <1>1, <1>2
<1>3. CASE Stopping
  BY <1>1, <1>3
<1>4. CASE flag \in flags /\ ~Stopping
  BY <1>1, <1>4
<1> QED
  BY <1>2, <1>3, <1>4

\* The tick thread waits for the end of its tick (scheduler.c:500-523).
LEMMA TickAwaits ==
  ASSUME TypeOK, TickCloses
  PROVE  /\ pc["tick"] = "wait"
         /\ asleep' \subseteq Thread
         /\ \/ pc' = pc /\ flags' = flags
            \/ /\ pc' = [pc EXCEPT !["tick"] = "done"]
               /\ flags' = flags /\ Stopping
            \/ /\ pc' = [pc EXCEPT !["tick"] = "top"]
               /\ "collision_done" \in flags /\ flags' = flags
         /\ UNCHANGED <<clock_vars, collision, priority_vars, semaphore_vars,
                        exited, memory_vars, choice, saw_game_over, dispatched,
                        main_vars>>
<1>1. AwaitFlag("tick", "collision_done", {}, "top")
  BY DEF TickCloses
<1>2. /\ pc["tick"] = "wait"
      /\ asleep' \subseteq Thread
      /\ \/ pc' = pc /\ flags' = flags
         \/ /\ pc' = [pc EXCEPT !["tick"] = "done"]
            /\ flags' = flags /\ Stopping
         \/ /\ pc' = [pc EXCEPT !["tick"] = "top"]
            /\ "collision_done" \in flags /\ flags' = flags
  BY <1>1, Awaited DEF TypeOK, Thread
<1>3. UNCHANGED <<clock_vars, collision, priority_vars, semaphore_vars,
                  exited, memory_vars, choice, saw_game_over, main_vars>>
  BY <1>1 DEF AwaitFlag
<1>4. dispatched' = dispatched
  BY DEF TickCloses
<1> QED
  BY <1>2, <1>3, <1>4

\* The scheduler thread waits for a tick (scheduler.c:525-561).
LEMMA SchedulerAwaits ==
  ASSUME TypeOK, SchedulerAwaitsTick
  PROVE  /\ pc["scheduler"] = "wait"
         /\ asleep' \subseteq Thread
         /\ \/ pc' = pc /\ flags' = flags
            \/ /\ pc' = [pc EXCEPT !["scheduler"] = "done"]
               /\ flags' = flags /\ Stopping
            \/ /\ pc' = [pc EXCEPT !["scheduler"] = "apply"]
               /\ "tick_ready" \in flags /\ flags' = flags \ {"tick_ready"}
         /\ UNCHANGED <<clock_vars, collision, priority_vars, semaphore_vars,
                        exited, memory_vars, choice, saw_game_over, dispatched,
                        main_vars>>
<1>1. AwaitFlag("scheduler", "tick_ready", {"tick_ready"}, "apply")
  BY DEF SchedulerAwaitsTick
<1>2. /\ pc["scheduler"] = "wait"
      /\ asleep' \subseteq Thread
      /\ \/ pc' = pc /\ flags' = flags
         \/ /\ pc' = [pc EXCEPT !["scheduler"] = "done"]
            /\ flags' = flags /\ Stopping
         \/ /\ pc' = [pc EXCEPT !["scheduler"] = "apply"]
            /\ "tick_ready" \in flags /\ flags' = flags \ {"tick_ready"}
  BY <1>1, Awaited DEF TypeOK, Thread
<1>3. UNCHANGED <<clock_vars, collision, priority_vars, semaphore_vars,
                  exited, memory_vars, choice, saw_game_over, main_vars>>
  BY <1>1 DEF AwaitFlag
<1>4. dispatched' = dispatched
  BY DEF SchedulerAwaitsTick
<1> QED
  BY <1>2, <1>3, <1>4

\* The signal thread waits for a selection, and copies it (scheduler.c:594-630).
LEMMA SignalAwaits ==
  ASSUME TypeOK, SignalAwaitsSelection
  PROVE  /\ pc["signal"] = "wait"
         /\ asleep' \subseteq Thread
         /\ \/ pc' = pc /\ flags' = flags /\ dispatched' = dispatched
            \/ /\ pc' = [pc EXCEPT !["signal"] = "done"]
               /\ flags' = flags /\ Stopping /\ dispatched' = dispatched
            \/ /\ pc' = [pc EXCEPT !["signal"] = "post"]
               /\ "selection_ready" \in flags /\ flags' = flags \ {"selection_ready"}
               /\ dispatched' = selected_process
         /\ UNCHANGED <<clock_vars, collision, priority_vars, semaphore_vars,
                        exited, memory_vars, choice, saw_game_over,
                        main_vars>>
<1>1. AwaitFlag("signal", "selection_ready", {"selection_ready"}, "post")
  BY DEF SignalAwaitsSelection
<1>2. /\ pc["signal"] = "wait"
      /\ asleep' \subseteq Thread
      /\ \/ pc' = pc /\ flags' = flags
         \/ /\ pc' = [pc EXCEPT !["signal"] = "done"]
            /\ flags' = flags /\ Stopping
         \/ /\ pc' = [pc EXCEPT !["signal"] = "post"]
            /\ "selection_ready" \in flags /\ flags' = flags \ {"selection_ready"}
  BY <1>1, Awaited DEF TypeOK, Thread
<1>3. UNCHANGED <<clock_vars, collision, priority_vars, semaphore_vars,
                  exited, memory_vars, choice, saw_game_over, main_vars>>
  BY <1>1 DEF AwaitFlag
<1>4. dispatched' = IF pc'["signal"] = "post" THEN selected_process
                                             ELSE dispatched
  BY DEF SignalAwaitsSelection
<1>5. pc'["signal"] = "post" <=> pc' = [pc EXCEPT !["signal"] = "post"]
  BY <1>2 DEF TypeOK, ThreadTypes, Thread
<1>6. pc \in [Thread -> ThreadLabel] /\ "signal" \in Thread
  BY DEF TypeOK, ThreadTypes, Thread
<1> QED
  BY <1>2, <1>3, <1>4, <1>5, <1>6

\* The collision thread waits for the end of a turn (scheduler.c:659-695).
LEMMA CollisionAwaits ==
  ASSUME TypeOK, CollisionAwaitsTurn
  PROVE  /\ pc["collision"] = "wait"
         /\ asleep' \subseteq Thread
         /\ \/ pc' = pc /\ flags' = flags
            \/ /\ pc' = [pc EXCEPT !["collision"] = "done"]
               /\ flags' = flags /\ Stopping
            \/ /\ pc' = [pc EXCEPT !["collision"] = "consume"]
               /\ "turn_done" \in flags /\ flags' = flags \ {"turn_done"}
         /\ UNCHANGED <<clock_vars, collision, priority_vars, semaphore_vars,
                        exited, memory_vars, choice, saw_game_over, dispatched,
                        main_vars>>
<1>1. AwaitFlag("collision", "turn_done", {"turn_done"}, "consume")
  BY DEF CollisionAwaitsTurn
<1>2. /\ pc["collision"] = "wait"
      /\ asleep' \subseteq Thread
      /\ \/ pc' = pc /\ flags' = flags
         \/ /\ pc' = [pc EXCEPT !["collision"] = "done"]
            /\ flags' = flags /\ Stopping
         \/ /\ pc' = [pc EXCEPT !["collision"] = "consume"]
            /\ "turn_done" \in flags /\ flags' = flags \ {"turn_done"}
  BY <1>1, Awaited DEF TypeOK, Thread
<1>3. UNCHANGED <<clock_vars, collision, priority_vars, semaphore_vars,
                  exited, memory_vars, choice, saw_game_over, main_vars>>
  BY <1>1 DEF AwaitFlag
<1>4. dispatched' = dispatched
  BY DEF CollisionAwaitsTurn
<1> QED
  BY <1>2, <1>3, <1>4

\* The children leave P0 alone, but for its semaphores, its mailboxes and the
\* collision event.
LEMMA ChildrenFrame ==
  Children => UNCHANGED <<clock_vars, prioridad, memory_vars, thread_vars,
                          local_vars, main_vars>>
BY DEF Children, Child, ChildWakes, ChildReadsGameOver, ChildRequests,
       ChildFinishes, EnemyPublishes, PacmanDropsTurn, semaphore_vars,
       priority_vars, vars

\* A higher priority is never passed over.
LEMMA PreferredPriority ==
  ASSUME TypeOK
  PROVE  prioridad[Preferred] >= prioridad[Other(Preferred)]
<1>1. prioridad[Pacman] \in Priorities /\ prioridad[Enemy] \in Priorities
  BY DEF TypeOK, SharedTypes, Process
<1>2. Priorities \subseteq Int
  BY Z3, SchedulerAssumption DEF MIN_PRIORITY, MAX_PRIORITY
<1>3. prioridad[Pacman] \in Int /\ prioridad[Enemy] \in Int
  BY <1>1, <1>2
<1> QED
  BY <1>3 DEF Preferred, Other, TypeOK, LocalTypes, Process, Pacman, Enemy

-----------------------------------------------------------------------------
(* Type correctness. *)

\* The program starts within its types.
LEMMA TypeInit == Init => TypeOK
<1> SUFFICES ASSUME Init PROVE TypeOK
  OBVIOUS
<1> USE DEF Init, SchedulerInit, Process, Pacman, Enemy
<1>1. SharedTypes
  <2>1. global_tick \in 0..MaxTicks /\ pacman_lives \in 0..InitialLives
    BY SchedulerAssumption
  <2>2. prioridad \in [Process -> Priorities]
    OBVIOUS
  <2>3. /\ sem_turn \in [Process -> Nat] /\ sem_done \in [Process -> Nat]
        /\ child \in [Process -> ChildStage]
    BY DEF ChildStage
  <2>4. game_over \in BOOLEAN /\ collision = NoCollision
    OBVIOUS
  <2>5. request_active \subseteq Process /\ exited \subseteq Process
    OBVIOUS
  <2> QED
    BY <2>1, <2>2, <2>3, <2>4, <2>5 DEF SharedTypes
<1>2. ThreadTypes
  BY DEF ThreadTypes, Thread, Flag, ThreadLabel, TickLabel, SchedulerLabel,
         SignalLabel, CollisionLabel
<1>3. LocalTypes
  <2>1. last_processed_collision_tick \in -1..MaxTicks
    BY SchedulerAssumption
  <2>2. created \in 0..ThreadCount
    BY DEF ThreadCount
  <2>3. /\ last_round_robin \in Process /\ selected_process \in Process
        /\ choice \in Process /\ dispatched \in Process
    OBVIOUS
  <2>4. /\ saw_game_over \in BOOLEAN /\ main_pc \in MainLabel
        /\ status \in {"ok", "error"} /\ caller \in {"scheduler_run", "main"}
    BY DEF MainLabel
  <2> QED
    BY <2>1, <2>2, <2>3, <2>4 DEF LocalTypes
<1> QED
  BY <1>1, <1>2, <1>3 DEF TypeOK

\* No step takes a field of the shared memory, or a child, out of its type.
LEMMA SharedTypesStep ==
  ASSUME TypeOK, [Next]_game_vars
  PROVE  SharedTypes'
<1> USE SchedulerAssumption DEF TypeOK, SharedTypes, LocalTypes, ThreadTypes,
        Process, Pacman, Enemy, NoCollision, ChildStage, game_vars, vars,
        clock_vars, priority_vars, semaphore_vars, local_vars, thread_vars,
        memory_vars, main_vars
<1>1. CASE TickAdvance /\ UNCHANGED child
  BY <1>1 DEF TickAdvance
<1>2. CASE TickEnds /\ UNCHANGED child
  BY <1>2 DEF TickEnds
<1>3. CASE TickStops /\ UNCHANGED child
  BY <1>3 DEF TickStops
<1>4. CASE TickOpens /\ UNCHANGED child
  BY <1>4 DEF TickOpens
<1>5. CASE TickCloses /\ UNCHANGED child
  BY <1>5, TickAwaits
<1>6. CASE SchedulerAwaitsTick /\ UNCHANGED child
  BY <1>6, SchedulerAwaits
<1>7. CASE (\/ scheduler_apply_priority_requests
            \/ scheduler_select_next_process
            \/ SchedulerPublishes)
           /\ UNCHANGED child
  BY <1>7 DEF scheduler_apply_priority_requests,
     scheduler_select_next_process, SchedulerPublishes
<1>8. CASE SignalAwaitsSelection /\ UNCHANGED child
  BY <1>8, SignalAwaits
<1>9. CASE PostTurn /\ UNCHANGED child
  BY <1>9 DEF PostTurn
<1>10. CASE WaitDone /\ UNCHANGED child
  BY <1>10 DEF WaitDone
<1>11. CASE SignalCompletes /\ UNCHANGED child
  BY <1>11 DEF SignalCompletes
<1>12. CASE CollisionAwaitsTurn /\ UNCHANGED child
  BY <1>12, CollisionAwaits
<1>13. CASE ConsumeCollision /\ UNCHANGED child
  BY <1>13 DEF ConsumeCollision
<1>14. CASE decrement_life_for_collision /\ UNCHANGED child
  BY <1>14 DEF decrement_life_for_collision
<1>15. CASE read_game_over /\ UNCHANGED child
  BY <1>15 DEF read_game_over
<1>16. CASE CollisionReports /\ UNCHANGED child
  BY <1>16 DEF CollisionReports
<1>17. CASE runtime_init /\ UNCHANGED child
  BY <1>17 DEF runtime_init
<1>18. CASE CreateThread /\ UNCHANGED child
  BY <1>18 DEF CreateThread
<1>19. CASE CancelThreads /\ UNCHANGED child
  BY <1>19 DEF CancelThreads
<1>20. CASE JoinThreads /\ UNCHANGED child
  BY <1>20 DEF JoinThreads
<1>21. CASE set_game_over /\ UNCHANGED child
  BY <1>21 DEF set_game_over
<1>22. CASE PostPacmanShutdown /\ UNCHANGED child
  BY <1>22 DEF PostPacmanShutdown
<1>23. CASE PostEnemyShutdown /\ UNCHANGED child
  BY <1>23 DEF PostEnemyShutdown
<1>24. CASE WaitChildren /\ UNCHANGED child
  BY <1>24 DEF WaitChildren
<1>25. CASE RuntimeInitFails /\ UNCHANGED child
  BY <1>25 DEF RuntimeInitFails
<1>26. CASE CreateFails /\ UNCHANGED child
  BY <1>26 DEF CreateFails
<1>27. CASE (\E t \in Thread : SpuriousWakeup(t)) /\ UNCHANGED child
  BY <1>27 DEF SpuriousWakeup
<1>28. CASE (\E t \in Thread : ThreadFails(t)) /\ UNCHANGED child
  BY <1>28 DEF ThreadFails
<1>29. CASE \E k \in Process : ChildWakes(k)
  BY <1>29 DEF ChildWakes, Turn
<1>30. CASE \E k \in Process : ChildReadsGameOver(k)
  BY <1>30 DEF ChildReadsGameOver, Turn
<1>31. CASE \E k \in Process : \E priority \in Priorities : ChildRequests(k, priority)
  BY <1>31 DEF ChildRequests, Turn
<1>32. CASE \E k \in Process : ChildFinishes(k)
  BY <1>32 DEF ChildFinishes, Turn
<1>33. CASE \E ghost \in 1..GhostCount : EnemyPublishes(ghost)
  BY <1>33 DEF EnemyPublishes, Turn
<1>34. CASE PacmanDropsTurn
  BY <1>34 DEF PacmanDropsTurn, Turn
<1>35. CASE UNCHANGED game_vars
  BY <1>35
<1> QED
  BY <1>1, <1>2, <1>3, <1>4, <1>5, <1>6, <1>7, <1>8, <1>9, <1>10, <1>11,
     <1>12, <1>13, <1>14, <1>15, <1>16, <1>17, <1>18, <1>19, <1>20, <1>21,
     <1>22, <1>23, <1>24, <1>25, <1>26, <1>27, <1>28, <1>29, <1>30, <1>31,
     <1>32, <1>33, <1>34, <1>35 DEF Next, SchedulerNext, Finished, TickThread,
     SchedulerThread, SignalThread, CollisionThread, MainThread, Failure,
     Children, Child

\* No step takes a thread out of its own code, or raises an unknown flag.
LEMMA ThreadTypesStep ==
  ASSUME TypeOK, Creation, [Next]_game_vars
  PROVE  ThreadTypes'
<1> USE SchedulerAssumption DEF TypeOK, ThreadTypes, Creation, Running, Goto,
        ThreadLabel, TickLabel, SchedulerLabel, SignalLabel, CollisionLabel,
        Thread, Flag, game_vars, vars, clock_vars, priority_vars,
        semaphore_vars, local_vars, thread_vars, memory_vars, main_vars
<1>1. CASE TickAdvance /\ UNCHANGED child
  BY <1>1 DEF TickAdvance
<1>2. CASE TickEnds /\ UNCHANGED child
  BY <1>2 DEF TickEnds
<1>3. CASE TickStops /\ UNCHANGED child
  BY <1>3 DEF TickStops
<1>4. CASE TickOpens /\ UNCHANGED child
  <2>1. flags' \subseteq Flag
    BY <1>4 DEF TickOpens
  <2>2. asleep' \subseteq Thread
    BY <1>4 DEF TickOpens
  <2>3. \/ pc' = [pc EXCEPT !["tick"] = "done"]
        \/ pc' = [pc EXCEPT !["tick"] = "wait"]
    BY <1>4 DEF TickOpens
  <2> QED
    BY <2>1, <2>2, <2>3
<1>5. CASE TickCloses /\ UNCHANGED child
  <2>1. /\ pc["tick"] = "wait" /\ asleep' \subseteq Thread /\ flags' = flags
        /\ \/ pc' = pc
           \/ pc' = [pc EXCEPT !["tick"] = "done"]
           \/ pc' = [pc EXCEPT !["tick"] = "top"]
    BY <1>5, TickAwaits
  <2> QED
    BY <2>1
<1>6. CASE SchedulerAwaitsTick /\ UNCHANGED child
  BY <1>6, SchedulerAwaits
<1>7. CASE scheduler_apply_priority_requests /\ UNCHANGED child
  BY <1>7 DEF scheduler_apply_priority_requests
<1>8. CASE scheduler_select_next_process /\ UNCHANGED child
  BY <1>8 DEF scheduler_select_next_process
<1>9. CASE SchedulerPublishes /\ UNCHANGED child
  BY <1>9 DEF SchedulerPublishes
<1>10. CASE SignalAwaitsSelection /\ UNCHANGED child
  BY <1>10, SignalAwaits
<1>11. CASE PostTurn /\ UNCHANGED child
  BY <1>11 DEF PostTurn
<1>12. CASE WaitDone /\ UNCHANGED child
  BY <1>12 DEF WaitDone
<1>13. CASE SignalCompletes /\ UNCHANGED child
  BY <1>13 DEF SignalCompletes
<1>14. CASE CollisionAwaitsTurn /\ UNCHANGED child
  <2>1. /\ pc["collision"] = "wait" /\ asleep' \subseteq Thread /\ flags' \subseteq flags
        /\ \/ pc' = pc
           \/ pc' = [pc EXCEPT !["collision"] = "done"]
           \/ pc' = [pc EXCEPT !["collision"] = "consume"]
    BY <1>14, CollisionAwaits
  <2> QED
    BY <2>1
<1>15. CASE ConsumeCollision /\ UNCHANGED child
  BY <1>15 DEF ConsumeCollision
<1>16. CASE decrement_life_for_collision /\ UNCHANGED child
  BY <1>16 DEF decrement_life_for_collision
<1>17. CASE read_game_over /\ UNCHANGED child
  BY <1>17 DEF read_game_over
<1>18. CASE CollisionReports /\ UNCHANGED child
  BY <1>18 DEF CollisionReports
<1>19. CASE runtime_init /\ UNCHANGED child
  BY <1>19 DEF runtime_init
<1>20. CASE CreateThread /\ UNCHANGED child
  BY <1>20, FirstThreads DEF CreateThread, StartLabel, LocalTypes, ThreadCount
<1>21. CASE CancelThreads /\ UNCHANGED child
  BY <1>21 DEF CancelThreads
<1>22. CASE JoinThreads /\ UNCHANGED child
  BY <1>22, FirstThreads DEF JoinThreads
<1>23. CASE set_game_over /\ UNCHANGED child
  BY <1>23 DEF set_game_over
<1>24. CASE PostPacmanShutdown /\ UNCHANGED child
  BY <1>24 DEF PostPacmanShutdown
<1>25. CASE PostEnemyShutdown /\ UNCHANGED child
  BY <1>25 DEF PostEnemyShutdown
<1>26. CASE WaitChildren /\ UNCHANGED child
  BY <1>26 DEF WaitChildren
<1>27. CASE RuntimeInitFails /\ UNCHANGED child
  BY <1>27 DEF RuntimeInitFails
<1>28. CASE CreateFails /\ UNCHANGED child
  BY <1>28 DEF CreateFails
<1>29. CASE (\E t \in Thread : SpuriousWakeup(t)) /\ UNCHANGED child
  BY <1>29 DEF SpuriousWakeup
<1>30. CASE (\E t \in Thread : ThreadFails(t)) /\ UNCHANGED child
  BY <1>30 DEF ThreadFails
<1>31. CASE Children
  BY <1>31 DEF Children, Child, ChildWakes, ChildReadsGameOver, ChildRequests,
     ChildFinishes, EnemyPublishes, PacmanDropsTurn, Turn
<1>32. CASE UNCHANGED game_vars
  BY <1>32
<1> QED
  BY <1>1, <1>2, <1>3, <1>4, <1>5, <1>6, <1>7, <1>8, <1>9, <1>10, <1>11,
     <1>12, <1>13, <1>14, <1>15, <1>16, <1>17, <1>18, <1>19, <1>20, <1>21,
     <1>22, <1>23, <1>24, <1>25, <1>26, <1>27, <1>28, <1>29, <1>30, <1>31,
     <1>32 DEF Next, SchedulerNext, Finished, TickThread, SchedulerThread,
     SignalThread, CollisionThread, MainThread, Failure

\* No step takes a field of P0's runtime out of its type.
LEMMA LocalTypesStep ==
  ASSUME TypeOK, Creation, [Next]_game_vars
  PROVE  LocalTypes'
<1> USE SchedulerAssumption DEF TypeOK, SharedTypes, LocalTypes, Creation,
        ThreadCount, Process, Pacman, Enemy, MainLabel, NoCollision,
        game_vars, vars, clock_vars, priority_vars, semaphore_vars,
        local_vars, thread_vars, memory_vars, main_vars
<1>1. CASE TickCloses /\ UNCHANGED child
  BY <1>1, TickAwaits
<1>2. CASE (\/ TickAdvance
            \/ TickEnds
            \/ TickStops
            \/ TickOpens)
           /\ UNCHANGED child
  BY <1>2 DEF TickAdvance, TickEnds, TickStops, TickOpens
<1>3. CASE SchedulerAwaitsTick /\ UNCHANGED child
  BY <1>3, SchedulerAwaits
<1>4. CASE (\/ scheduler_apply_priority_requests
            \/ scheduler_select_next_process
            \/ SchedulerPublishes)
           /\ UNCHANGED child
  BY <1>4 DEF scheduler_apply_priority_requests,
     scheduler_select_next_process, SchedulerPublishes, Preferred, Other
<1>5. CASE SignalAwaitsSelection /\ UNCHANGED child
  BY <1>5, SignalAwaits
<1>6. CASE (\/ PostTurn
            \/ WaitDone
            \/ SignalCompletes)
           /\ UNCHANGED child
  BY <1>6 DEF PostTurn, WaitDone, SignalCompletes
<1>7. CASE CollisionAwaitsTurn /\ UNCHANGED child
  BY <1>7, CollisionAwaits
<1>8. CASE ConsumeCollision /\ UNCHANGED child
  BY <1>8 DEF ConsumeCollision
<1>9. CASE decrement_life_for_collision /\ UNCHANGED child
  BY <1>9 DEF decrement_life_for_collision
<1>10. CASE read_game_over /\ UNCHANGED child
  BY <1>10 DEF read_game_over
<1>11. CASE CollisionReports /\ UNCHANGED child
  BY <1>11 DEF CollisionReports
<1>12. CASE MainThread /\ UNCHANGED child
  BY <1>12 DEF MainThread, runtime_init, CreateThread, CancelThreads,
     JoinThreads, set_game_over, PostPacmanShutdown, PostEnemyShutdown,
     WaitChildren
<1>13. CASE RuntimeInitFails /\ UNCHANGED child
  BY <1>13 DEF RuntimeInitFails
<1>14. CASE CreateFails /\ UNCHANGED child
  BY <1>14 DEF CreateFails
<1>15. CASE (\E t \in Thread : SpuriousWakeup(t)) /\ UNCHANGED child
  BY <1>15 DEF SpuriousWakeup
<1>16. CASE (\E t \in Thread : ThreadFails(t)) /\ UNCHANGED child
  BY <1>16 DEF ThreadFails
<1>17. CASE Children
  BY <1>17 DEF Children, Child, ChildWakes, ChildReadsGameOver, ChildRequests,
     ChildFinishes, EnemyPublishes, PacmanDropsTurn, Turn
<1>18. CASE UNCHANGED game_vars
  BY <1>18
<1> QED
  BY <1>1, <1>2, <1>3, <1>4, <1>5, <1>6, <1>7, <1>8, <1>9, <1>10, <1>11,
     <1>12, <1>13, <1>14, <1>15, <1>16, <1>17, <1>18 DEF Next, SchedulerNext,
     Finished, TickThread, SchedulerThread, SignalThread, CollisionThread,
     Failure

-----------------------------------------------------------------------------
(* The baton. *)

\* A step hands the baton on, puts it down or leaves it where it is.
LEMMA OneBatonStep ==
  ASSUME TypeOK, Creation, OneBaton, [Next]_game_vars
  PROVE  OneBaton'
<1> USE SchedulerAssumption DEF TypeOK, ThreadTypes, Creation, OneBaton,
        Baton, Running, Goto, Thread, game_vars, vars, clock_vars,
        priority_vars, semaphore_vars, local_vars, thread_vars, memory_vars,
        main_vars
<1>1. CASE TickAdvance /\ UNCHANGED child
  BY <1>1 DEF TickAdvance
<1>2. CASE TickEnds /\ UNCHANGED child
  BY <1>2 DEF TickEnds
<1>3. CASE TickStops /\ UNCHANGED child
  BY <1>3 DEF TickStops
<1>4. CASE TickOpens /\ UNCHANGED child
  BY <1>4 DEF TickOpens
<1>5. CASE TickCloses /\ UNCHANGED child
  <2>1. pc["tick"] = "wait" /\ UNCHANGED <<game_over, main_pc>>
    BY <1>5, TickAwaits
  <2>2. CASE pc' = pc /\ flags' = flags
    BY <2>1, <2>2
  <2>3. CASE pc' = [pc EXCEPT !["tick"] = "done"] /\ flags' = flags
    BY <2>1, <2>3
  <2>4. CASE /\ pc' = [pc EXCEPT !["tick"] = "top"]
             /\ "collision_done" \in flags
             /\ flags' = flags
    BY <2>1, <2>4
  <2> QED
    BY <1>5, TickAwaits, <2>2, <2>3, <2>4
<1>6. CASE SchedulerAwaitsTick /\ UNCHANGED child
  <2>1. pc["scheduler"] = "wait" /\ UNCHANGED <<game_over, main_pc>>
    BY <1>6, SchedulerAwaits
  <2>2. CASE pc' = pc /\ flags' = flags
    BY <2>1, <2>2
  <2>3. CASE pc' = [pc EXCEPT !["scheduler"] = "done"] /\ flags' = flags
    BY <2>1, <2>3
  <2>4. CASE /\ pc' = [pc EXCEPT !["scheduler"] = "apply"]
             /\ "tick_ready" \in flags
             /\ flags' = flags \ {"tick_ready"}
    BY <2>1, <2>4
  <2> QED
    BY <1>6, SchedulerAwaits, <2>2, <2>3, <2>4
<1>7. CASE scheduler_apply_priority_requests /\ UNCHANGED child
  BY <1>7 DEF scheduler_apply_priority_requests
<1>8. CASE scheduler_select_next_process /\ UNCHANGED child
  BY <1>8 DEF scheduler_select_next_process
<1>9. CASE SchedulerPublishes /\ UNCHANGED child
  BY <1>9 DEF SchedulerPublishes
<1>10. CASE SignalAwaitsSelection /\ UNCHANGED child
  <2>1. pc["signal"] = "wait" /\ UNCHANGED <<game_over, main_pc>>
    BY <1>10, SignalAwaits
  <2>2. CASE pc' = pc /\ flags' = flags
    BY <2>1, <2>2
  <2>3. CASE pc' = [pc EXCEPT !["signal"] = "done"] /\ flags' = flags
    BY <2>1, <2>3
  <2>4. CASE /\ pc' = [pc EXCEPT !["signal"] = "post"]
             /\ "selection_ready" \in flags
             /\ flags' = flags \ {"selection_ready"}
    BY <2>1, <2>4
  <2> QED
    BY <1>10, SignalAwaits, <2>2, <2>3, <2>4
<1>11. CASE PostTurn /\ UNCHANGED child
  BY <1>11 DEF PostTurn
<1>12. CASE WaitDone /\ UNCHANGED child
  BY <1>12 DEF WaitDone
<1>13. CASE SignalCompletes /\ UNCHANGED child
  BY <1>13 DEF SignalCompletes
<1>14. CASE CollisionAwaitsTurn /\ UNCHANGED child
  <2>1. pc["collision"] = "wait" /\ UNCHANGED <<game_over, main_pc>>
    BY <1>14, CollisionAwaits
  <2>2. CASE pc' = pc /\ flags' = flags
    BY <2>1, <2>2
  <2>3. CASE pc' = [pc EXCEPT !["collision"] = "done"] /\ flags' = flags
    BY <2>1, <2>3
  <2>4. CASE /\ pc' = [pc EXCEPT !["collision"] = "consume"]
             /\ "turn_done" \in flags
             /\ flags' = flags \ {"turn_done"}
    BY <2>1, <2>4
  <2> QED
    BY <1>14, CollisionAwaits, <2>2, <2>3, <2>4
<1>15. CASE ConsumeCollision /\ UNCHANGED child
  BY <1>15 DEF ConsumeCollision
<1>16. CASE decrement_life_for_collision /\ UNCHANGED child
  BY <1>16 DEF decrement_life_for_collision
<1>17. CASE read_game_over /\ UNCHANGED child
  BY <1>17 DEF read_game_over
<1>18. CASE CollisionReports /\ UNCHANGED child
  BY <1>18 DEF CollisionReports
<1>19. CASE CreateThread /\ UNCHANGED child
  BY <1>19, FirstThreads DEF CreateThread, StartLabel, LocalTypes, ThreadCount
<1>20. CASE (\/ runtime_init
             \/ CancelThreads
             \/ JoinThreads
             \/ set_game_over
             \/ PostPacmanShutdown
             \/ PostEnemyShutdown
             \/ WaitChildren)
            /\ UNCHANGED child
  BY <1>20, FirstThreads DEF runtime_init, CancelThreads, JoinThreads,
     set_game_over, PostPacmanShutdown, PostEnemyShutdown, WaitChildren
<1>21. CASE RuntimeInitFails /\ UNCHANGED child
  BY <1>21 DEF RuntimeInitFails
<1>22. CASE CreateFails /\ UNCHANGED child
  BY <1>22 DEF CreateFails
<1>23. CASE (\E t \in Thread : SpuriousWakeup(t)) /\ UNCHANGED child
  BY <1>23 DEF SpuriousWakeup
<1>24. CASE (\E t \in Thread : ThreadFails(t)) /\ UNCHANGED child
  BY <1>24 DEF ThreadFails
<1>25. CASE Children
  BY <1>25, ChildrenFrame
<1>26. CASE UNCHANGED game_vars
  BY <1>26
<1> QED
  BY <1>1, <1>2, <1>3, <1>4, <1>5, <1>6, <1>7, <1>8, <1>9, <1>10, <1>11,
     <1>12, <1>13, <1>14, <1>15, <1>16, <1>17, <1>18, <1>19, <1>20, <1>21,
     <1>22, <1>23, <1>24, <1>25, <1>26 DEF Next, SchedulerNext, Finished,
     TickThread, SchedulerThread, SignalThread, CollisionThread, MainThread,
     Failure

\* The shutdown starts only when every thread that was created is done.
LEMMA JoinedStep ==
  ASSUME TypeOK, Creation, Joined, [Next]_game_vars
  PROVE  Joined'
<1> USE SchedulerAssumption DEF TypeOK, ThreadTypes, LocalTypes, MainLabel,
        Creation, Joined, BeforeShutdown, Running, Goto, Thread, game_vars,
        vars, clock_vars, priority_vars, semaphore_vars, local_vars,
        thread_vars, memory_vars, main_vars
<1>1. CASE TickCloses /\ UNCHANGED child
  BY <1>1, TickAwaits
<1>2. CASE (\/ TickAdvance
            \/ TickEnds
            \/ TickStops
            \/ TickOpens)
           /\ UNCHANGED child
  BY <1>2 DEF TickAdvance, TickEnds, TickStops, TickOpens
<1>3. CASE SchedulerAwaitsTick /\ UNCHANGED child
  BY <1>3, SchedulerAwaits
<1>4. CASE (\/ scheduler_apply_priority_requests
            \/ scheduler_select_next_process
            \/ SchedulerPublishes)
           /\ UNCHANGED child
  BY <1>4 DEF scheduler_apply_priority_requests,
     scheduler_select_next_process, SchedulerPublishes
<1>5. CASE SignalAwaitsSelection /\ UNCHANGED child
  BY <1>5, SignalAwaits
<1>6. CASE (\/ PostTurn
            \/ WaitDone
            \/ SignalCompletes)
           /\ UNCHANGED child
  BY <1>6 DEF PostTurn, WaitDone, SignalCompletes
<1>7. CASE CollisionAwaitsTurn /\ UNCHANGED child
  BY <1>7, CollisionAwaits
<1>8. CASE (\/ ConsumeCollision
            \/ decrement_life_for_collision
            \/ read_game_over
            \/ CollisionReports)
           /\ UNCHANGED child
  BY <1>8 DEF ConsumeCollision, decrement_life_for_collision, read_game_over,
     CollisionReports
<1>9. CASE runtime_init /\ UNCHANGED child
  BY <1>9 DEF runtime_init
<1>10. CASE CreateThread /\ UNCHANGED child
  BY <1>10, FirstThreads DEF CreateThread, StartLabel, LocalTypes, ThreadCount
<1>11. CASE CancelThreads /\ UNCHANGED child
  BY <1>11 DEF CancelThreads
<1>12. CASE JoinThreads /\ UNCHANGED child
  BY <1>12, FirstThreads DEF JoinThreads
<1>13. CASE set_game_over /\ UNCHANGED child
  BY <1>13 DEF set_game_over
<1>14. CASE PostPacmanShutdown /\ UNCHANGED child
  BY <1>14 DEF PostPacmanShutdown
<1>15. CASE PostEnemyShutdown /\ UNCHANGED child
  BY <1>15 DEF PostEnemyShutdown
<1>16. CASE WaitChildren /\ UNCHANGED child
  BY <1>16 DEF WaitChildren
<1>17. CASE RuntimeInitFails /\ UNCHANGED child
  BY <1>17 DEF RuntimeInitFails
<1>18. CASE CreateFails /\ UNCHANGED child
  BY <1>18 DEF CreateFails
<1>19. CASE (\E t \in Thread : SpuriousWakeup(t)) /\ UNCHANGED child
  BY <1>19 DEF SpuriousWakeup
<1>20. CASE (\E t \in Thread : ThreadFails(t)) /\ UNCHANGED child
  BY <1>20 DEF ThreadFails
<1>21. CASE Children
  BY <1>21, ChildrenFrame
<1>22. CASE UNCHANGED game_vars
  BY <1>22
<1> QED
  BY <1>1, <1>2, <1>3, <1>4, <1>5, <1>6, <1>7, <1>8, <1>9, <1>10, <1>11,
     <1>12, <1>13, <1>14, <1>15, <1>16, <1>17, <1>18, <1>19, <1>20, <1>21,
     <1>22 DEF Next, SchedulerNext, Finished, TickThread, SchedulerThread,
     SignalThread, CollisionThread, MainThread, Failure

\* Only the end of a tick, with the turn settled, sets game_over.
LEMMA OverAtEndStep ==
  ASSUME TypeOK, Creation, OneBaton, OverAtEnd, [Next]_game_vars
  PROVE  OverAtEnd'
<1> USE SchedulerAssumption DEF TypeOK, ThreadTypes, Creation, OneBaton,
        OverAtEnd, Baton, BeforeShutdown, Running, Goto, Thread, game_vars,
        vars, clock_vars, priority_vars, semaphore_vars, local_vars,
        thread_vars, memory_vars, main_vars
<1>1. CASE TickAdvance /\ UNCHANGED child
  BY <1>1 DEF TickAdvance
<1>2. CASE TickEnds /\ UNCHANGED child
  BY <1>2 DEF TickEnds
<1>3. CASE TickStops /\ UNCHANGED child
  BY <1>3 DEF TickStops
<1>4. CASE TickOpens /\ UNCHANGED child
  BY <1>4 DEF TickOpens
<1>5. CASE TickCloses /\ UNCHANGED child
  <2>1. pc["tick"] = "wait" /\ UNCHANGED <<game_over, main_pc>>
    BY <1>5, TickAwaits
  <2>2. CASE pc' = pc /\ flags' = flags
    BY <2>1, <2>2
  <2>3. CASE pc' = [pc EXCEPT !["tick"] = "done"] /\ flags' = flags
    BY <2>1, <2>3
  <2>4. CASE /\ pc' = [pc EXCEPT !["tick"] = "top"]
             /\ "collision_done" \in flags
             /\ flags' = flags
    BY <2>1, <2>4
  <2> QED
    BY <1>5, TickAwaits, <2>2, <2>3, <2>4
<1>6. CASE SchedulerAwaitsTick /\ UNCHANGED child
  <2>1. pc["scheduler"] = "wait" /\ UNCHANGED <<game_over, main_pc>>
    BY <1>6, SchedulerAwaits
  <2>2. CASE pc' = pc /\ flags' = flags
    BY <2>1, <2>2
  <2>3. CASE pc' = [pc EXCEPT !["scheduler"] = "done"] /\ flags' = flags
    BY <2>1, <2>3
  <2>4. CASE /\ pc' = [pc EXCEPT !["scheduler"] = "apply"]
             /\ "tick_ready" \in flags
             /\ flags' = flags \ {"tick_ready"}
    BY <2>1, <2>4
  <2> QED
    BY <1>6, SchedulerAwaits, <2>2, <2>3, <2>4
<1>7. CASE scheduler_apply_priority_requests /\ UNCHANGED child
  BY <1>7 DEF scheduler_apply_priority_requests
<1>8. CASE scheduler_select_next_process /\ UNCHANGED child
  BY <1>8 DEF scheduler_select_next_process
<1>9. CASE SchedulerPublishes /\ UNCHANGED child
  BY <1>9 DEF SchedulerPublishes
<1>10. CASE SignalAwaitsSelection /\ UNCHANGED child
  <2>1. pc["signal"] = "wait" /\ UNCHANGED <<game_over, main_pc>>
    BY <1>10, SignalAwaits
  <2>2. CASE pc' = pc /\ flags' = flags
    BY <2>1, <2>2
  <2>3. CASE pc' = [pc EXCEPT !["signal"] = "done"] /\ flags' = flags
    BY <2>1, <2>3
  <2>4. CASE /\ pc' = [pc EXCEPT !["signal"] = "post"]
             /\ "selection_ready" \in flags
             /\ flags' = flags \ {"selection_ready"}
    BY <2>1, <2>4
  <2> QED
    BY <1>10, SignalAwaits, <2>2, <2>3, <2>4
<1>11. CASE PostTurn /\ UNCHANGED child
  BY <1>11 DEF PostTurn
<1>12. CASE WaitDone /\ UNCHANGED child
  BY <1>12 DEF WaitDone
<1>13. CASE SignalCompletes /\ UNCHANGED child
  BY <1>13 DEF SignalCompletes
<1>14. CASE CollisionAwaitsTurn /\ UNCHANGED child
  <2>1. pc["collision"] = "wait" /\ UNCHANGED <<game_over, main_pc>>
    BY <1>14, CollisionAwaits
  <2>2. CASE pc' = pc /\ flags' = flags
    BY <2>1, <2>2
  <2>3. CASE pc' = [pc EXCEPT !["collision"] = "done"] /\ flags' = flags
    BY <2>1, <2>3
  <2>4. CASE /\ pc' = [pc EXCEPT !["collision"] = "consume"]
             /\ "turn_done" \in flags
             /\ flags' = flags \ {"turn_done"}
    BY <2>1, <2>4
  <2> QED
    BY <1>14, CollisionAwaits, <2>2, <2>3, <2>4
<1>15. CASE ConsumeCollision /\ UNCHANGED child
  BY <1>15 DEF ConsumeCollision
<1>16. CASE decrement_life_for_collision /\ UNCHANGED child
  BY <1>16 DEF decrement_life_for_collision
<1>17. CASE read_game_over /\ UNCHANGED child
  BY <1>17 DEF read_game_over
<1>18. CASE CollisionReports /\ UNCHANGED child
  BY <1>18 DEF CollisionReports
<1>19. CASE runtime_init /\ UNCHANGED child
  BY <1>19 DEF runtime_init
<1>20. CASE CreateThread /\ UNCHANGED child
  BY <1>20, FirstThreads DEF CreateThread, StartLabel, LocalTypes, ThreadCount
<1>21. CASE CancelThreads /\ UNCHANGED child
  BY <1>21 DEF CancelThreads
<1>22. CASE JoinThreads /\ UNCHANGED child
  BY <1>22, FirstThreads DEF JoinThreads
<1>23. CASE set_game_over /\ UNCHANGED child
  BY <1>23 DEF set_game_over
<1>24. CASE PostPacmanShutdown /\ UNCHANGED child
  BY <1>24 DEF PostPacmanShutdown
<1>25. CASE PostEnemyShutdown /\ UNCHANGED child
  BY <1>25 DEF PostEnemyShutdown
<1>26. CASE WaitChildren /\ UNCHANGED child
  BY <1>26 DEF WaitChildren
<1>27. CASE RuntimeInitFails /\ UNCHANGED child
  BY <1>27 DEF RuntimeInitFails
<1>28. CASE CreateFails /\ UNCHANGED child
  BY <1>28 DEF CreateFails
<1>29. CASE (\E t \in Thread : SpuriousWakeup(t)) /\ UNCHANGED child
  BY <1>29 DEF SpuriousWakeup
<1>30. CASE (\E t \in Thread : ThreadFails(t)) /\ UNCHANGED child
  BY <1>30 DEF ThreadFails
<1>31. CASE Children
  BY <1>31, ChildrenFrame
<1>32. CASE UNCHANGED game_vars
  BY <1>32
<1> QED
  BY <1>1, <1>2, <1>3, <1>4, <1>5, <1>6, <1>7, <1>8, <1>9, <1>10, <1>11,
     <1>12, <1>13, <1>14, <1>15, <1>16, <1>17, <1>18, <1>19, <1>20, <1>21,
     <1>22, <1>23, <1>24, <1>25, <1>26, <1>27, <1>28, <1>29, <1>30, <1>31,
     <1>32 DEF Next, SchedulerNext, Finished, TickThread, SchedulerThread,
     SignalThread, CollisionThread, MainThread, Failure

-----------------------------------------------------------------------------
(* The turn. *)

\* Custody counts: it is a natural number.
LEMMA CustodyNat ==
  ASSUME TypeOK
  PROVE  Custody(Pacman) \in Nat /\ Custody(Enemy) \in Nat
BY DEF TypeOK, SharedTypes, Custody, Process

\* The same, after a step that keeps the types.
LEMMA CustodyNatNext ==
  ASSUME TypeOK'
  PROVE  Custody(Pacman)' \in Nat /\ Custody(Enemy)' \in Nat
BY DEF TypeOK, SharedTypes, Custody, Process

\* Without custody a process has no turn in any form.
LEMMA CustodyNone ==
  ASSUME TypeOK, NEW k \in Process, Custody(k) = 0
  PROVE  child[k] \notin Busy /\ sem_turn[k] = 0 /\ sem_done[k] = 0
<1>1. sem_turn[k] \in Nat /\ sem_done[k] \in Nat
  BY DEF TypeOK, SharedTypes
<1>2. sem_turn[k] + (IF child[k] \in Busy THEN 1 ELSE 0) + sem_done[k] = 0
  BY DEF Custody
<1>3. ASSUME child[k] \in Busy
      PROVE  FALSE
  <2>1. sem_turn[k] + 1 + sem_done[k] = 0
    BY <1>2, <1>3
  <2> QED
    BY <1>1, <2>1
<1>4. sem_turn[k] + sem_done[k] = 0
  BY <1>1, <1>2, <1>3
<1> QED
  BY <1>1, <1>3, <1>4

\* A child that plays its turn to the end keeps the custody.
LEMMA CustodyKept ==
  ASSUME TypeOK, NEW k \in Process,
         \/ ChildWakes(k)
         \/ ChildFinishes(k)
         \/ ChildReadsGameOver(k) /\ ~game_over
  PROVE  Custody(Pacman)' = Custody(Pacman) /\ Custody(Enemy)' = Custody(Enemy)
<1> USE DEF TypeOK, SharedTypes, Custody, Process, Pacman, Enemy, Busy, Turn,
            ChildStage
<1>1. CASE ChildWakes(k)
  BY <1>1 DEF ChildWakes
<1>2. CASE ChildFinishes(k)
  BY <1>2 DEF ChildFinishes
<1>3. CASE ChildReadsGameOver(k) /\ ~game_over
  BY <1>3 DEF ChildReadsGameOver, semaphore_vars
<1> QED
  BY <1>1, <1>2, <1>3

\* A child that leaves gives its turn up.
LEMMA CustodyLeft ==
  ASSUME TypeOK, NEW k \in Process, ChildReadsGameOver(k)
  PROVE  /\ Custody(k) > 0
         /\ Custody(Pacman)' <= Custody(Pacman)
         /\ Custody(Enemy)' <= Custody(Enemy)
BY DEF TypeOK, SharedTypes, Custody, Process, Pacman, Enemy, Busy, Turn,
       ChildStage, ChildReadsGameOver, semaphore_vars

\* Posting a turn adds one to the custody of the process it is for.
LEMMA CustodyPosted ==
  ASSUME TypeOK, PostTurn, UNCHANGED child
  PROVE  /\ Custody(dispatched)' = Custody(dispatched) + 1
         /\ Custody(Other(dispatched))' = Custody(Other(dispatched))
BY DEF TypeOK, SharedTypes, LocalTypes, Custody, Process, Pacman, Enemy, Busy,
       ChildStage, Other, PostTurn, local_vars

\* Taking an answer takes one from the custody of the process that gave it.
LEMMA CustodyTaken ==
  ASSUME TypeOK, WaitDone, UNCHANGED child
  PROVE  /\ Custody(dispatched)' = Custody(dispatched) - 1
         /\ Custody(Other(dispatched))' = Custody(Other(dispatched))
BY DEF TypeOK, SharedTypes, LocalTypes, Custody, Process, Pacman, Enemy, Busy,
       ChildStage, Other, WaitDone, local_vars

\* While the tick is on its way and no answer is awaited, no turn is out.
LEMMA NoTurnOut ==
  ASSUME IInv, BeforeShutdown, Baton # {}, pc["signal"] # "await_done"
  PROVE  Custody(Pacman) = 0 /\ Custody(Enemy) = 0
BY CustodyNat DEF IInv, TurnExclusive, Orphaned

\* A child keeps the custody of its turn until it answers, and gives it up
\* otherwise only when the game is over.
LEMMA CustodyOfChildren ==
  ASSUME TypeOK, TypeOK', Children
  PROVE  /\ Custody(Pacman)' <= Custody(Pacman)
         /\ Custody(Enemy)' <= Custody(Enemy)
         /\ ~game_over => /\ Custody(Pacman)' = Custody(Pacman)
                          /\ Custody(Enemy)' = Custody(Enemy)
<1>1. CASE \E k \in Process : ChildWakes(k) \/ ChildFinishes(k)
  BY <1>1, CustodyKept, CustodyNat
<1>2. CASE \E k \in Process : ChildReadsGameOver(k)
  BY <1>2, CustodyKept, CustodyLeft, CustodyNat
<1>3. CASE \E k \in Process : \E priority \in Priorities : ChildRequests(k, priority)
  <2>1. UNCHANGED <<sem_turn, sem_done, child>>
    BY <1>3 DEF ChildRequests, semaphore_vars
  <2> QED
    BY <2>1, CustodyNat DEF Custody
<1>4. CASE \E ghost \in 1..GhostCount : EnemyPublishes(ghost)
  <2>1. UNCHANGED <<sem_turn, sem_done>>
    BY <1>4 DEF EnemyPublishes, semaphore_vars
  <2>2. \A k \in Process : child'[k] \in Busy <=> child[k] \in Busy
    BY <1>4 DEF EnemyPublishes, Turn, Busy, TypeOK, SharedTypes, Process,
                Pacman, Enemy
  <2> QED
    BY <2>1, <2>2, CustodyNat DEF Custody, Process
<1>5. CASE PacmanDropsTurn
  BY <1>5, CustodyNat
     DEF PacmanDropsTurn, Turn, Busy, Custody, vars, semaphore_vars, TypeOK,
         SharedTypes, Process, Pacman, Enemy
<1> QED
  BY <1>1, <1>2, <1>3, <1>4, <1>5 DEF Children, Child

\* A child that plays has a turn of the tick under way, or an orphaned one.
LEMMA PlayingLater ==
  ASSUME IInv, child[Enemy] = "playing"
  PROVE  created # 0
<1>1. Custody(Enemy) # 0
  BY CustodyNone DEF IInv, Busy, Process
<1>2. CASE BeforeShutdown
  BY <1>1, <1>2 DEF IInv, TurnExclusive, Creation
<1>3. CASE ~BeforeShutdown
  BY <1>3 DEF IInv, QuietShutdown, Creation, Process
<1> QED
  BY <1>2, <1>3

\* While a child plays, the tick is still on its way: nobody sets game_over.
LEMMA PlayingUninterrupted == IInv => NoTurnInterrupted
<1> SUFFICES ASSUME IInv, "thread_error" \notin flags, NEW k \in Process,
                    child[k] \in {"playing", "reported"}
             PROVE  ~game_over
  BY DEF NoTurnInterrupted
<1>1. BeforeShutdown
  BY DEF IInv, QuietShutdown
<1>2. Custody(k) # 0
  BY CustodyNone DEF IInv, Busy
<1>3. pc["signal"] = "await_done"
  BY <1>1, <1>2, CustodyNat DEF IInv, TurnExclusive, Orphaned, Process
<1> QED
  BY <1>1, <1>3 DEF IInv, OverAtEnd, Baton, Thread

\* Only the signal thread makes a turn or takes one back, one at a time.
LEMMA TurnExclusiveStep ==
  ASSUME IInv, TypeOK', [Next]_game_vars
  PROVE  TurnExclusive'
<1> USE SchedulerAssumption DEF IInv, TypeOK, ThreadTypes, TurnExclusive,
        BeforeShutdown, Running, Goto, Thread, game_vars, vars, clock_vars,
        priority_vars, semaphore_vars, local_vars, thread_vars, memory_vars,
        main_vars
<1>1. CASE TickAdvance /\ UNCHANGED child
  BY <1>1 DEF TickAdvance, Custody
<1>2. CASE TickEnds /\ UNCHANGED child
  BY <1>2 DEF TickEnds, Custody
<1>3. CASE TickStops /\ UNCHANGED child
  BY <1>3 DEF TickStops, Custody
<1>4. CASE TickOpens /\ UNCHANGED child
  BY <1>4 DEF TickOpens, Custody
<1>5. CASE TickCloses /\ UNCHANGED child
  BY <1>5, TickAwaits DEF Custody
<1>6. CASE SchedulerAwaitsTick /\ UNCHANGED child
  BY <1>6, SchedulerAwaits DEF Custody
<1>7. CASE scheduler_apply_priority_requests /\ UNCHANGED child
  BY <1>7 DEF scheduler_apply_priority_requests, Custody
<1>8. CASE scheduler_select_next_process /\ UNCHANGED child
  BY <1>8 DEF scheduler_select_next_process, Custody
<1>9. CASE SchedulerPublishes /\ UNCHANGED child
  BY <1>9 DEF SchedulerPublishes, Custody
<1>10. CASE SignalAwaitsSelection /\ UNCHANGED child
  BY <1>10, SignalAwaits DEF Custody
<1>11. CASE PostTurn /\ UNCHANGED child
  <2>1. /\ pc["signal"] = "post" /\ pc'["signal"] = "await_done"
        /\ main_pc' = main_pc /\ dispatched' = dispatched
    BY <1>11 DEF PostTurn
  <2>2. /\ Custody(dispatched)' = Custody(dispatched) + 1
        /\ Custody(Other(dispatched))' = Custody(Other(dispatched))
    BY <1>11, CustodyPosted
  <2> QED
    BY <2>1, <2>2, CustodyNat DEF Other, LocalTypes, Process, Pacman, Enemy
<1>12. CASE WaitDone /\ UNCHANGED child
  <2>1. /\ pc["signal"] = "await_done" /\ pc'["signal"] = "complete"
        /\ main_pc' = main_pc /\ dispatched' = dispatched
    BY <1>12 DEF WaitDone
  <2>2. /\ Custody(dispatched)' = Custody(dispatched) - 1
        /\ Custody(Other(dispatched))' = Custody(Other(dispatched))
    BY <1>12, CustodyTaken
  <2>3. Custody(Pacman)' \in Nat /\ Custody(Enemy)' \in Nat
    BY CustodyNatNext
  <2> QED
    BY <2>1, <2>2, <2>3, CustodyNat
       DEF Other, LocalTypes, Process, Pacman, Enemy
<1>13. CASE SignalCompletes /\ UNCHANGED child
  BY <1>13 DEF SignalCompletes, Custody
<1>14. CASE CollisionAwaitsTurn /\ UNCHANGED child
  BY <1>14, CollisionAwaits DEF Custody
<1>15. CASE ConsumeCollision /\ UNCHANGED child
  BY <1>15 DEF ConsumeCollision, Custody
<1>16. CASE decrement_life_for_collision /\ UNCHANGED child
  BY <1>16 DEF decrement_life_for_collision, Custody
<1>17. CASE read_game_over /\ UNCHANGED child
  BY <1>17 DEF read_game_over, Custody
<1>18. CASE CollisionReports /\ UNCHANGED child
  BY <1>18 DEF CollisionReports, Custody
<1>19. CASE runtime_init /\ UNCHANGED child
  BY <1>19 DEF runtime_init, Custody
<1>20. CASE CreateThread /\ UNCHANGED child
  <2>1. \/ pc'["signal"] = pc["signal"]
        \/ pc["signal"] = "unborn" /\ pc'["signal"] = "wait"
    <3>1. created \in 0..3
      BY <1>20 DEF CreateThread, LocalTypes, ThreadCount, Creation
    <3> QED
      BY <1>20, <3>1, FirstThreads DEF CreateThread, StartLabel, Creation
  <2>2. UNCHANGED <<sem_turn, sem_done, child, dispatched>> /\ BeforeShutdown
    BY <1>20 DEF CreateThread
  <2> QED
    BY <2>1, <2>2 DEF Custody
<1>21. CASE CancelThreads /\ UNCHANGED child
  BY <1>21 DEF CancelThreads, Custody
<1>22. CASE JoinThreads /\ UNCHANGED child
  BY <1>22, FirstThreads DEF JoinThreads, Custody
<1>23. CASE set_game_over /\ UNCHANGED child
  BY <1>23 DEF set_game_over, Custody
<1>24. CASE PostPacmanShutdown /\ UNCHANGED child
  BY <1>24 DEF PostPacmanShutdown, Custody
<1>25. CASE PostEnemyShutdown /\ UNCHANGED child
  BY <1>25 DEF PostEnemyShutdown, Custody
<1>26. CASE WaitChildren /\ UNCHANGED child
  BY <1>26 DEF WaitChildren, Custody
<1>27. CASE RuntimeInitFails /\ UNCHANGED child
  BY <1>27 DEF RuntimeInitFails, Custody
<1>28. CASE CreateFails /\ UNCHANGED child
  BY <1>28 DEF CreateFails, Custody
<1>29. CASE (\E t \in Thread : SpuriousWakeup(t)) /\ UNCHANGED child
  BY <1>29 DEF SpuriousWakeup, Custody
<1>30. CASE (\E t \in Thread : ThreadFails(t)) /\ UNCHANGED child
  BY <1>30 DEF ThreadFails, Custody
<1>31. CASE Children
  <2>1. UNCHANGED <<main_pc, pc, dispatched>>
    BY <1>31, ChildrenFrame
  <2>2. BeforeShutdown /\ pc["signal"] = "await_done" => ~game_over
    BY DEF OverAtEnd, Baton
  <2>3. /\ Custody(Pacman)' <= Custody(Pacman)
        /\ Custody(Enemy)' <= Custody(Enemy)
        /\ ~game_over => /\ Custody(Pacman)' = Custody(Pacman)
                         /\ Custody(Enemy)' = Custody(Enemy)
    BY <1>31, CustodyOfChildren
  <2> QED
    BY <2>1, <2>2, <2>3, CustodyNat, CustodyNatNext DEF LocalTypes, Process
<1>32. CASE UNCHANGED game_vars
  BY <1>32 DEF Custody
<1> QED
  BY <1>1, <1>2, <1>3, <1>4, <1>5, <1>6, <1>7, <1>8, <1>9, <1>10, <1>11,
     <1>12, <1>13, <1>14, <1>15, <1>16, <1>17, <1>18, <1>19, <1>20, <1>21,
     <1>22, <1>23, <1>24, <1>25, <1>26, <1>27, <1>28, <1>29, <1>30, <1>31,
     <1>32 DEF Next, SchedulerNext, Finished, TickThread, SchedulerThread,
     SignalThread, CollisionThread, MainThread, Failure

\* A turn without a signal thread stays one that a failure has orphaned.
LEMMA OrphanedStep ==
  ASSUME IInv, TypeOK', [Next]_game_vars
  PROVE  Orphaned'
<1> USE SchedulerAssumption DEF IInv, TypeOK, ThreadTypes, Baton, Running,
        Goto, Thread, BeforeShutdown, TurnExclusive, Orphaned, Creation,
        OneBaton, SharedTypes, Custody, Busy, Process, Pacman, Enemy, Other,
        game_vars, vars, clock_vars, priority_vars, semaphore_vars,
        local_vars, thread_vars, memory_vars, main_vars
<1>1. CASE TickAdvance /\ UNCHANGED child
  BY <1>1 DEF TickAdvance
<1>2. CASE TickEnds /\ UNCHANGED child
  BY <1>2 DEF TickEnds
<1>3. CASE TickStops /\ UNCHANGED child
  BY <1>3 DEF TickStops
<1>4. CASE TickOpens /\ UNCHANGED child
  BY <1>4 DEF TickOpens
<1>5. CASE TickCloses /\ UNCHANGED child
  BY <1>5, TickAwaits
<1>6. CASE SchedulerAwaitsTick /\ UNCHANGED child
  BY <1>6, SchedulerAwaits
<1>7. CASE scheduler_apply_priority_requests /\ UNCHANGED child
  BY <1>7 DEF scheduler_apply_priority_requests
<1>8. CASE scheduler_select_next_process /\ UNCHANGED child
  BY <1>8 DEF scheduler_select_next_process
<1>9. CASE SchedulerPublishes /\ UNCHANGED child
  BY <1>9 DEF SchedulerPublishes
<1>10. CASE SignalAwaitsSelection /\ UNCHANGED child
  <2>1. pc["signal"] = "wait" /\ UNCHANGED <<main_pc, sem_turn, sem_done>>
    BY <1>10, SignalAwaits
  <2>2. Custody(Pacman)' = Custody(Pacman) /\ Custody(Enemy)' = Custody(Enemy)
    BY <1>10, <2>1
  <2> HIDE DEF Custody
  <2> QED
    BY <2>1, <2>2
<1>11. CASE PostTurn /\ UNCHANGED child
  BY <1>11 DEF PostTurn
<1>12. CASE WaitDone /\ UNCHANGED child
  BY <1>12 DEF WaitDone
<1>13. CASE SignalCompletes /\ UNCHANGED child
  BY <1>13 DEF SignalCompletes
<1>14. CASE CollisionAwaitsTurn /\ UNCHANGED child
  BY <1>14, CollisionAwaits
<1>15. CASE ConsumeCollision /\ UNCHANGED child
  <2>1. pc["collision"] = "consume" /\ pc'["signal"] = pc["signal"]
    BY <1>15 DEF ConsumeCollision
  <2>2. Baton # {}
    BY <2>1
  <2>3. UNCHANGED <<main_pc, sem_turn, sem_done>>
    BY <1>15 DEF ConsumeCollision
  <2> QED
    BY <1>15, <2>1, <2>2, <2>3
<1>16. CASE decrement_life_for_collision /\ UNCHANGED child
  BY <1>16 DEF decrement_life_for_collision
<1>17. CASE read_game_over /\ UNCHANGED child
  BY <1>17 DEF read_game_over
<1>18. CASE CollisionReports /\ UNCHANGED child
  BY <1>18 DEF CollisionReports
<1>19. CASE runtime_init /\ UNCHANGED child
  BY <1>19 DEF runtime_init
<1>20. CASE CreateThread /\ UNCHANGED child
  BY <1>20, FirstThreads DEF CreateThread, StartLabel, LocalTypes, ThreadCount
<1>21. CASE CancelThreads /\ UNCHANGED child
  BY <1>21 DEF CancelThreads
<1>22. CASE JoinThreads /\ UNCHANGED child
  BY <1>22, FirstThreads DEF JoinThreads
<1>23. CASE set_game_over /\ UNCHANGED child
  BY <1>23 DEF set_game_over
<1>24. CASE PostPacmanShutdown /\ UNCHANGED child
  BY <1>24 DEF PostPacmanShutdown
<1>25. CASE PostEnemyShutdown /\ UNCHANGED child
  BY <1>25 DEF PostEnemyShutdown
<1>26. CASE WaitChildren /\ UNCHANGED child
  BY <1>26 DEF WaitChildren
<1>27. CASE RuntimeInitFails /\ UNCHANGED child
  BY <1>27 DEF RuntimeInitFails
<1>28. CASE CreateFails /\ UNCHANGED child
  BY <1>28 DEF CreateFails
<1>29. CASE (\E t \in Thread : SpuriousWakeup(t)) /\ UNCHANGED child
  BY <1>29 DEF SpuriousWakeup
<1>30. CASE (\E t \in Thread : ThreadFails(t)) /\ UNCHANGED child
  BY <1>30 DEF ThreadFails
<1>31. CASE Children
  <2>1. UNCHANGED <<main_pc, pc, flags>>
    BY <1>31, ChildrenFrame
  <2>2. /\ Custody(Pacman)' <= Custody(Pacman)
        /\ Custody(Enemy)' <= Custody(Enemy)
    BY <1>31, CustodyOfChildren
  <2> HIDE DEF Custody
  <2> QED
    BY <2>1, <2>2, CustodyNat, CustodyNatNext
<1>32. CASE UNCHANGED game_vars
  BY <1>32
<1> QED
  BY <1>1, <1>2, <1>3, <1>4, <1>5, <1>6, <1>7, <1>8, <1>9, <1>10, <1>11,
     <1>12, <1>13, <1>14, <1>15, <1>16, <1>17, <1>18, <1>19, <1>20, <1>21,
     <1>22, <1>23, <1>24, <1>25, <1>26, <1>27, <1>28, <1>29, <1>30, <1>31,
     <1>32 DEF Next, SchedulerNext, Finished, TickThread, SchedulerThread,
     SignalThread, CollisionThread, MainThread, Failure

\* Without a failure, the tokens of the shutdown find the game over.
LEMMA QuietShutdownStep ==
  ASSUME IInv, TypeOK', [Next]_game_vars
  PROVE  QuietShutdown'
<1> USE SchedulerAssumption DEF IInv, TypeOK, ThreadTypes, BeforeShutdown,
        QuietShutdown, Joined, SharedTypes, Running, Goto, Thread, Process,
        Pacman, Enemy, game_vars, vars, clock_vars, priority_vars,
        semaphore_vars, local_vars, thread_vars, memory_vars, main_vars
<1>1. CASE TickAdvance /\ UNCHANGED child
  BY <1>1 DEF TickAdvance
<1>2. CASE TickEnds /\ UNCHANGED child
  BY <1>2 DEF TickEnds
<1>3. CASE TickStops /\ UNCHANGED child
  BY <1>3 DEF TickStops
<1>4. CASE TickOpens /\ UNCHANGED child
  BY <1>4 DEF TickOpens
<1>5. CASE TickCloses /\ UNCHANGED child
  BY <1>5, TickAwaits
<1>6. CASE SchedulerAwaitsTick /\ UNCHANGED child
  BY <1>6, SchedulerAwaits
<1>7. CASE scheduler_apply_priority_requests /\ UNCHANGED child
  BY <1>7 DEF scheduler_apply_priority_requests
<1>8. CASE scheduler_select_next_process /\ UNCHANGED child
  BY <1>8 DEF scheduler_select_next_process
<1>9. CASE SchedulerPublishes /\ UNCHANGED child
  BY <1>9 DEF SchedulerPublishes
<1>10. CASE SignalAwaitsSelection /\ UNCHANGED child
  BY <1>10, SignalAwaits
<1>11. CASE PostTurn /\ UNCHANGED child
  BY <1>11 DEF PostTurn
<1>12. CASE WaitDone /\ UNCHANGED child
  BY <1>12 DEF WaitDone
<1>13. CASE SignalCompletes /\ UNCHANGED child
  BY <1>13 DEF SignalCompletes
<1>14. CASE CollisionAwaitsTurn /\ UNCHANGED child
  BY <1>14, CollisionAwaits
<1>15. CASE ConsumeCollision /\ UNCHANGED child
  BY <1>15 DEF ConsumeCollision
<1>16. CASE decrement_life_for_collision /\ UNCHANGED child
  BY <1>16 DEF decrement_life_for_collision
<1>17. CASE read_game_over /\ UNCHANGED child
  BY <1>17 DEF read_game_over
<1>18. CASE CollisionReports /\ UNCHANGED child
  BY <1>18 DEF CollisionReports
<1>19. CASE runtime_init /\ UNCHANGED child
  BY <1>19 DEF runtime_init
<1>20. CASE CreateThread /\ UNCHANGED child
  BY <1>20, FirstThreads DEF CreateThread, StartLabel, LocalTypes, ThreadCount
<1>21. CASE CancelThreads /\ UNCHANGED child
  BY <1>21 DEF CancelThreads
<1>22. CASE JoinThreads /\ UNCHANGED child
  <2>1. /\ main_pc = "join" /\ pc' = pc
        /\ sem_turn' = sem_turn /\ flags' = flags
    BY <1>22 DEF JoinThreads
  <2>2. pc["signal"] \in {"unborn", "done"}
    BY <1>22, FirstThreads DEF JoinThreads, LocalTypes, ThreadCount, Creation
  <2>3. CASE "thread_error" \notin flags
    <3>1. Custody(Pacman) = 0 /\ Custody(Enemy) = 0
      BY <2>1, <2>2, <2>3, CustodyNat DEF TurnExclusive, Orphaned
    <3>2. \A k \in Process : child[k] \notin Busy /\ sem_turn[k] = 0
      BY <3>1, CustodyNone
    <3> QED
      BY <1>22, <2>1, <3>2 DEF Busy
  <2> QED
    BY <2>1, <2>3
<1>23. CASE set_game_over /\ UNCHANGED child
  BY <1>23 DEF set_game_over
<1>24. CASE PostPacmanShutdown /\ UNCHANGED child
  BY <1>24 DEF PostPacmanShutdown
<1>25. CASE PostEnemyShutdown /\ UNCHANGED child
  BY <1>25 DEF PostEnemyShutdown
<1>26. CASE WaitChildren /\ UNCHANGED child
  BY <1>26 DEF WaitChildren
<1>27. CASE RuntimeInitFails /\ UNCHANGED child
  <2>1. /\ main_pc = "init" /\ pc' = pc
        /\ sem_turn' = sem_turn /\ flags' = flags
    BY <1>27 DEF RuntimeInitFails
  <2>2. Custody(Pacman) = 0 /\ Custody(Enemy) = 0
    BY <2>1 DEF Creation, TurnExclusive
  <2>3. \A k \in Process : child[k] \notin Busy /\ sem_turn[k] = 0
    BY <2>2, CustodyNone
  <2> QED
    BY <1>27, <2>1, <2>3 DEF Busy
<1>28. CASE CreateFails /\ UNCHANGED child
  BY <1>28 DEF CreateFails
<1>29. CASE (\E t \in Thread : SpuriousWakeup(t)) /\ UNCHANGED child
  BY <1>29 DEF SpuriousWakeup
<1>30. CASE (\E t \in Thread : ThreadFails(t)) /\ UNCHANGED child
  BY <1>30 DEF ThreadFails
<1>31. CASE \E k \in Process : ChildWakes(k)
  BY <1>31 DEF ChildWakes, Turn
<1>32. CASE \E k \in Process : ChildReadsGameOver(k)
  BY <1>32 DEF ChildReadsGameOver, Turn
<1>33. CASE \E k \in Process : \E priority \in Priorities : ChildRequests(k, priority)
  BY <1>33 DEF ChildRequests, Turn
<1>34. CASE \E k \in Process : ChildFinishes(k)
  BY <1>34 DEF ChildFinishes, Turn
<1>35. CASE \E ghost \in 1..GhostCount : EnemyPublishes(ghost)
  BY <1>35 DEF EnemyPublishes, Turn
<1>36. CASE PacmanDropsTurn
  BY <1>36 DEF PacmanDropsTurn, Turn
<1>37. CASE UNCHANGED game_vars
  BY <1>37
<1> QED
  BY <1>1, <1>2, <1>3, <1>4, <1>5, <1>6, <1>7, <1>8, <1>9, <1>10, <1>11,
     <1>12, <1>13, <1>14, <1>15, <1>16, <1>17, <1>18, <1>19, <1>20, <1>21,
     <1>22, <1>23, <1>24, <1>25, <1>26, <1>27, <1>28, <1>29, <1>30, <1>31,
     <1>32, <1>33, <1>34, <1>35, <1>36, <1>37 DEF Next, SchedulerNext,
     Finished, TickThread, SchedulerThread, SignalThread, CollisionThread,
     MainThread, Failure, Children, Child

-----------------------------------------------------------------------------
(* The creation of the threads, and the collision event. *)

\* Each thread is created before it does anything, in order.
LEMMA CreationStep ==
  ASSUME IInv, TypeOK', [Next]_game_vars
  PROVE  Creation'
<1> USE SchedulerAssumption DEF IInv, TypeOK, ThreadTypes, Running, Goto,
        Thread, Creation, game_vars, vars, clock_vars, priority_vars,
        semaphore_vars, local_vars, thread_vars, memory_vars, main_vars
<1>1. CASE TickAdvance /\ UNCHANGED child
  BY <1>1 DEF TickAdvance
<1>2. CASE TickEnds /\ UNCHANGED child
  BY <1>2 DEF TickEnds
<1>3. CASE TickStops /\ UNCHANGED child
  BY <1>3 DEF TickStops
<1>4. CASE TickOpens /\ UNCHANGED child
  BY <1>4 DEF TickOpens
<1>5. CASE TickCloses /\ UNCHANGED child
  BY <1>5, TickAwaits
<1>6. CASE SchedulerAwaitsTick /\ UNCHANGED child
  BY <1>6, SchedulerAwaits
<1>7. CASE scheduler_apply_priority_requests /\ UNCHANGED child
  BY <1>7 DEF scheduler_apply_priority_requests
<1>8. CASE scheduler_select_next_process /\ UNCHANGED child
  BY <1>8 DEF scheduler_select_next_process
<1>9. CASE SchedulerPublishes /\ UNCHANGED child
  BY <1>9 DEF SchedulerPublishes
<1>10. CASE SignalAwaitsSelection /\ UNCHANGED child
  BY <1>10, SignalAwaits
<1>11. CASE PostTurn /\ UNCHANGED child
  BY <1>11 DEF PostTurn
<1>12. CASE WaitDone /\ UNCHANGED child
  BY <1>12 DEF WaitDone
<1>13. CASE SignalCompletes /\ UNCHANGED child
  BY <1>13 DEF SignalCompletes
<1>14. CASE CollisionAwaitsTurn /\ UNCHANGED child
  BY <1>14, CollisionAwaits
<1>15. CASE ConsumeCollision /\ UNCHANGED child
  BY <1>15 DEF ConsumeCollision
<1>16. CASE decrement_life_for_collision /\ UNCHANGED child
  BY <1>16 DEF decrement_life_for_collision
<1>17. CASE read_game_over /\ UNCHANGED child
  BY <1>17 DEF read_game_over
<1>18. CASE CollisionReports /\ UNCHANGED child
  BY <1>18 DEF CollisionReports
<1>19. CASE runtime_init /\ UNCHANGED child
  BY <1>19 DEF runtime_init, ThreadCount
<1>20. CASE CreateThread /\ UNCHANGED child
  <2>1. created \in 0..3
    BY <1>20 DEF CreateThread, LocalTypes, ThreadCount
  <2>2. /\ created' = created + 1
        /\ main_pc' = IF created + 1 = 4 THEN "join" ELSE "create"
    BY <1>20 DEF CreateThread, ThreadCount
  <2>3. \A t \in Thread : t # CreationOrder[created + 1] => pc'[t] = pc[t]
    BY <1>20 DEF CreateThread
  <2> QED
    BY <2>1, <2>2, <2>3, FirstThreads DEF ThreadCount
<1>21. CASE CancelThreads /\ UNCHANGED child
  BY <1>21 DEF CancelThreads
<1>22. CASE JoinThreads /\ UNCHANGED child
  BY <1>22, FirstThreads DEF JoinThreads
<1>23. CASE set_game_over /\ UNCHANGED child
  BY <1>23 DEF set_game_over
<1>24. CASE PostPacmanShutdown /\ UNCHANGED child
  BY <1>24 DEF PostPacmanShutdown
<1>25. CASE PostEnemyShutdown /\ UNCHANGED child
  BY <1>25 DEF PostEnemyShutdown
<1>26. CASE WaitChildren /\ UNCHANGED child
  BY <1>26 DEF WaitChildren
<1>27. CASE RuntimeInitFails /\ UNCHANGED child
  BY <1>27 DEF RuntimeInitFails
<1>28. CASE CreateFails /\ UNCHANGED child
  BY <1>28 DEF CreateFails
<1>29. CASE (\E t \in Thread : SpuriousWakeup(t)) /\ UNCHANGED child
  BY <1>29 DEF SpuriousWakeup
<1>30. CASE (\E t \in Thread : ThreadFails(t)) /\ UNCHANGED child
  BY <1>30 DEF ThreadFails
<1>31. CASE \E k \in Process : ChildWakes(k)
  BY <1>31 DEF ChildWakes, Turn
<1>32. CASE \E k \in Process : ChildReadsGameOver(k)
  BY <1>32 DEF ChildReadsGameOver, Turn
<1>33. CASE \E k \in Process : \E priority \in Priorities : ChildRequests(k, priority)
  BY <1>33 DEF ChildRequests, Turn
<1>34. CASE \E k \in Process : ChildFinishes(k)
  BY <1>34 DEF ChildFinishes, Turn
<1>35. CASE \E ghost \in 1..GhostCount : EnemyPublishes(ghost)
  <2>1. child[Enemy] = "playing"
    BY <1>35 DEF EnemyPublishes
  <2>2. UNCHANGED <<main_pc, created, pc, flags>>
    BY <1>35 DEF EnemyPublishes
  <2>3. created # 0
    BY <2>1, PlayingLater
  <2> QED
    BY <2>2, <2>3
<1>36. CASE PacmanDropsTurn
  BY <1>36 DEF PacmanDropsTurn, Turn
<1>37. CASE UNCHANGED game_vars
  BY <1>37
<1> QED
  BY <1>1, <1>2, <1>3, <1>4, <1>5, <1>6, <1>7, <1>8, <1>9, <1>10, <1>11,
     <1>12, <1>13, <1>14, <1>15, <1>16, <1>17, <1>18, <1>19, <1>20, <1>21,
     <1>22, <1>23, <1>24, <1>25, <1>26, <1>27, <1>28, <1>29, <1>30, <1>31,
     <1>32, <1>33, <1>34, <1>35, <1>36, <1>37 DEF Next, SchedulerNext,
     Finished, TickThread, SchedulerThread, SignalThread, CollisionThread,
     MainThread, Failure, Children, Child

\* The event of a tick is charged once, and before the next tick opens.
LEMMA ChargesStep ==
  ASSUME IInv, TypeOK', [Next]_game_vars
  PROVE  EventFresh' /\ Charges'
<1> USE SchedulerAssumption DEF IInv, TypeOK, ThreadTypes, EventFresh,
        Charges, Unsettled, Settled, NoCollision, OneBaton, Baton,
        SharedTypes, Running, Goto, Thread, Process, Pacman, Enemy, game_vars,
        vars, clock_vars, priority_vars, semaphore_vars, local_vars,
        thread_vars, memory_vars, main_vars
<1>1. CASE TickAdvance /\ UNCHANGED child
  <2>1. collision = NoCollision
    BY <1>1 DEF TickAdvance
  <2> QED
    BY <1>1, <2>1 DEF LocalTypes, TickAdvance
<1>2. CASE TickEnds /\ UNCHANGED child
  BY <1>2 DEF TickEnds
<1>3. CASE TickStops /\ UNCHANGED child
  BY <1>3 DEF TickStops
<1>4. CASE TickOpens /\ UNCHANGED child
  BY <1>4 DEF TickOpens
<1>5. CASE TickCloses /\ UNCHANGED child
  BY <1>5, TickAwaits
<1>6. CASE SchedulerAwaitsTick /\ UNCHANGED child
  BY <1>6, SchedulerAwaits
<1>7. CASE scheduler_apply_priority_requests /\ UNCHANGED child
  BY <1>7 DEF scheduler_apply_priority_requests
<1>8. CASE scheduler_select_next_process /\ UNCHANGED child
  BY <1>8 DEF scheduler_select_next_process
<1>9. CASE SchedulerPublishes /\ UNCHANGED child
  BY <1>9 DEF SchedulerPublishes
<1>10. CASE SignalAwaitsSelection /\ UNCHANGED child
  BY <1>10, SignalAwaits
<1>11. CASE PostTurn /\ UNCHANGED child
  BY <1>11 DEF PostTurn
<1>12. CASE WaitDone /\ UNCHANGED child
  BY <1>12 DEF WaitDone
<1>13. CASE SignalCompletes /\ UNCHANGED child
  BY <1>13 DEF SignalCompletes
<1>14. CASE CollisionAwaitsTurn /\ UNCHANGED child
  BY <1>14, CollisionAwaits
<1>15. CASE ConsumeCollision /\ UNCHANGED child
  <2>1. pc["collision"] = "consume" /\ collision' = NoCollision
    BY <1>15 DEF ConsumeCollision
  <2>2. BeforeShutdown /\ Baton = {"collision"}
    BY <2>1 DEF Joined
  <2>3. pc["signal"] \notin {"post", "await_done"}
    BY <2>2
  <2>4. child[Enemy] \notin Busy /\ sem_turn[Enemy] = 0
    <3>1. Custody(Enemy) = 0
      BY <2>2, <2>3, NoTurnOut
    <3> QED
      BY <3>1, CustodyNone
  <2>5. ~Unsettled
    BY <2>2, <2>4 DEF Busy
  <2>6. ~Unsettled'
    BY <1>15, <2>1, <2>5 DEF ConsumeCollision
  <2>7. last_processed_collision_tick' <= global_tick'
    BY <1>15 DEF ConsumeCollision
  <2> QED
    BY <2>1, <2>6, <2>7
<1>16. CASE decrement_life_for_collision /\ UNCHANGED child
  BY <1>16 DEF decrement_life_for_collision
<1>17. CASE read_game_over /\ UNCHANGED child
  BY <1>17 DEF read_game_over
<1>18. CASE CollisionReports /\ UNCHANGED child
  BY <1>18 DEF CollisionReports
<1>19. CASE runtime_init /\ UNCHANGED child
  BY <1>19 DEF runtime_init
<1>20. CASE CreateThread /\ UNCHANGED child
  <2>1. created \in 0..3
    BY <1>20 DEF CreateThread, LocalTypes, ThreadCount, Creation
  <2>2. /\ pc'["tick"] \in {"top", pc["tick"]}
        /\ created # 0 => pc'["tick"] = pc["tick"]
        /\ pc'["scheduler"] \in {"wait", pc["scheduler"]}
        /\ pc'["signal"] \in {"wait", pc["signal"]}
        /\ pc'["collision"] \in {"wait", pc["collision"]}
    BY <1>20, <2>1, FirstThreads DEF CreateThread, StartLabel
  <2>3. UNCHANGED <<flags, collision, global_tick, game_over, sem_turn, child,
                    last_processed_collision_tick>>
    BY <1>20 DEF CreateThread
  <2>4. Unsettled' => Unsettled
    BY <2>2, <2>3
  <2>5. created # 0 /\ Settled' => Settled
    BY <2>2, <2>3
  <2> QED
    BY <2>3, <2>4, <2>5 DEF Creation
<1>21. CASE CancelThreads /\ UNCHANGED child
  BY <1>21 DEF CancelThreads
<1>22. CASE JoinThreads /\ UNCHANGED child
  BY <1>22, FirstThreads DEF JoinThreads
<1>23. CASE set_game_over /\ UNCHANGED child
  BY <1>23 DEF set_game_over
<1>24. CASE PostPacmanShutdown /\ UNCHANGED child
  BY <1>24 DEF PostPacmanShutdown, Joined
<1>25. CASE PostEnemyShutdown /\ UNCHANGED child
  BY <1>25 DEF PostEnemyShutdown, Joined
<1>26. CASE WaitChildren /\ UNCHANGED child
  BY <1>26 DEF WaitChildren
<1>27. CASE RuntimeInitFails /\ UNCHANGED child
  BY <1>27 DEF RuntimeInitFails
<1>28. CASE CreateFails /\ UNCHANGED child
  BY <1>28 DEF CreateFails
<1>29. CASE (\E t \in Thread : SpuriousWakeup(t)) /\ UNCHANGED child
  BY <1>29 DEF SpuriousWakeup
<1>30. CASE (\E t \in Thread : ThreadFails(t)) /\ UNCHANGED child
  BY <1>30 DEF ThreadFails
<1>31. CASE \E k \in Process : ChildWakes(k)
  BY <1>31 DEF ChildWakes, Turn
<1>32. CASE \E k \in Process : ChildReadsGameOver(k)
  BY <1>32 DEF ChildReadsGameOver, Turn
<1>33. CASE \E k \in Process : \E priority \in Priorities : ChildRequests(k, priority)
  BY <1>33 DEF ChildRequests, Turn
<1>34. CASE \E k \in Process : ChildFinishes(k)
  BY <1>34 DEF ChildFinishes, Turn
<1>35. CASE \E ghost \in 1..GhostCount : EnemyPublishes(ghost)
  <2>1. PICK ghost \in 1..GhostCount : EnemyPublishes(ghost)
    BY <1>35
  <2>2. /\ child[Enemy] = "playing" /\ child'[Enemy] = "reported"
        /\ collision' = [tick |-> global_tick, ghost |-> ghost]
        /\ UNCHANGED <<pc, flags, global_tick, game_over, sem_turn,
                       last_processed_collision_tick>>
    BY <2>1 DEF EnemyPublishes, Turn
  <2>3. ~Settled
    <3>1. BeforeShutdown => Baton = {} \/ pc["signal"] = "await_done"
      BY <2>2, CustodyNone, NoTurnOut DEF Busy
    <3> QED
      BY <3>1 DEF Joined
  <2>4. ~Settled' /\ (Unsettled' => Unsettled)
    BY <2>2, <2>3
  <2> QED
    BY <2>2, <2>4
<1>36. CASE PacmanDropsTurn
  BY <1>36 DEF PacmanDropsTurn, Turn
<1>37. CASE UNCHANGED game_vars
  BY <1>37
<1> QED
  BY <1>1, <1>2, <1>3, <1>4, <1>5, <1>6, <1>7, <1>8, <1>9, <1>10, <1>11,
     <1>12, <1>13, <1>14, <1>15, <1>16, <1>17, <1>18, <1>19, <1>20, <1>21,
     <1>22, <1>23, <1>24, <1>25, <1>26, <1>27, <1>28, <1>29, <1>30, <1>31,
     <1>32, <1>33, <1>34, <1>35, <1>36, <1>37 DEF Next, SchedulerNext,
     Finished, TickThread, SchedulerThread, SignalThread, CollisionThread,
     MainThread, Failure, Children, Child

-----------------------------------------------------------------------------
(* The selection. *)

\* No request arrives between the application of the requests and the turn.
LEMMA SelectionStep ==
  ASSUME IInv, TypeOK', [Next]_game_vars
  PROVE  Selection' /\ DispatchRespectsPriority'
<1> USE SchedulerAssumption DEF IInv, TypeOK, ThreadTypes, Baton, OneBaton,
        BeforeShutdown, Joined, Selection, DispatchRespectsPriority, Other,
        Running, Goto, Thread, game_vars, vars, clock_vars, priority_vars,
        semaphore_vars, local_vars, thread_vars, memory_vars, main_vars
<1>1. CASE TickAdvance /\ UNCHANGED child
  BY <1>1 DEF TickAdvance
<1>2. CASE TickEnds /\ UNCHANGED child
  BY <1>2 DEF TickEnds
<1>3. CASE TickStops /\ UNCHANGED child
  BY <1>3 DEF TickStops
<1>4. CASE TickOpens /\ UNCHANGED child
  <2>1. /\ UNCHANGED <<prioridad, request_active, choice, selected_process,
                       dispatched, main_pc>>
        /\ "selection_ready" \notin flags'
        /\ pc'["scheduler"] = pc["scheduler"] /\ pc'["signal"] = pc["signal"]
    BY <1>4 DEF TickOpens
  <2> QED
    BY <2>1
<1>5. CASE TickCloses /\ UNCHANGED child
  BY <1>5, TickAwaits
<1>6. CASE SchedulerAwaitsTick /\ UNCHANGED child
  BY <1>6, SchedulerAwaits
<1>7. CASE scheduler_apply_priority_requests /\ UNCHANGED child
  <2>1. /\ pc["scheduler"] = "apply" /\ pc'["scheduler"] = "select"
        /\ pc'["signal"] = pc["signal"]
        /\ request_active' = {} /\ flags' = flags
    BY <1>7 DEF scheduler_apply_priority_requests
  <2>2. pc["signal"] # "post" /\ "selection_ready" \notin flags
    BY <2>1
  <2> QED
    BY <2>1, <2>2
<1>8. CASE scheduler_select_next_process /\ UNCHANGED child
  <2>1. /\ pc["scheduler"] = "select" /\ pc'["signal"] = pc["signal"]
        /\ choice' = Preferred
        /\ UNCHANGED <<prioridad, request_active, flags>>
    BY <1>8 DEF scheduler_select_next_process
  <2>2. /\ pc["signal"] # "post" /\ "selection_ready" \notin flags
        /\ request_active = {}
    BY <2>1
  <2>3. prioridad'[choice'] >= prioridad'[Other(choice')]
    BY <2>1, PreferredPriority
  <2> QED
    BY <2>1, <2>2, <2>3
<1>9. CASE SchedulerPublishes /\ UNCHANGED child
  BY <1>9 DEF SchedulerPublishes
<1>10. CASE SignalAwaitsSelection /\ UNCHANGED child
  BY <1>10, SignalAwaits
<1>11. CASE PostTurn /\ UNCHANGED child
  BY <1>11 DEF PostTurn
<1>12. CASE WaitDone /\ UNCHANGED child
  BY <1>12 DEF WaitDone
<1>13. CASE SignalCompletes /\ UNCHANGED child
  BY <1>13 DEF SignalCompletes
<1>14. CASE CollisionAwaitsTurn /\ UNCHANGED child
  BY <1>14, CollisionAwaits
<1>15. CASE ConsumeCollision /\ UNCHANGED child
  BY <1>15 DEF ConsumeCollision
<1>16. CASE decrement_life_for_collision /\ UNCHANGED child
  BY <1>16 DEF decrement_life_for_collision
<1>17. CASE read_game_over /\ UNCHANGED child
  BY <1>17 DEF read_game_over
<1>18. CASE CollisionReports /\ UNCHANGED child
  BY <1>18 DEF CollisionReports
<1>19. CASE runtime_init /\ UNCHANGED child
  BY <1>19 DEF runtime_init
<1>20. CASE CreateThread /\ UNCHANGED child
  BY <1>20, FirstThreads DEF CreateThread, StartLabel, LocalTypes, ThreadCount
<1>21. CASE CancelThreads /\ UNCHANGED child
  BY <1>21 DEF CancelThreads
<1>22. CASE JoinThreads /\ UNCHANGED child
  BY <1>22, FirstThreads DEF JoinThreads
<1>23. CASE set_game_over /\ UNCHANGED child
  BY <1>23 DEF set_game_over
<1>24. CASE PostPacmanShutdown /\ UNCHANGED child
  BY <1>24 DEF PostPacmanShutdown
<1>25. CASE PostEnemyShutdown /\ UNCHANGED child
  BY <1>25 DEF PostEnemyShutdown
<1>26. CASE WaitChildren /\ UNCHANGED child
  BY <1>26 DEF WaitChildren
<1>27. CASE RuntimeInitFails /\ UNCHANGED child
  BY <1>27 DEF RuntimeInitFails
<1>28. CASE CreateFails /\ UNCHANGED child
  BY <1>28 DEF CreateFails
<1>29. CASE (\E t \in Thread : SpuriousWakeup(t)) /\ UNCHANGED child
  BY <1>29 DEF SpuriousWakeup
<1>30. CASE (\E t \in Thread : ThreadFails(t)) /\ UNCHANGED child
  BY <1>30 DEF ThreadFails
<1>31. CASE \E k \in Process : ChildWakes(k)
  BY <1>31 DEF ChildWakes, Turn
<1>32. CASE \E k \in Process : ChildReadsGameOver(k)
  BY <1>32 DEF ChildReadsGameOver, Turn
<1>33. CASE \E k \in Process : \E priority \in Priorities : ChildRequests(k, priority)
  <2>1. PICK k \in Process : \E priority \in Priorities : ChildRequests(k, priority)
    BY <1>33
  <2>2. /\ child[k] = "playing"
        /\ UNCHANGED <<pc, main_pc, flags, prioridad, choice, selected_process,
                       dispatched>>
    BY <2>1 DEF ChildRequests
  <2>3. BeforeShutdown => Baton = {} \/ pc["signal"] = "await_done"
    BY <2>2, NoTurnOut, CustodyNone DEF Busy, Process
  <2>4. /\ pc["scheduler"] \notin {"select", "publish"} /\ pc["signal"] # "post"
        /\ BeforeShutdown => "selection_ready" \notin flags
    BY <2>3
  <2> QED
    BY <2>2, <2>4
<1>34. CASE \E k \in Process : ChildFinishes(k)
  BY <1>34 DEF ChildFinishes, Turn
<1>35. CASE \E ghost \in 1..GhostCount : EnemyPublishes(ghost)
  BY <1>35 DEF EnemyPublishes, Turn
<1>36. CASE PacmanDropsTurn
  BY <1>36 DEF PacmanDropsTurn, Turn
<1>37. CASE UNCHANGED game_vars
  BY <1>37
<1> QED
  BY <1>1, <1>2, <1>3, <1>4, <1>5, <1>6, <1>7, <1>8, <1>9, <1>10, <1>11,
     <1>12, <1>13, <1>14, <1>15, <1>16, <1>17, <1>18, <1>19, <1>20, <1>21,
     <1>22, <1>23, <1>24, <1>25, <1>26, <1>27, <1>28, <1>29, <1>30, <1>31,
     <1>32, <1>33, <1>34, <1>35, <1>36, <1>37 DEF Next, SchedulerNext,
     Finished, TickThread, SchedulerThread, SignalThread, CollisionThread,
     MainThread, Failure, Children, Child

-----------------------------------------------------------------------------
(* The end. *)

\* Whatever stops a thread, other than the end of the game, is an error.
LEMMA EndingStep ==
  ASSUME IInv, TypeOK', [Next]_game_vars
  PROVE  Ending'
<1> USE SchedulerAssumption DEF IInv, TypeOK, ThreadTypes, Ending, Running,
        Goto, Thread, Stopping, BeforeShutdown, Joined, game_vars, vars,
        clock_vars, priority_vars, semaphore_vars, local_vars, thread_vars,
        memory_vars, main_vars
<1>1. CASE TickAdvance /\ UNCHANGED child
  BY <1>1 DEF TickAdvance
<1>2. CASE TickEnds /\ UNCHANGED child
  BY <1>2 DEF TickEnds, SharedTypes, Charges, Settled
<1>3. CASE TickStops /\ UNCHANGED child
  BY <1>3 DEF TickStops
<1>4. CASE TickOpens /\ UNCHANGED child
  BY <1>4 DEF TickOpens
<1>5. CASE TickCloses /\ UNCHANGED child
  BY <1>5, TickAwaits
<1>6. CASE SchedulerAwaitsTick /\ UNCHANGED child
  BY <1>6, SchedulerAwaits
<1>7. CASE scheduler_apply_priority_requests /\ UNCHANGED child
  BY <1>7 DEF scheduler_apply_priority_requests
<1>8. CASE scheduler_select_next_process /\ UNCHANGED child
  BY <1>8 DEF scheduler_select_next_process
<1>9. CASE SchedulerPublishes /\ UNCHANGED child
  BY <1>9 DEF SchedulerPublishes
<1>10. CASE SignalAwaitsSelection /\ UNCHANGED child
  BY <1>10, SignalAwaits
<1>11. CASE PostTurn /\ UNCHANGED child
  BY <1>11 DEF PostTurn
<1>12. CASE WaitDone /\ UNCHANGED child
  BY <1>12 DEF WaitDone
<1>13. CASE SignalCompletes /\ UNCHANGED child
  BY <1>13 DEF SignalCompletes
<1>14. CASE CollisionAwaitsTurn /\ UNCHANGED child
  BY <1>14, CollisionAwaits
<1>15. CASE ConsumeCollision /\ UNCHANGED child
  BY <1>15 DEF ConsumeCollision
<1>16. CASE decrement_life_for_collision /\ UNCHANGED child
  BY <1>16 DEF decrement_life_for_collision, SharedTypes, Charges, Settled
<1>17. CASE read_game_over /\ UNCHANGED child
  BY <1>17 DEF read_game_over
<1>18. CASE CollisionReports /\ UNCHANGED child
  BY <1>18 DEF CollisionReports
<1>19. CASE runtime_init /\ UNCHANGED child
  BY <1>19 DEF runtime_init
<1>20. CASE CreateThread /\ UNCHANGED child
  BY <1>20, FirstThreads DEF CreateThread, StartLabel, ThreadCount
<1>21. CASE CancelThreads /\ UNCHANGED child
  BY <1>21 DEF CancelThreads
<1>22. CASE JoinThreads /\ UNCHANGED child
  <2>1. /\ main_pc = "join"
        /\ status' = IF "thread_error" \in flags THEN "error" ELSE status
        /\ UNCHANGED <<flags, pc, game_over, pacman_lives, global_tick,
                       collision, created, saw_game_over>>
    BY <1>22 DEF JoinThreads
  <2>2. status' = "ok" => pc["tick"] = "done"
    BY <1>22, <2>1, FirstThreads DEF JoinThreads, ThreadCount
  <2>3. main_pc' = "set_game_over"
    BY <1>22 DEF JoinThreads
  <2> QED
    BY <2>1, <2>2, <2>3
<1>23. CASE set_game_over /\ UNCHANGED child
  BY <1>23 DEF set_game_over
<1>24. CASE PostPacmanShutdown /\ UNCHANGED child
  BY <1>24 DEF PostPacmanShutdown
<1>25. CASE PostEnemyShutdown /\ UNCHANGED child
  BY <1>25 DEF PostEnemyShutdown
<1>26. CASE WaitChildren /\ UNCHANGED child
  BY <1>26 DEF WaitChildren
<1>27. CASE RuntimeInitFails /\ UNCHANGED child
  BY <1>27 DEF RuntimeInitFails
<1>28. CASE CreateFails /\ UNCHANGED child
  BY <1>28 DEF CreateFails
<1>29. CASE (\E t \in Thread : SpuriousWakeup(t)) /\ UNCHANGED child
  BY <1>29 DEF SpuriousWakeup
<1>30. CASE (\E t \in Thread : ThreadFails(t)) /\ UNCHANGED child
  BY <1>30 DEF ThreadFails
<1>31. CASE \E k \in Process : ChildWakes(k)
  BY <1>31 DEF ChildWakes, Turn
<1>32. CASE \E k \in Process : ChildReadsGameOver(k)
  BY <1>32 DEF ChildReadsGameOver, Turn
<1>33. CASE \E k \in Process : \E priority \in Priorities : ChildRequests(k, priority)
  BY <1>33 DEF ChildRequests, Turn
<1>34. CASE \E k \in Process : ChildFinishes(k)
  BY <1>34 DEF ChildFinishes, Turn
<1>35. CASE \E ghost \in 1..GhostCount : EnemyPublishes(ghost)
  <2>1. /\ child[Enemy] = "playing"
        /\ UNCHANGED <<main_pc, created, status, pc, flags, saw_game_over,
                       clock_vars>>
    BY <1>35 DEF EnemyPublishes
  <2>2. "thread_error" \in flags \/ ~game_over
    BY <2>1, PlayingUninterrupted DEF NoTurnInterrupted, Process
  <2> QED
    BY <2>1, <2>2
<1>36. CASE PacmanDropsTurn
  BY <1>36 DEF PacmanDropsTurn, Turn
<1>37. CASE UNCHANGED game_vars
  BY <1>37
<1> QED
  BY <1>1, <1>2, <1>3, <1>4, <1>5, <1>6, <1>7, <1>8, <1>9, <1>10, <1>11,
     <1>12, <1>13, <1>14, <1>15, <1>16, <1>17, <1>18, <1>19, <1>20, <1>21,
     <1>22, <1>23, <1>24, <1>25, <1>26, <1>27, <1>28, <1>29, <1>30, <1>31,
     <1>32, <1>33, <1>34, <1>35, <1>36, <1>37 DEF Next, SchedulerNext,
     Finished, TickThread, SchedulerThread, SignalThread, CollisionThread,
     MainThread, Failure, Children, Child

-----------------------------------------------------------------------------
(* The theorems. *)

\* IInv holds at the start.
LEMMA InvInit == Init => IInv
<1> SUFFICES ASSUME Init PROVE IInv
  OBVIOUS
<1>1. TypeOK
  BY TypeInit
<1> USE DEF Init, SchedulerInit
<1>2. Baton = {}
  BY DEF Baton, Thread
<1>3. TurnExclusive
  BY DEF TurnExclusive, Custody, Busy, Process, Pacman, Enemy, Thread
<1>4. Creation /\ Joined /\ Ending
  BY DEF Creation, Joined, Ending, BeforeShutdown, Thread, ThreadCount
<1>5. EventFresh /\ Charges
  BY DEF EventFresh, Charges
<1>6. Selection /\ DispatchRespectsPriority
  BY DEF Selection, DispatchRespectsPriority, Thread
<1>7. OneBaton /\ OverAtEnd /\ Orphaned /\ QuietShutdown
  BY <1>2 DEF OneBaton, OverAtEnd, Orphaned, QuietShutdown, BeforeShutdown, Thread
<1> QED
  BY <1>1, <1>3, <1>4, <1>5, <1>6, <1>7 DEF IInv

\* IInv is inductive: the parts, one lemma each, put together.
LEMMA InvStep == IInv /\ [Next]_game_vars => IInv'
<1> SUFFICES ASSUME IInv, [Next]_game_vars PROVE IInv'
  OBVIOUS
<1>1. TypeOK'
  BY SharedTypesStep, ThreadTypesStep, LocalTypesStep DEF IInv, TypeOK
<1>2. OneBaton' /\ Joined' /\ OverAtEnd'
  BY OneBatonStep, JoinedStep, OverAtEndStep DEF IInv
<1>3. TurnExclusive' /\ Orphaned' /\ QuietShutdown'
  BY <1>1, TurnExclusiveStep, OrphanedStep, QuietShutdownStep
<1>4. Creation' /\ EventFresh' /\ Charges'
  BY <1>1, CreationStep, ChargesStep
<1>5. Selection' /\ DispatchRespectsPriority' /\ Ending'
  BY <1>1, SelectionStep, EndingStep
<1> QED
  BY <1>1, <1>2, <1>3, <1>4, <1>5 DEF IInv

\* IInv is an invariant of P0 and its children.
THEOREM Invariance == Spec => []IInv
BY InvInit, InvStep, PTL DEF Spec

\* Type correctness: the tick counter never passes max_ticks, the lives never
\* go below zero, and each thread stays within its own code (scheduler.c:449).
THEOREM TypeCorrect == Spec => []TypeOK
<1>1. IInv => TypeOK
  BY DEF IInv
<1> QED
  BY Invariance, <1>1, PTL

\* The threads of scheduler.c hand the tick over from one to the next: no flag
\* is lost, overwritten or seen twice.
THEOREM BatonUnique == Spec => []OneBaton
<1>1. IInv => OneBaton
  BY DEF IInv
<1> QED
  BY Invariance, <1>1, PTL

\* Until the shutdown P0 never has two turns out, and an answer it waits for
\* belongs to the turn it posted (scheduler.c:147-190).
THEOREM OneTurnAtATime == Spec => []TurnExclusive
<1>1. IInv => TurnExclusive
  BY DEF IInv
<1> QED
  BY Invariance, <1>1, PTL

\* The turn goes to the process of the higher priority, as requested up to the
\* moment it is posted (scheduler.c:197-254).
THEOREM PriorityRespected == Spec => []DispatchRespectsPriority
<1>1. IInv => DispatchRespectsPriority
  BY DEF IInv
<1> QED
  BY Invariance, <1>1, PTL

\* The duplicate test of scheduler_process_collision_events (scheduler.c:341)
\* never discards an event.
THEOREM NoEventDiscarded == Spec => []EventFresh
<1>1. IInv => EventFresh
  BY DEF IInv
<1> QED
  BY Invariance, <1>1, PTL

\* A tick opens only when the previous one is settled (scheduler.c:484).
THEOREM TicksSettled == Spec => []TickOpensSettled
<1>1. ASSUME IInv PROVE TickOpensSettled
  <2>1. CASE pc["tick"] = "open"
    <3>1. Baton # {} /\ pc["signal"] # "await_done"
      BY <1>1, <2>1 DEF IInv, OneBaton, Baton, Thread
    <3>2. BeforeShutdown => Custody(Pacman) = 0 /\ Custody(Enemy) = 0
      BY <1>1, <3>1, NoTurnOut
    <3>3. /\ collision = NoCollision
          /\ last_processed_collision_tick < global_tick
      BY <1>1, <2>1 DEF IInv, Charges, Settled, Unsettled
    <3> QED
      BY <3>2, <3>3 DEF TickOpensSettled
  <2> QED
    BY <2>1 DEF TickOpensSettled
<1> QED
  BY Invariance, <1>1, PTL

\* Unless a call fails, P0 never ends the game in the middle of a turn, which
\* the publisher thread of P1 would drop (pacman.c:564).
THEOREM TurnsComplete == Spec => []NoTurnInterrupted
BY Invariance, PlayingUninterrupted, PTL

\* A run that reports success has lost every life or played every tick, and
\* owes no charge (scheduler.c:822-882).
THEOREM SuccessHasAReason == Spec => []StoppedForAReason
<1>1. IInv => StoppedForAReason
  BY DEF IInv, Ending, StoppedForAReason, BeforeShutdown
<1> QED
  BY Invariance, <1>1, PTL

-----------------------------------------------------------------------------
(* P0 plays the game of TurnGame.  The steps are read off the inductive    *)
(* invariant: the baton is in one place, so that the phase is that place,  *)
(* and who plays is who was granted the turn.                              *)

\* What the inductive invariant does not say: without a failing call
\* there is no error but that of a creation, and lives that are spent end the
\* game at once.
Unfailing ==
  /\ "thread_error" \notin flags
  /\ status = "error" => ResourcesMayFail
  /\ pacman_lives = 0 => game_over

\* A step that the game does not see.
Invisible == UNCHANGED <<global_tick, pacman_lives, game_over, Phase, Holder,
                         last_round_robin, Wants, Owed>>

\* A step of P0 is a move of the game, or is invisible in it.
Maps == Abstract!Next \/ Invisible

-----------------------------------------------------------------------------
(* Facts about the baton and the phase. *)

Resting == {"unborn", "wait", "done"}
Carrier == {"tick_ready", "selection_ready", "turn_done"}

\* When a thread works on the tick no flag carries it and no other thread
\* works on it.
LEMMA ThreadAlone ==
  ASSUME IInv, NEW t \in Thread, pc[t] \notin Resting
  PROVE  /\ flags \cap Carrier = {}
         /\ \A u \in Thread \ {t} : pc[u] \in Resting
BY DEF IInv, OneBaton, Baton, Resting, Carrier, Thread

\* When a flag carries the tick no thread works on it and no other flag does.
LEMMA FlagAlone ==
  ASSUME IInv, NEW f \in flags \cap Carrier
  PROVE  /\ flags \cap Carrier = {f}
         /\ \A u \in Thread : pc[u] \in Resting
<1>1. \A a, b \in Baton : a = b
  BY DEF IInv, OneBaton
<1>2. f \in Baton /\ flags \cap Carrier \subseteq Baton
  BY DEF Baton, Carrier
<1>3. \A u \in Thread : pc[u] \notin Resting => u \in Baton
  BY DEF Baton, Resting
<1>4. f \notin Thread
  BY DEF Carrier, Thread
<1> QED
  BY <1>1, <1>2, <1>3, <1>4

\* What the processes want changes with a request or its application only.
LEMMA SameWants ==
  ASSUME UNCHANGED priority_vars
  PROVE  Wants' = Wants
BY DEF priority_vars, Wants

\* The wishes are numbers the scheduler accepts.
LEMMA WantsRange ==
  ASSUME TypeOK, NEW p \in Process
  PROVE  /\ pending_priority[p] \in Priorities /\ prioridad[p] \in Priorities
         /\ is_priority_in_range(pending_priority[p])
<1>1. pending_priority[p] \in Priorities /\ prioridad[p] \in Priorities
  BY DEF TypeOK, SharedTypes
<1>2. Priorities \subseteq 0..100
  BY Z3, SchedulerAssumption DEF MIN_PRIORITY, MAX_PRIORITY
<1>3. pending_priority[p] \in 0..100
  BY <1>1, <1>2
<1> QED
  BY <1>1, <1>3 DEF is_priority_in_range, MIN_PRIORITY, MAX_PRIORITY

-----------------------------------------------------------------------------
(* Without failing calls. *)

\* P0 starts without an error and with a life.
LEMMA UnfailingInit == Init => Unfailing
BY SchedulerAssumption DEF Init, SchedulerInit, Unfailing

\* The test of scheduler.c:304 asks whether no life is left.
LEMMA NoLives ==
  ASSUME NEW n \in Nat
  PROVE  n <= 0 <=> n = 0
OBVIOUS

\* No step makes a thread report an error, or keeps the game going without lives.
LEMMA UnfailingStep ==
  ASSUME ~CallsMayFail, TypeOK, Unfailing, [Next]_game_vars
  PROVE  Unfailing'
<1> USE DEF Unfailing, game_vars, vars, clock_vars, priority_vars, semaphore_vars,
            local_vars, thread_vars, memory_vars, main_vars
<1>1. CASE TickThread
  <2>1. CASE TickCloses
    BY <2>1 DEF TickCloses, AwaitFlag
  <2> QED
    BY <1>1, <2>1 DEF TickThread, TickAdvance, TickEnds, TickStops, TickOpens
<1>2. CASE SchedulerThread
  <2>1. CASE SchedulerAwaitsTick
    BY <2>1 DEF SchedulerAwaitsTick, AwaitFlag
  <2> QED
    BY <1>2, <2>1 DEF SchedulerThread, scheduler_apply_priority_requests,
                      scheduler_select_next_process, SchedulerPublishes
<1>3. CASE SignalThread
  <2>1. CASE SignalAwaitsSelection
    BY <2>1 DEF SignalAwaitsSelection, AwaitFlag
  <2> QED
    BY <1>3, <2>1 DEF SignalThread, PostTurn, WaitDone, SignalCompletes
<1>4. CASE CollisionThread
  <2>1. CASE CollisionAwaitsTurn
    BY <2>1 DEF CollisionAwaitsTurn, AwaitFlag
  <2>2. CASE decrement_life_for_collision
    <3>1. pacman_lives \in Nat
      BY SchedulerAssumption DEF TypeOK, SharedTypes
    <3>2. pacman_lives' \in Nat /\ game_over' = (game_over \/ pacman_lives' <= 0)
      BY <2>2, <3>1 DEF decrement_life_for_collision
    <3>3. pacman_lives' = 0 => game_over'
      BY <3>2, NoLives
    <3> QED
      BY <2>2, <3>3 DEF decrement_life_for_collision
  <2> QED
    BY <1>4, <2>1, <2>2 DEF CollisionThread, ConsumeCollision, read_game_over,
                            CollisionReports
<1>5. CASE MainThread
  BY <1>5 DEF MainThread, runtime_init, CreateThread, CancelThreads, JoinThreads,
              set_game_over, PostPacmanShutdown, PostEnemyShutdown, WaitChildren
<1>6. CASE Failure
  BY <1>6 DEF Failure, RuntimeInitFails, CreateFails, SpuriousWakeup, ThreadFails
<1>7. CASE Children
  BY <1>7, ChildrenFrame
<1>8. CASE Finished \/ UNCHANGED game_vars
  BY <1>8 DEF Finished
<1> QED
  BY <1>1, <1>2, <1>3, <1>4, <1>5, <1>6, <1>7, <1>8 DEF Next, SchedulerNext

-----------------------------------------------------------------------------
(* The steps of the four threads. *)

\* The tick thread begins a tick, ends the last one, or is not seen.
LEMMA TickMaps ==
  ASSUME IInv, Unfailing, TickThread, UNCHANGED child
  PROVE  Maps
<1> USE DEF Running, Goto, clock_vars, priority_vars, semaphore_vars, local_vars,
            thread_vars, memory_vars, main_vars, Resting, Carrier, Answered, Granted, Opened
<1>0. pc \in [Thread -> ThreadLabel] /\ "tick" \in Thread /\ "signal" \in Thread
      /\ "scheduler" \in Thread /\ "collision" \in Thread
  BY DEF IInv, TypeOK, ThreadTypes, Thread
<1>1. CASE TickAdvance
  <2>1. Phase = "settled" /\ Phase' = "open" /\ Holder = "none" /\ Holder' = "none"
    BY <1>0, <1>1, ThreadAlone DEF TickAdvance, Phase, Holder
  <2>2. UNCHANGED <<Wants, Owed>>
    BY <1>0, <1>1 DEF TickAdvance, Wants, Owed
  <2>3. Abstract!Begin
    BY <1>1, <2>1, <2>2 DEF TickAdvance, Abstract!Begin
  <2> QED
    BY <2>3 DEF Maps, Abstract!Next, Abstract!Advance
<1>2. CASE TickEnds
  <2>1. Phase = "settled" /\ Phase' = "settled" /\ Holder = "none" /\ Holder' = "none"
    BY <1>0, <1>2, ThreadAlone DEF TickEnds, Phase, Holder
  <2>2. UNCHANGED <<Wants, Owed>>
    BY <1>0, <1>2 DEF TickEnds, Wants, Owed
  <2>3. CASE game_over
    BY <1>2, <2>1, <2>2, <2>3 DEF TickEnds, Maps, Invisible
  <2>4. CASE ~game_over
    <3>1. global_tick = MaxTicks
      BY <1>2, <2>4, SchedulerAssumption DEF TickEnds, IInv, TypeOK, SharedTypes
    <3>2. Abstract!LastTick
      BY <1>2, <2>1, <2>2, <2>4, <3>1 DEF TickEnds, Abstract!LastTick
    <3> QED
      BY <3>2 DEF Maps, Abstract!Next, Abstract!Advance
  <2> QED
    BY <2>3, <2>4
<1>3. CASE TickStops
  <2>1. Phase' = Phase /\ Holder' = Holder
    BY <1>0, <1>3 DEF TickStops, Phase, Holder
  <2>2. UNCHANGED <<Wants, Owed>>
    BY <1>0, <1>3 DEF TickStops, Wants, Owed
  <2> QED
    BY <1>3, <2>1, <2>2 DEF TickStops, Maps, Invisible
<1>4. CASE TickOpens
  <2>1. Phase = "open" /\ Phase' = "open" /\ Holder = "none" /\ Holder' = "none"
    BY <1>0, <1>4, ThreadAlone DEF TickOpens, Phase, Holder
  <2>2. UNCHANGED <<Wants, Owed>>
    BY <1>0, <1>4 DEF TickOpens, Wants, Owed
  <2> QED
    BY <1>4, <2>1, <2>2 DEF TickOpens, Maps, Invisible
<1>5. CASE TickCloses
  <2>1. Phase' = Phase /\ Holder' = Holder
    BY <1>0, <1>5, TickAwaits DEF IInv, Phase, Holder
  <2>2. UNCHANGED <<Wants, Owed>>
    BY <1>0, <1>5, TickAwaits DEF IInv, Wants, Owed
  <2> QED
    BY <1>5, <2>1, <2>2, TickAwaits DEF IInv, Maps, Invisible
<1> QED
  BY <1>1, <1>2, <1>3, <1>4, <1>5 DEF TickThread

\* The scheduler thread grants the turn, or is not seen: the requests it
\* applies have counted since they were made.
LEMMA SchedulerMaps ==
  ASSUME IInv, Unfailing, SchedulerThread, UNCHANGED child
  PROVE  Maps
<1> USE DEF Running, Goto, clock_vars, priority_vars, semaphore_vars, local_vars,
            thread_vars, memory_vars, main_vars, Resting, Carrier, Answered, Granted, Opened
<1>0. pc \in [Thread -> ThreadLabel] /\ "tick" \in Thread /\ "signal" \in Thread
      /\ "scheduler" \in Thread /\ "collision" \in Thread
  BY DEF IInv, TypeOK, ThreadTypes, Thread
<1>1. CASE SchedulerAwaitsTick
  <2>1. Phase' = Phase /\ Holder' = Holder
    <3>1. CASE pc' = [pc EXCEPT !["scheduler"] = "apply"]
      <4>1. "tick_ready" \in flags /\ flags' = flags \ {"tick_ready"}
        BY <1>0, <1>1, <3>1, SchedulerAwaits DEF IInv
      <4>2. Phase = "open" /\ Phase' = "open"
        BY <1>0, <3>1, <4>1, FlagAlone DEF Phase
      <4> QED
        BY <4>2 DEF Holder
    <3>2. CASE pc' # [pc EXCEPT !["scheduler"] = "apply"]
      BY <1>0, <1>1, <3>2, SchedulerAwaits DEF IInv, Phase, Holder
    <3> QED
      BY <3>1, <3>2
  <2>2. UNCHANGED <<Wants, Owed>>
    BY <1>0, <1>1, SchedulerAwaits DEF IInv, Wants, Owed
  <2> QED
    BY <1>1, <2>1, <2>2, SchedulerAwaits DEF IInv, Maps, Invisible
<1>2. CASE scheduler_apply_priority_requests
  <2>1. Phase' = Phase /\ Holder' = Holder
    BY <1>0, <1>2 DEF scheduler_apply_priority_requests, Phase, Holder
  <2>2. Wants' = Wants
    <3>1. Wants = [p \in Process |-> IF p \in request_active THEN pending_priority[p]
                                                             ELSE prioridad[p]]
      BY DEF Wants
    <3>2. Wants' = [p \in Process |-> prioridad'[p]]
      BY <1>2 DEF scheduler_apply_priority_requests, Wants
    <3>3. \A p \in Process : prioridad'[p] = IF p \in request_active THEN pending_priority[p]
                                                                   ELSE prioridad[p]
      BY <1>2, WantsRange DEF IInv, scheduler_apply_priority_requests
    <3> QED
      BY <3>1, <3>2, <3>3
  <2>3. Owed' = Owed
    BY <1>0, <1>2 DEF scheduler_apply_priority_requests, Owed
  <2> QED
    BY <1>2, <2>1, <2>2, <2>3 DEF scheduler_apply_priority_requests, Maps, Invisible
<1>3. CASE scheduler_select_next_process
  <2>1. /\ Phase = "open" /\ Phase' = "granted"
        /\ Holder = "none" /\ Holder' = choice'
    BY <1>0, <1>3, ThreadAlone DEF scheduler_select_next_process, Phase, Holder
  <2>2. UNCHANGED <<Wants, Owed>>
    BY <1>0, <1>3 DEF scheduler_select_next_process, Wants, Owed
  <2>3. ~game_over
    <3>1. "scheduler" \in Baton
      BY <1>0, <1>3 DEF scheduler_select_next_process, Baton
    <3>2. BeforeShutdown
      BY <1>0, <1>3 DEF scheduler_select_next_process, IInv, Joined
    <3> QED
      BY <3>1, <3>2 DEF IInv, OverAtEnd
  <2>4. Wants[Pacman] = prioridad[Pacman] /\ Wants[Enemy] = prioridad[Enemy]
    BY <1>3 DEF scheduler_select_next_process, IInv, DispatchRespectsPriority, Wants, Process
  <2>5. prioridad[Pacman] \in Int /\ prioridad[Enemy] \in Int
    <3>1. Priorities \subseteq Int
      BY Z3, SchedulerAssumption DEF MIN_PRIORITY, MAX_PRIORITY
    <3>2. prioridad[Pacman] \in Priorities /\ prioridad[Enemy] \in Priorities
      BY WantsRange DEF IInv, Process
    <3> QED
      BY <3>1, <3>2
  <2>6. choice' = Preferred /\ last_round_robin \in Process
        /\ last_round_robin' = IF prioridad[Pacman] = prioridad[Enemy]
                                 THEN Preferred ELSE last_round_robin
    BY <1>3 DEF scheduler_select_next_process, IInv, TypeOK, LocalTypes
  <2>7. \/ /\ prioridad[choice'] > prioridad[Other(choice')]
           /\ last_round_robin' = last_round_robin
        \/ /\ prioridad[choice'] = prioridad[Other(choice')]
           /\ last_round_robin = Other(choice') /\ last_round_robin' = choice'
    BY <2>5, <2>6 DEF Preferred, Other, Process, Pacman, Enemy
  <2>8. choice' \in Process
    BY <2>6 DEF Preferred, Other, Process
  <2>9. Abstract!Grant(choice')
    BY <1>3, <2>1, <2>2, <2>3, <2>4, <2>7, <2>8
       DEF scheduler_select_next_process, Abstract!Grant, Abstract!Rival, Other, Process,
           Pacman, Enemy
  <2> QED
    BY <2>8, <2>9 DEF Maps, Abstract!Next, Abstract!Advance, Abstract!Process, Process,
                      Pacman, Enemy
<1>4. CASE SchedulerPublishes
  <2>1. Phase = "granted" /\ Phase' = "granted" /\ Holder = choice /\ Holder' = choice
    BY <1>0, <1>4, ThreadAlone DEF SchedulerPublishes, Phase, Holder
  <2>2. UNCHANGED <<Wants, Owed>>
    BY <1>0, <1>4 DEF SchedulerPublishes, Wants, Owed
  <2> QED
    BY <1>4, <2>1, <2>2 DEF SchedulerPublishes, Maps, Invisible
<1> QED
  BY <1>1, <1>2, <1>3, <1>4 DEF SchedulerThread

\* The signal thread takes the answer of the turn granted, or is not seen.
LEMMA SignalMaps ==
  ASSUME IInv, Unfailing, SignalThread, UNCHANGED child
  PROVE  Maps
<1> USE DEF Running, Goto, clock_vars, priority_vars, semaphore_vars, local_vars,
            thread_vars, memory_vars, main_vars, Resting, Carrier, Answered, Granted, Opened
<1>0. pc \in [Thread -> ThreadLabel] /\ "tick" \in Thread /\ "signal" \in Thread
      /\ "scheduler" \in Thread /\ "collision" \in Thread
  BY DEF IInv, TypeOK, ThreadTypes, Thread
<1>1. CASE SignalAwaitsSelection
  <2>1. Phase' = Phase /\ Holder' = Holder
    <3>1. CASE pc' = [pc EXCEPT !["signal"] = "post"]
      <4>1. /\ "selection_ready" \in flags /\ flags' = flags \ {"selection_ready"}
            /\ dispatched' = selected_process /\ UNCHANGED selected_process
        BY <1>0, <1>1, <3>1, SignalAwaits DEF IInv
      <4>2. Phase = "granted" /\ Phase' = "granted"
        BY <1>0, <3>1, <4>1, FlagAlone DEF Phase
      <4>3. Holder = selected_process /\ Holder' = dispatched'
        BY <1>0, <3>1, <4>1, <4>2, FlagAlone DEF Holder
      <4> QED
        BY <4>1, <4>2, <4>3
    <3>2. CASE pc' # [pc EXCEPT !["signal"] = "post"]
      BY <1>0, <1>1, <3>2, SignalAwaits DEF IInv, Phase, Holder
    <3> QED
      BY <3>1, <3>2
  <2>2. UNCHANGED <<Wants, Owed>>
    BY <1>0, <1>1, SignalAwaits DEF IInv, Wants, Owed
  <2> QED
    BY <1>1, <2>1, <2>2, SignalAwaits DEF IInv, Maps, Invisible
<1>2. CASE PostTurn
  <2>1. Phase' = Phase /\ Holder' = Holder
    BY <1>0, <1>2 DEF PostTurn, Phase, Holder
  <2>2. UNCHANGED <<Wants, Owed>>
    BY <1>0, <1>2 DEF PostTurn, Wants, Owed
  <2> QED
    BY <1>2, <2>1, <2>2 DEF PostTurn, Maps, Invisible
<1>3. CASE WaitDone
  <2>1. Phase = "granted" /\ Phase' = "answered" /\ Holder' = "none"
    BY <1>0, <1>3, ThreadAlone DEF WaitDone, Phase, Holder
  <2>2. UNCHANGED <<Wants, Owed>>
    BY <1>0, <1>3 DEF WaitDone, Wants, Owed
  <2>3. ~game_over
    <3>1. "signal" \in Baton
      BY <1>0, <1>3 DEF WaitDone, Baton
    <3>2. BeforeShutdown
      BY <1>0, <1>3 DEF WaitDone, IInv, Joined
    <3> QED
      BY <3>1, <3>2 DEF IInv, OverAtEnd
  <2>4. Abstract!Answer
    BY <1>3, <2>1, <2>2, <2>3 DEF WaitDone, Abstract!Answer
  <2> QED
    BY <2>4 DEF Maps, Abstract!Next, Abstract!Advance
<1>4. CASE SignalCompletes
  <2>1. Phase = "answered" /\ Phase' = "answered" /\ Holder = "none" /\ Holder' = "none"
    BY <1>0, <1>4, ThreadAlone DEF SignalCompletes, Phase, Holder
  <2>2. UNCHANGED <<Wants, Owed>>
    BY <1>0, <1>4 DEF SignalCompletes, Wants, Owed
  <2> QED
    BY <1>4, <2>1, <2>2 DEF SignalCompletes, Maps, Invisible
<1> QED
  BY <1>1, <1>2, <1>3, <1>4 DEF SignalThread

\* The collision thread charges the collision that is owed, closes the tick that
\* owes none, or is not seen: no event it finds is discarded.
LEMMA CollisionMaps ==
  ASSUME IInv, Unfailing, CollisionThread, UNCHANGED child
  PROVE  Maps
<1> USE DEF Running, Goto, clock_vars, priority_vars, semaphore_vars, local_vars,
            thread_vars, memory_vars, main_vars, Resting, Carrier, Answered, Granted, Opened
<1>0. pc \in [Thread -> ThreadLabel] /\ "tick" \in Thread /\ "signal" \in Thread
      /\ "scheduler" \in Thread /\ "collision" \in Thread
  BY DEF IInv, TypeOK, ThreadTypes, Thread
<1>1. CASE CollisionAwaitsTurn
  <2>1. Phase' = Phase /\ Holder' = Holder
    <3>1. CASE pc' = [pc EXCEPT !["collision"] = "consume"]
      <4>1. "turn_done" \in flags /\ flags' = flags \ {"turn_done"}
        BY <1>0, <1>1, <3>1, CollisionAwaits DEF IInv
      <4>2. Phase = "answered" /\ Phase' = "answered"
        BY <1>0, <3>1, <4>1, FlagAlone DEF Phase
      <4> QED
        BY <4>2 DEF Holder
    <3>2. CASE pc' # [pc EXCEPT !["collision"] = "consume"]
      BY <1>0, <1>1, <3>2, CollisionAwaits DEF IInv, Phase, Holder
    <3> QED
      BY <3>1, <3>2
  <2>2. UNCHANGED <<Wants, Owed>>
    <3>1. Wants' = Wants
      BY <1>0, <1>1, CollisionAwaits DEF IInv, Wants
    <3>2. pc["collision"] = "wait" /\ pc'["collision"] # "charge" /\ collision' = collision
      BY <1>0, <1>1, CollisionAwaits DEF IInv
    <3> QED
      BY <3>1, <3>2 DEF Owed
  <2> QED
    BY <1>1, <2>1, <2>2, CollisionAwaits DEF IInv, Maps, Invisible
<1>2. CASE ConsumeCollision
  <2>1. Phase = "answered" /\ Phase' = "answered" /\ Holder = "none" /\ Holder' = "none"
    BY <1>0, <1>2 DEF ConsumeCollision, Phase, Holder
  <2>2. Wants' = Wants
    BY <1>2, SameWants DEF ConsumeCollision
  <2>3. Owed' = Owed
    <3>1. collision # NoCollision => collision.tick # last_processed_collision_tick
      BY DEF IInv, EventFresh, TypeOK, SharedTypes, LocalTypes
    <3> QED
      BY <1>0, <1>2, <3>1 DEF ConsumeCollision, Owed
  <2> QED
    BY <1>2, <2>1, <2>2, <2>3 DEF ConsumeCollision, Maps, Invisible
<1>3. CASE decrement_life_for_collision
  <2>1. Phase = "answered" /\ Phase' = "answered" /\ Holder = "none" /\ Holder' = "none"
    BY <1>0, <1>3 DEF decrement_life_for_collision, Phase, Holder
  <2>2. Wants' = Wants
    BY <1>3, SameWants DEF decrement_life_for_collision
  <2>3. collision = NoCollision /\ collision' = NoCollision
    BY <1>3 DEF decrement_life_for_collision, IInv, Charges, Settled
  <2>4. Owed = TRUE /\ Owed' = FALSE
    BY <1>0, <1>3, <2>3 DEF decrement_life_for_collision, Owed
  <2>5. pacman_lives > 0 /\ pacman_lives \in Int
    <3>1. BeforeShutdown
      BY <1>0, <1>3 DEF decrement_life_for_collision, IInv, Joined
    <3>2. ~game_over
      BY <1>3, <3>1 DEF decrement_life_for_collision, IInv, OverAtEnd
    <3>3. pacman_lives \in Nat
      BY SchedulerAssumption DEF IInv, TypeOK, SharedTypes
    <3> QED
      BY <3>2, <3>3 DEF Unfailing
  <2>6. /\ pacman_lives' = pacman_lives - 1
        /\ game_over' = (game_over \/ pacman_lives' = 0)
    <3>1. pacman_lives' = pacman_lives - 1 /\ pacman_lives' \in Nat
      BY <1>3, <2>5 DEF decrement_life_for_collision
    <3>2. pacman_lives' <= 0 <=> pacman_lives' = 0
      BY <3>1, NoLives
    <3>3. game_over' = (game_over \/ pacman_lives' <= 0)
      BY <1>3 DEF decrement_life_for_collision
    <3> QED
      BY <3>1, <3>2, <3>3
  <2>7. Abstract!Charge
    BY <1>3, <2>1, <2>2, <2>4, <2>6 DEF decrement_life_for_collision, Abstract!Charge
  <2> QED
    BY <2>7 DEF Maps, Abstract!Next, Abstract!Advance
<1>4. CASE read_game_over
  <2>1. Phase' = Phase /\ Holder' = Holder
    BY <1>0, <1>4 DEF read_game_over, Phase, Holder
  <2>2. UNCHANGED <<Wants, Owed>>
    BY <1>0, <1>4 DEF read_game_over, Wants, Owed
  <2> QED
    BY <1>4, <2>1, <2>2 DEF read_game_over, Maps, Invisible
<1>5. CASE CollisionReports
  <2>1. Phase = "answered" /\ Phase' = "settled" /\ Holder = "none" /\ Holder' = "none"
    BY <1>0, <1>5, ThreadAlone DEF CollisionReports, Phase, Holder
  <2>2. Wants' = Wants
    BY <1>5, SameWants DEF CollisionReports
  <2>3. collision = NoCollision /\ collision' = NoCollision
    BY <1>5 DEF CollisionReports, IInv, Charges, Settled
  <2>4. Owed = FALSE /\ Owed' = FALSE
    BY <1>0, <1>5, <2>3 DEF CollisionReports, Owed
  <2>5. Abstract!Close
    BY <1>5, <2>1, <2>2, <2>4 DEF CollisionReports, Abstract!Close
  <2> QED
    BY <2>5 DEF Maps, Abstract!Next, Abstract!Advance
<1> QED
  BY <1>1, <1>2, <1>3, <1>4, <1>5 DEF CollisionThread
-----------------------------------------------------------------------------
(* The main thread, the failures and the children. *)

\* The main thread ends a game that was going on only when a creation failed.
LEMMA MainMaps ==
  ASSUME IInv, Unfailing, MainThread, UNCHANGED child
  PROVE  Maps
<1> USE DEF clock_vars, priority_vars, semaphore_vars, local_vars, thread_vars,
            memory_vars, main_vars, Answered, Granted, Opened
<1>0. pc \in [Thread -> ThreadLabel] /\ "tick" \in Thread /\ "signal" \in Thread
      /\ "scheduler" \in Thread /\ "collision" \in Thread
  BY DEF IInv, TypeOK, ThreadTypes, Thread
<1>1. CASE CreateThread
  <2>1. \/ created = 0 /\ pc' = [pc EXCEPT !["tick"] = "top"] /\ pc["tick"] = "unborn"
        \/ created = 1 /\ pc' = [pc EXCEPT !["scheduler"] = "wait"]
                       /\ pc["scheduler"] = "unborn"
        \/ created = 2 /\ pc' = [pc EXCEPT !["signal"] = "wait"] /\ pc["signal"] = "unborn"
        \/ created = 3 /\ pc' = [pc EXCEPT !["collision"] = "wait"]
                       /\ pc["collision"] = "unborn"
    <3>1. created \in {0, 1, 2, 3}
      BY <1>1 DEF CreateThread, IInv, Creation, ThreadCount, TypeOK, LocalTypes
    <3>2. /\ created = 0 => created + 1 = 1
          /\ created = 1 => created + 1 = 2
          /\ created = 2 => created + 1 = 3
          /\ created = 3 => created + 1 = 4
      OBVIOUS
    <3>3. /\ created = 0 => pc["tick"] = "unborn"
          /\ created = 1 => pc["scheduler"] = "unborn"
          /\ created = 2 => pc["signal"] = "unborn"
          /\ created = 3 => pc["collision"] = "unborn"
      BY DEF IInv, Creation
    <3> QED
      BY <1>1, <3>1, <3>2, <3>3, FirstThreads DEF CreateThread, StartLabel, Goto
  <2>2. Phase' = Phase /\ Holder' = Holder
    BY <1>0, <1>1, <2>1 DEF CreateThread, Phase, Holder
  <2>3. UNCHANGED <<Wants, Owed>>
    BY <1>0, <1>1, <2>1 DEF CreateThread, Wants, Owed
  <2> QED
    BY <1>1, <2>2, <2>3 DEF CreateThread, Maps, Invisible
<1>2. CASE CancelThreads
  <2>1. Phase' = Phase /\ Holder' = Holder
    BY <1>2 DEF CancelThreads, Phase, Holder
  <2>2. UNCHANGED <<Wants, Owed>>
    BY <1>2 DEF CancelThreads, Wants, Owed
  <2> QED
    BY <1>2, <2>1, <2>2 DEF CancelThreads, Maps, Invisible
<1>3. CASE set_game_over
  <2>1. Phase' = Phase /\ Holder' = Holder
    BY <1>3 DEF set_game_over, Phase, Holder
  <2>2. UNCHANGED <<Wants, Owed>>
    BY <1>3 DEF set_game_over, Wants, Owed
  <2>3. CASE game_over
    BY <1>3, <2>1, <2>2, <2>3 DEF set_game_over, Maps, Invisible
  <2>4. CASE ~game_over
    <3>1. status # "ok"
      BY <1>3, <2>4 DEF set_game_over, IInv, Ending, BeforeShutdown
    <3>2. ResourcesMayFail
      BY <3>1 DEF IInv, TypeOK, LocalTypes, Unfailing
    <3>3. Abstract!Abort
      BY <1>3, <2>1, <2>2, <3>2 DEF set_game_over, Abstract!Abort
    <3> QED
      BY <3>3 DEF Maps, Abstract!Next
  <2> QED
    BY <2>3, <2>4
<1>4. CASE runtime_init \/ JoinThreads \/ PostPacmanShutdown \/ PostEnemyShutdown \/ WaitChildren
  <2>1. Phase' = Phase /\ Holder' = Holder
    BY <1>4 DEF runtime_init, JoinThreads, PostPacmanShutdown, PostEnemyShutdown, WaitChildren,
                Phase, Holder
  <2>2. UNCHANGED <<Wants, Owed>>
    BY <1>4 DEF runtime_init, JoinThreads, PostPacmanShutdown, PostEnemyShutdown, WaitChildren,
                Wants, Owed
  <2> QED
    BY <1>4, <2>1, <2>2 DEF runtime_init, JoinThreads, PostPacmanShutdown, PostEnemyShutdown,
                            WaitChildren, Maps, Invisible
<1> QED
  BY <1>1, <1>2, <1>3, <1>4 DEF MainThread

\* A creation that fails, and a wakeup without a signal, are not seen.
LEMMA FailureMaps ==
  ASSUME ~CallsMayFail, Failure, UNCHANGED child
  PROVE  Maps
<1> USE DEF clock_vars, priority_vars, semaphore_vars, local_vars, thread_vars,
            memory_vars, main_vars, Answered, Granted, Opened, Failure, RuntimeInitFails,
            CreateFails, SpuriousWakeup, ThreadFails
<1>1. Phase' = Phase /\ Holder' = Holder
  BY DEF Phase, Holder
<1>2. UNCHANGED <<Wants, Owed>>
  BY DEF Wants, Owed
<1> QED
  BY <1>1, <1>2 DEF Maps, Invisible

\* Who plays has been granted the turn, and the game is not over.
LEMMA PlayerHolds ==
  ASSUME IInv, Unfailing, NEW k \in Process, child[k] \in {"playing", "reported"}
  PROVE  Phase = "granted" /\ Holder = k /\ ~game_over
<1>1. ~game_over
  BY PlayingUninterrupted DEF Unfailing, NoTurnInterrupted
<1>2. BeforeShutdown
  BY DEF IInv, QuietShutdown, Unfailing
<1>3. Custody(k) > 0 /\ Custody(Pacman) \in Nat /\ Custody(Enemy) \in Nat
  <2>1. Custody(Pacman) \in Nat /\ Custody(Enemy) \in Nat
    BY CustodyNat DEF IInv
  <2>2. Custody(k) # 0
    BY CustodyNone DEF IInv, Busy
  <2> QED
    BY <2>1, <2>2 DEF Process
<1>4. Custody(Pacman) + Custody(Enemy) > 0
  BY <1>3 DEF Process
<1>5. pc["signal"] = "await_done"
  BY <1>2, <1>3, <1>4 DEF IInv, TurnExclusive, Orphaned, Unfailing
<1>6. k = dispatched
  <2>1. Custody(dispatched) = 1 /\ dispatched \in Process
    BY <1>2, <1>5 DEF IInv, TurnExclusive, TypeOK, LocalTypes
  <2>2. Custody(Pacman) + Custody(Enemy) <= 1
    BY <1>2 DEF IInv, TurnExclusive
  <2> QED
    BY <1>3, <2>1, <2>2 DEF Process, Pacman, Enemy
<1>7. "signal" \in Thread /\ "scheduler" \in Thread /\ "collision" \in Thread
  BY DEF Thread
<1>8. Granted /\ ~Answered
  BY <1>5, <1>7, ThreadAlone DEF Granted, Answered, Resting, Carrier
<1>9. Holder = dispatched
  BY <1>5, <1>7, <1>8, ThreadAlone DEF Holder, Phase, Resting, Carrier
<1> QED
  BY <1>1, <1>6, <1>8, <1>9 DEF Phase

\* A request and a collision are moves of the process that has the turn; the
\* rest of what a child does is not seen.
LEMMA ChildrenMap ==
  ASSUME IInv, IInv', Unfailing, Children
  PROVE  Maps
<1> USE DEF clock_vars, priority_vars, semaphore_vars, local_vars, thread_vars,
            memory_vars, main_vars, Answered, Granted, Opened
<1>1. /\ Phase' = Phase /\ Holder' = Holder
      /\ UNCHANGED <<global_tick, game_over, pacman_lives, last_round_robin, prioridad, pc>>
  BY ChildrenFrame DEF Phase, Holder
<1>2. ASSUME NEW k \in Process, NEW priority \in Priorities, ChildRequests(k, priority)
      PROVE  Maps
  <2>1. Phase = "granted" /\ Holder = k /\ ~game_over
    BY <1>2, PlayerHolds DEF ChildRequests
  <2>2. Wants' = [Wants EXCEPT ![k] = priority]
    BY <1>2 DEF ChildRequests, Wants, IInv, TypeOK, SharedTypes
  <2>3. Owed' = Owed
    BY <1>2 DEF ChildRequests, Owed
  <2>4. Abstract!Request(k, priority)
    BY <1>1, <2>1, <2>2, <2>3 DEF Abstract!Request
  <2> QED
    BY <2>4 DEF Maps, Abstract!Next, Abstract!Process, Process, Pacman, Enemy
<1>3. ASSUME NEW ghost \in 1..GhostCount, EnemyPublishes(ghost)
      PROVE  Maps
  <2>1. Phase = "granted" /\ Holder = "enemy" /\ ~game_over
    BY <1>3, PlayerHolds DEF EnemyPublishes, Process, Enemy
  <2>2. Wants' = Wants
    BY <1>3, SameWants DEF EnemyPublishes
  <2>3. Owed' = TRUE
    <3>1. global_tick # -1
      BY SchedulerAssumption DEF IInv, TypeOK, SharedTypes
    <3>2. collision' # NoCollision
      BY <1>3, <3>1 DEF EnemyPublishes, NoCollision
    <3> QED
      BY <3>2 DEF Owed
  <2>4. Abstract!Hit
    BY <1>1, <2>1, <2>2, <2>3 DEF Abstract!Hit
  <2> QED
    BY <2>4 DEF Maps, Abstract!Next
<1>4. ASSUME NEW k \in Process,
             ChildWakes(k) \/ ChildReadsGameOver(k) \/ ChildFinishes(k) \/ PacmanDropsTurn
      PROVE  Maps
  <2>1. UNCHANGED priority_vars /\ UNCHANGED collision
    BY <1>4 DEF ChildWakes, ChildReadsGameOver, ChildFinishes, PacmanDropsTurn, vars
  <2>2. Wants' = Wants
    BY <2>1, SameWants
  <2>3. Owed' = Owed
    BY <1>1, <2>1 DEF Owed
  <2> QED
    BY <1>1, <2>2, <2>3 DEF Maps, Invisible
<1> QED
  BY <1>2, <1>3, <1>4 DEF Children, Child, Process

-----------------------------------------------------------------------------
(* The theorem. *)

\* P0 starts where the game starts.
LEMMA InitMaps == Init => Abstract!Init
<1> SUFFICES ASSUME Init PROVE Abstract!Init
  OBVIOUS
<1> USE DEF Init, SchedulerInit
<1>1. \A t \in Thread : pc[t] = "unborn"
  OBVIOUS
<1>2. ~Answered /\ ~Granted /\ ~Opened
  BY <1>1 DEF Answered, Granted, Opened, Thread
<1>3. Phase = "settled" /\ Holder = "none"
  BY <1>2 DEF Phase, Holder
<1>4. Wants \in [Process -> Priorities]
  BY DEF Wants
<1>5. Owed = FALSE
  BY <1>1 DEF Owed, Thread
<1> QED
  BY <1>3, <1>4, <1>5 DEF Abstract!Init, Abstract!Process, Process, Pacman, Enemy

\* Every step is a move of the game or is not seen.
LEMMA StepMaps ==
  ASSUME ~CallsMayFail, IInv, IInv', Unfailing, [Next]_game_vars
  PROVE  Maps
<1>1. CASE SchedulerNext /\ UNCHANGED child
  BY <1>1, TickMaps, SchedulerMaps, SignalMaps, CollisionMaps, MainMaps, FailureMaps
     DEF SchedulerNext
<1>2. CASE Children
  BY <1>2, ChildrenMap
<1>3. CASE Finished \/ UNCHANGED game_vars
  <2> USE DEF Finished, game_vars, vars, clock_vars, priority_vars, semaphore_vars, local_vars,
              thread_vars, memory_vars, main_vars
  <2>1. Phase' = Phase /\ Holder' = Holder
    BY <1>3 DEF Phase, Holder, Answered, Granted, Opened
  <2>2. UNCHANGED <<Wants, Owed>>
    BY <1>3 DEF Wants, Owed
  <2> QED
    BY <1>3, <2>1, <2>2 DEF Maps, Invisible
<1> QED
  BY <1>1, <1>2, <1>3 DEF Next

\* If no call of a running thread fails, all that P0 and its children do is a play
\* of TurnGame: a turn per tick, to the process that wants it most or alternately
\* between equals, every collision paid once and before the next tick, and the
\* game over with the last life or the last tick (scheduler.c:449-748).
THEOREM PlaysTheTurnGame ==
  ASSUME ~CallsMayFail
  PROVE  Spec => Abstract!Spec
<1>1. Init => IInv /\ Unfailing /\ Abstract!Init
  BY InvInit, UnfailingInit, InitMaps
<1>2. IInv /\ Unfailing /\ [Next]_game_vars => IInv' /\ Unfailing'
  BY InvStep, UnfailingStep DEF IInv
<1>3. IInv /\ IInv' /\ Unfailing /\ [Next]_game_vars => [Abstract!Next]_(Abstract!vars)
  BY StepMaps DEF Maps, Invisible, Abstract!vars
<1> QED
  BY <1>1, <1>2, <1>3, PTL DEF Spec, Abstract!Spec
=============================================================================
