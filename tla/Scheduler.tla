------------------------------ MODULE Scheduler ------------------------------
(***************************************************************************)
(* P0, the scheduler process (src/src/scheduler.c and the part of main()   *)
(* that drives it): the main thread, which creates and joins the others,   *)
(* and the four threads that hand one turn per tick to P1 or to P2:        *)
(*                                                                         *)
(*   tick       advances global_tick, opens the tick, waits for its end    *)
(*   scheduler  applies the priority requests and selects a process        *)
(*   signal     posts the turn semaphore and waits for the answer          *)
(*   collision  charges the collision event and closes the tick            *)
(*                                                                         *)
(* An action is one critical section, or one semaphore operation; no       *)
(* thread of P0 ever holds two mutexes.  The runtime flags, 0 or 1 in C,   *)
(* are the set of those that are raised.                                   *)
(* The module has the actions of P0 only.  The modules that close it       *)
(* supply the two child processes.                                         *)
(***************************************************************************)
EXTENDS Integers

CONSTANTS
  MaxTicks,           \* the max_ticks argument of the program
  InitialLives,       \* PACMAN_INITIAL_LIVES
  Priorities,         \* the priorities in use, within MIN_PRIORITY..MAX_PRIORITY
  GhostCount,         \* PACMAN_GHOST_COUNT
  ResourcesMayFail,   \* may runtime_init and pthread_create fail?
  CallsMayFail        \* may a mutex, condition or semaphore call fail?

MIN_PRIORITY == 0
MAX_PRIORITY == 100

ASSUME SchedulerAssumption ==
  /\ MaxTicks \in Nat \ {0}
  /\ InitialLives \in Nat \ {0}
  /\ Priorities \subseteq MIN_PRIORITY..MAX_PRIORITY
  /\ GhostCount \in Nat
  /\ ResourcesMayFail \in BOOLEAN
  /\ CallsMayFail \in BOOLEAN

VARIABLES
  \* shared_state_t
  global_tick, game_over, pacman_lives,
  collision,          \* the collision event: its tick and its ghost
  prioridad,          \* prioridad_pacman and prioridad_enemy
  pending_priority,   \* the mailbox of each child ...
  request_active,     \* ... and the children whose mailbox holds a request
  sem_turn,           \* sem_pacman_turn, sem_enemy_turn
  sem_done,           \* sem_p1_done, sem_p2_done
  exited,             \* the children that have terminated
  \* Scheduler
  last_round_robin, last_processed_collision_tick,
  \* SchedulerRuntime
  flags, selected_process,
  \* the threads: program counters, who sleeps in pthread_cond_wait, locals
  pc, asleep, choice, dispatched, saw_game_over,
  \* the main thread
  main_pc, created, status, caller

clock_vars     == <<global_tick, game_over, pacman_lives>>
priority_vars  == <<prioridad, pending_priority, request_active>>
semaphore_vars == <<sem_turn, sem_done>>
local_vars     == <<choice, dispatched, saw_game_over>>
thread_vars    == <<flags, pc, asleep>>
memory_vars    == <<last_round_robin, last_processed_collision_tick, selected_process>>
main_vars      == <<main_pc, created, status, caller>>
vars == <<clock_vars, collision, priority_vars, semaphore_vars, exited,
          memory_vars, thread_vars, local_vars, main_vars>>

-----------------------------------------------------------------------------
Pacman  == "pacman"
Enemy   == "enemy"
Process == {Pacman, Enemy}
Other(p) == IF p = Pacman THEN Enemy ELSE Pacman

Thread == {"tick", "scheduler", "signal", "collision"}
CreationOrder == <<"tick", "scheduler", "signal", "collision">>
ThreadCount == 4

Flag == {"tick_ready", "selection_ready", "turn_done", "collision_done",
         "shutdown_requested", "thread_error"}

\* What the event fields hold when collision_detected is 0.
NoCollision == [tick |-> -1, ghost |-> -1]

Stopping == "shutdown_requested" \in flags \/ "thread_error" \in flags
Running(t, label) == pc[t] = label /\ t \notin asleep
Goto(t, label) == pc' = [pc EXCEPT ![t] = label]

\* Mutant: the flag found is not reset.
AwaitFlag_keeps_flag(t, flag, consumed, label) ==
  /\ Running(t, "wait")
  /\ IF flag \in flags \/ Stopping
       THEN /\ Goto(t, IF Stopping THEN "done" ELSE label)
            /\ UNCHANGED asleep
       ELSE asleep' = asleep \cup {t} /\ UNCHANGED pc
  /\ UNCHANGED <<clock_vars, collision, priority_vars, semaphore_vars, exited,
                 memory_vars, flags, choice, saw_game_over, main_vars>>

(***************************************************************************)
(* The loop every thread waits in:                                         *)
(*   while (!flag && !shutdown_requested && !thread_error) cond_wait(...)  *)
(* followed by the return on shutdown and the reset of the flags consumed. *)
(***************************************************************************)
AwaitFlag(t, flag, consumed, label) ==
  /\ Running(t, "wait")
  /\ \/ /\ flag \notin flags /\ ~Stopping
        /\ asleep' = asleep \cup {t}
        /\ UNCHANGED <<flags, pc>>
     \/ /\ Stopping
        /\ Goto(t, "done")
        /\ UNCHANGED <<flags, asleep>>
     \/ /\ flag \in flags /\ ~Stopping
        /\ flags' = flags \ consumed
        /\ Goto(t, label)
        /\ UNCHANGED asleep
  /\ UNCHANGED <<clock_vars, collision, priority_vars, semaphore_vars, exited,
                 memory_vars, choice, saw_game_over, main_vars>>

-----------------------------------------------------------------------------
(* tick_thread *)

\* Mutant: the last tick is played twice (<= for <).
TickAdvance_off_by_one ==
  /\ Running("tick", "top")
  /\ ~game_over /\ global_tick <= MaxTicks
  /\ global_tick' = global_tick + 1
  /\ Goto("tick", "open")
  /\ UNCHANGED <<game_over, pacman_lives, collision, priority_vars,
                 semaphore_vars, exited, memory_vars, flags, asleep,
                 local_vars, main_vars>>

\* The section under state_mutex, when another tick may begin.
TickAdvance ==
  /\ Running("tick", "top")
  /\ ~game_over /\ global_tick < MaxTicks
  /\ global_tick' = global_tick + 1
  /\ Goto("tick", "open")
  /\ UNCHANGED <<game_over, pacman_lives, collision, priority_vars,
                 semaphore_vars, exited, memory_vars, flags, asleep,
                 local_vars, main_vars>>

\* The same section when the game is over, or when it ends at max_ticks.
TickEnds ==
  /\ Running("tick", "top")
  /\ game_over \/ global_tick >= MaxTicks
  /\ game_over' = TRUE
  /\ Goto("tick", "stop")
  /\ UNCHANGED <<global_tick, pacman_lives, collision, priority_vars,
                 semaphore_vars, exited, memory_vars, flags, asleep,
                 local_vars, main_vars>>

\* Mutant: the shutdown is requested without waking the other threads.
TickStops_without_broadcast ==
  /\ Running("tick", "stop")
  /\ flags' = flags \cup {"shutdown_requested"}
  /\ Goto("tick", "done")
  /\ UNCHANGED <<clock_vars, collision, priority_vars, semaphore_vars, exited,
                 memory_vars, asleep, local_vars, main_vars>>

\* runtime_request_shutdown, and the end of the thread.
TickStops ==
  /\ Running("tick", "stop")
  /\ flags' = flags \cup {"shutdown_requested"}
  /\ asleep' = {}
  /\ Goto("tick", "done")
  /\ UNCHANGED <<clock_vars, collision, priority_vars, semaphore_vars, exited,
                 memory_vars, local_vars, main_vars>>

\* Mutant: collision_done is not reset, and the tick closes as soon as it opens.
TickOpens_keeps_collision_done ==
  /\ Running("tick", "open")
  /\ flags' = flags \cup {"tick_ready"}
  /\ asleep' = asleep \ {"scheduler"}
  /\ Goto("tick", IF Stopping THEN "done" ELSE "wait")
  /\ UNCHANGED <<clock_vars, collision, priority_vars, semaphore_vars, exited,
                 memory_vars, local_vars, main_vars>>

\* Raise tick_ready, reset the other stages, signal tick_available and go on
\* to wait for collision_completed without leaving the mutex.
TickOpens ==
  /\ Running("tick", "open")
  /\ flags' = (flags \ {"selection_ready", "turn_done", "collision_done"})
                \cup {"tick_ready"}
  /\ \/ /\ Stopping
        /\ asleep' = asleep \ {"scheduler"}
        /\ Goto("tick", "done")
     \/ /\ ~Stopping
        /\ asleep' = (asleep \ {"scheduler"}) \cup {"tick"}
        /\ Goto("tick", "wait")
  /\ UNCHANGED <<clock_vars, collision, priority_vars, semaphore_vars, exited,
                 memory_vars, local_vars, main_vars>>

\* collision_done stays raised until the next tick opens.
TickCloses ==
  /\ AwaitFlag("tick", "collision_done", {}, "top")
  /\ UNCHANGED dispatched

TickThread == TickAdvance \/ TickEnds \/ TickStops \/ TickOpens \/ TickCloses

-----------------------------------------------------------------------------
(* scheduler_thread *)

SchedulerAwaitsTick ==
  /\ AwaitFlag("scheduler", "tick_ready", {"tick_ready"}, "apply")
  /\ UNCHANGED dispatched

is_priority_in_range(p) == MIN_PRIORITY <= p /\ p <= MAX_PRIORITY

\* Mutant: the mailbox of P2 is left full.
scheduler_apply_priority_requests_one_reset ==
  /\ Running("scheduler", "apply")
  /\ prioridad' = [p \in Process |-> IF p \in request_active
                     THEN pending_priority[p] ELSE prioridad[p]]
  /\ request_active' = request_active \ {Pacman}
  /\ Goto("scheduler", "select")
  /\ UNCHANGED <<clock_vars, collision, pending_priority, semaphore_vars,
                 exited, memory_vars, flags, asleep, local_vars, main_vars>>

\* Both mailboxes are emptied; a request out of range is dropped.
scheduler_apply_priority_requests ==
  /\ Running("scheduler", "apply")
  /\ prioridad' =
       [p \in Process |->
          IF p \in request_active /\ is_priority_in_range(pending_priority[p])
            THEN pending_priority[p] ELSE prioridad[p]]
  /\ request_active' = {}
  /\ Goto("scheduler", "select")
  /\ UNCHANGED <<clock_vars, collision, pending_priority, semaphore_vars,
                 exited, memory_vars, flags, asleep, local_vars, main_vars>>

\* Mutant: a tie always goes to P1.
Preferred_no_alternation ==
  IF prioridad[Pacman] >= prioridad[Enemy] THEN Pacman ELSE Enemy

\* select_by_priority_or_round_robin: the higher priority, else alternate.
Preferred ==
  IF prioridad[Pacman] > prioridad[Enemy] THEN Pacman
  ELSE IF prioridad[Enemy] > prioridad[Pacman] THEN Enemy
  ELSE Other(last_round_robin)

scheduler_select_next_process ==
  /\ Running("scheduler", "select")
  /\ choice' = Preferred
  /\ last_round_robin' = IF prioridad[Pacman] = prioridad[Enemy]
                           THEN Preferred ELSE last_round_robin
  /\ Goto("scheduler", "publish")
  /\ UNCHANGED <<clock_vars, collision, priority_vars, semaphore_vars, exited,
                 last_processed_collision_tick, selected_process, flags,
                 asleep, dispatched, saw_game_over, main_vars>>

SchedulerPublishes ==
  /\ Running("scheduler", "publish")
  /\ selected_process' = choice
  /\ flags' = flags \cup {"selection_ready"}
  /\ asleep' = asleep \ {"signal"}
  /\ Goto("scheduler", "wait")
  /\ UNCHANGED <<clock_vars, collision, priority_vars, semaphore_vars, exited,
                 last_round_robin, last_processed_collision_tick, local_vars,
                 main_vars>>

SchedulerThread ==
  \/ SchedulerAwaitsTick
  \/ scheduler_apply_priority_requests
  \/ scheduler_select_next_process
  \/ SchedulerPublishes

-----------------------------------------------------------------------------
(* signal_thread *)

\* The selected process is copied in the section that consumes the flag.
SignalAwaitsSelection ==
  /\ AwaitFlag("signal", "selection_ready", {"selection_ready"}, "post")
  /\ dispatched' = IF pc'["signal"] = "post" THEN selected_process
                                            ELSE dispatched

\* dispatch_selected_process: post_turn ...
PostTurn ==
  /\ Running("signal", "post")
  /\ sem_turn' = [sem_turn EXCEPT ![dispatched] = @ + 1]
  /\ Goto("signal", "await_done")
  /\ UNCHANGED <<clock_vars, collision, priority_vars, sem_done, exited,
                 memory_vars, flags, asleep, local_vars, main_vars>>

\* Mutant: the turn is posted and its answer is not awaited.
WaitDone_no_wait ==
  /\ Running("signal", "await_done")
  /\ Goto("signal", "complete")
  /\ UNCHANGED <<clock_vars, collision, priority_vars, semaphore_vars, exited,
                 memory_vars, flags, asleep, local_vars, main_vars>>

\* ... and wait_done, which blocks until the child has answered.
WaitDone ==
  /\ Running("signal", "await_done")
  /\ sem_done[dispatched] > 0
  /\ sem_done' = [sem_done EXCEPT ![dispatched] = @ - 1]
  /\ Goto("signal", "complete")
  /\ UNCHANGED <<clock_vars, collision, priority_vars, sem_turn, exited,
                 memory_vars, flags, asleep, local_vars, main_vars>>

SignalCompletes ==
  /\ Running("signal", "complete")
  /\ flags' = flags \cup {"turn_done"}
  /\ asleep' = asleep \ {"collision"}
  /\ Goto("signal", "wait")
  /\ UNCHANGED <<clock_vars, collision, priority_vars, semaphore_vars, exited,
                 memory_vars, local_vars, main_vars>>

SignalThread == SignalAwaitsSelection \/ PostTurn \/ WaitDone \/ SignalCompletes

-----------------------------------------------------------------------------
(* collision_manager_thread *)

CollisionAwaitsTurn ==
  /\ AwaitFlag("collision", "turn_done", {"turn_done"}, "consume")
  /\ UNCHANGED dispatched

\* Mutant: the event is charged and never cleared.
ConsumeCollision_no_clear ==
  /\ Running("collision", "consume")
  /\ IF collision # NoCollision /\ collision.tick # last_processed_collision_tick
       THEN /\ last_processed_collision_tick' = collision.tick
            /\ Goto("collision", "charge")
       ELSE /\ UNCHANGED last_processed_collision_tick
            /\ Goto("collision", "read_over")
  /\ UNCHANGED <<clock_vars, collision, priority_vars, semaphore_vars, exited,
                 last_round_robin, selected_process, flags, asleep, local_vars,
                 main_vars>>

\* scheduler_process_collision_events, the section under collision_mutex: the
\* event is cleared, and charged unless its tick has been charged already.
ConsumeCollision ==
  /\ Running("collision", "consume")
  /\ collision' = NoCollision
  /\ \/ /\ collision # NoCollision
        /\ collision.tick # last_processed_collision_tick
        /\ last_processed_collision_tick' = collision.tick
        /\ Goto("collision", "charge")
     \/ /\ \/ collision = NoCollision
           \/ collision.tick = last_processed_collision_tick
        /\ UNCHANGED last_processed_collision_tick
        /\ Goto("collision", "read_over")
  /\ UNCHANGED <<clock_vars, priority_vars, semaphore_vars, exited,
                 last_round_robin, selected_process, flags, asleep, local_vars,
                 main_vars>>

decrement_life_for_collision ==
  /\ Running("collision", "charge")
  /\ pacman_lives' = IF pacman_lives > 0 THEN pacman_lives - 1 ELSE pacman_lives
  /\ game_over' = (game_over \/ pacman_lives' <= 0)
  /\ Goto("collision", "read_over")
  /\ UNCHANGED <<global_tick, collision, priority_vars, semaphore_vars, exited,
                 memory_vars, flags, asleep, local_vars, main_vars>>

read_game_over ==
  /\ Running("collision", "read_over")
  /\ saw_game_over' = game_over
  /\ Goto("collision", "report")
  /\ UNCHANGED <<clock_vars, collision, priority_vars, semaphore_vars, exited,
                 memory_vars, flags, asleep, choice, dispatched, main_vars>>

\* Close the tick: wake every thread when the game is over, else the tick
\* thread alone.
CollisionReports ==
  /\ Running("collision", "report")
  /\ \/ /\ saw_game_over
        /\ flags' = flags \cup {"collision_done", "shutdown_requested"}
        /\ asleep' = {}
     \/ /\ ~saw_game_over
        /\ flags' = flags \cup {"collision_done"}
        /\ asleep' = asleep \ {"tick"}
  /\ Goto("collision", "wait")
  /\ UNCHANGED <<clock_vars, collision, priority_vars, semaphore_vars, exited,
                 memory_vars, local_vars, main_vars>>

CollisionThread ==
  \/ CollisionAwaitsTurn
  \/ ConsumeCollision
  \/ decrement_life_for_collision
  \/ read_game_over
  \/ CollisionReports

-----------------------------------------------------------------------------
(* The main thread: scheduler_run, and what main() does after it. *)

\* runtime_init fails: scheduler_run returns at once, and main() asks for the
\* shutdown.
RuntimeInitFails ==
  /\ ResourcesMayFail
  /\ main_pc = "init"
  /\ status' = "error"
  /\ caller' = "main"
  /\ main_pc' = "set_game_over"
  /\ UNCHANGED <<clock_vars, collision, priority_vars, semaphore_vars, exited,
                 memory_vars, thread_vars, local_vars, created>>

runtime_init ==
  /\ main_pc = "init"
  /\ main_pc' = "create"
  /\ UNCHANGED <<clock_vars, collision, priority_vars, semaphore_vars, exited,
                 memory_vars, thread_vars, local_vars, created, status, caller>>

StartLabel(t) == IF t = "tick" THEN "top" ELSE "wait"

CreateThread ==
  /\ main_pc = "create"
  /\ created' = created + 1
  /\ Goto(CreationOrder[created + 1], StartLabel(CreationOrder[created + 1]))
  /\ main_pc' = IF created + 1 = ThreadCount THEN "join" ELSE "create"
  /\ UNCHANGED <<clock_vars, collision, priority_vars, semaphore_vars, exited,
                 memory_vars, flags, asleep, local_vars, status, caller>>

CreateFails ==
  /\ ResourcesMayFail
  /\ main_pc = "create"
  /\ status' = "error"
  /\ main_pc' = "cancel"
  /\ UNCHANGED <<clock_vars, collision, priority_vars, semaphore_vars, exited,
                 memory_vars, thread_vars, local_vars, created, caller>>

\* runtime_request_shutdown on the cleanup path.
CancelThreads ==
  /\ main_pc = "cancel"
  /\ flags' = flags \cup {"shutdown_requested"}
  /\ asleep' = {}
  /\ main_pc' = "join"
  /\ UNCHANGED <<clock_vars, collision, priority_vars, semaphore_vars, exited,
                 memory_vars, pc, local_vars, created, status, caller>>

\* Mutant: thread_error is not looked at.
JoinThreads_ignores_error ==
  /\ main_pc = "join"
  /\ \A i \in 1..created : pc[CreationOrder[i]] = "done"
  /\ main_pc' = "set_game_over"
  /\ UNCHANGED <<clock_vars, collision, priority_vars, semaphore_vars, exited,
                 memory_vars, thread_vars, local_vars, created, status, caller>>

\* The threads created are joined one after the other, then thread_error is
\* read.
JoinThreads ==
  /\ main_pc = "join"
  /\ \A i \in 1..created : pc[CreationOrder[i]] = "done"
  /\ status' = IF "thread_error" \in flags THEN "error" ELSE status
  /\ main_pc' = "set_game_over"
  /\ UNCHANGED <<clock_vars, collision, priority_vars, semaphore_vars, exited,
                 memory_vars, thread_vars, local_vars, created, caller>>

\* scheduler_request_shutdown: set_game_over, then one turn for each child.
set_game_over ==
  /\ main_pc = "set_game_over"
  /\ game_over' = TRUE
  /\ main_pc' = "post_pacman"
  /\ UNCHANGED <<global_tick, pacman_lives, collision, priority_vars,
                 semaphore_vars, exited, memory_vars, thread_vars, local_vars,
                 created, status, caller>>

PostPacmanShutdown ==
  /\ main_pc = "post_pacman"
  /\ sem_turn' = [sem_turn EXCEPT ![Pacman] = @ + 1]
  /\ main_pc' = "post_enemy"
  /\ UNCHANGED <<clock_vars, collision, priority_vars, sem_done, exited,
                 memory_vars, thread_vars, local_vars, created, status, caller>>

\* When scheduler_run fails, main() requests the shutdown a second time.
PostEnemyShutdown ==
  /\ main_pc = "post_enemy"
  /\ sem_turn' = [sem_turn EXCEPT ![Enemy] = @ + 1]
  /\ \/ /\ caller = "scheduler_run" /\ status = "error"
        /\ caller' = "main"
        /\ main_pc' = "set_game_over"
     \/ /\ caller = "main" \/ status = "ok"
        /\ UNCHANGED caller
        /\ main_pc' = "wait_children"
  /\ UNCHANGED <<clock_vars, collision, priority_vars, sem_done, exited,
                 memory_vars, thread_vars, local_vars, created, status>>

\* processes_wait: waitpid on P1, then on P2.
WaitChildren ==
  /\ main_pc = "wait_children"
  /\ exited = Process
  /\ main_pc' = "exit"
  /\ UNCHANGED <<clock_vars, collision, priority_vars, semaphore_vars, exited,
                 memory_vars, thread_vars, local_vars, created, status, caller>>

MainThread ==
  \/ runtime_init
  \/ CreateThread
  \/ CancelThreads
  \/ JoinThreads
  \/ set_game_over
  \/ PostPacmanShutdown
  \/ PostEnemyShutdown
  \/ WaitChildren

-----------------------------------------------------------------------------
(* What the environment may do to P0. *)

\* pthread_cond_wait may return without a signal.
SpuriousWakeup(t) ==
  /\ t \in asleep
  /\ asleep' = asleep \ {t}
  /\ UNCHANGED <<clock_vars, collision, priority_vars, semaphore_vars, exited,
                 memory_vars, flags, pc, local_vars, main_vars>>

\* A call of thread t fails: runtime_mark_error, and the thread returns.  The
\* calls of runtime_request_shutdown and of runtime_mark_error do not fail.
ThreadFails(t) ==
  /\ CallsMayFail
  /\ pc[t] \notin {"unborn", "stop", "done"} /\ t \notin asleep
  /\ flags' = flags \cup {"thread_error", "shutdown_requested"}
  /\ asleep' = {}
  /\ Goto(t, "done")
  /\ UNCHANGED <<clock_vars, collision, priority_vars, semaphore_vars, exited,
                 memory_vars, local_vars, main_vars>>

Failure ==
  \/ RuntimeInitFails
  \/ CreateFails
  \/ \E t \in Thread : SpuriousWakeup(t) \/ ThreadFails(t)

-----------------------------------------------------------------------------
\* shared_state_initialize, scheduler_init and the state runtime_init leaves.
SchedulerInit ==
  /\ global_tick = 0
  /\ game_over = FALSE
  /\ pacman_lives = InitialLives
  /\ collision = NoCollision
  /\ prioridad \in [Process -> Priorities]
  /\ pending_priority = prioridad
  /\ request_active = {}
  /\ sem_turn = [p \in Process |-> 0]
  /\ sem_done = [p \in Process |-> 0]
  /\ exited = {}
  /\ last_round_robin = Enemy
  /\ last_processed_collision_tick = -1
  /\ flags = {}
  /\ selected_process = Pacman
  /\ pc = [t \in Thread |-> "unborn"]
  /\ asleep = {}
  /\ choice = Pacman
  /\ dispatched = Pacman
  /\ saw_game_over = FALSE
  /\ main_pc = "init"
  /\ created = 0
  /\ status = "ok"
  /\ caller = "scheduler_run"

SchedulerNext ==
  TickThread \/ SchedulerThread \/ SignalThread \/ CollisionThread
    \/ MainThread \/ Failure

=============================================================================
