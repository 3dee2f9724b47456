-------------------------- MODULE PacmanPosixProofs --------------------------
(***************************************************************************)
(* The composition: what ScheduledGame assumes of the children, and what   *)
(* PacmanGame and EnemyGame assume of P0 and of each other, holds in the   *)
(* program, for every maze, every set of files and every number of ticks,  *)
(* ghosts and lives.                                                       *)
(*                                                                         *)
(* Each of the three closed specifications is a view of the program: the   *)
(* one of P0 with a stage for each child, and those of P1 and P2 with the  *)
(* state of their turn for P0.  The three inductive invariants are carried *)
(* along together: a step of one process is a step of its own view, and in *)
(* each of the other two a step of the environment or none at all.         *)
(***************************************************************************)
EXTENDS PacmanPosix, TLAPS

-----------------------------------------------------------------------------
(* What P1 and P2 see of P0. *)

\* The signal thread waits for an answer.
Awaiting == pc["signal"] = "await_done"

\* It has taken the answer, and the collision event has yet to be consumed.
Unconsumed ==
  \/ pc["signal"] = "complete"
  \/ "turn_done" \in flags
  \/ pc["collision"] = "consume"

\* The turn of the tick has been posted, and the tick is not closed.
Posted == Awaiting \/ Unconsumed \/ pc["collision"] \in {"charge", "read_over", "report"}

\* A tick has been opened, and is not closed.
TickOpen ==
  \/ pc["tick"] = "open"
  \/ "tick_ready" \in flags
  \/ pc["scheduler"] \in {"apply", "select", "publish"}
  \/ "selection_ready" \in flags
  \/ pc["signal"] = "post"
  \/ Posted

\* P1 has its answer taken by the signal thread ...
P0SeenByPacman ==
  IF main_pc \in {"post_enemy", "wait_children", "exit"} THEN "wait_child"
  ELSE IF game_over THEN "last_post"
  ELSE IF Awaiting /\ dispatched = Pacman THEN "waiting" ELSE "ready"

PacmanTurns ==
  settled.tick - settled.spent + (IF Posted /\ dispatched = Pacman THEN 1 ELSE 0)

\* ... and P2 is answered for when the collision thread has consumed its event.
P0SeenByEnemy ==
  IF main_pc \in {"wait_children", "exit"} THEN "wait_child"
  ELSE IF game_over THEN "last_post"
  ELSE IF (Awaiting \/ Unconsumed) /\ dispatched = Enemy THEN "waiting" ELSE "ready"

EnemyTurns == settled.spent + (IF Posted /\ dispatched = Enemy THEN 1 ELSE 0)

AnswersSeen ==
  IF Unconsumed /\ dispatched = Enemy THEN [sem_done EXCEPT ![Enemy] = @ + 1] ELSE sem_done

\* For P2 a tick counts from the post of its turn on.
TickSeen == IF pc["signal"] = "post" THEN global_tick - 1 ELSE global_tick

\* The three views, with their proofs.
G0 == INSTANCE ScheduledGameProofs WITH
  child <- [p \in Process |-> IF p = Pacman THEN PacmanStage ELSE EnemyStage]

G1 == INSTANCE PacmanGameProofs WITH
  Start <- PacmanStart, InputMayFail <- FALSE, StartMayFail <- PacmanMayFail,
  should_stop <- p1_should_stop, pc <- p1_pc, main_pc <- p1_main_pc,
  exited <- exited \cap {Pacman},
  p0 <- P0SeenByPacman, turns <- PacmanTurns, MaxTurns <- MaxTicks, P0MayFail <- FALSE

G2 == INSTANCE EnemyGameProofs WITH
  InputMayFail <- FALSE, StartMayFail <- FALSE,
  should_stop <- p2_should_stop, pc <- p2_pc,
  exited <- exited \cap {Enemy}, sem_done <- AnswersSeen, global_tick <- TickSeen,
  p0 <- P0SeenByEnemy, turns <- EnemyTurns, MaxTurns <- MaxTicks, P0MayFail <- FALSE

-----------------------------------------------------------------------------
(* The inductive invariant. *)

\* No call of P0 fails here (module ScheduledGame has the failures).
NoError == "thread_error" \notin flags /\ status = "ok" /\ caller = "scheduler_run"

\* The ticks closed, and the enemy turns among them, against the tick counted.
Count ==
  /\ settled.tick \in Nat /\ settled.spent \in Nat /\ settled.spent <= settled.tick
  /\ global_tick = settled.tick + (IF TickOpen THEN 1 ELSE 0)

\* The game does not end while a turn is out or its event is not consumed.
Quiet == game_over => ~Awaiting /\ ~Unconsumed

\* P1 has all its threads, and once the game is over it does not play.
PacmanWhole ==
  /\ p1_main_pc \notin G1!Cleanup
  /\ p1_main_pc \in {"join", "exit"} => p1_pc["publisher"] # "unborn"
  /\ Pacman \in exited => \A t \in P1!Thread : p1_pc[t] = "done"
  /\ game_over => /\ p1_pc["executor"] \notin G1!Playing \cup {"publish"}
                  /\ p1_pc["publisher"] \notin {"copy", "store", "answer"}

\* P2 has all its threads and its files, and stops only when its controller does.
EnemyWhole ==
  /\ p2_pc["main"] \notin G2!StopLabel \cup {"post_turn"}
  /\ G2!Whole
  /\ \A g \in P2!Ghost : ghost_pc[g] # "stop"
  /\ Enemy \in exited => p2_pc["controller"] = "done" /\ p2_pc["main"] = "exit"
  /\ p2_should_stop =>
       /\ p2_pc["controller"] \in {"stop_ghosts", "stop_tracker", "stop_detector", "done"}
       /\ p2_pc["detector"] \notin G2!Judging
       /\ \A g \in P2!Ghost : ghost_pc[g] \notin {"act", "answer"}

\* The inductive invariant.
IInv ==
  /\ G0!IInv /\ G1!IInv /\ G2!IInv
  /\ NoError /\ Count /\ Quiet /\ PacmanWhole /\ EnemyWhole

-----------------------------------------------------------------------------
(* What the views take for granted. *)

\* What main() has checked is what P1 and P2 assume.
LEMMA Assumptions ==
  /\ G0!SchedulerAssumption
  /\ G1!MazeAssumption /\ G1!PacmanAssumption
  /\ G2!MazeAssumption /\ G2!EnemyAssumption
  /\ MaxTicks \in Nat /\ GhostCount \in Nat /\ Priorities \subseteq 0..100
<1>1. G1!Open = P1!Open /\ G2!Open = P1!Open /\ G1!Line = P1!Line /\ G2!Line = P1!Line
  BY DEF G1!Open, G2!Open, P1!Open, G1!Line, G2!Line, P1!Line, G1!Direction, G2!Direction,
         P1!Direction
<1>2. G1!MazeAssumption /\ G2!MazeAssumption
  BY PosixAssumption DEF PosixAssumption, G1!MazeAssumption, G2!MazeAssumption
<1>3. /\ PacmanStart \in P1!Open /\ GhostStart \in [1..GhostCount -> P1!Open]
      /\ GhostCount \in Nat \ {0} /\ DOMAIN GhostMoves = 1..GhostCount
      /\ Moves \in Seq(P1!Line) /\ \A g \in 1..GhostCount : GhostMoves[g] \in Seq(P1!Line)
  BY PosixAssumption DEF PosixAssumption
<1>4. MaxTicks \in Nat /\ Priorities \subseteq 0..100
  BY Z3, SchedulerAssumption DEF SchedulerAssumption, MIN_PRIORITY, MAX_PRIORITY
<1>5. G0!SchedulerAssumption
  BY SchedulerAssumption
     DEF SchedulerAssumption, G0!SchedulerAssumption, MIN_PRIORITY, G0!MIN_PRIORITY,
         MAX_PRIORITY, G0!MAX_PRIORITY
<1> QED
  BY <1>1, <1>2, <1>3, <1>4, <1>5 DEF G1!PacmanAssumption, G2!EnemyAssumption

\* The names the three specifications share mean the same.
LEMMA Names ==
  /\ Pacman = "pacman" /\ Enemy = "enemy" /\ Process = {"pacman", "enemy"}
  /\ G1!Pacman = Pacman /\ G1!Process = Process
  /\ G2!Enemy = Enemy /\ G2!Process = Process
  /\ G0!Pacman = Pacman /\ G0!Enemy = Enemy /\ G0!Process = Process
  /\ P1!Pacman = Pacman /\ P2!Enemy = Enemy
  /\ G0!Thread = Thread /\ G1!Thread = P1!Thread /\ G2!Thread = P2!Thread
  /\ G2!Ghost = 1..GhostCount /\ P2!Ghost = 1..GhostCount
  /\ G0!NoCollision = NoCollision /\ G2!NoCollision = NoCollision
BY DEF Pacman, Enemy, Process, G1!Pacman, G1!Enemy, G1!Process, G2!Pacman, G2!Enemy, G2!Process,
       G0!Pacman, G0!Enemy, G0!Process, P1!Pacman, P2!Enemy, Thread, G0!Thread, G1!Thread,
       P1!Thread, G2!Thread, P2!Thread, G2!Ghost, P2!Ghost, NoCollision, G0!NoCollision,
       G2!NoCollision

-----------------------------------------------------------------------------
(* What P0's own invariant says of the program. *)

\* The types of P0 and of what it shares.
LEMMA SharedMemory ==
  ASSUME G0!IInv
  PROVE  /\ global_tick \in 0..MaxTicks /\ game_over \in BOOLEAN
         /\ pending_priority \in [Process -> Priorities] /\ request_active \subseteq Process
         /\ sem_turn \in [Process -> Nat] /\ sem_done \in [Process -> Nat]
         /\ exited \subseteq Process /\ dispatched \in Process /\ selected_process \in Process
         /\ pc \in [Thread -> G0!ThreadLabel] /\ flags \subseteq Flag
         /\ collision \in {NoCollision} \cup [tick : 0..MaxTicks, ghost : 1..GhostCount]
BY Names DEF G0!IInv, G0!TypeOK, G0!SharedTypes, G0!ThreadTypes, G0!LocalTypes, G0!Flag, Flag

\* A thread that works on the tick.
Works(t) == pc[t] \notin {"unborn", "wait", "done"}
Carried  == {"tick_ready", "selection_ready", "turn_done"}

\* One thread works on the tick, or one flag carries it (OneBaton).
LEMMA Baton ==
  ASSUME G0!IInv
  PROVE  /\ \A t, u \in Thread : Works(t) /\ Works(u) => t = u
         /\ \A t \in Thread, f \in Carried : ~(Works(t) /\ f \in flags)
         /\ \A f, h \in Carried : f \in flags /\ h \in flags => f = h
<1>1. \A a, b \in G0!Baton : a = b
  BY DEF G0!IInv, G0!OneBaton
<1>2. \A t \in Thread : Works(t) => t \in G0!Baton
  BY Names DEF G0!Baton, Works
<1>3. \A f \in Carried : f \in flags => f \in G0!Baton
  BY DEF G0!Baton, Carried
<1>4. \A t \in Thread, f \in Carried : t # f
  BY DEF Thread, Carried
<1> QED
  BY <1>1, <1>2, <1>3, <1>4

\* Once the game is over, P0 has nothing left but to end (OverAtEnd, Joined).
LEMMA AtEnd ==
  ASSUME G0!IInv, status = "ok"
  PROVE  /\ game_over /\ G0!BeforeShutdown =>
              /\ ~Works("signal") /\ ~Works("scheduler") /\ flags \cap Carried = {}
              /\ pc["tick"] # "open" /\ pc["collision"] \notin {"consume", "charge"}
         /\ ~G0!BeforeShutdown => game_over /\ \A t \in Thread : pc[t] \in {"unborn", "done"}
         /\ main_pc # "cancel" /\ main_pc \in G0!MainLabel
<1>1. ASSUME game_over, G0!BeforeShutdown
      PROVE  /\ ~Works("signal") /\ ~Works("scheduler") /\ flags \cap Carried = {}
             /\ pc["tick"] # "open" /\ pc["collision"] \notin {"consume", "charge"}
  <2>1. /\ G0!Baton \subseteq {"tick", "collision", "collision_done"}
        /\ pc["tick"] # "open" /\ pc["collision"] \notin {"consume", "charge"}
    BY <1>1 DEF G0!IInv, G0!OverAtEnd
  <2>2. \A t \in Thread : Works(t) => t \in G0!Baton
    BY Names DEF G0!Baton, Works
  <2>3. \A f \in Carried : f \in flags => f \in G0!Baton
    BY DEF G0!Baton, Carried
  <2> QED
    BY <2>1, <2>2, <2>3 DEF Thread, Carried
<1>2. ASSUME ~G0!BeforeShutdown
      PROVE  game_over /\ \A t \in Thread : pc[t] \in {"unborn", "done"}
  BY <1>2, Names DEF G0!IInv, G0!Joined, G0!Ending
<1>3. main_pc # "cancel" /\ main_pc \in G0!MainLabel
  BY DEF G0!IInv, G0!Ending, G0!TypeOK, G0!LocalTypes
<1> QED
  BY <1>1, <1>2, <1>3

\* No request is pending when a turn is posted (DispatchRespectsPriority).
LEMMA NoRequest ==
  ASSUME G0!IInv, pc["signal"] = "post"
  PROVE  request_active = {}
BY DEF G0!IInv, G0!DispatchRespectsPriority

\* The stages P0 gives its children.
LEMMA Stages ==
  /\ G0!Process = {Pacman, Enemy} /\ Pacman # Enemy
  /\ [p \in Process |-> IF p = Pacman THEN PacmanStage ELSE EnemyStage][Pacman] = PacmanStage
  /\ [p \in Process |-> IF p = Pacman THEN PacmanStage ELSE EnemyStage][Enemy] = EnemyStage
BY Names DEF Process, Pacman, Enemy

\* No child plays once the game is over (NoTurnInterrupted).
LEMMA NoInterruption ==
  ASSUME G0!IInv, NoError, game_over
  PROVE  PacmanStage \notin {"playing", "reported"} /\ EnemyStage \notin {"playing", "reported"}
<1>1. G0!NoTurnInterrupted
  BY G0!PlayingUninterrupted, Assumptions
<1> QED
  BY <1>1, Stages DEF G0!NoTurnInterrupted, NoError

\* While the event of a turn is consumed, P2 has no turn (TurnExclusive).
LEMMA EnemyRests ==
  ASSUME G0!IInv, NoError, pc["collision"] = "consume"
  PROVE  EnemyStage \notin {"woken", "playing", "reported"}
<1>1. Works("collision") /\ "collision" \in Thread /\ "signal" \in Thread
  BY DEF Works, Thread
<1>2. G0!BeforeShutdown
  BY <1>1, AtEnd DEF NoError, Works
<1>3. ~Works("signal")
  BY <1>1, Baton
<1>4. pc["signal"] # "await_done"
  BY <1>3 DEF Works
<1>5. G0!Custody(G0!Pacman) = 0 /\ G0!Custody(G0!Enemy) = 0
  <2>1. CASE pc["signal"] # "done"
    BY <1>2, <1>4, <2>1 DEF G0!IInv, G0!TurnExclusive
  <2>2. CASE pc["signal"] = "done"
    <3>1. ~(G0!Custody(G0!Pacman) + G0!Custody(G0!Enemy) > 0)
      BY <1>2, <2>2 DEF G0!IInv, G0!Orphaned, NoError
    <3>2. G0!Custody(G0!Pacman) \in Nat /\ G0!Custody(G0!Enemy) \in Nat
      BY G0!CustodyNat, Assumptions DEF G0!IInv
    <3> QED
      BY <3>1, <3>2
  <2> QED
    BY <2>1, <2>2
<1>6. sem_turn[Enemy] \in Nat /\ sem_done[Enemy] \in Nat
  BY SharedMemory, Names
<1> QED
  BY <1>5, <1>6, Names, Stages DEF G0!Custody, G0!Busy

-----------------------------------------------------------------------------
(* The steps of a process are steps of its view. *)

\* What P0 does it does in its own specification.
LEMMA SchedulerSteps ==
  ASSUME P0Threads
  PROVE  G0!SchedulerNext
<1> USE DEF clock_vars, G0!clock_vars, priority_vars, G0!priority_vars, semaphore_vars,
            G0!semaphore_vars, local_vars, G0!local_vars, thread_vars, G0!thread_vars,
            memory_vars, G0!memory_vars, main_vars, G0!main_vars, Running, G0!Running, Goto,
            G0!Goto, Stopping, G0!Stopping, AwaitFlag, G0!AwaitFlag
<1>1. ASSUME TickThread
      PROVE  G0!TickThread
  BY <1>1
     DEF TickThread, G0!TickThread, TickAdvance, G0!TickAdvance, TickEnds, G0!TickEnds,
         TickStops, G0!TickStops, TickOpens, G0!TickOpens, TickCloses, G0!TickCloses
<1>2. ASSUME SchedulerThread
      PROVE  G0!SchedulerThread
  BY <1>2
     DEF SchedulerThread, G0!SchedulerThread, SchedulerAwaitsTick, G0!SchedulerAwaitsTick,
         scheduler_apply_priority_requests, G0!scheduler_apply_priority_requests,
         scheduler_select_next_process, G0!scheduler_select_next_process, SchedulerPublishes,
         G0!SchedulerPublishes, Preferred, G0!Preferred, Other, G0!Other, Pacman, G0!Pacman,
         Enemy, G0!Enemy, Process, G0!Process, is_priority_in_range, G0!is_priority_in_range,
         MIN_PRIORITY, G0!MIN_PRIORITY, MAX_PRIORITY, G0!MAX_PRIORITY
<1>3. ASSUME SignalThread
      PROVE  G0!SignalThread
  BY <1>3
     DEF SignalThread, G0!SignalThread, SignalAwaitsSelection, G0!SignalAwaitsSelection,
         PostTurn, G0!PostTurn, WaitDone, G0!WaitDone, SignalCompletes, G0!SignalCompletes
<1>4. ASSUME CollisionThread
      PROVE  G0!CollisionThread
  BY <1>4
     DEF CollisionThread, G0!CollisionThread, CollisionAwaitsTurn, G0!CollisionAwaitsTurn,
         ConsumeCollision, G0!ConsumeCollision, decrement_life_for_collision,
         G0!decrement_life_for_collision, read_game_over, G0!read_game_over, CollisionReports,
         G0!CollisionReports, NoCollision, G0!NoCollision
<1>5. ASSUME MainThread
      PROVE  G0!MainThread
  BY <1>5
     DEF MainThread, G0!MainThread, runtime_init, G0!runtime_init, CreateThread,
         G0!CreateThread, CancelThreads, G0!CancelThreads, JoinThreads, G0!JoinThreads,
         set_game_over, G0!set_game_over, PostPacmanShutdown, G0!PostPacmanShutdown,
         PostEnemyShutdown, G0!PostEnemyShutdown, WaitChildren, G0!WaitChildren, StartLabel,
         G0!StartLabel, CreationOrder, G0!CreationOrder, ThreadCount, G0!ThreadCount, Pacman,
         G0!Pacman, Enemy, G0!Enemy, Process, G0!Process
<1> QED
  BY <1>1, <1>2, <1>3, <1>4, <1>5 DEF P0Threads, G0!SchedulerNext

\* What P1 does it does in its own.
LEMMA PacmanSteps ==
  ASSUME P1!PacmanNext, ~PacmanMayFail
  PROVE  G1!PacmanNext
<1> USE DEF P1!mailbox_vars, G1!mailbox_vars, P1!queue_vars, G1!queue_vars, P1!reader_vars,
            G1!reader_vars, P1!turn_vars, G1!turn_vars, P1!out_vars, G1!out_vars, P1!At, G1!At,
            P1!Goto, G1!Goto
<1>1. ASSUME P1!Reader
      PROVE  G1!Reader
  BY <1>1
     DEF P1!Reader, G1!Reader, P1!ReaderOpens, G1!ReaderOpens, P1!ReadLine, G1!ReadLine,
         P1!queue_push, G1!queue_push, P1!ReaderPosts, G1!ReaderPosts,
         P1!queue_mark_reader_done, G1!queue_mark_reader_done, P1!parse_instruction_accepts,
         G1!parse_instruction_accepts, P1!MAX_PRIORITY, G1!MAX_PRIORITY
<1>2. ASSUME P1!Executor
      PROVE  G1!Executor
  BY <1>2
     DEF P1!Executor, G1!Executor, P1!ExecutorAwaitsTurn, G1!ExecutorAwaitsTurn,
         P1!ExecutorReadsGameOver, G1!ExecutorReadsGameOver, P1!TryAvailable, G1!TryAvailable,
         P1!CheckReaderDone, G1!CheckReaderDone, P1!AwaitAvailable, G1!AwaitAvailable,
         P1!queue_pop_locked, G1!queue_pop_locked, P1!process_instruction,
         G1!process_instruction, P1!ExecutorRequestsPublication, G1!ExecutorRequestsPublication,
         P1!ExecutorRequestsStop, G1!ExecutorRequestsStop, P1!ExecutorPostsStop,
         G1!ExecutorPostsStop, P1!Pacman, G1!Pacman, P1!NoInstruction, G1!NoInstruction,
         P1!Moved, G1!Moved, P1!movement_delta, G1!movement_delta, P1!is_wall_or_out_of_bounds,
         G1!is_wall_or_out_of_bounds
<1>3. ASSUME P1!Publisher
      PROVE  G1!Publisher
  BY <1>3
     DEF P1!Publisher, G1!Publisher, P1!PublisherAwaitsRequest, G1!PublisherAwaitsRequest,
         P1!PublisherReadsGameOver, G1!PublisherReadsGameOver, P1!PublisherCopies,
         G1!PublisherCopies, P1!PublisherStores, G1!PublisherStores, P1!PublisherAnswers,
         G1!PublisherAnswers, P1!Pacman, G1!Pacman
<1>4. ASSUME P1!JoinThreads
      PROVE  G1!JoinThreads
  <2>1. exited' \cap {Pacman} = (exited \cap {Pacman}) \cup {Pacman}
    BY <1>4, Names DEF P1!JoinThreads
  <2> QED
    BY <1>4, <2>1, Names DEF P1!JoinThreads, G1!JoinThreads
<1>5. ASSUME P1!Main
      PROVE  G1!Main
  BY <1>4, <1>5
     DEF P1!Main, G1!Main, P1!CreateThread, G1!CreateThread, P1!Creates, G1!Creates,
         P1!MainRequestsStop, G1!MainRequestsStop, P1!MainPostsAvailable,
         G1!MainPostsAvailable, P1!MainPostsTurn, G1!MainPostsTurn, P1!MainPostsPublish,
         G1!MainPostsPublish, P1!Pacman, G1!Pacman
<1> QED
  BY <1>1, <1>2, <1>3, <1>5
     DEF P1!PacmanNext, G1!PacmanNext, P1!ContextInitFails, P1!CreateFails

\* What P2 does it does in its own: the answers and the tick it sees are those of
\* the memory.
LEMMA EnemySteps ==
  ASSUME P2!EnemyNext, UNCHANGED p0_private, sem_done \in [Process -> Nat],
         p2_pc["detector"] = "copy_tick" => pc["signal"] # "post"
  PROVE  G2!EnemyNext
<1> USE DEF P2!mailbox_vars, G2!mailbox_vars, P2!out_vars, G2!out_vars, P2!helper_vars,
            G2!helper_vars, P2!ghost_vars, G2!ghost_vars, P2!ghost_sems, G2!ghost_sems,
            P2!detector_vars, G2!detector_vars, P2!control_vars, G2!control_vars, P2!p0_owned,
            G2!p0_owned, P2!At, G2!At, P2!Goto, G2!Goto, P2!EachGhost, G2!EachGhost,
            P2!ReadsStop, G2!ReadsStop
<1>1. /\ global_tick' = global_tick => TickSeen' = TickSeen
      /\ sem_done' = sem_done => AnswersSeen' = AnswersSeen
      /\ exited' = exited => (exited \cap {Enemy})' = exited \cap {Enemy}
  BY DEF p0_private, thread_vars, local_vars, TickSeen, AnswersSeen, Unconsumed
<1>2. ASSUME NEW g \in P2!Ghost, P2!GhostThread(g)
      PROVE  G2!GhostThread(g)
  BY <1>1, <1>2
     DEF P2!GhostThread, G2!GhostThread, P2!GhostGoto, G2!GhostGoto, P2!load_ghost_instructions,
         G2!load_ghost_instructions, P2!GhostRequestsStop, G2!GhostRequestsStop,
         P2!GhostAwaitsTurn, G2!GhostAwaitsTurn, P2!GhostReadsStop, G2!GhostReadsStop,
         P2!process_ghost_instruction, G2!process_ghost_instruction, P2!GhostAnswers,
         G2!GhostAnswers, P2!Enemy, G2!Enemy, P2!Parsed, G2!Parsed, P2!ParsedUpTo,
         G2!ParsedUpTo, P2!parse_instruction_accepts, G2!parse_instruction_accepts,
         P2!MAX_PRIORITY, G2!MAX_PRIORITY, P2!Moved, G2!Moved, P2!movement_delta,
         G2!movement_delta, P2!is_wall_or_out_of_bounds, G2!is_wall_or_out_of_bounds
<1>3. ASSUME P2!Tracker
      PROVE  G2!Tracker
  BY <1>1, <1>3
     DEF P2!Tracker, G2!Tracker, P2!TrackerAwaitsRequest, G2!TrackerAwaitsRequest,
         P2!TrackPacman, G2!TrackPacman, P2!TrackerAnswers, G2!TrackerAnswers
<1>4. ASSUME P2!Detector
      PROVE  G2!Detector
  <2>1. G2!Colliding = P2!Colliding
    BY Names DEF G2!Colliding, P2!Colliding
  <2>2. CASE P2!CopyTick
    <3>1. TickSeen = global_tick
      BY <2>2 DEF P2!CopyTick, TickSeen
    <3> QED
      BY <1>1, <2>1, <2>2, <3>1 DEF P2!CopyTick, G2!CopyTick, G2!Detector
  <2>3. CASE P2!publish_collision
    BY <1>1, <2>1, <2>3 DEF P2!publish_collision, G2!publish_collision, G2!Detector
  <2>4. CASE ~P2!CopyTick /\ ~P2!publish_collision
    BY <1>1, <1>4, <2>4
       DEF P2!Detector, G2!Detector, P2!DetectorAwaitsRequest, G2!DetectorAwaitsRequest,
           P2!CopyPacman, G2!CopyPacman, P2!CopyGhosts, G2!CopyGhosts, P2!DetectorAnswers,
           G2!DetectorAnswers
  <2> QED
    BY <2>2, <2>3, <2>4
<1>5. ASSUME P2!ControllerAnswers
      PROVE  G2!ControllerAnswers
  <2>1. UNCHANGED <<flags, pc, dispatched>>
    BY DEF p0_private, thread_vars, local_vars
  <2>2. sem_done' = [sem_done EXCEPT ![Enemy] = @ + 1]
    BY <1>5, Names DEF P2!ControllerAnswers
  <2>3. AnswersSeen' = [AnswersSeen EXCEPT ![Enemy] = @ + 1]
    BY <2>1, <2>2 DEF AnswersSeen, Unconsumed
  <2> QED
    BY <1>1, <1>5, <2>3, Names DEF P2!ControllerAnswers, G2!ControllerAnswers
<1>6. ASSUME P2!Controller
      PROVE  G2!Controller
  BY <1>1, <1>5, <1>6
     DEF P2!Controller, G2!Controller, P2!ControllerAwaitsTurn, G2!ControllerAwaitsTurn,
         P2!ControllerReadsGameOver, G2!ControllerReadsGameOver, P2!post_all_ghost_turns,
         G2!post_all_ghost_turns, P2!wait_all_ghosts_done, G2!wait_all_ghosts_done,
         P2!RequestTracker, G2!RequestTracker, P2!AwaitTracker, G2!AwaitTracker,
         P2!RequestDetection, G2!RequestDetection, P2!AwaitDetection, G2!AwaitDetection,
         P2!signal_helper_shutdown, G2!signal_helper_shutdown, P2!RequestStop, G2!RequestStop,
         P2!ReleaseGhost, G2!ReleaseGhost, P2!ReleaseTracker, G2!ReleaseTracker,
         P2!ReleaseDetector, G2!ReleaseDetector, P2!Enemy, G2!Enemy
<1>7. ASSUME P2!JoinThreads
      PROVE  G2!JoinThreads
  <2>1. exited' \cap {Enemy} = (exited \cap {Enemy}) \cup {Enemy}
    BY <1>7, Names DEF P2!JoinThreads
  <2> QED
    BY <1>1, <1>7, <2>1, Names DEF P2!JoinThreads, G2!JoinThreads
<1>8. ASSUME P2!Main
      PROVE  G2!Main
  BY <1>1, <1>7, <1>8
     DEF P2!Main, G2!Main, P2!CreateThread, G2!CreateThread, P2!GhostGoto, G2!GhostGoto,
         P2!signal_helper_shutdown, G2!signal_helper_shutdown, P2!RequestStop, G2!RequestStop,
         P2!ReleaseGhost, G2!ReleaseGhost, P2!ReleaseTracker, G2!ReleaseTracker,
         P2!ReleaseDetector, G2!ReleaseDetector, P2!MainPostsTurn, G2!MainPostsTurn, P2!Enemy,
         G2!Enemy
<1>9. ~P2!ContextInitFails /\ ~P2!CreateFails
  BY DEF P2!ContextInitFails, P2!CreateFails
<1> QED
  BY <1>2, <1>3, <1>4, <1>6, <1>8, <1>9, Names DEF P2!EnemyNext, G2!EnemyNext

-----------------------------------------------------------------------------
(* What the steps of P0 are in the views of P1 and P2. *)

\* The tick, the turn and the shutdown stand where they stood.
SamePhase ==
  /\ Awaiting' <=> Awaiting
  /\ Unconsumed' <=> Unconsumed
  /\ Posted' <=> Posted
  /\ TickOpen' <=> TickOpen
  /\ pc'["signal"] = "post" <=> pc["signal"] = "post"
  /\ main_pc' = "post_enemy" <=> main_pc = "post_enemy"
  /\ main_pc' \in {"wait_children", "exit"} <=> main_pc \in {"wait_children", "exit"}

\* And neither child sees anything of the step but its mailbox emptied.
Silent ==
  /\ SamePhase
  /\ UNCHANGED <<global_tick, game_over, pending_priority, sem_turn, sem_done, exited,
                 collision, dispatched, settled>>
  /\ request_active' \in {request_active, {}}

\* Most steps of the threads of P0 are of no concern to the children.
LEMMA SilentThreads ==
  ASSUME G0!IInv, Record,
         \/ TickStops \/ TickOpens \/ TickCloses
         \/ SchedulerAwaitsTick \/ scheduler_apply_priority_requests
         \/ scheduler_select_next_process \/ SchedulerPublishes
         \/ SignalCompletes \/ CollisionAwaitsTurn \/ read_game_over
  PROVE  Silent
<1>1. pc \in [Thread -> G0!ThreadLabel] /\ Thread = {"tick", "scheduler", "signal", "collision"}
  BY SharedMemory DEF Thread
<1> USE DEF Silent, SamePhase, Record, CollisionCloses, Awaiting, Unconsumed, Posted, TickOpen, Running,
            Goto, AwaitFlag, Stopping, clock_vars, priority_vars, semaphore_vars, local_vars,
            thread_vars, memory_vars, main_vars
<1>2. CASE TickStops
  BY <1>1, <1>2 DEF TickStops
<1>3. CASE TickOpens
  <2>1. "selection_ready" \notin flags /\ "turn_done" \notin flags
    BY <1>1, <1>3, Baton DEF TickOpens, Works, Carried
  <2> QED
    BY <1>1, <1>3, <2>1 DEF TickOpens
<1>4. CASE TickCloses
  BY <1>1, <1>4 DEF TickCloses
<1>5. CASE SchedulerAwaitsTick
  BY <1>1, <1>5 DEF SchedulerAwaitsTick
<1>6. CASE scheduler_apply_priority_requests
  BY <1>1, <1>6 DEF scheduler_apply_priority_requests
<1>7. CASE scheduler_select_next_process
  BY <1>1, <1>7 DEF scheduler_select_next_process
<1>8. CASE SchedulerPublishes
  BY <1>1, <1>8 DEF SchedulerPublishes
<1>9. CASE SignalCompletes
  BY <1>1, <1>9 DEF SignalCompletes
<1>10. CASE CollisionAwaitsTurn
  BY <1>1, <1>10 DEF CollisionAwaitsTurn
<1>11. CASE read_game_over
  BY <1>1, <1>11 DEF read_game_over
<1> QED
  BY <1>2, <1>3, <1>4, <1>5, <1>6, <1>7, <1>8, <1>9, <1>10, <1>11

\* So is the main thread, until it posts the turns of the shutdown.
LEMMA SilentMain ==
  ASSUME G0!IInv, NoError, Record,
         \/ runtime_init \/ CreateThread \/ CancelThreads \/ JoinThreads
         \/ set_game_over \/ WaitChildren
  PROVE  Silent
<1>1. pc \in [Thread -> G0!ThreadLabel] /\ Thread = {"tick", "scheduler", "signal", "collision"}
  BY SharedMemory DEF Thread
<1> USE DEF Silent, SamePhase, Record, CollisionCloses, Awaiting, Unconsumed, Posted, TickOpen,
            Goto, clock_vars, priority_vars, semaphore_vars, local_vars,
            thread_vars, memory_vars, main_vars
<1>2. CASE runtime_init
  BY <1>1, <1>2 DEF runtime_init
<1>3. CASE CreateThread
  <2>1. /\ created \in 0..3 /\ created + 1 \in 1..4
        /\ pc[CreationOrder[created + 1]] = "unborn" /\ CreationOrder[created + 1] \in Thread
    <3>1. created \in 0..3
      BY <1>3 DEF CreateThread, G0!IInv, G0!TypeOK, G0!LocalTypes, G0!Creation, G0!ThreadCount
    <3>2. /\ created < 1 => pc["tick"] = "unborn"
          /\ created < 2 => pc["scheduler"] = "unborn"
          /\ created < 3 => pc["signal"] = "unborn"
          /\ created < 4 => pc["collision"] = "unborn"
      BY DEF G0!IInv, G0!Creation
    <3>3. /\ CreationOrder[1] = "tick" /\ CreationOrder[2] = "scheduler"
          /\ CreationOrder[3] = "signal" /\ CreationOrder[4] = "collision"
      BY DEF CreationOrder
    <3>4. created = 0 \/ created = 1 \/ created = 2 \/ created = 3
      BY <3>1
    <3> QED
      BY <1>1, <3>2, <3>3, <3>4
  <2> QED
    BY <1>1, <1>3, <2>1 DEF CreateThread, StartLabel
<1>4. CASE CancelThreads
  BY <1>4, AtEnd DEF CancelThreads, NoError
<1>5. CASE JoinThreads
  BY <1>1, <1>5 DEF JoinThreads
<1>6. CASE set_game_over
  <2>1. game_over
    BY <1>6, AtEnd DEF set_game_over, NoError, G0!BeforeShutdown
  <2> QED
    BY <1>1, <1>6, <2>1 DEF set_game_over
<1>7. CASE WaitChildren
  BY <1>1, <1>7 DEF WaitChildren
<1> QED
  BY <1>2, <1>3, <1>4, <1>5, <1>6, <1>7

\* What the views of P1 and P2 hold of their own, unchanged.
LEMMA ChildrenRest ==
  ASSUME UNCHANGED <<pacman_at, p1_private, p2_private, exited>>
  PROVE  /\ UNCHANGED <<G1!p1_private, G1!queue_vars, publish_requested, G1!reader_vars,
                        G1!turn_vars, G1!out_vars, p1_pc, p1_main_pc, exited \cap {Pacman}>>
         /\ UNCHANGED <<G2!p2_private, p2_should_stop, tracked, G2!helper_vars, G2!ghost_vars,
                        G2!ghost_sems, G2!control_vars, G2!detector_vars, exited \cap {Enemy},
                        pacman_at>>
BY DEF p1_private, p2_private, G1!p1_private, G1!queue_vars, G1!reader_vars, G1!turn_vars,
       G1!out_vars, G2!p2_private, G2!helper_vars, G2!ghost_vars, G2!ghost_sems,
       G2!control_vars, G2!detector_vars

\* A step of the view of P1, and of that of P2.
PacmanView == [G1!Next]_(G1!game_vars) \/ G1!OthersMove
EnemyView  == [G2!Next]_(G2!game_vars) \/ G2!OthersMove

\* The types of the two views.
LEMMA ViewTypes ==
  ASSUME G0!IInv
  PROVE  /\ sem_turn \in [Process -> Nat] /\ sem_done \in [Process -> Nat]
         /\ AnswersSeen \in [Process -> Nat]
         /\ pending_priority \in [Process -> 0..100] /\ request_active \subseteq Process
<1>1. /\ sem_turn \in [Process -> Nat] /\ sem_done \in [Process -> Nat]
      /\ pending_priority \in [Process -> Priorities] /\ request_active \subseteq Process
  BY SharedMemory
<1>2. pending_priority \in [Process -> 0..100]
  BY <1>1, Assumptions
<1>3. [sem_done EXCEPT ![Enemy] = @ + 1] \in [Process -> Nat]
  BY <1>1 DEF Process
<1> QED
  BY <1>1, <1>2, <1>3 DEF AnswersSeen

\* And so after the step.
LEMMA ViewTypesNext ==
  ASSUME G0!IInv'
  PROVE  /\ sem_turn' \in [Process -> Nat] /\ sem_done' \in [Process -> Nat]
         /\ AnswersSeen' \in [Process -> Nat] /\ global_tick' \in Nat
         /\ pending_priority' \in [Process -> 0..100] /\ request_active' \subseteq Process
<1>1. /\ sem_turn' \in [Process -> Nat] /\ sem_done' \in [Process -> Nat]
      /\ pending_priority' \in [Process -> Priorities] /\ request_active' \subseteq Process
      /\ global_tick' \in 0..MaxTicks
  BY Names DEF G0!IInv, G0!TypeOK, G0!SharedTypes
<1>2. pending_priority' \in [Process -> 0..100] /\ global_tick' \in Nat
  <2>1. MaxTicks \in Nat /\ Priorities \subseteq 0..100
    BY Assumptions
  <2>2. global_tick' \in Nat
    BY <1>1, <2>1
  <2>3. pending_priority' \in [Process -> 0..100]
    BY <1>1, <2>1
  <2> QED
    BY <2>2, <2>3
<1>3. [sem_done' EXCEPT ![Enemy] = @ + 1] \in [Process -> Nat]
  BY <1>1 DEF Process
<1> QED
  BY <1>1, <1>2, <1>3 DEF AnswersSeen

\* A silent step is none of the views' concern.
LEMMA SilentViews ==
  ASSUME IInv, G0!IInv', Silent, UNCHANGED <<pacman_at, p1_private, p2_private>>
  PROVE  PacmanView /\ EnemyView /\ Count' /\ Quiet'
<1>1. /\ sem_turn' \in [Process -> Nat] /\ sem_done' \in [Process -> Nat]
      /\ AnswersSeen' \in [Process -> Nat]
      /\ pending_priority' \in [Process -> 0..100] /\ request_active' \subseteq Process
  BY ViewTypesNext
<1> USE DEF Silent, SamePhase
<1>2. /\ P0SeenByPacman' = P0SeenByPacman /\ PacmanTurns' = PacmanTurns
      /\ P0SeenByEnemy' = P0SeenByEnemy /\ EnemyTurns' = EnemyTurns
      /\ AnswersSeen' = AnswersSeen /\ TickSeen' = TickSeen
  BY DEF P0SeenByPacman, PacmanTurns, P0SeenByEnemy, EnemyTurns, AnswersSeen, TickSeen
<1>3. G1!OthersMove
  BY <1>1, <1>2, ChildrenRest, Names DEF G1!OthersMove, G1!MAX_PRIORITY
<1>4. G2!OthersMove
  BY <1>1, <1>2, ChildrenRest, Names DEF G2!OthersMove, G2!MAX_PRIORITY
<1>5. Count' /\ Quiet'
  BY DEF IInv, Count, Quiet
<1> QED
  BY <1>3, <1>4, <1>5 DEF PacmanView, EnemyView

-----------------------------------------------------------------------------
(* The steps of P0 that the children notice. *)

\* The thread that works on the tick does so alone, before the shutdown.
LEMMA Alone ==
  ASSUME G0!IInv, NoError, NEW t \in Thread, Works(t)
  PROVE  /\ G0!BeforeShutdown /\ flags \cap Carried = {}
         /\ \A u \in Thread : u # t => ~Works(u)
<1>1. G0!BeforeShutdown
  BY AtEnd DEF NoError, Works
<1> QED
  BY <1>1, Baton

\* Before the shutdown, what the children see of P0 depends on the turn alone.
LEMMA SeenInGame ==
  ASSUME G0!BeforeShutdown, ~game_over
  PROVE  /\ P0SeenByPacman = IF Awaiting /\ dispatched = Pacman THEN "waiting" ELSE "ready"
         /\ P0SeenByEnemy = IF (Awaiting \/ Unconsumed) /\ dispatched = Enemy
                              THEN "waiting" ELSE "ready"
BY DEF G0!BeforeShutdown, P0SeenByPacman, P0SeenByEnemy

\* The tick that P2 sees is a number.
LEMMA TickSeenNext ==
  ASSUME Count', G0!IInv'
  PROVE  TickSeen' \in Nat
<1>1. CASE pc'["signal"] = "post"
  <2>1. settled.tick' \in Nat /\ global_tick' = settled.tick' + 1
    BY <1>1 DEF Count, TickOpen
  <2> QED
    BY <1>1, <2>1 DEF TickSeen
<1>2. CASE pc'["signal"] # "post"
  BY <1>2, ViewTypesNext DEF TickSeen
<1> QED
  BY <1>1, <1>2

\* A step that leaves P1 its semaphores, its turns and the state of the game.
LEMMA PacmanUndisturbed ==
  ASSUME G0!IInv', UNCHANGED <<pacman_at, p1_private, p2_private, exited, game_over>>,
         sem_turn'[Pacman] = sem_turn[Pacman], sem_done'[Pacman] = sem_done[Pacman],
         UNCHANGED <<P0SeenByPacman, PacmanTurns>>
  PROVE  PacmanView
BY ViewTypesNext, ChildrenRest, Names DEF PacmanView, G1!OthersMove, G1!MAX_PRIORITY

\* And one that leaves P2 its own.
LEMMA EnemyUndisturbed ==
  ASSUME G0!IInv', Count',
         UNCHANGED <<pacman_at, p1_private, p2_private, exited, game_over, collision>>,
         sem_turn'[Enemy] = sem_turn[Enemy], AnswersSeen'[Enemy] = AnswersSeen[Enemy],
         UNCHANGED <<P0SeenByEnemy, EnemyTurns>>,
         \/ TickSeen' = TickSeen
         \/ P0SeenByEnemy = "ready" /\ pacman_at \in G2!Open
  PROVE  EnemyView
<1>1. TickSeen' \in Nat
  BY TickSeenNext
<1>2. G2!OthersMove
  BY <1>1, ViewTypesNext, ChildrenRest, Names DEF G2!OthersMove, G2!MAX_PRIORITY
<1> QED
  BY <1>2 DEF EnemyView

\* The tick that is opened is counted.
LEMMA TickAdvanceViews ==
  ASSUME IInv, G0!IInv', TickAdvance, Record, UNCHANGED <<pacman_at, p1_private, p2_private>>
  PROVE  PacmanView /\ EnemyView /\ Count' /\ Quiet'
<1>1. pc \in [Thread -> G0!ThreadLabel] /\ Thread = {"tick", "scheduler", "signal", "collision"}
  BY SharedMemory DEF Thread, IInv
<1>2. G0!BeforeShutdown /\ flags \cap Carried = {} /\ \A u \in Thread : u # "tick" => ~Works(u)
  <2>1. Works("tick")
    BY DEF TickAdvance, Running, Works
  <2> QED
    BY <1>1, <2>1, Alone DEF IInv
<1>3. ~game_over /\ ~game_over' /\ UNCHANGED <<flags, main_pc, dispatched, sem_turn, sem_done,
                                              exited, game_over, collision>>
  BY DEF TickAdvance, clock_vars, semaphore_vars, thread_vars, local_vars, main_vars
<1>4. ~Awaiting /\ ~Unconsumed /\ ~Posted /\ ~TickOpen
  BY <1>1, <1>2
     DEF Awaiting, Unconsumed, Posted, TickOpen, Works, Carried, TickAdvance, Running
<1>5. pc' = [pc EXCEPT !["tick"] = "open"]
  BY DEF TickAdvance, Goto
<1>6. ~Awaiting' /\ ~Unconsumed' /\ ~Posted' /\ TickOpen'
  BY <1>1, <1>3, <1>4, <1>5 DEF Awaiting, Unconsumed, Posted, TickOpen
<1>7. settled' = settled /\ global_tick' = global_tick + 1
  BY <1>1, <1>5 DEF Record, CollisionCloses, TickAdvance
<1>8. Count' /\ Quiet'
  BY <1>3, <1>4, <1>6, <1>7 DEF IInv, Count, Quiet
<1>9. /\ P0SeenByPacman' = P0SeenByPacman /\ P0SeenByEnemy' = P0SeenByEnemy
      /\ P0SeenByEnemy = "ready"
  BY <1>2, <1>3, <1>4, <1>6 DEF P0SeenByPacman, P0SeenByEnemy, G0!BeforeShutdown
<1>10. PacmanTurns' = PacmanTurns /\ EnemyTurns' = EnemyTurns /\ AnswersSeen' = AnswersSeen
  BY <1>3, <1>4, <1>6, <1>7 DEF PacmanTurns, EnemyTurns, AnswersSeen
<1>11. pacman_at \in G2!Open
  BY DEF IInv, G2!IInv, G2!TypeOK
<1> QED
  BY <1>3, <1>8, <1>9, <1>10, <1>11, PacmanUndisturbed, EnemyUndisturbed

\* The step at which the game is found to be over, with no turn out.
LEMMA GameEnds ==
  ASSUME IInv, G0!IInv', SamePhase, ~game_over, game_over', G0!BeforeShutdown,
         ~Awaiting, ~Unconsumed,
         UNCHANGED <<global_tick, pending_priority, request_active, sem_turn, sem_done, exited,
                     collision, dispatched, settled, pacman_at, p1_private, p2_private>>
  PROVE  PacmanView /\ EnemyView /\ Count' /\ Quiet'
<1> USE DEF SamePhase
<1>1. P0SeenByPacman = "ready" /\ P0SeenByEnemy = "ready"
  BY SeenInGame
<1>2. P0SeenByPacman' = "last_post" /\ P0SeenByEnemy' = "last_post"
  BY DEF P0SeenByPacman, P0SeenByEnemy, G0!BeforeShutdown
<1>3. /\ PacmanTurns' = PacmanTurns /\ EnemyTurns' = EnemyTurns
      /\ AnswersSeen' = AnswersSeen /\ TickSeen' = TickSeen
  BY DEF PacmanTurns, EnemyTurns, AnswersSeen, TickSeen
<1>4. G1!SetGameOver
  BY <1>1, <1>2, <1>3, ChildrenRest DEF G1!SetGameOver, G1!mailbox_vars, G1!p1_private
<1>5. G2!SetGameOver
  BY <1>1, <1>2, <1>3, ChildrenRest DEF G2!SetGameOver, G2!mailbox_vars, G2!p2_private
<1>6. Count' /\ Quiet'
  BY DEF IInv, Count, Quiet
<1> QED
  BY <1>4, <1>5, <1>6 DEF PacmanView, EnemyView, G1!Next, G1!P0, G2!Next, G2!P0

\* It is the last tick that is over ...
LEMMA TickEndsViews ==
  ASSUME IInv, G0!IInv', TickEnds, Record, UNCHANGED <<pacman_at, p1_private, p2_private>>
  PROVE  PacmanView /\ EnemyView /\ Count' /\ Quiet'
<1>1. pc \in [Thread -> G0!ThreadLabel] /\ Thread = {"tick", "scheduler", "signal", "collision"}
  BY SharedMemory DEF Thread, IInv
<1>2. G0!BeforeShutdown /\ flags \cap Carried = {} /\ \A u \in Thread : u # "tick" => ~Works(u)
  <2>1. Works("tick")
    BY DEF TickEnds, Running, Works
  <2> QED
    BY <1>1, <2>1, Alone DEF IInv
<1>3. /\ UNCHANGED <<global_tick, pending_priority, request_active, sem_turn, sem_done, exited,
                     collision, dispatched, flags, main_pc>>
      /\ game_over' /\ pc' = [pc EXCEPT !["tick"] = "stop"] /\ pc["tick"] = "top"
  BY DEF TickEnds, Running, Goto, priority_vars, semaphore_vars, thread_vars, local_vars, main_vars
<1>4. SamePhase /\ settled' = settled
  BY <1>1, <1>3
     DEF SamePhase, Awaiting, Unconsumed, Posted, TickOpen, Record, CollisionCloses
<1>5. ~Awaiting /\ ~Unconsumed
  BY <1>1, <1>2 DEF Awaiting, Unconsumed, Works, Carried
<1>6. CASE ~game_over
  BY <1>2, <1>3, <1>4, <1>5, <1>6, GameEnds
<1>7. CASE game_over
  <2>1. Silent
    BY <1>3, <1>4, <1>7, SharedMemory DEF Silent, IInv
  <2> QED
    BY <2>1, SilentViews
<1> QED
  BY <1>6, <1>7

\* ... or the last life.
LEMMA ChargeViews ==
  ASSUME IInv, G0!IInv', decrement_life_for_collision, Record,
         UNCHANGED <<pacman_at, p1_private, p2_private>>
  PROVE  PacmanView /\ EnemyView /\ Count' /\ Quiet'
<1>1. pc \in [Thread -> G0!ThreadLabel] /\ Thread = {"tick", "scheduler", "signal", "collision"}
  BY SharedMemory DEF Thread, IInv
<1>2. G0!BeforeShutdown /\ flags \cap Carried = {} /\ \A u \in Thread : u # "collision" => ~Works(u)
  <2>1. Works("collision")
    BY DEF decrement_life_for_collision, Running, Works
  <2> QED
    BY <1>1, <2>1, Alone DEF IInv
<1>3. /\ UNCHANGED <<global_tick, pending_priority, request_active, sem_turn, sem_done, exited,
                     collision, dispatched, flags, main_pc>>
      /\ pc' = [pc EXCEPT !["collision"] = "read_over"] /\ pc["collision"] = "charge"
      /\ game_over' \in BOOLEAN
  BY DEF decrement_life_for_collision, Running, Goto, priority_vars, semaphore_vars, thread_vars,
         local_vars, main_vars
<1>4. SamePhase /\ settled' = settled
  BY <1>1, <1>3
     DEF SamePhase, Awaiting, Unconsumed, Posted, TickOpen, Record, CollisionCloses
<1>5. ~Awaiting /\ ~Unconsumed
  BY <1>1, <1>2, <1>3 DEF Awaiting, Unconsumed, Works, Carried
<1>6. ~game_over
  BY <1>2, <1>3, AtEnd DEF IInv, NoError
<1>7. CASE game_over'
  BY <1>2, <1>3, <1>4, <1>5, <1>6, <1>7, GameEnds
<1>8. CASE ~game_over'
  <2>1. game_over' = game_over
    BY <1>3, <1>6, <1>8, SharedMemory DEF IInv
  <2>2. Silent
    BY <1>3, <1>4, <2>1 DEF Silent
  <2> QED
    BY <2>2, SilentViews
<1> QED
  BY <1>7, <1>8

\* The signal thread takes up the process that was selected.
LEMMA SignalAwaitsViews ==
  ASSUME IInv, G0!IInv', SignalAwaitsSelection, Record,
         UNCHANGED <<pacman_at, p1_private, p2_private>>
  PROVE  PacmanView /\ EnemyView /\ Count' /\ Quiet'
<1>1. pc \in [Thread -> G0!ThreadLabel] /\ Thread = {"tick", "scheduler", "signal", "collision"}
  BY SharedMemory DEF Thread, IInv
<1>2. /\ UNCHANGED <<global_tick, game_over, pending_priority, request_active, sem_turn, sem_done,
                     exited, collision, main_pc>>
      /\ pc["signal"] = "wait"
  BY DEF SignalAwaitsSelection, AwaitFlag, Running, clock_vars, priority_vars, semaphore_vars,
         main_vars
<1>3. CASE "selection_ready" \in flags /\ ~Stopping /\ pc' = [pc EXCEPT !["signal"] = "post"]
             /\ flags' = flags \ {"selection_ready"}
  <2>1. G0!BeforeShutdown
    BY <1>1, <1>2, AtEnd DEF IInv, NoError
  <2>2. ~game_over
    BY <1>3, <2>1, AtEnd DEF IInv, NoError, Carried
  <2>3. /\ \A u \in Thread : ~Works(u)
        /\ "tick_ready" \notin flags /\ "turn_done" \notin flags
    BY <1>3, Baton DEF Carried, IInv
  <2>4. ~Awaiting /\ ~Unconsumed /\ ~Posted /\ TickOpen
    BY <1>1, <1>3, <2>3 DEF Awaiting, Unconsumed, Posted, TickOpen, Works
  <2>5. ~Awaiting' /\ ~Unconsumed' /\ ~Posted' /\ TickOpen' /\ settled' = settled
    BY <1>1, <1>3, <2>3, <2>4
       DEF Awaiting, Unconsumed, Posted, TickOpen, Works, Record, CollisionCloses
  <2>6. /\ P0SeenByPacman' = P0SeenByPacman /\ P0SeenByEnemy' = P0SeenByEnemy
        /\ P0SeenByEnemy = "ready"
    BY <1>2, <2>1, <2>2, <2>4, <2>5 DEF P0SeenByPacman, P0SeenByEnemy, G0!BeforeShutdown
  <2>7. PacmanTurns' = PacmanTurns /\ EnemyTurns' = EnemyTurns /\ AnswersSeen' = AnswersSeen
    BY <1>2, <2>4, <2>5 DEF PacmanTurns, EnemyTurns, AnswersSeen
  <2>8. Count' /\ Quiet'
    BY <1>2, <2>4, <2>5 DEF IInv, Count, Quiet
  <2>9. pacman_at \in G2!Open
    BY DEF IInv, G2!IInv, G2!TypeOK
  <2> QED
    BY <1>2, <2>6, <2>7, <2>8, <2>9, PacmanUndisturbed, EnemyUndisturbed
<1>4. CASE flags' = flags /\ (pc' = pc \/ pc' = [pc EXCEPT !["signal"] = "done"])
  <2>1. pc'["signal"] # "post" /\ dispatched' = dispatched
    BY <1>1, <1>2, <1>4 DEF SignalAwaitsSelection
  <2>2. SamePhase /\ settled' = settled
    BY <1>1, <1>2, <1>4, <2>1
       DEF SamePhase, Awaiting, Unconsumed, Posted, TickOpen, Record, CollisionCloses
  <2>3. Silent
    BY <1>2, <2>1, <2>2 DEF Silent
  <2> QED
    BY <2>3, SilentViews
<1> QED
  BY <1>3, <1>4 DEF SignalAwaitsSelection, AwaitFlag, Goto

\* The turn is posted: to the one it is granted, to the other it is nothing.
LEMMA PostTurnViews ==
  ASSUME IInv, G0!IInv', PostTurn, Record, UNCHANGED <<pacman_at, p1_private, p2_private>>
  PROVE  PacmanView /\ EnemyView /\ Count' /\ Quiet'
<1>1. pc \in [Thread -> G0!ThreadLabel] /\ Thread = {"tick", "scheduler", "signal", "collision"}
  BY SharedMemory DEF Thread, IInv
<1>2. G0!BeforeShutdown /\ flags \cap Carried = {} /\ \A u \in Thread : u # "signal" => ~Works(u)
  <2>1. Works("signal")
    BY DEF PostTurn, Running, Works
  <2> QED
    BY <1>1, <2>1, Alone DEF IInv
<1>3. /\ UNCHANGED <<global_tick, game_over, pending_priority, request_active, sem_done,
                     exited, collision, dispatched, flags, main_pc>>
      /\ pc' = [pc EXCEPT !["signal"] = "await_done"] /\ pc["signal"] = "post"
      /\ sem_turn' = [sem_turn EXCEPT ![dispatched] = @ + 1]
      /\ request_active = {}
  BY NoRequest
     DEF IInv, PostTurn, Running, Goto, clock_vars, priority_vars, thread_vars, local_vars,
         main_vars
<1>4. ~game_over
  BY <1>2, <1>3, AtEnd DEF IInv, NoError, Works
<1>5. ~Awaiting /\ ~Unconsumed /\ ~Posted /\ TickOpen
  BY <1>1, <1>2, <1>3 DEF Awaiting, Unconsumed, Posted, TickOpen, Works, Carried
<1>6. Awaiting' /\ ~Unconsumed' /\ Posted' /\ TickOpen' /\ settled' = settled
  BY <1>1, <1>2, <1>3
     DEF Awaiting, Unconsumed, Posted, TickOpen, Works, Carried, Record, CollisionCloses
<1>7. Count' /\ Quiet'
  BY <1>3, <1>4, <1>5, <1>6 DEF IInv, Count, Quiet
<1>8. /\ P0SeenByPacman = "ready" /\ P0SeenByEnemy = "ready"
      /\ P0SeenByPacman' = IF dispatched = Pacman THEN "waiting" ELSE "ready"
      /\ P0SeenByEnemy' = IF dispatched = Enemy THEN "waiting" ELSE "ready"
  BY <1>2, <1>3, <1>4, <1>5, <1>6 DEF P0SeenByPacman, P0SeenByEnemy, G0!BeforeShutdown
<1>9. AnswersSeen = sem_done /\ AnswersSeen' = sem_done
  BY <1>3, <1>5, <1>6 DEF AnswersSeen
<1>10. /\ settled.tick \in Nat /\ settled.spent \in Nat /\ settled.spent <= settled.tick
       /\ global_tick = settled.tick + 1 /\ settled.tick < MaxTicks
  <2>1. global_tick \in 0..MaxTicks /\ MaxTicks \in Nat
    BY SharedMemory, Assumptions DEF IInv
  <2> QED
    BY <1>5, <2>1 DEF IInv, Count
<1>11. TickSeen = settled.tick /\ TickSeen' = settled.tick + 1
  BY <1>1, <1>3, <1>10 DEF TickSeen
<1>12. /\ PacmanTurns = settled.tick - settled.spent
       /\ PacmanTurns' = settled.tick - settled.spent + (IF dispatched = Pacman THEN 1 ELSE 0)
       /\ EnemyTurns = settled.spent
       /\ EnemyTurns' = settled.spent + (IF dispatched = Enemy THEN 1 ELSE 0)
  <2>1. /\ PacmanTurns = settled.tick - settled.spent + 0 /\ EnemyTurns = settled.spent + 0
        /\ PacmanTurns' = settled.tick - settled.spent + (IF dispatched = Pacman THEN 1 ELSE 0)
        /\ EnemyTurns' = settled.spent + (IF dispatched = Enemy THEN 1 ELSE 0)
    BY <1>3, <1>5, <1>6 DEF PacmanTurns, EnemyTurns
  <2> QED
    BY <1>10, <2>1
<1>13. sem_turn \in [Process -> Nat] /\ pacman_at \in G2!Open
  BY SharedMemory DEF IInv, G2!IInv, G2!TypeOK
<1>14. CASE dispatched = Pacman
  <2>1. PacmanTurns < MaxTicks /\ PacmanTurns' = PacmanTurns + 1 /\ EnemyTurns' = EnemyTurns
    <3>1. dispatched # Enemy
      BY <1>14, Names
    <3>2. /\ PacmanTurns = settled.tick - settled.spent
          /\ PacmanTurns' = settled.tick - settled.spent + 1
          /\ EnemyTurns = settled.spent /\ EnemyTurns' = settled.spent + 0
      BY <1>12, <1>14, <3>1
    <3>3. MaxTicks \in Nat
      BY Assumptions
    <3> QED
      BY <1>10, <3>2, <3>3
  <2>2. G1!GrantTurn
    BY <1>3, <1>8, <1>14, <2>1, Names, ChildrenRest DEF G1!GrantTurn, G1!p1_private
  <2>3. sem_turn'[Enemy] = sem_turn[Enemy] /\ P0SeenByEnemy' = P0SeenByEnemy
    BY <1>3, <1>8, <1>13, <1>14, Names
  <2>4. EnemyView
    BY <1>3, <1>7, <1>8, <1>9, <1>13, <2>1, <2>3, EnemyUndisturbed
  <2> QED
    BY <1>7, <2>2, <2>4 DEF PacmanView, G1!Next, G1!P0
<1>15. CASE dispatched = Enemy
  <2>1. EnemyTurns < MaxTicks /\ EnemyTurns' = EnemyTurns + 1 /\ PacmanTurns' = PacmanTurns
    <3>1. dispatched # Pacman
      BY <1>15, Names
    <3>2. /\ PacmanTurns = settled.tick - settled.spent
          /\ PacmanTurns' = settled.tick - settled.spent + 0
          /\ EnemyTurns = settled.spent /\ EnemyTurns' = settled.spent + 1
      BY <1>12, <1>15, <3>1
    <3>3. MaxTicks \in Nat
      BY Assumptions
    <3> QED
      BY <1>10, <3>2, <3>3
  <2>2. G2!GrantTurn
    <3>1. TickSeen' = TickSeen + 1 /\ pacman_at' \in G2!Open
      BY <1>11, <1>13
    <3> QED
      BY <1>3, <1>8, <1>9, <1>15, <2>1, <3>1, Names, ChildrenRest DEF G2!GrantTurn, G2!p2_private
  <2>3. sem_turn'[Pacman] = sem_turn[Pacman] /\ P0SeenByPacman' = P0SeenByPacman
    BY <1>3, <1>8, <1>13, <1>15, Names
  <2>4. PacmanView
    BY <1>3, <2>1, <2>3, PacmanUndisturbed
  <2> QED
    BY <1>7, <2>2, <2>4 DEF EnemyView, G2!Next, G2!P0
<1>16. dispatched \in {Pacman, Enemy}
  BY SharedMemory DEF IInv, Process
<1> QED
  BY <1>14, <1>15, <1>16

\* P1's answer is taken at once, P2's when the collision thread has been told.
LEMMA WaitDoneViews ==
  ASSUME IInv, G0!IInv', WaitDone, Record, UNCHANGED <<pacman_at, p1_private, p2_private>>
  PROVE  PacmanView /\ EnemyView /\ Count' /\ Quiet'
<1>1. pc \in [Thread -> G0!ThreadLabel] /\ Thread = {"tick", "scheduler", "signal", "collision"}
  BY SharedMemory DEF Thread, IInv
<1>2. G0!BeforeShutdown /\ flags \cap Carried = {} /\ \A u \in Thread : u # "signal" => ~Works(u)
  <2>1. Works("signal")
    BY DEF WaitDone, Running, Works
  <2> QED
    BY <1>1, <2>1, Alone DEF IInv
<1>3. /\ UNCHANGED <<global_tick, game_over, pending_priority, request_active, sem_turn,
                     exited, collision, dispatched, flags, main_pc>>
      /\ pc' = [pc EXCEPT !["signal"] = "complete"] /\ pc["signal"] = "await_done"
      /\ sem_done[dispatched] > 0
      /\ sem_done' = [sem_done EXCEPT ![dispatched] = @ - 1]
  BY DEF WaitDone, Running, Goto, clock_vars, priority_vars, thread_vars, local_vars, main_vars
<1>4. Awaiting /\ ~Unconsumed /\ Posted /\ TickOpen
  BY <1>1, <1>2, <1>3 DEF Awaiting, Unconsumed, Posted, TickOpen, Works, Carried
<1>5. ~Awaiting' /\ Unconsumed' /\ Posted' /\ TickOpen' /\ settled' = settled
  BY <1>1, <1>2, <1>3
     DEF Awaiting, Unconsumed, Posted, TickOpen, Works, Carried, Record, CollisionCloses
<1>6. ~game_over
  BY <1>4 DEF IInv, Quiet
<1>7. Count' /\ Quiet'
  BY <1>3, <1>4, <1>5, <1>6 DEF IInv, Count, Quiet
<1>8. /\ P0SeenByPacman = (IF dispatched = Pacman THEN "waiting" ELSE "ready")
      /\ P0SeenByPacman' = "ready"
      /\ P0SeenByEnemy' = P0SeenByEnemy
  BY <1>2, <1>3, <1>4, <1>5, <1>6 DEF P0SeenByPacman, P0SeenByEnemy, G0!BeforeShutdown
<1>9. PacmanTurns' = PacmanTurns /\ EnemyTurns' = EnemyTurns
  BY <1>3, <1>4, <1>5 DEF PacmanTurns, EnemyTurns
<1>10. TickSeen' = TickSeen
  BY <1>1, <1>3 DEF TickSeen
<1>11. sem_done \in [Process -> Nat] /\ sem_turn \in [Process -> Nat]
  BY SharedMemory DEF IInv
<1>12. /\ AnswersSeen = sem_done
       /\ AnswersSeen' = IF dispatched = Enemy THEN [sem_done' EXCEPT ![Enemy] = @ + 1] ELSE sem_done'
  BY <1>3, <1>4, <1>5 DEF AnswersSeen
<1>13. CASE dispatched = Pacman
  <2>1. G1!TakeAnswer
    BY <1>3, <1>8, <1>9, <1>13, Names, ChildrenRest
       DEF G1!TakeAnswer, G1!p1_private, G1!mailbox_vars
  <2>2. AnswersSeen'[Enemy] = AnswersSeen[Enemy]
    BY <1>3, <1>11, <1>12, <1>13, Names
  <2>3. EnemyView
    BY <1>3, <1>7, <1>8, <1>9, <1>10, <2>2, EnemyUndisturbed
  <2> QED
    BY <1>7, <2>1, <2>3 DEF PacmanView, G1!Next, G1!P0
<1>14. CASE dispatched = Enemy
  <2>1. sem_done'[Pacman] = sem_done[Pacman] /\ P0SeenByPacman' = P0SeenByPacman
    BY <1>3, <1>8, <1>11, <1>14, Names
  <2>2. PacmanView
    BY <1>3, <1>9, <2>1, PacmanUndisturbed
  <2>3. AnswersSeen'[Enemy] = AnswersSeen[Enemy]
    <3>1. sem_done[Enemy] \in Nat
      BY <1>11, Names
    <3>2. sem_done'[Enemy] = sem_done[Enemy] - 1 /\ sem_done' \in [Process -> Int]
      BY <1>3, <1>11, <1>14, Names
    <3>3. AnswersSeen'[Enemy] = sem_done'[Enemy] + 1
      BY <1>12, <1>14, <3>2, Names
    <3> QED
      BY <1>12, <3>1, <3>2, <3>3
  <2>4. EnemyView
    BY <1>3, <1>7, <1>8, <1>9, <1>10, <2>3, EnemyUndisturbed
  <2> QED
    BY <1>7, <2>2, <2>4
<1>15. dispatched \in {Pacman, Enemy}
  BY SharedMemory DEF IInv, Process
<1> QED
  BY <1>13, <1>14, <1>15

\* As long as the game goes on, P2 has not been told to stop.
LEMMA EnemySound ==
  ASSUME IInv, ~game_over
  PROVE  G2!Sound
BY DEF IInv, EnemyWhole, G2!IInv, G2!OverEnds, G2!StopLabel, G2!Sound

\* The event is consumed: P2 is done with its turn, and had published nothing in
\* one of P1's.
LEMMA ConsumeViews ==
  ASSUME IInv, G0!IInv', ConsumeCollision, Record, UNCHANGED <<pacman_at, p1_private, p2_private>>
  PROVE  PacmanView /\ EnemyView /\ Count' /\ Quiet'
<1>1. pc \in [Thread -> G0!ThreadLabel] /\ Thread = {"tick", "scheduler", "signal", "collision"}
  BY SharedMemory DEF Thread, IInv
<1>2. G0!BeforeShutdown /\ flags \cap Carried = {} /\ \A u \in Thread : u # "collision" => ~Works(u)
  <2>1. Works("collision")
    BY DEF ConsumeCollision, Running, Works
  <2> QED
    BY <1>1, <2>1, Alone DEF IInv
<1>3. /\ UNCHANGED <<global_tick, game_over, pending_priority, request_active, sem_turn, sem_done,
                     exited, dispatched, flags, main_pc>>
      /\ collision' = NoCollision /\ pc["collision"] = "consume"
      /\ \/ pc' = [pc EXCEPT !["collision"] = "charge"]
         \/ pc' = [pc EXCEPT !["collision"] = "read_over"]
  BY DEF ConsumeCollision, Running, Goto, clock_vars, priority_vars, semaphore_vars, local_vars,
         main_vars
<1>4. ~Awaiting /\ Unconsumed /\ Posted /\ TickOpen
  BY <1>1, <1>2, <1>3 DEF Awaiting, Unconsumed, Posted, TickOpen, Works, Carried
<1>5. ~Awaiting' /\ ~Unconsumed' /\ Posted' /\ TickOpen' /\ settled' = settled
  BY <1>1, <1>2, <1>3
     DEF Awaiting, Unconsumed, Posted, TickOpen, Works, Carried, Record, CollisionCloses
<1>6. ~game_over
  BY <1>4 DEF IInv, Quiet
<1>7. Count' /\ Quiet'
  BY <1>3, <1>4, <1>5, <1>6 DEF IInv, Count, Quiet
<1>8. /\ P0SeenByPacman' = P0SeenByPacman
      /\ P0SeenByEnemy = (IF dispatched = Enemy THEN "waiting" ELSE "ready")
      /\ P0SeenByEnemy' = "ready"
  BY <1>2, <1>3, <1>4, <1>5, <1>6 DEF P0SeenByPacman, P0SeenByEnemy, G0!BeforeShutdown
<1>9. PacmanTurns' = PacmanTurns /\ EnemyTurns' = EnemyTurns
  BY <1>3, <1>4, <1>5 DEF PacmanTurns, EnemyTurns
<1>10. TickSeen' = TickSeen
  BY <1>1, <1>3 DEF TickSeen
<1>11. sem_done \in [Process -> Nat]
  BY SharedMemory DEF IInv
<1>12. /\ AnswersSeen' = sem_done
       /\ AnswersSeen = IF dispatched = Enemy THEN [sem_done EXCEPT ![Enemy] = @ + 1] ELSE sem_done
  BY <1>3, <1>4, <1>5 DEF AnswersSeen
<1>13. PacmanView
  BY <1>3, <1>8, <1>9, PacmanUndisturbed
<1>14. CASE dispatched = Enemy
  <2>1. AnswersSeen[Enemy] > 0 /\ AnswersSeen' = [AnswersSeen EXCEPT ![Enemy] = @ - 1]
    <3>1. AnswersSeen = [sem_done EXCEPT ![Enemy] = sem_done[Enemy] + 1] /\ sem_done[Enemy] \in Nat
      BY <1>11, <1>12, <1>14, Names
    <3>2. AnswersSeen[Enemy] = sem_done[Enemy] + 1
      BY <1>11, <3>1, Names
    <3>3. [AnswersSeen EXCEPT ![Enemy] = @ - 1] = [sem_done EXCEPT ![Enemy] = sem_done[Enemy]]
      BY <1>11, <3>1, <3>2, Names
    <3> QED
      BY <1>11, <1>12, <3>1, <3>2, <3>3
  <2>2. G2!TakeAnswer
    BY <1>3, <1>8, <1>9, <1>10, <1>14, <2>1, Names, ChildrenRest
       DEF G2!TakeAnswer, G2!p2_private, G2!p0_owned, G2!mailbox_vars
  <2> QED
    BY <1>7, <1>13, <2>2 DEF EnemyView, G2!Next, G2!P0
<1>15. CASE dispatched # Enemy
  <2>1. collision = NoCollision
    <3>1. P0SeenByEnemy = "ready"
      BY <1>8, <1>15
    <3>2. G2!Sound /\ G2!IInv
      BY <1>6, EnemySound DEF IInv
    <3> QED
      BY <3>1, <3>2, G2!Resting, Assumptions, Names
  <2>2. EnemyView
    BY <1>3, <1>7, <1>8, <1>9, <1>10, <1>12, <1>15, <2>1, EnemyUndisturbed
  <2> QED
    BY <1>7, <1>13, <2>2
<1> QED
  BY <1>14, <1>15

\* The tick is closed, and put down in the history.
LEMMA ReportViews ==
  ASSUME IInv, G0!IInv', CollisionReports, Record, UNCHANGED <<pacman_at, p1_private, p2_private>>
  PROVE  PacmanView /\ EnemyView /\ Count' /\ Quiet'
<1>1. pc \in [Thread -> G0!ThreadLabel] /\ Thread = {"tick", "scheduler", "signal", "collision"}
  BY SharedMemory DEF Thread, IInv
<1>2. G0!BeforeShutdown /\ flags \cap Carried = {} /\ \A u \in Thread : u # "collision" => ~Works(u)
  <2>1. Works("collision")
    BY DEF CollisionReports, Running, Works
  <2> QED
    BY <1>1, <2>1, Alone DEF IInv
<1>3. /\ UNCHANGED <<global_tick, game_over, pending_priority, request_active, sem_turn, sem_done,
                     exited, collision, dispatched, main_pc>>
      /\ pc["collision"] = "report" /\ pc' = [pc EXCEPT !["collision"] = "wait"]
      /\ flags' \subseteq flags \cup {"collision_done", "shutdown_requested"}
  BY DEF CollisionReports, Running, Goto, clock_vars, priority_vars, semaphore_vars, local_vars,
         main_vars
<1>4. ~Awaiting /\ ~Unconsumed /\ Posted /\ TickOpen
  BY <1>1, <1>2, <1>3 DEF Awaiting, Unconsumed, Posted, TickOpen, Works, Carried
<1>5. ~Awaiting' /\ ~Unconsumed' /\ ~Posted' /\ ~TickOpen'
  BY <1>1, <1>2, <1>3 DEF Awaiting, Unconsumed, Posted, TickOpen, Works, Carried
<1>6. /\ settled'.tick = global_tick
      /\ settled'.spent = settled.spent + (IF dispatched = Enemy THEN 1 ELSE 0)
  <2>1. settled' = Snapshot
    BY <1>1, <1>3 DEF Record, CollisionCloses
  <2> QED
    BY <2>1 DEF Snapshot
<1>7. /\ settled.tick \in Nat /\ settled.spent \in Nat /\ settled.spent <= settled.tick
      /\ global_tick = settled.tick + 1
  BY <1>4 DEF IInv, Count
<1>8. /\ Count'
      /\ PacmanTurns' = PacmanTurns /\ EnemyTurns' = EnemyTurns
  <2>1. dispatched \in {Pacman, Enemy} /\ Pacman # Enemy
    BY SharedMemory, Names DEF IInv
  <2>2. /\ PacmanTurns = settled.tick - settled.spent + (IF dispatched = Pacman THEN 1 ELSE 0)
        /\ EnemyTurns = settled.spent + (IF dispatched = Enemy THEN 1 ELSE 0)
        /\ PacmanTurns' = settled'.tick - settled'.spent + 0
        /\ EnemyTurns' = settled'.spent + 0
    BY <1>4, <1>5 DEF PacmanTurns, EnemyTurns
  <2>3. global_tick' = settled'.tick
    BY <1>3, <1>6
  <2>4. CASE dispatched = Pacman
    <3>1. /\ PacmanTurns = settled.tick - settled.spent + 1 /\ EnemyTurns = settled.spent + 0
          /\ settled'.spent = settled.spent + 0
      BY <1>6, <2>1, <2>2, <2>4
    <3>2. PacmanTurns' = PacmanTurns /\ EnemyTurns' = EnemyTurns
      BY <1>6, <1>7, <2>2, <3>1
    <3>3. /\ settled'.tick \in Nat /\ settled'.spent \in Nat /\ settled'.spent <= settled'.tick
          /\ global_tick' = settled'.tick + 0
      BY <1>6, <1>7, <2>3, <3>1
    <3> QED
      BY <1>5, <3>2, <3>3 DEF Count
  <2>5. CASE dispatched = Enemy
    <3>1. /\ PacmanTurns = settled.tick - settled.spent + 0 /\ EnemyTurns = settled.spent + 1
          /\ settled'.spent = settled.spent + 1
      BY <1>6, <2>1, <2>2, <2>5
    <3>2. PacmanTurns' = PacmanTurns /\ EnemyTurns' = EnemyTurns
      BY <1>6, <1>7, <2>2, <3>1
    <3>3. /\ settled'.tick \in Nat /\ settled'.spent \in Nat /\ settled'.spent <= settled'.tick
          /\ global_tick' = settled'.tick + 0
      BY <1>6, <1>7, <2>3, <3>1
    <3> QED
      BY <1>5, <3>2, <3>3 DEF Count
  <2> QED
    BY <2>1, <2>4, <2>5
<1>9. Quiet'
  BY <1>5 DEF Quiet
<1>10. /\ P0SeenByPacman' = P0SeenByPacman /\ P0SeenByEnemy' = P0SeenByEnemy
       /\ AnswersSeen' = AnswersSeen
  BY <1>3, <1>4, <1>5 DEF P0SeenByPacman, P0SeenByEnemy, AnswersSeen
<1>11. TickSeen' = TickSeen
  BY <1>1, <1>3 DEF TickSeen
<1> QED
  BY <1>3, <1>8, <1>9, <1>10, <1>11, PacmanUndisturbed, EnemyUndisturbed

\* The posts of the shutdown are one to each child.
LEMMA ShutdownViews ==
  ASSUME IInv, G0!IInv', PostPacmanShutdown \/ PostEnemyShutdown, Record,
         UNCHANGED <<pacman_at, p1_private, p2_private>>
  PROVE  PacmanView /\ EnemyView /\ Count' /\ Quiet'
<1>1. /\ UNCHANGED <<global_tick, game_over, collision, pending_priority, request_active, sem_done,
                     exited, dispatched, flags, pc>>
      /\ main_pc \in {"post_pacman", "post_enemy"}
  BY DEF PostPacmanShutdown, PostEnemyShutdown, clock_vars, priority_vars, thread_vars, local_vars
<1>2. game_over
  BY <1>1, AtEnd DEF IInv, NoError, G0!BeforeShutdown
<1>3. /\ Awaiting' = Awaiting /\ Unconsumed' = Unconsumed /\ Posted' = Posted
      /\ TickOpen' = TickOpen /\ settled' = settled
  BY <1>1 DEF Awaiting, Unconsumed, Posted, TickOpen, Record, CollisionCloses
<1>4. /\ PacmanTurns' = PacmanTurns /\ EnemyTurns' = EnemyTurns
      /\ AnswersSeen' = AnswersSeen /\ TickSeen' = TickSeen
  BY <1>1, <1>3 DEF PacmanTurns, EnemyTurns, AnswersSeen, TickSeen
<1>5. Count' /\ Quiet'
  BY <1>1, <1>3 DEF IInv, Count, Quiet
<1>6. sem_turn \in [Process -> Nat]
  BY SharedMemory DEF IInv
<1>7. CASE PostPacmanShutdown
  <2>1. /\ main_pc = "post_pacman" /\ main_pc' = "post_enemy"
        /\ sem_turn' = [sem_turn EXCEPT ![Pacman] = @ + 1]
    BY <1>7 DEF PostPacmanShutdown
  <2>2. /\ P0SeenByPacman = "last_post" /\ P0SeenByPacman' = "wait_child"
        /\ P0SeenByEnemy' = P0SeenByEnemy
    BY <1>1, <1>2, <2>1 DEF P0SeenByPacman, P0SeenByEnemy
  <2>3. G1!PostShutdown
    BY <1>1, <1>4, <2>1, <2>2, Names, ChildrenRest
       DEF G1!PostShutdown, G1!p1_private, G1!mailbox_vars
  <2>4. sem_turn'[Enemy] = sem_turn[Enemy]
    BY <1>6, <2>1, Names
  <2>5. EnemyView
    BY <1>1, <1>4, <1>5, <2>2, <2>4, EnemyUndisturbed
  <2> QED
    BY <1>5, <2>3, <2>5 DEF PacmanView, G1!Next, G1!P0
<1>8. CASE PostEnemyShutdown
  <2>1. /\ main_pc = "post_enemy" /\ main_pc' = "wait_children"
        /\ sem_turn' = [sem_turn EXCEPT ![Enemy] = @ + 1]
    BY <1>8 DEF PostEnemyShutdown, IInv, NoError
  <2>2. /\ P0SeenByEnemy = "last_post" /\ P0SeenByEnemy' = "wait_child"
        /\ P0SeenByPacman' = P0SeenByPacman
    BY <1>1, <1>2, <2>1 DEF P0SeenByPacman, P0SeenByEnemy
  <2>3. G2!PostShutdown
    BY <1>1, <1>4, <2>1, <2>2, Names, ChildrenRest
       DEF G2!PostShutdown, G2!p2_private, G2!p0_owned, G2!mailbox_vars
  <2>4. sem_turn'[Pacman] = sem_turn[Pacman]
    BY <1>6, <2>1, Names
  <2>5. PacmanView
    BY <1>1, <1>4, <2>2, <2>4, PacmanUndisturbed
  <2> QED
    BY <1>5, <2>3, <2>5 DEF EnemyView, G2!Next, G2!P0
<1> QED
  BY <1>7, <1>8

-----------------------------------------------------------------------------
(* A step of P0 keeps the invariant. *)

\* No call fails in the actions of the threads themselves.
LEMMA NoErrorStep ==
  ASSUME NoError, P0Threads
  PROVE  NoError'
<1> USE DEF NoError
<1>1. CASE TickThread
  BY <1>1
     DEF TickThread, TickAdvance, TickEnds, TickStops, TickOpens, TickCloses, AwaitFlag, main_vars
<1>2. CASE SchedulerThread
  BY <1>2
     DEF SchedulerThread, SchedulerAwaitsTick, scheduler_apply_priority_requests,
         scheduler_select_next_process, SchedulerPublishes, AwaitFlag, main_vars
<1>3. CASE SignalThread
  BY <1>3
     DEF SignalThread, SignalAwaitsSelection, PostTurn, WaitDone, SignalCompletes, AwaitFlag,
         main_vars
<1>4. CASE CollisionThread
  BY <1>4
     DEF CollisionThread, CollisionAwaitsTurn, ConsumeCollision, decrement_life_for_collision,
         read_game_over, CollisionReports, AwaitFlag, main_vars
<1>5. CASE MainThread
  BY <1>5
     DEF MainThread, runtime_init, CreateThread, CancelThreads, JoinThreads, set_game_over,
         PostPacmanShutdown, PostEnemyShutdown, WaitChildren, thread_vars
<1> QED
  BY <1>1, <1>2, <1>3, <1>4, <1>5 DEF P0Threads

\* P0 moves neither child to another stage: the event it consumes is of a turn
\* that P2 has answered.
LEMMA StagesRest ==
  ASSUME IInv, P0Threads, UNCHANGED <<p1_private, p2_private>>
  PROVE  PacmanStage' = PacmanStage /\ EnemyStage' = EnemyStage /\ exited' = exited
<1>1. exited' = exited /\ (~ConsumeCollision => collision' = collision)
  <2>1. CASE TickThread
    BY <2>1
       DEF TickThread, TickAdvance, TickEnds, TickStops, TickOpens, TickCloses, AwaitFlag
  <2>2. CASE SchedulerThread
    BY <2>2
       DEF SchedulerThread, SchedulerAwaitsTick, scheduler_apply_priority_requests,
           scheduler_select_next_process, SchedulerPublishes, AwaitFlag
  <2>3. CASE SignalThread
    BY <2>3
       DEF SignalThread, SignalAwaitsSelection, PostTurn, WaitDone, SignalCompletes, AwaitFlag
  <2>4. CASE CollisionThread
    BY <2>4
       DEF CollisionThread, CollisionAwaitsTurn, ConsumeCollision, decrement_life_for_collision,
           read_game_over, CollisionReports, AwaitFlag
  <2>5. CASE MainThread
    BY <2>5
       DEF MainThread, runtime_init, CreateThread, CancelThreads, JoinThreads, set_game_over,
           PostPacmanShutdown, PostEnemyShutdown, WaitChildren
  <2> QED
    BY <2>1, <2>2, <2>3, <2>4, <2>5 DEF P0Threads
<1>2. PacmanStage' = PacmanStage
  BY <1>1 DEF PacmanStage, Publishing, p1_private
<1>3. CASE ConsumeCollision
  <2>1. EnemyStage \notin {"woken", "playing", "reported"}
    BY <1>3, EnemyRests DEF IInv, ConsumeCollision, Running
  <2> QED
    BY <1>1, <1>2, <2>1 DEF EnemyStage, p2_private
<1>4. CASE ~ConsumeCollision
  BY <1>1, <1>2, <1>4 DEF EnemyStage, p2_private
<1> QED
  BY <1>1, <1>2, <1>3, <1>4

\* The views of the children, for every step of P0.
LEMMA SchedulerViews ==
  ASSUME IInv, G0!IInv', P0Step(P0Threads)
  PROVE  PacmanView /\ EnemyView /\ Count' /\ Quiet'
<1>1. P0Threads /\ Record /\ UNCHANGED <<pacman_at, p1_private, p2_private>>
  BY DEF P0Step
<1>2. NoError /\ G0!IInv
  BY DEF IInv
<1>3. CASE TickThread
  BY <1>1, <1>2, <1>3, TickAdvanceViews, TickEndsViews, SilentThreads, SilentViews DEF TickThread
<1>4. CASE SchedulerThread
  BY <1>1, <1>2, <1>4, SilentThreads, SilentViews DEF SchedulerThread
<1>5. CASE SignalThread
  BY <1>1, <1>2, <1>5, SignalAwaitsViews, PostTurnViews, WaitDoneViews, SilentThreads, SilentViews
     DEF SignalThread
<1>6. CASE CollisionThread
  BY <1>1, <1>2, <1>6, ConsumeViews, ChargeViews, ReportViews, SilentThreads, SilentViews
     DEF CollisionThread
<1>7. CASE MainThread
  BY <1>1, <1>2, <1>7, ShutdownViews, SilentMain, SilentViews DEF MainThread
<1> QED
  BY <1>1, <1>3, <1>4, <1>5, <1>6, <1>7 DEF P0Threads

\* P1 has had all its threads created, or has them still to create.
LEMMA PacmanIsWhole ==
  ASSUME IInv
  PROVE  G1!Whole
BY DEF IInv, PacmanWhole, G1!IInv, G1!Labels, G1!Whole

\* The views keep their invariants.
LEMMA ViewsKeep ==
  ASSUME IInv, PacmanView, EnemyView
  PROVE  G1!IInv' /\ G2!IInv'
<1>1. G1!IInv'
  <2>1. G1!IInv
    BY DEF IInv
  <2>2. CASE [G1!Next]_(G1!game_vars)
    BY <2>1, <2>2, G1!InvStep, Assumptions
  <2>3. CASE G1!OthersMove
    BY <2>1, <2>3, G1!OthersKeep, Assumptions
  <2> QED
    BY <2>2, <2>3 DEF PacmanView
<1>2. G2!IInv'
  <2>1. G2!IInv
    BY DEF IInv
  <2>2. CASE [G2!Next]_(G2!game_vars)
    BY <2>1, <2>2, G2!InvStep, Assumptions
  <2>3. CASE G2!OthersMove
    BY <2>1, <2>3, G2!OthersKeep, Assumptions
  <2> QED
    BY <2>2, <2>3 DEF EnemyView
<1> QED
  BY <1>1, <1>2

\* The game ends while no turn is out.
LEMMA EndsAtRest ==
  ASSUME IInv, P0Threads, ~game_over, game_over'
  PROVE  P0SeenByPacman = "ready"
<1>1. Thread = {"tick", "scheduler", "signal", "collision"}
  BY DEF Thread
<1>2. TickEnds \/ decrement_life_for_collision \/ set_game_over
  BY DEF P0Threads, TickThread, TickAdvance, TickStops, TickOpens, TickCloses, AwaitFlag,
         SchedulerThread, SchedulerAwaitsTick, scheduler_apply_priority_requests,
         scheduler_select_next_process, SchedulerPublishes, SignalThread, SignalAwaitsSelection,
         PostTurn, WaitDone, SignalCompletes, CollisionThread, CollisionAwaitsTurn,
         ConsumeCollision, read_game_over, CollisionReports, MainThread, runtime_init,
         CreateThread, CancelThreads, JoinThreads, PostPacmanShutdown, PostEnemyShutdown,
         WaitChildren, clock_vars
<1>3. CASE TickEnds
  <2>1. Works("tick")
    BY <1>3 DEF TickEnds, Running, Works
  <2>2. G0!BeforeShutdown /\ ~Works("signal")
    BY <1>1, <2>1, Alone DEF IInv
  <2> QED
    BY <2>2, SeenInGame DEF Awaiting, Works
<1>4. CASE decrement_life_for_collision
  <2>1. Works("collision")
    BY <1>4 DEF decrement_life_for_collision, Running, Works
  <2>2. G0!BeforeShutdown /\ ~Works("signal")
    BY <1>1, <2>1, Alone DEF IInv
  <2> QED
    BY <2>2, SeenInGame DEF Awaiting, Works
<1>5. CASE set_game_over
  BY <1>5, AtEnd DEF set_game_over, IInv, NoError, G0!BeforeShutdown
<1> QED
  BY <1>2, <1>3, <1>4, <1>5

\* Every step of P0 keeps the invariant.
LEMMA SchedulerStep ==
  ASSUME IInv, P0Step(P0Threads)
  PROVE  IInv' /\ G0!Next
<1>1. P0Threads /\ Record /\ UNCHANGED <<pacman_at, p1_private, p2_private>>
  BY DEF P0Step
<1>2. /\ PacmanStage' = PacmanStage /\ EnemyStage' = EnemyStage /\ exited' = exited
  BY <1>1, StagesRest
<1>3. G0!Next
  BY <1>1, <1>2, SchedulerSteps DEF G0!Next
<1>4. G0!IInv'
  BY <1>3, G0!InvStep, Assumptions DEF IInv
<1>5. PacmanView /\ EnemyView /\ Count' /\ Quiet'
  BY <1>4, SchedulerViews
<1>6. G1!IInv' /\ G2!IInv'
  BY <1>5, ViewsKeep
<1>7. NoError'
  BY <1>1, NoErrorStep DEF IInv
<1>8. PacmanWhole'
  <2>1. UNCHANGED <<p1_main_pc, p1_pc, exited>> /\ PacmanWhole
    BY <1>1, <1>2 DEF p1_private, IInv
  <2>2. ASSUME game_over'
        PROVE  /\ p1_pc["executor"] \notin G1!Playing \cup {"publish"}
               /\ p1_pc["publisher"] \notin {"copy", "store", "answer"}
    <3>1. CASE game_over
      BY <2>1, <3>1 DEF PacmanWhole
    <3>2. CASE ~game_over
      <4>1. P0SeenByPacman = "ready"
        BY <1>1, <2>2, <3>2, EndsAtRest
      <4>2. G1!IInv /\ G1!Whole
        BY PacmanIsWhole DEF IInv
      <4> QED
        BY <3>2, <4>1, <4>2, G1!TurnIsOne, Assumptions DEF G1!Publishing
    <3> QED
      BY <3>1, <3>2
  <2> QED
    BY <2>1, <2>2 DEF PacmanWhole
<1>9. EnemyWhole'
  <2>1. UNCHANGED <<p2_pc, ghost_pc, p2_should_stop, exited>> /\ EnemyWhole
    BY <1>1, <1>2 DEF p2_private, IInv
  <2> QED
    BY <2>1 DEF EnemyWhole, G2!Whole
<1> QED
  BY <1>3, <1>4, <1>5, <1>6, <1>7, <1>8, <1>9 DEF IInv

-----------------------------------------------------------------------------
(* A step of P1 keeps the invariant. *)

\* What P1 leaves alone.
LEMMA PacmanFrame ==
  ASSUME P1!PacmanNext, ~PacmanMayFail, sem_turn \in [Process -> Nat],
         sem_done \in [Process -> Nat]
  PROVE  /\ game_over' = game_over
         /\ sem_turn'[Enemy] = sem_turn[Enemy] /\ sem_done'[Enemy] = sem_done[Enemy]
         /\ (exited \cap {Enemy})' = exited \cap {Enemy}
         /\ Enemy \in exited' <=> Enemy \in exited
         /\ p1_pc["publisher"] # "store" => pacman_at' = pacman_at
<1> USE Names DEF P1!mailbox_vars, P1!queue_vars, P1!reader_vars, P1!turn_vars, P1!out_vars,
            P1!At, P1!Goto
<1>1. CASE P1!Reader
  BY <1>1
     DEF P1!Reader, P1!ReaderOpens, P1!ReadLine, P1!queue_push, P1!ReaderPosts,
         P1!queue_mark_reader_done
<1>2. CASE P1!Executor
  BY <1>2
     DEF P1!Executor, P1!ExecutorAwaitsTurn, P1!ExecutorReadsGameOver, P1!TryAvailable,
         P1!CheckReaderDone, P1!AwaitAvailable, P1!queue_pop_locked, P1!process_instruction,
         P1!ExecutorRequestsPublication, P1!ExecutorRequestsStop, P1!ExecutorPostsStop
<1>3. CASE P1!Publisher
  BY <1>3
     DEF P1!Publisher, P1!PublisherAwaitsRequest, P1!PublisherReadsGameOver,
         P1!PublisherCopies, P1!PublisherStores, P1!PublisherAnswers
<1>4. CASE P1!Main
  BY <1>4
     DEF P1!Main, P1!CreateThread, P1!Creates, P1!MainRequestsStop, P1!MainPostsAvailable,
         P1!MainPostsTurn, P1!MainPostsPublish, P1!JoinThreads
<1> QED
  BY <1>1, <1>2, <1>3, <1>4 DEF P1!PacmanNext, P1!ContextInitFails, P1!CreateFails

\* What P0 sees of a step of a child that it does not notice.
LEMMA Unseen ==
  ASSUME UNCHANGED <<p0_private, global_tick, collision, game_over, exited, pending_priority,
                     request_active, sem_turn, sem_done, PacmanStage, EnemyStage>>
  PROVE  UNCHANGED G0!game_vars
BY DEF p0_private, G0!game_vars, G0!vars, G0!clock_vars, G0!priority_vars, G0!semaphore_vars,
       memory_vars, thread_vars, local_vars, main_vars, G0!memory_vars, G0!thread_vars,
       G0!local_vars, G0!main_vars

\* The labels of the threads of P1.
LEMMA PacmanLabels ==
  ASSUME G1!IInv
  PROVE  /\ P1!Thread = {"reader", "executor", "publisher"}
         /\ p1_pc = [t \in P1!Thread |-> p1_pc[t]]
         /\ p1_pc["executor"] \in {"unborn", "turn", "read_over", "try", "check", "await", "pop",
              "process", "publish", "stop", "stop_post", "stop_publish", "done"}
         /\ p1_pc["publisher"] \in {"unborn", "wait", "read_over", "copy", "store", "answer",
              "done"}
         /\ publish_requested \in Nat
<1>1. p1_pc = [t \in P1!Thread |-> p1_pc[t]]
  BY Names DEF G1!IInv, G1!Labels
<1>2. \A t \in G1!Thread : p1_pc[t] \in G1!ThreadLabel[t]
  BY DEF G1!IInv, G1!TypeOK
<1>3. P1!Thread = {"reader", "executor", "publisher"} /\ publish_requested \in Nat
  BY DEF P1!Thread, G1!IInv, G1!TypeOK
<1>4. /\ p1_pc["executor"] \in G1!ThreadLabel["executor"]
      /\ p1_pc["publisher"] \in G1!ThreadLabel["publisher"]
  BY <1>2, <1>3, Names
<1> QED
  BY <1>1, <1>3, <1>4 DEF G1!ThreadLabel

\* P1 as P0 sees it, one label after the other.
LEMMA PacmanStages ==
  ASSUME G1!IInv, Pacman \notin exited
  PROVE  /\ p1_pc["executor"] \in G1!Playing \cup {"publish"} => PacmanStage = "playing"
         /\ p1_pc["executor"] \in {"unborn", "turn"} /\ Publishing => PacmanStage = "playing"
         /\ p1_pc["executor"] \in {"unborn", "turn"} /\ ~Publishing => PacmanStage = "idle"
         /\ p1_pc["executor"] \in {"read_over", "stop", "stop_post", "stop_publish", "done"} =>
              PacmanStage = "woken"
         /\ Publishing <=> \/ publish_requested > 0
                           \/ p1_pc["publisher"] \in G1!Publishing
<1>1. Publishing <=> publish_requested > 0 \/ p1_pc["publisher"] \in G1!Publishing
  BY PacmanLabels DEF Publishing, G1!Publishing
<1> QED
  BY <1>1 DEF PacmanStage, G1!Playing

\* The executor takes its turn when nothing is left of the last one.
LEMMA ExecutorIsIdle ==
  ASSUME IInv, p1_pc["executor"] = "turn", sem_turn[Pacman] > 0
  PROVE  Pacman \notin exited /\ PacmanStage = "idle"
<1>1. Pacman \notin exited /\ G1!IInv /\ G1!Whole
  BY PacmanLabels, PacmanIsWhole DEF IInv, PacmanWhole
<1>2. CASE game_over
  BY <1>1, <1>2, PacmanStages, NoInterruption DEF IInv
<1>3. CASE ~game_over
  <2>1. publish_requested = 0 /\ p1_pc["publisher"] \notin G1!Publishing
    BY <1>1, <1>3, G1!TurnIsOne, Assumptions, Names
  <2> QED
    BY <1>1, <2>1, PacmanStages
<1> QED
  BY <1>1, <1>2, <1>3

\* The publisher answers when the executor waits for its next turn.
LEMMA PublisherIsLast ==
  ASSUME IInv, p1_pc["publisher"] \in {"copy", "store", "answer"}
  PROVE  /\ ~game_over /\ Pacman \notin exited /\ publish_requested = 0
         /\ p1_pc["executor"] \in {"unborn", "turn"} /\ sem_done[Pacman] = 0
         /\ PacmanStage = "playing" /\ P0SeenByPacman = "waiting"
<1>1. Pacman \notin exited /\ ~game_over /\ G1!IInv /\ G1!Whole
  BY PacmanLabels, PacmanIsWhole DEF IInv, PacmanWhole
<1>2. p1_pc["publisher"] \in G1!Publishing
  BY DEF G1!Publishing
<1>3. /\ P0SeenByPacman # "ready" /\ publish_requested = 0 /\ sem_done[Pacman] = 0
      /\ p1_pc["executor"] \notin G1!Playing \cup {"read_over", "publish"}
  BY <1>1, <1>2, G1!TurnIsOne, Assumptions, Names
<1>4. p1_pc["executor"] \in {"unborn", "turn"}
  BY <1>1, <1>3, PacmanLabels DEF G1!IInv, G1!OverEnds, G1!Playing
<1>5. P0SeenByPacman = "waiting"
  BY <1>1, <1>3 DEF G1!IInv, G1!OverEnds
<1> QED
  BY <1>1, <1>2, <1>3, <1>4, <1>5, PacmanStages

\* The children's stages, as P0's specification changes them.
LEMMA StageTurns ==
  /\ \A stage : PacmanStage' = stage /\ EnemyStage' = EnemyStage => G0!Turn(Pacman, stage)
  /\ \A stage : EnemyStage' = stage /\ PacmanStage' = PacmanStage => G0!Turn(Enemy, stage)
BY Names DEF G0!Turn

\* P0 sees nothing of the reader.
LEMMA ReaderUnseen ==
  ASSUME IInv, P1Step(P1!Reader)
  PROVE  UNCHANGED G0!game_vars
<1>1. /\ UNCHANGED <<p0_private, p2_private, global_tick, collision, game_over, exited,
                     pending_priority, request_active, sem_turn, sem_done, publish_requested>>
      /\ p1_pc'["executor"] = p1_pc["executor"] /\ p1_pc'["publisher"] = p1_pc["publisher"]
  <2>1. P1!Thread = {"reader", "executor", "publisher"} /\ p1_pc = [t \in P1!Thread |-> p1_pc[t]]
    BY PacmanLabels DEF IInv
  <2> QED
    BY <2>1
       DEF P1Step, P1!Reader, P1!ReaderOpens, P1!ReadLine, P1!queue_push, P1!ReaderPosts,
           P1!queue_mark_reader_done, P1!mailbox_vars, P1!queue_vars, P1!At, P1!Goto
<1>2. PacmanStage' = PacmanStage
  BY <1>1 DEF PacmanStage, Publishing
<1>3. EnemyStage' = EnemyStage
  BY <1>1 DEF EnemyStage, p2_private
<1> QED
  BY <1>1, <1>2, <1>3, Unseen

\* The turn P1 takes, the request it makes, and nothing else.
LEMMA ExecutorSeen ==
  ASSUME IInv, P1Step(P1!Executor)
  PROVE  [G0!Next]_(G0!game_vars)
<1>1. /\ P1!Thread = {"reader", "executor", "publisher"} /\ p1_pc = [t \in P1!Thread |-> p1_pc[t]]
      /\ G1!IInv /\ publish_requested \in Nat
      /\ sem_turn \in [Process -> Nat]
  BY PacmanLabels, SharedMemory DEF IInv
<1>2. Pacman \notin exited
  <2>1. p1_pc["executor"] # "done"
    BY DEF P1Step, P1!Executor, P1!ExecutorAwaitsTurn, P1!ExecutorReadsGameOver, P1!TryAvailable,
           P1!CheckReaderDone, P1!AwaitAvailable, P1!queue_pop_locked, P1!process_instruction,
           P1!ExecutorRequestsPublication, P1!ExecutorRequestsStop, P1!ExecutorPostsStop, P1!At
  <2> QED
    BY <1>1, <2>1 DEF IInv, PacmanWhole
<1>3. UNCHANGED <<p0_private, p2_private, global_tick, collision, game_over, exited, sem_done>>
  BY DEF P1Step, P1!Executor, P1!ExecutorAwaitsTurn, P1!ExecutorReadsGameOver, P1!TryAvailable,
         P1!CheckReaderDone, P1!AwaitAvailable, P1!queue_pop_locked, P1!process_instruction,
         P1!ExecutorRequestsPublication, P1!ExecutorRequestsStop, P1!ExecutorPostsStop
<1>4. EnemyStage' = EnemyStage
  BY <1>3 DEF EnemyStage, p2_private
<1>5. CASE P1!ExecutorAwaitsTurn
  <2>1. /\ p1_pc["executor"] = "turn" /\ sem_turn[Pacman] > 0
        /\ sem_turn' = [sem_turn EXCEPT ![Pacman] = @ - 1]
        /\ p1_pc'["executor"] = "read_over"
        /\ UNCHANGED <<pending_priority, request_active>>
    BY <1>1, <1>5, Names DEF P1!ExecutorAwaitsTurn, P1!At, P1!Goto, P1!mailbox_vars
  <2>2. PacmanStage = "idle"
    BY <2>1, ExecutorIsIdle
  <2>3. PacmanStage' = "woken"
    BY <1>2, <1>3, <2>1 DEF PacmanStage
  <2>4. G0!ChildWakes(Pacman)
    BY <1>3, <1>4, <2>1, <2>2, <2>3, StageTurns, Stages
       DEF G0!ChildWakes, p0_private, G0!clock_vars, G0!priority_vars, memory_vars, thread_vars,
           local_vars, main_vars, G0!memory_vars, G0!thread_vars, G0!local_vars, G0!main_vars
  <2> QED
    BY <2>4, Stages DEF G0!Next, G0!Children, G0!Child
<1>6. CASE P1!ExecutorReadsGameOver
  <2>1. /\ p1_pc["executor"] = "read_over"
        /\ p1_pc'["executor"] = IF game_over THEN "stop" ELSE "try"
        /\ UNCHANGED <<pending_priority, request_active, sem_turn>>
    BY <1>1, <1>6 DEF P1!ExecutorReadsGameOver, P1!At, P1!Goto, P1!mailbox_vars
  <2>2. PacmanStage = "woken" /\ PacmanStage' = IF game_over THEN "woken" ELSE "playing"
    BY <1>2, <1>3, <2>1 DEF PacmanStage
  <2>3. CASE game_over
    BY <1>3, <1>4, <2>1, <2>2, <2>3, Unseen
  <2>4. CASE ~game_over
    <3>0. /\ G0!Turn(Pacman, IF game_over THEN "gone" ELSE "playing")
          /\ exited' = IF game_over THEN exited \cup {Pacman} ELSE exited
      BY <1>3, <1>4, <2>2, <2>4, Names DEF G0!Turn
    <3>1. G0!ChildReadsGameOver(Pacman)
      BY <1>3, <2>1, <2>2, <3>0, Stages
         DEF G0!ChildReadsGameOver, p0_private, G0!clock_vars, G0!priority_vars,
             G0!semaphore_vars, memory_vars, thread_vars, local_vars, main_vars,
             G0!memory_vars, G0!thread_vars, G0!local_vars, G0!main_vars
    <3> QED
      BY <3>1, Stages DEF G0!Next, G0!Children, G0!Child
  <2> QED
    BY <2>3, <2>4
<1>7. CASE P1!process_instruction
  <2>1. /\ p1_pc["executor"] = "process" /\ p1_pc'["executor"] = "publish"
        /\ UNCHANGED sem_turn
    BY <1>1, <1>7 DEF P1!process_instruction, P1!At, P1!Goto
  <2>2. PacmanStage = "playing" /\ PacmanStage' = PacmanStage
    BY <1>2, <1>3, <2>1 DEF PacmanStage
  <2>3. CASE UNCHANGED <<pending_priority, request_active>>
    BY <1>3, <1>4, <2>1, <2>2, <2>3, Unseen
  <2>4. CASE /\ held.type = "SET_PRIORITY"
             /\ pending_priority' = [pending_priority EXCEPT ![Pacman] = held.priority]
             /\ request_active' = request_active \cup {Pacman}
    <3>1. held.priority \in Priorities
      <4>1. held \in G1!Kept
        BY <1>1, <2>1 DEF G1!IInv, G1!Order
      <4>2. PICK i \in DOMAIN Moves : held = Moves[i]
        BY <4>1 DEF G1!Kept, G1!Range
      <4>3. P1!parse_instruction_accepts(Moves[i])
        BY <4>1, <4>2
           DEF G1!Kept, G1!parse_instruction_accepts, P1!parse_instruction_accepts,
               G1!MAX_PRIORITY, P1!MAX_PRIORITY
      <4> QED
        BY <2>4, <4>2, <4>3, PosixAssumption DEF PosixAssumption
    <3>2. G0!ChildRequests(Pacman, held.priority)
      BY <1>3, <1>4, <2>1, <2>2, <2>4, Stages
         DEF G0!ChildRequests, p0_private, G0!clock_vars, G0!semaphore_vars, memory_vars,
             thread_vars, local_vars, main_vars, G0!memory_vars, G0!thread_vars, G0!local_vars,
             G0!main_vars
    <3> QED
      BY <3>1, <3>2, Stages DEF G0!Next, G0!Children, G0!Child
  <2> QED
    BY <1>7, <2>3, <2>4, Names DEF P1!process_instruction, P1!mailbox_vars
<1>8. CASE P1!ExecutorRequestsPublication
  <2>1. /\ \/ p1_pc["executor"] = "publish" /\ p1_pc'["executor"] = "turn"
           \/ p1_pc["executor"] = "stop_publish" /\ p1_pc'["executor"] = "done"
        /\ publish_requested' = publish_requested + 1
        /\ UNCHANGED <<pending_priority, request_active, sem_turn>>
    BY <1>1, <1>8 DEF P1!ExecutorRequestsPublication, P1!At, P1!Goto, P1!mailbox_vars
  <2>2. publish_requested' > 0
    BY <1>1, <2>1
  <2>3. PacmanStage' = PacmanStage
    BY <1>2, <1>3, <2>1, <2>2 DEF PacmanStage, Publishing
  <2> QED
    BY <1>3, <1>4, <2>1, <2>3, Unseen
<1>9. CASE \/ P1!TryAvailable \/ P1!CheckReaderDone \/ P1!AwaitAvailable \/ P1!queue_pop_locked
           \/ P1!ExecutorRequestsStop \/ P1!ExecutorPostsStop
  <2>1. /\ \/ /\ p1_pc["executor"] \in {"try", "check", "await", "pop"}
              /\ p1_pc'["executor"] \in {"check", "await", "pop", "process", "publish"}
           \/ /\ p1_pc["executor"] \in {"stop", "stop_post"}
              /\ p1_pc'["executor"] \in {"stop_post", "stop_publish"}
        /\ UNCHANGED <<pending_priority, request_active, sem_turn>>
    BY <1>1, <1>9
       DEF P1!TryAvailable, P1!CheckReaderDone, P1!AwaitAvailable, P1!queue_pop_locked,
           P1!ExecutorRequestsStop, P1!ExecutorPostsStop, P1!At, P1!Goto, P1!mailbox_vars
  <2>2. PacmanStage' = PacmanStage
    BY <1>2, <1>3, <2>1 DEF PacmanStage
  <2> QED
    BY <1>3, <1>4, <2>1, <2>2, Unseen
<1> QED
  BY <1>5, <1>6, <1>7, <1>8, <1>9 DEF P1Step, P1!Executor

\* The answer, which the publisher gives for the executor.
LEMMA PublisherSeen ==
  ASSUME IInv, P1Step(P1!Publisher)
  PROVE  [G0!Next]_(G0!game_vars)
<1>1. /\ P1!Thread = {"reader", "executor", "publisher"} /\ p1_pc = [t \in P1!Thread |-> p1_pc[t]]
      /\ G1!IInv /\ publish_requested \in Nat
  BY PacmanLabels DEF IInv
<1> USE DEF P1!PublisherAwaitsRequest, P1!PublisherReadsGameOver, P1!PublisherCopies,
            P1!PublisherStores, P1!PublisherAnswers, P1!At, P1!Goto
<1>2. Pacman \notin exited
  <2>1. p1_pc["publisher"] # "done"
    BY DEF P1Step, P1!Publisher
  <2> QED
    BY <1>1, <2>1 DEF IInv, PacmanWhole
<1>3. /\ UNCHANGED <<p0_private, p2_private, global_tick, collision, game_over, exited,
                     pending_priority, request_active, sem_turn>>
      /\ p1_pc'["executor"] = p1_pc["executor"]
  BY <1>1 DEF P1Step, P1!Publisher, P1!mailbox_vars
<1>4. EnemyStage' = EnemyStage
  BY <1>3 DEF EnemyStage, p2_private
<1>5. CASE P1!PublisherAwaitsRequest
  <2>1. publish_requested > 0 /\ p1_pc'["publisher"] = "read_over" /\ sem_done' = sem_done
    BY <1>1, <1>5
  <2>2. Publishing /\ Publishing'
    BY <2>1 DEF Publishing
  <2>3. PacmanStage' = PacmanStage
    BY <1>3, <2>2 DEF PacmanStage
  <2> QED
    BY <1>3, <1>4, <2>1, <2>3, Unseen
<1>6. CASE P1!PublisherReadsGameOver
  <2>1. /\ p1_pc["publisher"] = "read_over" /\ sem_done' = sem_done
        /\ p1_pc'["publisher"] = IF game_over THEN "done" ELSE "copy"
    BY <1>1, <1>6
  <2>2. Publishing /\ (~game_over => Publishing')
    BY <2>1 DEF Publishing
  <2>3. game_over => p1_pc["executor"] \notin {"unborn", "turn"}
    BY <1>1, <1>2, <2>2, PacmanStages, NoInterruption DEF IInv
  <2>4. PacmanStage' = PacmanStage
    BY <1>3, <2>2, <2>3 DEF PacmanStage
  <2> QED
    BY <1>3, <1>4, <2>1, <2>4, Unseen
<1>7. CASE P1!PublisherCopies \/ P1!PublisherStores
  <2>1. /\ p1_pc["publisher"] \in {"copy", "store"} /\ sem_done' = sem_done
        /\ p1_pc'["publisher"] \in {"store", "answer"}
    BY <1>1, <1>7
  <2>2. Publishing /\ Publishing'
    BY <2>1 DEF Publishing
  <2>3. PacmanStage' = PacmanStage
    BY <1>3, <2>2 DEF PacmanStage
  <2> QED
    BY <1>3, <1>4, <2>1, <2>3, Unseen
<1>8. CASE P1!PublisherAnswers
  <2>1. /\ p1_pc["publisher"] = "answer" /\ p1_pc'["publisher"] = "wait"
        /\ sem_done' = [sem_done EXCEPT ![Pacman] = @ + 1]
        /\ publish_requested' = publish_requested
    BY <1>1, <1>8, Names
  <2>2. /\ publish_requested = 0 /\ p1_pc["executor"] \in {"unborn", "turn"}
        /\ PacmanStage = "playing"
    BY <2>1, PublisherIsLast
  <2>3. ~Publishing'
    BY <2>1, <2>2 DEF Publishing
  <2>4. PacmanStage' = "idle"
    BY <1>2, <1>3, <2>2, <2>3 DEF PacmanStage
  <2>5. G0!Turn(Pacman, "idle")
    BY <1>4, <2>4, StageTurns
  <2>6. G0!ChildFinishes(Pacman)
    BY <1>3, <2>1, <2>2, <2>5, Stages
       DEF G0!ChildFinishes, p0_private, G0!clock_vars, G0!priority_vars, memory_vars,
           thread_vars, local_vars, main_vars, G0!memory_vars, G0!thread_vars, G0!local_vars,
           G0!main_vars
  <2> QED
    BY <2>6, Stages DEF G0!Next, G0!Children, G0!Child
<1> QED
  BY <1>5, <1>6, <1>7, <1>8 DEF P1Step, P1!Publisher

\* The threads P1 starts are where P0 takes them to be; when they are joined, the
\* child is gone.
LEMMA PacmanMainSeen ==
  ASSUME IInv, P1Step(P1!Main)
  PROVE  [G0!Next]_(G0!game_vars)
<1>1. /\ P1!Thread = {"reader", "executor", "publisher"} /\ p1_pc = [t \in P1!Thread |-> p1_pc[t]]
      /\ G1!IInv
  BY PacmanLabels DEF IInv
<1>2. p1_main_pc \notin {"stop", "post_available", "post_turn", "post_publish"}
  BY DEF IInv, PacmanWhole, G1!Cleanup
<1>3. UNCHANGED <<p0_private, p2_private, global_tick, collision, game_over, pending_priority,
                  request_active, sem_turn, sem_done, publish_requested>>
  BY <1>2
     DEF P1Step, P1!Main, P1!CreateThread, P1!Creates, P1!MainRequestsStop,
         P1!MainPostsAvailable, P1!MainPostsTurn, P1!MainPostsPublish, P1!JoinThreads,
         P1!mailbox_vars
<1>4. CASE P1!CreateThread
  <2>1. exited' = exited
    BY <1>4 DEF P1!CreateThread, P1!Creates
  <2>2. /\ \/ p1_pc'["executor"] = p1_pc["executor"]
           \/ p1_pc["executor"] = "unborn" /\ p1_pc'["executor"] = "turn"
        /\ \/ p1_pc'["publisher"] = p1_pc["publisher"]
           \/ p1_pc["publisher"] = "unborn" /\ p1_pc'["publisher"] = "wait"
    BY <1>1, <1>4 DEF P1!CreateThread, P1!Creates, P1!Goto, G1!IInv, G1!Creation, G1!Creating
  <2>3. Publishing' = Publishing
    BY <1>3, <2>2 DEF Publishing
  <2>4. PacmanStage' = PacmanStage
    BY <2>1, <2>2, <2>3 DEF PacmanStage
  <2>5. EnemyStage' = EnemyStage
    BY <1>3, <2>1 DEF EnemyStage, p2_private
  <2> QED
    BY <1>3, <2>1, <2>4, <2>5, Unseen
<1>5. CASE P1!JoinThreads
  <2>1. /\ \A t \in P1!Thread : p1_pc[t] \in {"unborn", "done"}
        /\ p1_main_pc = "join" /\ exited' = exited \cup {Pacman} /\ p1_pc' = p1_pc
    BY <1>5, Names DEF P1!JoinThreads
  <2>2. p1_pc["publisher"] # "unborn" /\ p1_pc["executor"] # "unborn"
    BY <1>1, <2>1 DEF IInv, PacmanWhole, G1!IInv, G1!Creation
  <2>3. p1_pc["executor"] = "done"
    BY <1>1, <2>1, <2>2
  <2>4. game_over
    BY <1>1, <2>3 DEF G1!IInv, G1!OverEnds
  <2>5. PacmanStage' = "gone"
    BY <2>1 DEF PacmanStage
  <2>6. EnemyStage' = EnemyStage
    BY <1>3, <2>1, Names DEF EnemyStage, p2_private
  <2>7. CASE Pacman \in exited
    <3>1. PacmanStage = "gone" /\ exited' = exited
      BY <2>1, <2>7 DEF PacmanStage
    <3> QED
      BY <1>3, <2>5, <2>6, <3>1, Unseen
  <2>8. CASE Pacman \notin exited
    <3>1. PacmanStage = "woken"
      BY <2>3, <2>8 DEF PacmanStage
    <3>2. G0!Turn(Pacman, IF game_over THEN "gone" ELSE "playing")
      BY <2>4, <2>5, <2>6, Names DEF G0!Turn
    <3>3. G0!ChildReadsGameOver(Pacman)
      BY <1>3, <2>1, <2>4, <3>1, <3>2, Stages
         DEF G0!ChildReadsGameOver, p0_private, G0!clock_vars, G0!priority_vars,
             G0!semaphore_vars, memory_vars, thread_vars, local_vars, main_vars,
             G0!memory_vars, G0!thread_vars, G0!local_vars, G0!main_vars
    <3> QED
      BY <3>3, Stages DEF G0!Next, G0!Children, G0!Child
  <2> QED
    BY <2>7, <2>8
<1> QED
  BY <1>2, <1>4, <1>5
     DEF P1Step, P1!Main, P1!MainRequestsStop, P1!MainPostsAvailable, P1!MainPostsTurn,
         P1!MainPostsPublish

\* P1 keeps its threads, and plays only as long as the game goes on.
LEMMA PacmanWholeStep ==
  ASSUME IInv, P1!PacmanNext, ~PacmanMayFail
  PROVE  PacmanWhole'
<1>1. /\ P1!Thread = {"reader", "executor", "publisher"} /\ p1_pc = [t \in P1!Thread |-> p1_pc[t]]
      /\ G1!IInv /\ PacmanWhole
  BY PacmanLabels DEF IInv
<1> USE DEF P1!At, P1!Goto, G1!Playing, G1!Cleanup
<1>2. CASE P1!Reader
  <2>1. /\ p1_pc["reader"] # "done"
        /\ UNCHANGED <<p1_main_pc, exited, game_over>>
        /\ p1_pc'["executor"] = p1_pc["executor"] /\ p1_pc'["publisher"] = p1_pc["publisher"]
    BY <1>1, <1>2
       DEF P1!Reader, P1!ReaderOpens, P1!ReadLine, P1!queue_push, P1!ReaderPosts,
           P1!queue_mark_reader_done
  <2> QED
    BY <1>1, <2>1 DEF PacmanWhole
<1>3. CASE P1!Executor
  <2>1. /\ p1_pc["executor"] # "done"
        /\ UNCHANGED <<p1_main_pc, exited, game_over>>
        /\ p1_pc'["publisher"] = p1_pc["publisher"]
        /\ \/ p1_pc'["executor"] \in {"turn", "read_over", "stop", "stop_post", "stop_publish",
                                      "done"}
           \/ p1_pc["executor"] = "read_over" /\ ~game_over
           \/ p1_pc["executor"] \in G1!Playing
    BY <1>1, <1>3
       DEF P1!Executor, P1!ExecutorAwaitsTurn, P1!ExecutorReadsGameOver, P1!TryAvailable,
           P1!CheckReaderDone, P1!AwaitAvailable, P1!queue_pop_locked, P1!process_instruction,
           P1!ExecutorRequestsPublication, P1!ExecutorRequestsStop, P1!ExecutorPostsStop
  <2> QED
    BY <1>1, <2>1 DEF PacmanWhole
<1>4. CASE P1!Publisher
  <2>1. /\ p1_pc["publisher"] # "done" /\ p1_pc'["publisher"] # "unborn"
        /\ UNCHANGED <<p1_main_pc, exited, game_over>>
        /\ p1_pc'["executor"] = p1_pc["executor"]
        /\ \/ p1_pc'["publisher"] \in {"wait", "read_over", "done"}
           \/ p1_pc["publisher"] = "read_over" /\ ~game_over
           \/ p1_pc["publisher"] \in {"copy", "store"}
    BY <1>1, <1>4
       DEF P1!Publisher, P1!PublisherAwaitsRequest, P1!PublisherReadsGameOver,
           P1!PublisherCopies, P1!PublisherStores, P1!PublisherAnswers
  <2> QED
    BY <1>1, <2>1 DEF PacmanWhole
<1>5. CASE P1!CreateThread
  <2>1. /\ UNCHANGED <<exited, game_over>>
        /\ p1_pc["publisher"] = "unborn"
        /\ \/ p1_main_pc' \in {"create_executor", "create_publisher"}
           \/ p1_main_pc' = "join" /\ p1_pc'["publisher"] = "wait"
        /\ p1_pc'["publisher"] \in {p1_pc["publisher"], "wait"}
        /\ p1_pc'["executor"] \in {p1_pc["executor"], "turn"}
    BY <1>1, <1>5 DEF P1!CreateThread, P1!Creates, G1!IInv, G1!Creation, G1!Creating
  <2>2. Pacman \notin exited
    BY <1>1, <2>1 DEF PacmanWhole
  <2> QED
    BY <1>1, <2>1, <2>2 DEF PacmanWhole
<1>6. CASE P1!JoinThreads
  <2>1. /\ \A t \in P1!Thread : p1_pc[t] \in {"unborn", "done"}
        /\ p1_main_pc = "join" /\ p1_main_pc' = "exit" /\ UNCHANGED <<p1_pc, game_over>>
    BY <1>6 DEF P1!JoinThreads
  <2>2. \A t \in P1!Thread : p1_pc[t] = "done"
    BY <1>1, <2>1 DEF PacmanWhole, G1!IInv, G1!Creation
  <2> QED
    BY <1>1, <2>1, <2>2 DEF PacmanWhole
<1> QED
  BY <1>1, <1>2, <1>3, <1>4, <1>5, <1>6
     DEF P1!PacmanNext, P1!ContextInitFails, P1!CreateFails, P1!Main, P1!MainRequestsStop,
         P1!MainPostsAvailable, P1!MainPostsTurn, P1!MainPostsPublish, PacmanWhole

\* Every step of P1 keeps the invariant.
LEMMA PacmanStep ==
  ASSUME IInv, P1Step(P1!PacmanNext), ~PacmanMayFail
  PROVE  IInv' /\ [G0!Next]_(G0!game_vars)
<1>1. /\ P1!PacmanNext
      /\ UNCHANGED <<global_tick, collision, p0_private, p2_private, settled>>
  BY DEF P1Step
<1>2. [G0!Next]_(G0!game_vars)
  BY <1>1, ReaderUnseen, ExecutorSeen, PublisherSeen, PacmanMainSeen
     DEF P1Step, P1!PacmanNext, P1!ContextInitFails, P1!CreateFails
<1>3. G0!IInv'
  BY <1>2, G0!InvStep, Assumptions DEF IInv
<1>4. sem_turn \in [Process -> Nat] /\ sem_done \in [Process -> Nat]
  BY SharedMemory DEF IInv
<1>5. /\ game_over' = game_over
      /\ sem_turn'[Enemy] = sem_turn[Enemy] /\ sem_done'[Enemy] = sem_done[Enemy]
      /\ (exited \cap {Enemy})' = exited \cap {Enemy}
      /\ Enemy \in exited' <=> Enemy \in exited
      /\ p1_pc["publisher"] # "store" => pacman_at' = pacman_at
  BY <1>1, <1>4, PacmanFrame
<1>6. UNCHANGED <<pc, flags, main_pc, dispatched, status, caller>>
  BY <1>1 DEF p0_private, thread_vars, local_vars, main_vars
<1>7. UNCHANGED <<Awaiting, Unconsumed, Posted, TickOpen>>
  BY <1>6 DEF Awaiting, Unconsumed, Posted, TickOpen
<1>8. UNCHANGED <<P0SeenByPacman, P0SeenByEnemy, PacmanTurns, EnemyTurns, TickSeen>>
  BY <1>1, <1>5, <1>6, <1>7
     DEF P0SeenByPacman, P0SeenByEnemy, PacmanTurns, EnemyTurns, TickSeen
<1>9. NoError' /\ Count' /\ Quiet'
  BY <1>1, <1>5, <1>6, <1>7 DEF IInv, NoError, Count, Quiet
<1>10. PacmanView
  BY <1>1, <1>8, PacmanSteps DEF PacmanView, G1!Next
<1>11. G1!IInv'
  BY <1>10, G1!InvStep, G1!OthersKeep, Assumptions DEF IInv, PacmanView
<1>12. EnemyView
  <2>1. AnswersSeen'[Enemy] = AnswersSeen[Enemy]
    <3>1. sem_done' \in [Process -> Nat]
      BY <1>3, ViewTypesNext
    <3>2. CASE Unconsumed /\ dispatched = Enemy
      BY <1>4, <1>5, <1>6, <1>7, <3>1, <3>2, Names DEF AnswersSeen
    <3>3. CASE ~(Unconsumed /\ dispatched = Enemy)
      BY <1>5, <1>6, <1>7, <3>3 DEF AnswersSeen
    <3> QED
      BY <3>2, <3>3
  <2>2. \/ UNCHANGED <<TickSeen, pacman_at>>
        \/ P0SeenByEnemy = "ready" /\ TickSeen' \in Nat /\ pacman_at' \in G2!Open
    <3>1. CASE p1_pc["publisher"] # "store"
      BY <1>5, <1>8, <3>1
    <3>2. CASE p1_pc["publisher"] = "store"
      <4>1. ~game_over /\ P0SeenByPacman = "waiting"
        BY <3>2, PublisherIsLast
      <4>2. P0SeenByEnemy = "ready"
        BY <4>1, Names DEF P0SeenByPacman, P0SeenByEnemy
      <4>3. pacman_at' \in G1!Open
        BY <1>11 DEF G1!IInv, G1!TypeOK
      <4>4. TickSeen' \in Nat
        BY <1>3, <1>9, TickSeenNext
      <4> QED
        BY <4>2, <4>3, <4>4 DEF G1!Open, G2!Open
    <3> QED
      BY <3>1, <3>2
  <2>3. G2!OthersMove
    BY <1>1, <1>3, <1>5, <1>8, <2>1, <2>2, ViewTypesNext, Names
       DEF G2!OthersMove, G2!MAX_PRIORITY, p2_private, G2!helper_vars, G2!ghost_vars,
           G2!ghost_sems, G2!control_vars, G2!detector_vars
  <2> QED
    BY <2>3 DEF EnemyView
<1>13. G2!IInv'
  BY <1>10, <1>12, ViewsKeep
<1>14. PacmanWhole'
  BY <1>1, PacmanWholeStep
<1>15. EnemyWhole'
  BY <1>1, <1>5 DEF IInv, EnemyWhole, G2!Whole, p2_private
<1> QED
  BY <1>2, <1>3, <1>9, <1>11, <1>13, <1>14, <1>15 DEF IInv

-----------------------------------------------------------------------------
(* A step of P2 keeps the invariant. *)

\* What P2 leaves alone.
LEMMA EnemyFrame ==
  ASSUME P2!EnemyNext, sem_turn \in [Process -> Nat], sem_done \in [Process -> Nat]
  PROVE  /\ UNCHANGED <<global_tick, game_over, pacman_at>>
         /\ sem_turn'[Pacman] = sem_turn[Pacman] /\ sem_done'[Pacman] = sem_done[Pacman]
         /\ (exited \cap {Pacman})' = exited \cap {Pacman}
         /\ Pacman \in exited' <=> Pacman \in exited
<1> USE Names DEF P2!p0_owned, P2!out_vars, P2!mailbox_vars
<1>1. CASE \E g \in P2!Ghost : P2!GhostThread(g)
  BY <1>1
     DEF P2!GhostThread, P2!load_ghost_instructions, P2!GhostRequestsStop, P2!GhostAwaitsTurn,
         P2!GhostReadsStop, P2!process_ghost_instruction, P2!GhostAnswers
<1>2. CASE P2!Tracker
  BY <1>2
     DEF P2!Tracker, P2!TrackerAwaitsRequest, P2!ReadsStop, P2!TrackPacman, P2!TrackerAnswers
<1>3. CASE P2!Detector
  BY <1>3
     DEF P2!Detector, P2!DetectorAwaitsRequest, P2!ReadsStop, P2!CopyPacman, P2!CopyGhosts,
         P2!CopyTick, P2!publish_collision, P2!DetectorAnswers
<1>4. CASE P2!Controller
  BY <1>4
     DEF P2!Controller, P2!ControllerAwaitsTurn, P2!ControllerReadsGameOver,
         P2!post_all_ghost_turns, P2!wait_all_ghosts_done, P2!RequestTracker, P2!AwaitTracker,
         P2!RequestDetection, P2!AwaitDetection, P2!ControllerAnswers,
         P2!signal_helper_shutdown, P2!RequestStop, P2!ReleaseGhost, P2!ReleaseTracker,
         P2!ReleaseDetector
<1>5. CASE P2!Main
  BY <1>5
     DEF P2!Main, P2!CreateThread, P2!signal_helper_shutdown, P2!RequestStop, P2!ReleaseGhost,
         P2!ReleaseTracker, P2!ReleaseDetector, P2!MainPostsTurn, P2!JoinThreads
<1> QED
  BY <1>1, <1>2, <1>3, <1>4, <1>5 DEF P2!EnemyNext, P2!ContextInitFails, P2!CreateFails

\* The labels of the threads of P2.
LEMMA EnemyLabels ==
  ASSUME G2!IInv
  PROVE  /\ P2!Thread = {"main", "controller", "tracker", "detector"}
         /\ p2_pc = [t \in P2!Thread |-> p2_pc[t]]
         /\ ghost_pc \in [P2!Ghost -> G2!GhostLabel]
         /\ next_ghost["main"] \in P2!Ghost
         /\ p2_pc["controller"] \in {"unborn", "turn", "read_over", "post_ghosts",
              "wait_ghosts", "post_tracker", "wait_tracker", "post_detector", "wait_detector",
              "answer", "stop", "stop_ghosts", "stop_tracker", "stop_detector", "done"}
<1>1. p2_pc = [t \in P2!Thread |-> p2_pc[t]]
  BY Names DEF G2!IInv, G2!Labels
<1>2. P2!Thread = {"main", "controller", "tracker", "detector"}
  BY DEF P2!Thread
<1>3. ghost_pc \in [P2!Ghost -> G2!GhostLabel] /\ next_ghost \in [{"main", "controller"} -> P2!Ghost]
  BY Names DEF G2!IInv, G2!TypeOK
<1>4. p2_pc["controller"] \in G2!ThreadLabel["controller"]
  BY <1>2, Names DEF G2!IInv, G2!TypeOK
<1> QED
  BY <1>1, <1>2, <1>3, <1>4 DEF G2!ThreadLabel, G2!StopLabel

\* The labels of the controller while it has a turn to answer.
Driving == {"post_ghosts", "wait_ghosts", "post_tracker", "wait_tracker", "post_detector",
            "wait_detector", "answer"}

\* P2 as P0 sees it, one label after the other.
LEMMA EnemyStages ==
  ASSUME G2!IInv, Enemy \notin exited
  PROVE  /\ p2_pc["controller"] \in {"unborn", "turn"} => EnemyStage = "idle"
         /\ p2_pc["controller"] \in Driving =>
              EnemyStage = IF collision = NoCollision THEN "playing" ELSE "reported"
         /\ p2_pc["controller"] \in {"read_over", "stop", "stop_ghosts", "stop_tracker",
                                     "stop_detector", "done"} => EnemyStage = "woken"
BY DEF EnemyStage, Driving

\* The controller has a turn in hand that P0 waits for.
LEMMA EnemyHasTurn ==
  ASSUME IInv, p2_pc["controller"] \in Driving
  PROVE  /\ ~game_over /\ Enemy \notin exited /\ G2!Sound
         /\ P0SeenByEnemy = "waiting" /\ pc["signal"] # "post" /\ AnswersSeen[Enemy] = 0
<1>1. Enemy \notin exited /\ G2!IInv
  BY DEF IInv, EnemyWhole, Driving
<1>2. ~game_over
  BY <1>1, EnemyStages, NoInterruption DEF IInv
<1>3. G2!Sound
  BY <1>2, EnemySound
<1>4. P0SeenByEnemy = "waiting" /\ AnswersSeen[Enemy] = 0
  <2>1. /\ G2!TypeOK /\ G2!Labels /\ G2!OverEnds /\ G2!Turn /\ G2!Whole
        /\ p2_pc["controller"] \in G2!InTurn
    BY <1>1, <1>3 DEF G2!IInv, G2!Sound, G2!InTurn, Driving
  <2> QED
    BY <1>2, <2>1, G2!OneTurn, Assumptions, Names
<1>5. pc["signal"] # "post"
  <2>1. Awaiting \/ Unconsumed
    BY <1>4 DEF P0SeenByEnemy
  <2>2. /\ G0!IInv /\ Thread = {"tick", "scheduler", "signal", "collision"}
        /\ "turn_done" \in Carried
    BY DEF IInv, Thread, Carried
  <2> QED
    BY <2>1, <2>2, Baton DEF Awaiting, Unconsumed, Works
<1> QED
  BY <1>1, <1>2, <1>3, <1>4, <1>5

\* A ghost acts, and the detector judges, for a controller that waits for them.
LEMMA HelpersAreAwaited ==
  ASSUME IInv
  PROVE  /\ \A g \in P2!Ghost : ghost_pc[g] \in {"act", "answer"} =>
              p2_pc["controller"] \in {"post_ghosts", "wait_ghosts"}
         /\ p2_pc["detector"] \in G2!Judging => p2_pc["controller"] = "wait_detector"
<1>1. G2!IInv /\ EnemyWhole
  BY DEF IInv
<1>2. ASSUME NEW g \in P2!Ghost, ghost_pc[g] \in {"act", "answer"}
      PROVE  p2_pc["controller"] \in {"post_ghosts", "wait_ghosts"}
  <2>1. G2!Sound
    BY <1>1, <1>2 DEF EnemyWhole, G2!Sound
  <2>2. G2!TypeOK /\ G2!GhostTokens /\ G2!TrackerTokens /\ G2!DetectorTokens
    BY <1>1, <2>1 DEF G2!IInv
  <2>3. ghost_pc[g] \in G2!Working /\ g \in G2!Ghost
    BY <1>2, Names DEF G2!Working
  <2> QED
    BY <2>2, <2>3, G2!Idle, Assumptions
<1>3. ASSUME p2_pc["detector"] \in G2!Judging
      PROVE  p2_pc["controller"] = "wait_detector"
  <2>1. ~p2_should_stop
    BY <1>1, <1>3 DEF EnemyWhole
  <2> QED
    BY <1>1, <1>3, <2>1, G2!JudgingIsAwaited, Assumptions
<1> QED
  BY <1>2, <1>3

\* Until the detector has published, no event is pending in a turn of P2.
LEMMA NothingReported ==
  ASSUME IInv, ~game_over,
         \/ p2_pc["controller"] \in {"read_over", "post_ghosts", "wait_ghosts"}
         \/ p2_pc["detector"] = "publish"
  PROVE  collision = NoCollision
<1>1. /\ G2!TypeOK /\ G2!Labels /\ G2!OverEnds /\ G2!Turn /\ G2!Whole
      /\ G2!GhostTokens /\ G2!TrackerTokens /\ G2!DetectorTokens /\ G2!Verdict
  BY EnemySound DEF IInv, G2!IInv, G2!Sound
<1>2. \/ p2_pc["controller"] \in {"read_over", "post_ghosts", "wait_ghosts"}
      \/ p2_pc["controller"] = "wait_detector" /\ p2_pc["detector"] = "publish"
  BY HelpersAreAwaited DEF G2!Judging
<1>3. AnswersSeen[Enemy] = 0
  <2>1. p2_pc["controller"] \in G2!InTurn
    BY <1>2 DEF G2!InTurn
  <2> QED
    BY <1>1, <2>1, G2!OneTurn, Assumptions, Names
<1>4. ~(collision_done > 0) /\ p2_pc["detector"] # "answer"
  <2>1. CASE p2_pc["controller"] \in {"read_over", "post_ghosts", "wait_ghosts"}
    BY <1>1, <2>1, G2!Idle, Assumptions DEF G2!Judging
  <2>2. CASE p2_pc["controller"] = "wait_detector" /\ p2_pc["detector"] = "publish"
    <3>1. collision_requested + 1 + collision_done = 1
      BY <1>1, <2>2 DEF G2!DetectorTokens, G2!Judging
    <3>2. collision_requested \in Nat /\ collision_done \in Nat
      BY <1>1 DEF G2!TypeOK
    <3> QED
      BY <2>2, <3>1, <3>2
  <2> QED
    BY <1>2, <2>1, <2>2
<1>5. ~G2!Judged
  BY <1>2, <1>3, <1>4, Names DEF G2!Judged
<1> QED
  BY <1>1, <1>5, Names DEF G2!Verdict

\* Of a ghost P0 sees the request it makes, in the turn of P2, and nothing else.
LEMMA GhostSeen ==
  ASSUME IInv, NEW g \in P2!Ghost, P2Step(P2!GhostThread(g))
  PROVE  [G0!Next]_(G0!game_vars)
<1>1. G2!IInv /\ ghost_pc \in [P2!Ghost -> G2!GhostLabel]
  BY EnemyLabels DEF IInv
<1>2. UNCHANGED <<p0_private, p1_private, global_tick, game_over, collision, exited, sem_turn,
                  sem_done, p2_pc>>
  BY DEF P2Step, P2!GhostThread, P2!load_ghost_instructions, P2!GhostRequestsStop,
         P2!GhostAwaitsTurn, P2!GhostReadsStop, P2!process_ghost_instruction, P2!GhostAnswers,
         P2!p0_owned, P2!out_vars, P2!control_vars
<1>3. PacmanStage' = PacmanStage /\ EnemyStage' = EnemyStage
  BY <1>2 DEF PacmanStage, Publishing, EnemyStage, p1_private
<1>4. CASE UNCHANGED <<pending_priority, request_active>>
  BY <1>2, <1>3, <1>4, Unseen
<1>5. CASE /\ ghost_pc[g] = "act" /\ left[g] # <<>>
           /\ Head(left[g]).type = "SET_PRIORITY"
           /\ pending_priority' = [pending_priority EXCEPT ![Enemy] = Head(left[g]).priority]
           /\ request_active' = request_active \cup {Enemy}
  <2>1. p2_pc["controller"] \in {"post_ghosts", "wait_ghosts"}
    BY <1>5, HelpersAreAwaited
  <2>2. ~game_over /\ Enemy \notin exited
    BY <2>1, EnemyHasTurn DEF Driving
  <2>3. EnemyStage = "playing"
    BY <1>1, <2>1, <2>2, NothingReported, EnemyStages DEF Driving
  <2>4. Head(left[g]).priority \in Priorities
    <3>1. Head(left[g]) \in G2!Kept
      <4>1. left[g] \in Seq(G2!Kept)
        BY <1>1, Names DEF G2!IInv, G2!Labels
      <4> QED
        BY <1>5, <4>1
    <3>2. PICK h \in 1..GhostCount : Head(left[g]) \in G2!Range(GhostMoves[h])
      BY <3>1, Names DEF G2!Kept, G2!Lines
    <3>3. PICK i \in DOMAIN GhostMoves[h] : Head(left[g]) = GhostMoves[h][i]
      BY <3>2 DEF G2!Range
    <3>4. P1!parse_instruction_accepts(GhostMoves[h][i])
      BY <3>1, <3>3
         DEF G2!Kept, G2!parse_instruction_accepts, P1!parse_instruction_accepts,
             G2!MAX_PRIORITY, P1!MAX_PRIORITY
    <3> QED
      BY <1>5, <3>3, <3>4, PosixAssumption DEF PosixAssumption
  <2>5. G0!ChildRequests(Enemy, Head(left[g]).priority)
    BY <1>2, <1>3, <1>5, <2>3, Stages
       DEF G0!ChildRequests, p0_private, G0!clock_vars, G0!semaphore_vars, memory_vars,
           thread_vars, local_vars, main_vars, G0!memory_vars, G0!thread_vars, G0!local_vars,
           G0!main_vars
  <2> QED
    BY <2>4, <2>5, Stages DEF G0!Next, G0!Children, G0!Child
<1> QED
  BY <1>4, <1>5, Names
     DEF P2Step, P2!GhostThread, P2!load_ghost_instructions, P2!GhostRequestsStop,
         P2!GhostAwaitsTurn, P2!GhostReadsStop, P2!process_ghost_instruction, P2!GhostAnswers,
         P2!mailbox_vars

\* The tracker is unseen.
LEMMA TrackerUnseen ==
  ASSUME IInv, P2Step(P2!Tracker)
  PROVE  UNCHANGED G0!game_vars
<1>1. /\ UNCHANGED <<p0_private, p1_private, global_tick, game_over, collision, exited, sem_turn,
                     sem_done, pending_priority, request_active>>
      /\ p2_pc'["controller"] = p2_pc["controller"]
  <2>1. P2!Thread = {"main", "controller", "tracker", "detector"} /\ p2_pc = [t \in P2!Thread |-> p2_pc[t]]
    BY EnemyLabels DEF IInv
  <2> QED
    BY <2>1
       DEF P2Step, P2!Tracker, P2!TrackerAwaitsRequest, P2!ReadsStop, P2!TrackPacman,
           P2!TrackerAnswers, P2!p0_owned, P2!out_vars, P2!mailbox_vars, P2!At, P2!Goto
<1>2. PacmanStage' = PacmanStage /\ EnemyStage' = EnemyStage
  BY <1>1 DEF PacmanStage, Publishing, EnemyStage, p1_private
<1> QED
  BY <1>1, <1>2, Unseen

\* The detector is seen to publish, in the turn of P2.
LEMMA DetectorSeen ==
  ASSUME IInv, P2Step(P2!Detector)
  PROVE  [G0!Next]_(G0!game_vars)
<1>1. /\ G2!IInv
      /\ P2!Thread = {"main", "controller", "tracker", "detector"}
      /\ p2_pc = [t \in P2!Thread |-> p2_pc[t]]
  BY EnemyLabels DEF IInv
<1>2. /\ UNCHANGED <<p0_private, p1_private, global_tick, game_over, exited, sem_turn,
                     sem_done, pending_priority, request_active>>
      /\ p2_pc'["controller"] = p2_pc["controller"]
  BY <1>1
     DEF P2Step, P2!Detector, P2!DetectorAwaitsRequest, P2!ReadsStop, P2!CopyPacman,
         P2!CopyGhosts, P2!CopyTick, P2!publish_collision, P2!DetectorAnswers, P2!p0_owned,
         P2!out_vars, P2!mailbox_vars, P2!At, P2!Goto
<1>3. PacmanStage' = PacmanStage
  BY <1>2 DEF PacmanStage, Publishing, p1_private
<1>4. CASE UNCHANGED collision
  <2>1. EnemyStage' = EnemyStage
    BY <1>2, <1>4 DEF EnemyStage
  <2> QED
    BY <1>2, <1>3, <1>4, <2>1, Unseen
<1>5. CASE P2!publish_collision
  <2>1. PICK g \in P2!Ghost : collision' = [tick |-> seen_tick, ghost |-> g]
    BY <1>5 DEF P2!publish_collision, P2!Colliding
  <2>2. p2_pc["detector"] = "publish"
    BY <1>5 DEF P2!publish_collision, P2!At
  <2>3. p2_pc["controller"] = "wait_detector"
    BY <2>2, HelpersAreAwaited DEF G2!Judging
  <2>4. ~game_over /\ Enemy \notin exited /\ G2!Sound /\ pc["signal"] # "post"
    BY <2>3, EnemyHasTurn DEF Driving
  <2>5. EnemyStage = "playing"
    BY <1>1, <2>2, <2>3, <2>4, NothingReported, EnemyStages DEF Driving
  <2>6. seen_tick = global_tick
    BY <1>1, <2>2, <2>4 DEF G2!IInv, G2!Copies, TickSeen
  <2>7. collision' # NoCollision
    <3>1. g \in Nat /\ -1 \notin Nat
      BY Names, Assumptions
    <3> QED
      BY <2>1, <3>1 DEF NoCollision
  <2>8. EnemyStage' = "reported"
    BY <1>2, <2>3, <2>4, <2>7 DEF EnemyStage
  <2>9. G0!Turn(Enemy, "reported")
    BY <1>3, <2>8, StageTurns
  <2>10. G0!EnemyPublishes(g)
    BY <1>2, <2>1, <2>5, <2>6, <2>9, Stages, Names
       DEF G0!EnemyPublishes, p0_private, G0!clock_vars, G0!priority_vars, G0!semaphore_vars,
           memory_vars, thread_vars, local_vars, main_vars, G0!memory_vars, G0!thread_vars,
           G0!local_vars, G0!main_vars
  <2> QED
    BY <2>10, Names DEF G0!Next, G0!Children
<1> QED
  BY <1>4, <1>5
     DEF P2Step, P2!Detector, P2!DetectorAwaitsRequest, P2!ReadsStop, P2!CopyPacman,
         P2!CopyGhosts, P2!CopyTick, P2!DetectorAnswers, P2!out_vars

\* The controller takes the turn and answers it.
LEMMA ControllerSeen ==
  ASSUME IInv, P2Step(P2!Controller)
  PROVE  [G0!Next]_(G0!game_vars)
<1>1. /\ P2!Thread = {"main", "controller", "tracker", "detector"}
      /\ p2_pc = [t \in P2!Thread |-> p2_pc[t]]
      /\ G2!IInv
      /\ sem_turn \in [Process -> Nat] /\ sem_done \in [Process -> Nat]
  BY EnemyLabels, SharedMemory DEF IInv
<1> USE DEF P2!At, P2!Goto, P2!mailbox_vars, P2!out_vars, P2!p0_owned
<1>2. Enemy \notin exited
  <2>1. p2_pc["controller"] # "done"
    BY DEF P2Step, P2!Controller, P2!ControllerAwaitsTurn, P2!ControllerReadsGameOver,
           P2!post_all_ghost_turns, P2!wait_all_ghosts_done, P2!RequestTracker,
           P2!AwaitTracker, P2!RequestDetection, P2!AwaitDetection, P2!ControllerAnswers,
           P2!signal_helper_shutdown, P2!RequestStop, P2!ReleaseGhost, P2!ReleaseTracker,
           P2!ReleaseDetector
  <2> QED
    BY <2>1 DEF IInv, EnemyWhole
<1>3. UNCHANGED <<p0_private, p1_private, global_tick, collision, game_over, exited,
                  pending_priority, request_active>>
  BY DEF P2Step, P2!Controller, P2!ControllerAwaitsTurn, P2!ControllerReadsGameOver,
         P2!post_all_ghost_turns, P2!wait_all_ghosts_done, P2!RequestTracker,
         P2!AwaitTracker, P2!RequestDetection, P2!AwaitDetection, P2!ControllerAnswers,
         P2!signal_helper_shutdown, P2!RequestStop, P2!ReleaseGhost, P2!ReleaseTracker,
         P2!ReleaseDetector
<1>4. PacmanStage' = PacmanStage
  BY <1>3 DEF PacmanStage, Publishing, p1_private
<1>5. CASE P2!ControllerAwaitsTurn
  <2>1. /\ p2_pc["controller"] = "turn" /\ sem_turn[Enemy] > 0
        /\ sem_turn' = [sem_turn EXCEPT ![Enemy] = @ - 1]
        /\ p2_pc'["controller"] = "read_over" /\ sem_done' = sem_done
    BY <1>1, <1>5, Names DEF P2!ControllerAwaitsTurn
  <2>2. EnemyStage = "idle" /\ EnemyStage' = "woken"
    BY <1>2, <1>3, <2>1 DEF EnemyStage
  <2>3. G0!Turn(Enemy, "woken")
    BY <1>4, <2>2, StageTurns
  <2>4. G0!ChildWakes(Enemy)
    BY <1>3, <2>1, <2>2, <2>3, Stages
       DEF G0!ChildWakes, p0_private, G0!clock_vars, G0!priority_vars, memory_vars, thread_vars,
           local_vars, main_vars, G0!memory_vars, G0!thread_vars, G0!local_vars, G0!main_vars
  <2> QED
    BY <2>4, Stages DEF G0!Next, G0!Children, G0!Child
<1>6. CASE P2!ControllerReadsGameOver
  <2>1. /\ p2_pc["controller"] = "read_over"
        /\ p2_pc'["controller"] = IF game_over THEN "stop" ELSE "post_ghosts"
        /\ UNCHANGED <<sem_turn, sem_done>>
    BY <1>1, <1>6 DEF P2!ControllerReadsGameOver
  <2>2. CASE game_over
    <3>1. EnemyStage' = EnemyStage
      BY <1>2, <1>3, <2>1, <2>2 DEF EnemyStage
    <3> QED
      BY <1>3, <1>4, <2>1, <3>1, Unseen
  <2>3. CASE ~game_over
    <3>1. collision = NoCollision
      BY <2>1, <2>3, NothingReported
    <3>2. EnemyStage = "woken" /\ EnemyStage' = "playing"
      BY <1>2, <1>3, <2>1, <2>3, <3>1 DEF EnemyStage
    <3>3. /\ G0!Turn(Enemy, IF game_over THEN "gone" ELSE "playing")
          /\ exited' = IF game_over THEN exited \cup {Enemy} ELSE exited
      BY <1>3, <1>4, <2>3, <3>2, Names DEF G0!Turn
    <3>4. G0!ChildReadsGameOver(Enemy)
      BY <1>3, <2>1, <3>2, <3>3, Stages
         DEF G0!ChildReadsGameOver, p0_private, G0!clock_vars, G0!priority_vars,
             G0!semaphore_vars, memory_vars, thread_vars, local_vars, main_vars,
             G0!memory_vars, G0!thread_vars, G0!local_vars, G0!main_vars
    <3> QED
      BY <3>4, Stages DEF G0!Next, G0!Children, G0!Child
  <2> QED
    BY <2>2, <2>3
<1>7. CASE P2!ControllerAnswers
  <2>1. /\ p2_pc["controller"] = "answer" /\ p2_pc'["controller"] = "turn"
        /\ sem_done' = [sem_done EXCEPT ![Enemy] = @ + 1] /\ sem_turn' = sem_turn
    BY <1>1, <1>7, Names DEF P2!ControllerAnswers
  <2>2. EnemyStage \in {"playing", "reported"} /\ EnemyStage' = "idle"
    BY <1>2, <1>3, <2>1 DEF EnemyStage
  <2>3. G0!Turn(Enemy, "idle")
    BY <1>4, <2>2, StageTurns
  <2>4. G0!ChildFinishes(Enemy)
    BY <1>3, <2>1, <2>2, <2>3, Stages
       DEF G0!ChildFinishes, p0_private, G0!clock_vars, G0!priority_vars, memory_vars,
           thread_vars, local_vars, main_vars, G0!memory_vars, G0!thread_vars, G0!local_vars,
           G0!main_vars
  <2> QED
    BY <2>4, Stages DEF G0!Next, G0!Children, G0!Child
<1>8. CASE \/ P2!post_all_ghost_turns \/ P2!wait_all_ghosts_done \/ P2!RequestTracker
           \/ P2!AwaitTracker \/ P2!RequestDetection \/ P2!AwaitDetection
           \/ P2!signal_helper_shutdown("controller")
  <2>1. UNCHANGED <<sem_turn, sem_done>>
    BY <1>8
       DEF P2!post_all_ghost_turns, P2!wait_all_ghosts_done, P2!RequestTracker,
           P2!AwaitTracker, P2!RequestDetection, P2!AwaitDetection,
           P2!signal_helper_shutdown, P2!RequestStop, P2!ReleaseGhost, P2!ReleaseTracker,
           P2!ReleaseDetector
  <2>2. \/ p2_pc["controller"] \in Driving /\ p2_pc'["controller"] \in Driving
        \/ /\ p2_pc["controller"] \in {"stop", "stop_ghosts", "stop_tracker", "stop_detector"}
           /\ p2_pc'["controller"] \in {"stop_ghosts", "stop_tracker", "stop_detector", "done"}
    BY <1>1, <1>8
       DEF P2!post_all_ghost_turns, P2!wait_all_ghosts_done, P2!RequestTracker,
           P2!AwaitTracker, P2!RequestDetection, P2!AwaitDetection,
           P2!signal_helper_shutdown, P2!RequestStop, P2!ReleaseGhost, P2!ReleaseTracker,
           P2!ReleaseDetector, P2!EachGhost, Driving
  <2>3. EnemyStage' = EnemyStage
    BY <1>2, <1>3, <2>2 DEF EnemyStage, Driving
  <2> QED
    BY <1>3, <1>4, <2>1, <2>3, Unseen
<1> QED
  BY <1>5, <1>6, <1>7, <1>8 DEF P2Step, P2!Controller

\* P2 starts its threads unseen; when they are joined, the child is gone.
LEMMA EnemyMainSeen ==
  ASSUME IInv, P2Step(P2!Main)
  PROVE  [G0!Next]_(G0!game_vars)
<1>1. /\ P2!Thread = {"main", "controller", "tracker", "detector"}
      /\ p2_pc = [t \in P2!Thread |-> p2_pc[t]]
      /\ G2!IInv /\ EnemyWhole
  BY EnemyLabels DEF IInv
<1> USE DEF P2!At, P2!Goto, P2!mailbox_vars, P2!out_vars, P2!p0_owned
<1>2. P2!CreateThread \/ P2!JoinThreads
  BY <1>1
     DEF EnemyWhole, G2!StopLabel, P2Step, P2!Main, P2!signal_helper_shutdown, P2!RequestStop,
         P2!ReleaseGhost, P2!ReleaseTracker, P2!ReleaseDetector, P2!MainPostsTurn
<1>3. UNCHANGED <<p0_private, p1_private, global_tick, collision, game_over, pending_priority,
                  request_active, sem_turn, sem_done>>
  BY <1>2 DEF P2Step, P2!CreateThread, P2!JoinThreads
<1>4. CASE P2!CreateThread
  <2>1. exited' = exited
    BY <1>4 DEF P2!CreateThread
  <2>2. \/ p2_pc'["controller"] = p2_pc["controller"]
        \/ p2_pc["controller"] = "unborn" /\ p2_pc'["controller"] = "turn"
    BY <1>1, <1>4 DEF P2!CreateThread, P2!EachGhost, G2!IInv, G2!Creation
  <2>3. PacmanStage' = PacmanStage /\ EnemyStage' = EnemyStage
    BY <1>3, <2>1, <2>2 DEF PacmanStage, Publishing, EnemyStage, p1_private
  <2> QED
    BY <1>3, <2>1, <2>3, Unseen
<1>5. CASE P2!JoinThreads
  <2>1. /\ p2_pc["controller"] \in {"unborn", "done"} /\ p2_pc["main"] = "join"
        /\ exited' = exited \cup {Enemy}
    BY <1>1, <1>5, Names DEF P2!JoinThreads
  <2>2. p2_pc["controller"] = "done"
    BY <1>1, <2>1 DEF EnemyWhole, G2!Whole, G2!Creating, G2!IInv, G2!Creation
  <2>3. game_over
    BY <1>1, <2>2 DEF G2!IInv, G2!OverEnds
  <2>4. EnemyStage' = "gone"
    BY <2>1 DEF EnemyStage
  <2>5. PacmanStage' = PacmanStage
    BY <1>3, <2>1, Names DEF PacmanStage, Publishing, p1_private
  <2>6. CASE Enemy \in exited
    <3>1. EnemyStage = "gone" /\ exited' = exited
      BY <2>1, <2>6 DEF EnemyStage
    <3> QED
      BY <1>3, <2>4, <2>5, <3>1, Unseen
  <2>7. CASE Enemy \notin exited
    <3>1. EnemyStage = "woken"
      BY <2>2, <2>7 DEF EnemyStage
    <3>2. G0!Turn(Enemy, IF game_over THEN "gone" ELSE "playing")
      BY <2>3, <2>4, <2>5, Names DEF G0!Turn
    <3>3. G0!ChildReadsGameOver(Enemy)
      BY <1>3, <2>1, <2>3, <3>1, <3>2, Stages
         DEF G0!ChildReadsGameOver, p0_private, G0!clock_vars, G0!priority_vars,
             G0!semaphore_vars, memory_vars, thread_vars, local_vars, main_vars,
             G0!memory_vars, G0!thread_vars, G0!local_vars, G0!main_vars
    <3> QED
      BY <3>3, Stages DEF G0!Next, G0!Children, G0!Child
  <2> QED
    BY <2>6, <2>7
<1> QED
  BY <1>2, <1>4, <1>5

\* P2 keeps its threads, and they stop when the controller does.
LEMMA EnemyWholeStep ==
  ASSUME IInv, P2!EnemyNext
  PROVE  EnemyWhole'
<1>1. /\ P2!Thread = {"main", "controller", "tracker", "detector"}
      /\ p2_pc = [t \in P2!Thread |-> p2_pc[t]]
      /\ ghost_pc \in [P2!Ghost -> G2!GhostLabel]
      /\ next_ghost["main"] \in P2!Ghost
      /\ G2!IInv /\ EnemyWhole
  BY EnemyLabels DEF IInv
<1> USE DEF P2!At, P2!Goto, P2!GhostGoto, P2!out_vars, P2!control_vars, P2!ghost_vars,
            G2!Judging, G2!StopLabel
<1>2. CASE \E g \in P2!Ghost : P2!GhostThread(g)
  <2>1. PICK g \in P2!Ghost : P2!GhostThread(g)
    BY <1>2
  <2>2. UNCHANGED <<p2_pc, exited, p2_should_stop>>
    BY <1>1, <2>1
       DEF EnemyWhole, P2!GhostThread, P2!load_ghost_instructions, P2!GhostRequestsStop,
           P2!GhostAwaitsTurn, P2!GhostReadsStop, P2!process_ghost_instruction, P2!GhostAnswers
  <2>3. /\ \A h \in P2!Ghost \ {g} : ghost_pc'[h] = ghost_pc[h]
        /\ ghost_pc'[g] # "stop"
        /\ p2_should_stop /\ ghost_pc[g] \notin {"act", "answer"} =>
             ghost_pc'[g] \notin {"act", "answer"}
    BY <1>1, <2>1
       DEF P2!GhostThread, P2!load_ghost_instructions, P2!GhostRequestsStop,
           P2!GhostAwaitsTurn, P2!GhostReadsStop, P2!process_ghost_instruction, P2!GhostAnswers
  <2> QED
    BY <1>1, <2>2, <2>3 DEF EnemyWhole, G2!Whole
<1>3. CASE P2!Tracker
  <2>1. /\ UNCHANGED <<ghost_pc, exited, p2_should_stop>>
        /\ \A t \in P2!Thread \ {"tracker"} : p2_pc'[t] = p2_pc[t]
    BY <1>1, <1>3
       DEF P2!Tracker, P2!TrackerAwaitsRequest, P2!ReadsStop, P2!TrackPacman, P2!TrackerAnswers
  <2> QED
    BY <1>1, <2>1 DEF EnemyWhole, G2!Whole
<1>4. CASE P2!Detector
  <2>1. /\ UNCHANGED <<ghost_pc, exited, p2_should_stop>>
        /\ \A t \in P2!Thread \ {"detector"} : p2_pc'[t] = p2_pc[t]
        /\ p2_pc'["detector"] # "unborn"
        /\ p2_should_stop /\ p2_pc["detector"] \notin G2!Judging =>
             p2_pc'["detector"] \notin G2!Judging
    BY <1>1, <1>4
       DEF P2!Detector, P2!DetectorAwaitsRequest, P2!ReadsStop, P2!CopyPacman, P2!CopyGhosts,
           P2!CopyTick, P2!publish_collision, P2!DetectorAnswers
  <2> QED
    BY <1>1, <2>1 DEF EnemyWhole, G2!Whole
<1>5. CASE P2!Controller
  <2>1. /\ UNCHANGED <<ghost_pc, exited>> /\ p2_pc["controller"] # "done"
        /\ \A t \in P2!Thread \ {"controller"} : p2_pc'[t] = p2_pc[t]
        /\ \/ p2_should_stop' = p2_should_stop
           \/ p2_pc["controller"] = "stop" /\ p2_pc'["controller"] = "stop_ghosts"
        /\ p2_pc["controller"] \in {"stop_ghosts", "stop_tracker", "stop_detector"} =>
             p2_pc'["controller"] \in {"stop_ghosts", "stop_tracker", "stop_detector", "done"}
    BY <1>1, <1>5
       DEF P2!Controller, P2!ControllerAwaitsTurn, P2!ControllerReadsGameOver,
           P2!post_all_ghost_turns, P2!wait_all_ghosts_done, P2!RequestTracker,
           P2!AwaitTracker, P2!RequestDetection, P2!AwaitDetection, P2!ControllerAnswers,
           P2!signal_helper_shutdown, P2!RequestStop, P2!ReleaseGhost, P2!ReleaseTracker,
           P2!ReleaseDetector, P2!EachGhost
  <2>2. Enemy \notin exited
    BY <1>1, <2>1 DEF EnemyWhole
  <2>3. CASE p2_should_stop' = p2_should_stop
    BY <1>1, <2>1, <2>2, <2>3 DEF EnemyWhole, G2!Whole
  <2>4. CASE p2_pc["controller"] = "stop" /\ p2_pc'["controller"] = "stop_ghosts"
    <3>1. /\ p2_pc["detector"] \notin G2!Judging
          /\ \A g \in P2!Ghost : ghost_pc[g] \notin {"act", "answer"}
      BY <2>4, HelpersAreAwaited
    <3> QED
      BY <1>1, <2>1, <2>2, <2>4, <3>1 DEF EnemyWhole, G2!Whole
  <2> QED
    BY <2>1, <2>3, <2>4
<1>6. CASE P2!CreateThread
  <2>1. /\ UNCHANGED <<exited, p2_should_stop>>
        /\ p2_pc["main"] \in {"create_controller", "create_ghosts", "create_tracker",
                              "create_detector"}
        /\ \/ p2_pc'["main"] \in {"create_ghosts", "create_tracker", "create_detector"}
           \/ p2_pc'["main"] = "join" /\ p2_pc'["detector"] = "wait"
        /\ p2_pc'["controller"] \in {p2_pc["controller"], "turn"}
        /\ p2_pc'["controller"] = p2_pc["controller"] \/ p2_pc["main"] = "create_controller"
        /\ p2_pc'["detector"] \in {p2_pc["detector"], "wait"}
    BY <1>1, <1>6 DEF P2!CreateThread, P2!EachGhost
  <2>2. \A g \in P2!Ghost : ghost_pc'[g] \in {ghost_pc[g], "load"}
    BY <1>1, <1>6 DEF P2!CreateThread
  <2>3. Enemy \notin exited
    BY <1>1, <2>1 DEF EnemyWhole
  <2>4. p2_pc["main"] = "create_controller" => p2_pc["controller"] = "unborn"
    BY <1>1 DEF G2!IInv, G2!Creation
  <2> QED
    BY <1>1, <2>1, <2>2, <2>3, <2>4 DEF EnemyWhole, G2!Whole, G2!Creating
<1>7. CASE P2!JoinThreads
  <2>1. /\ p2_pc["controller"] \in {"unborn", "done"} /\ p2_pc["main"] = "join"
        /\ p2_pc'["main"] = "exit"
        /\ \A t \in P2!Thread \ {"main"} : p2_pc'[t] = p2_pc[t]
        /\ UNCHANGED <<ghost_pc, p2_should_stop>>
    BY <1>1, <1>7 DEF P2!JoinThreads
  <2>2. p2_pc["detector"] # "unborn" /\ p2_pc["controller"] = "done"
    BY <1>1, <2>1 DEF EnemyWhole, G2!Whole, G2!Creating, G2!IInv, G2!Creation
  <2> QED
    BY <1>1, <2>1, <2>2 DEF EnemyWhole, G2!Whole
<1> QED
  BY <1>1, <1>2, <1>3, <1>4, <1>5, <1>6, <1>7
     DEF P2!EnemyNext, P2!ContextInitFails, P2!CreateFails, P2!Main, EnemyWhole,
         P2!signal_helper_shutdown, P2!RequestStop, P2!ReleaseGhost, P2!ReleaseTracker,
         P2!ReleaseDetector, P2!MainPostsTurn

\* Every step of P2 keeps the invariant.
LEMMA EnemyStep ==
  ASSUME IInv, P2Step(P2!EnemyNext)
  PROVE  IInv' /\ [G0!Next]_(G0!game_vars)
<1>1. P2!EnemyNext /\ UNCHANGED <<p0_private, p1_private, settled>>
  BY DEF P2Step
<1>2. [G0!Next]_(G0!game_vars)
  BY <1>1, GhostSeen, TrackerUnseen, DetectorSeen, ControllerSeen, EnemyMainSeen
     DEF P2Step, P2!EnemyNext, P2!ContextInitFails, P2!CreateFails
<1>3. G0!IInv'
  BY <1>2, G0!InvStep, Assumptions DEF IInv
<1>4. sem_turn \in [Process -> Nat] /\ sem_done \in [Process -> Nat]
  BY SharedMemory DEF IInv
<1>5. /\ UNCHANGED <<global_tick, game_over, pacman_at>>
      /\ sem_turn'[Pacman] = sem_turn[Pacman] /\ sem_done'[Pacman] = sem_done[Pacman]
      /\ (exited \cap {Pacman})' = exited \cap {Pacman}
      /\ Pacman \in exited' <=> Pacman \in exited
  BY <1>1, <1>4, EnemyFrame
<1>6. UNCHANGED <<pc, flags, main_pc, dispatched, status, caller>>
  BY <1>1 DEF p0_private, thread_vars, local_vars, main_vars
<1>7. UNCHANGED <<Awaiting, Unconsumed, Posted, TickOpen>>
  BY <1>6 DEF Awaiting, Unconsumed, Posted, TickOpen
<1>8. UNCHANGED <<P0SeenByPacman, P0SeenByEnemy, PacmanTurns, EnemyTurns>>
  BY <1>1, <1>5, <1>6, <1>7 DEF P0SeenByPacman, P0SeenByEnemy, PacmanTurns, EnemyTurns
<1>9. NoError' /\ Count' /\ Quiet'
  BY <1>1, <1>5, <1>6, <1>7 DEF IInv, NoError, Count, Quiet
<1>10. EnemyView
  <2>1. p2_pc["detector"] = "copy_tick" => pc["signal"] # "post"
    BY HelpersAreAwaited, EnemyHasTurn DEF G2!Judging, Driving
  <2>2. G2!EnemyNext
    BY <1>1, <1>4, <2>1, EnemySteps
  <2> QED
    BY <1>8, <2>2 DEF EnemyView, G2!Next
<1>11. PacmanView
  <2>1. G1!OthersMove
    BY <1>1, <1>3, <1>5, <1>8, ViewTypesNext, Names
       DEF G1!OthersMove, G1!MAX_PRIORITY, p1_private, G1!queue_vars, G1!reader_vars,
           G1!turn_vars, G1!out_vars
  <2> QED
    BY <2>1 DEF PacmanView
<1>12. G1!IInv' /\ G2!IInv'
  BY <1>10, <1>11, ViewsKeep
<1>13. PacmanWhole'
  BY <1>1, <1>5 DEF IInv, PacmanWhole, p1_private
<1>14. EnemyWhole'
  BY <1>1, EnemyWholeStep
<1> QED
  BY <1>2, <1>3, <1>9, <1>12, <1>13, <1>14 DEF IInv

-----------------------------------------------------------------------------
(* The program keeps the invariant, and what follows for its properties. *)

\* The invariant holds when the children have been forked.
LEMMA InvInit ==
  ASSUME Init
  PROVE  IInv /\ G0!Init
<1>1. /\ SchedulerInit /\ P1!PacmanInit /\ P2!EnemyInit /\ pacman_at = PacmanStart
      /\ settled.tick = 0 /\ settled.spent = 0
  BY DEF Init
<1>2. /\ pc = [t \in Thread |-> "unborn"] /\ main_pc = "init" /\ game_over = FALSE
      /\ flags = {} /\ status = "ok" /\ caller = "scheduler_run" /\ exited = {}
      /\ global_tick = 0 /\ collision = NoCollision /\ request_active = {}
      /\ sem_turn = [p \in Process |-> 0] /\ sem_done = [p \in Process |-> 0]
      /\ pending_priority \in [Process -> Priorities]
  BY <1>1 DEF SchedulerInit
<1>3. \A t \in {"tick", "scheduler", "signal", "collision"} : pc[t] = "unborn"
  BY <1>2 DEF Thread
<1>4. /\ p1_pc = [t \in P1!Thread |-> "unborn"] /\ p1_main_pc = "create_reader"
      /\ publish_requested = 0
  BY <1>1 DEF P1!PacmanInit
<1>5. /\ p2_pc = [t \in P2!Thread |-> IF t = "main" THEN "create_controller" ELSE "unborn"]
      /\ p2_should_stop = FALSE /\ ghost_pc = [g \in P2!Ghost |-> "unborn"]
  BY <1>1 DEF P2!EnemyInit
<1>6. ~Awaiting /\ ~Unconsumed /\ ~Posted /\ ~TickOpen
  BY <1>2, <1>3 DEF Awaiting, Unconsumed, Posted, TickOpen
<1>7. /\ P0SeenByPacman = "ready" /\ P0SeenByEnemy = "ready"
      /\ PacmanTurns = 0 /\ EnemyTurns = 0
      /\ AnswersSeen = [p \in Process |-> 0] /\ TickSeen = 0
  BY <1>1, <1>2, <1>3, <1>6
     DEF P0SeenByPacman, P0SeenByEnemy, PacmanTurns, EnemyTurns, AnswersSeen, TickSeen
<1>8. G0!Init
  <2>1. PacmanStage = "idle" /\ EnemyStage = "idle"
    <3>1. p1_pc["executor"] = "unborn" /\ p1_pc["publisher"] = "unborn" /\ p2_pc["controller"] = "unborn"
      BY <1>4, <1>5 DEF P1!Thread, P2!Thread
    <3> QED
      BY <1>2, <1>4, <3>1 DEF PacmanStage, EnemyStage, Publishing
  <2>2. G0!SchedulerInit
    BY <1>1, Names DEF SchedulerInit, G0!SchedulerInit
  <2>3. [p \in Process |-> IF p = Pacman THEN PacmanStage ELSE EnemyStage]
          = [k \in G0!Process |-> "idle"]
    BY <2>1, Names
  <2> QED
    BY <2>2, <2>3 DEF G0!Init
<1>9. G0!IInv
  BY <1>8, G0!InvInit, Assumptions
<1>10. pending_priority \in [Process -> 0..100]
  BY <1>2, Assumptions
<1>11. G1!IInv
  <2>1. G1!PacmanInit
    BY <1>1, Names DEF P1!PacmanInit, G1!PacmanInit, P1!NoInstruction, G1!NoInstruction
  <2>2. G1!Starts
    BY <1>1, <1>2, <1>7, <1>10, <2>1, Names DEF G1!Starts, G1!MAX_PRIORITY
  <2> QED
    BY <2>2, G1!InvInit, Assumptions
<1>12. G2!IInv
  <2>1. G2!EnemyInit
    BY <1>1, Names DEF P2!EnemyInit, G2!EnemyInit
  <2>2. G2!Starts
    BY <1>1, <1>2, <1>7, <1>10, <2>1, Names DEF G2!Starts, G2!MAX_PRIORITY
  <2> QED
    BY <2>2, G2!InvInit, Assumptions
<1>13. NoError /\ Count /\ Quiet
  BY <1>1, <1>2, <1>6 DEF NoError, Count, Quiet
<1>14. PacmanWhole
  BY <1>2, <1>4 DEF PacmanWhole, G1!Cleanup
<1>15. EnemyWhole
  <2>1. p2_pc["main"] = "create_controller"
    BY <1>5 DEF P2!Thread
  <2> QED
    BY <1>2, <1>5, <2>1 DEF EnemyWhole, G2!StopLabel, G2!Whole, G2!Creating
<1> QED
  BY <1>8, <1>9, <1>11, <1>12, <1>13, <1>14, <1>15 DEF IInv

\* A step of the program that changes nothing.
LEMMA Stutters ==
  ASSUME IInv, UNCHANGED game_vars
  PROVE  IInv' /\ UNCHANGED G0!game_vars
<1>1. /\ UNCHANGED <<vars, pacman_at, p1_private, p2_private, settled>>
  BY DEF game_vars
<1>2. /\ UNCHANGED <<global_tick, game_over, collision, pending_priority, request_active,
                     sem_turn, sem_done, exited, flags, pc, dispatched, main_pc, status, caller>>
      /\ UNCHANGED p0_private
  BY <1>1 DEF vars, clock_vars, priority_vars, semaphore_vars, p0_private, memory_vars,
              thread_vars, local_vars, main_vars
<1>3. UNCHANGED <<Awaiting, Unconsumed, Posted, TickOpen>>
  BY <1>2 DEF Awaiting, Unconsumed, Posted, TickOpen
<1>4. UNCHANGED <<P0SeenByPacman, P0SeenByEnemy, PacmanTurns, EnemyTurns, AnswersSeen, TickSeen>>
  BY <1>1, <1>2, <1>3
     DEF P0SeenByPacman, P0SeenByEnemy, PacmanTurns, EnemyTurns, AnswersSeen, TickSeen
<1>5. PacmanStage' = PacmanStage /\ EnemyStage' = EnemyStage
  BY <1>1, <1>2 DEF PacmanStage, Publishing, EnemyStage, p1_private, p2_private
<1>6. UNCHANGED G0!game_vars
  BY <1>2, <1>5, Unseen
<1>7. G0!IInv'
  BY <1>6, G0!InvStep, Assumptions DEF IInv
<1>8. Silent
  <2>1. SamePhase
    BY <1>2 DEF SamePhase, Awaiting, Unconsumed, Posted, TickOpen
  <2> QED
    BY <1>1, <1>2, <2>1 DEF Silent
<1>9. PacmanView /\ EnemyView /\ Count' /\ Quiet'
  BY <1>1, <1>7, <1>8, SilentViews
<1>10. G1!IInv' /\ G2!IInv'
  BY <1>9, ViewsKeep
<1>11. NoError' /\ PacmanWhole' /\ EnemyWhole'
  BY <1>1, <1>2
     DEF IInv, NoError, PacmanWhole, EnemyWhole, G2!Whole, p1_private, p2_private
<1> QED
  BY <1>6, <1>7, <1>9, <1>10, <1>11 DEF IInv

\* Every step of the program keeps the invariant, and is one that P0's
\* specification allows.
LEMMA InvStep ==
  ASSUME ~PacmanMayFail, IInv, [Next]_game_vars
  PROVE  IInv' /\ [G0!Next]_(G0!game_vars)
BY SchedulerStep, PacmanStep, EnemyStep, Stutters DEF Next, Finished

\* The joint invariant: that of P0, with the stages of its children, and those of
\* P1 and P2, with the turns P0 grants them, hold of the program together.  What
\* is assumed is that P1 can start: pthread_create and context_init succeed.
THEOREM Invariance ==
  ASSUME ~PacmanMayFail
  PROVE  Spec => []IInv
<1>1. Init => IInv
  BY InvInit
<1>2. IInv /\ [Next]_game_vars => IInv'
  BY InvStep
<1> QED
  BY <1>1, <1>2, PTL DEF Spec

\* The two instances of P0's specification are one and the same: that of the
\* property, and that of the proofs.
LEMMA SameSpecification ==
  /\ G0!Init => AsSeenByP0!Init
  /\ [G0!Next]_(G0!game_vars) => [AsSeenByP0!Next]_(AsSeenByP0!game_vars)
<1> USE DEF G0!Process, AsSeenByP0!Process, G0!Pacman, AsSeenByP0!Pacman, G0!Enemy,
            AsSeenByP0!Enemy, G0!clock_vars, AsSeenByP0!clock_vars, G0!priority_vars,
            AsSeenByP0!priority_vars, G0!semaphore_vars, AsSeenByP0!semaphore_vars,
            G0!local_vars, AsSeenByP0!local_vars, G0!thread_vars, AsSeenByP0!thread_vars,
            G0!memory_vars, AsSeenByP0!memory_vars, G0!main_vars, AsSeenByP0!main_vars,
            G0!vars, AsSeenByP0!vars, G0!game_vars, AsSeenByP0!game_vars
<1>1. G0!Init => AsSeenByP0!Init
  BY DEF G0!Init, AsSeenByP0!Init, G0!SchedulerInit, AsSeenByP0!SchedulerInit, G0!NoCollision,
         AsSeenByP0!NoCollision, G0!Thread, AsSeenByP0!Thread
<1>2. G0!SchedulerNext => AsSeenByP0!SchedulerNext
  <2> USE DEF G0!Running, AsSeenByP0!Running, G0!Goto, AsSeenByP0!Goto, G0!Stopping,
              AsSeenByP0!Stopping, G0!AwaitFlag, AsSeenByP0!AwaitFlag
  <2>1. G0!TickThread => AsSeenByP0!TickThread
    BY DEF G0!TickThread, AsSeenByP0!TickThread, G0!TickAdvance, AsSeenByP0!TickAdvance,
           G0!TickEnds, AsSeenByP0!TickEnds, G0!TickStops, AsSeenByP0!TickStops, G0!TickOpens,
           AsSeenByP0!TickOpens, G0!TickCloses, AsSeenByP0!TickCloses
  <2>2. G0!SchedulerThread => AsSeenByP0!SchedulerThread
    BY DEF G0!SchedulerThread, AsSeenByP0!SchedulerThread, G0!SchedulerAwaitsTick,
           AsSeenByP0!SchedulerAwaitsTick, G0!scheduler_apply_priority_requests,
           AsSeenByP0!scheduler_apply_priority_requests, G0!scheduler_select_next_process,
           AsSeenByP0!scheduler_select_next_process, G0!SchedulerPublishes,
           AsSeenByP0!SchedulerPublishes, G0!Preferred, AsSeenByP0!Preferred, G0!Other,
           AsSeenByP0!Other, G0!is_priority_in_range, AsSeenByP0!is_priority_in_range,
           G0!MIN_PRIORITY, AsSeenByP0!MIN_PRIORITY, G0!MAX_PRIORITY, AsSeenByP0!MAX_PRIORITY
  <2>3. G0!SignalThread => AsSeenByP0!SignalThread
    BY DEF G0!SignalThread, AsSeenByP0!SignalThread, G0!SignalAwaitsSelection,
           AsSeenByP0!SignalAwaitsSelection, G0!PostTurn, AsSeenByP0!PostTurn, G0!WaitDone,
           AsSeenByP0!WaitDone, G0!SignalCompletes, AsSeenByP0!SignalCompletes
  <2>4. G0!CollisionThread => AsSeenByP0!CollisionThread
    BY DEF G0!CollisionThread, AsSeenByP0!CollisionThread, G0!CollisionAwaitsTurn,
           AsSeenByP0!CollisionAwaitsTurn, G0!ConsumeCollision, AsSeenByP0!ConsumeCollision,
           G0!decrement_life_for_collision, AsSeenByP0!decrement_life_for_collision,
           G0!read_game_over, AsSeenByP0!read_game_over, G0!CollisionReports,
           AsSeenByP0!CollisionReports, G0!NoCollision, AsSeenByP0!NoCollision
  <2>5. G0!MainThread => AsSeenByP0!MainThread
    BY DEF G0!MainThread, AsSeenByP0!MainThread, G0!runtime_init, AsSeenByP0!runtime_init,
           G0!CreateThread, AsSeenByP0!CreateThread, G0!CancelThreads,
           AsSeenByP0!CancelThreads, G0!JoinThreads, AsSeenByP0!JoinThreads,
           G0!set_game_over, AsSeenByP0!set_game_over, G0!PostPacmanShutdown,
           AsSeenByP0!PostPacmanShutdown, G0!PostEnemyShutdown, AsSeenByP0!PostEnemyShutdown,
           G0!WaitChildren, AsSeenByP0!WaitChildren, G0!StartLabel, AsSeenByP0!StartLabel,
           G0!CreationOrder, AsSeenByP0!CreationOrder, G0!ThreadCount, AsSeenByP0!ThreadCount
  <2>6. G0!Failure => AsSeenByP0!Failure
    BY DEF G0!Failure, AsSeenByP0!Failure, G0!RuntimeInitFails, AsSeenByP0!RuntimeInitFails,
           G0!CreateFails, AsSeenByP0!CreateFails, G0!SpuriousWakeup,
           AsSeenByP0!SpuriousWakeup, G0!ThreadFails, AsSeenByP0!ThreadFails, G0!Thread,
           AsSeenByP0!Thread, G0!ThreadCount, AsSeenByP0!ThreadCount
  <2> QED
    BY <2>1, <2>2, <2>3, <2>4, <2>5, <2>6 DEF G0!SchedulerNext, AsSeenByP0!SchedulerNext
<1>3. G0!Children => AsSeenByP0!Children
  BY DEF G0!Children, AsSeenByP0!Children, G0!Child, AsSeenByP0!Child, G0!ChildWakes,
         AsSeenByP0!ChildWakes, G0!ChildReadsGameOver, AsSeenByP0!ChildReadsGameOver,
         G0!ChildRequests, AsSeenByP0!ChildRequests, G0!ChildFinishes, AsSeenByP0!ChildFinishes,
         G0!EnemyPublishes, AsSeenByP0!EnemyPublishes, G0!PacmanDropsTurn,
         AsSeenByP0!PacmanDropsTurn, G0!Turn, AsSeenByP0!Turn
<1> QED
  BY <1>1, <1>2, <1>3 DEF G0!Next, AsSeenByP0!Next, G0!Finished, AsSeenByP0!Finished

\* The children of the program are those P0's specification assumes: what
\* ScheduledGameProofs proves of P0 with any children that keep to their stages
\* holds of the program.
THEOREM ChildrenAreAsAssumed ==
  ASSUME ~PacmanMayFail
  PROVE  Spec => ChildrenAsAssumed
<1>1. Init => AsSeenByP0!Init
  BY InvInit, SameSpecification
<1>2. IInv /\ [Next]_game_vars => [AsSeenByP0!Next]_(AsSeenByP0!game_vars)
  BY InvStep, SameSpecification
<1>3. Spec => []IInv
  BY Invariance
<1> QED
  BY <1>1, <1>2, <1>3, PTL DEF Spec, ChildrenAsAssumed, AsSeenByP0!Spec

\* A child moves within its turn.
LEMMA ActsInTurn ==
  ASSUME IInv
  PROVE  ActsOnlyInItsTurn
<1>1. ASSUME p1_pc["executor"] = "process" \/ p1_pc["publisher"] = "store"
      PROVE  pc["signal"] = "await_done" /\ dispatched = Pacman /\ sem_done[Pacman] = 0
  <2>1. P0SeenByPacman = "waiting" /\ sem_done[Pacman] = 0
    <3>1. CASE p1_pc["executor"] = "process"
      <4>1. ~game_over /\ G1!IInv /\ G1!Whole
        BY <3>1, PacmanIsWhole DEF IInv, PacmanWhole, G1!Playing
      <4>2. P0SeenByPacman # "ready" /\ sem_done[Pacman] = 0
        BY <3>1, <4>1, G1!TurnIsOne, Assumptions, Names DEF G1!Playing
      <4> QED
        BY <4>1, <4>2 DEF G1!IInv, G1!OverEnds
    <3>2. CASE p1_pc["publisher"] = "store"
      BY <3>2, PublisherIsLast
    <3> QED
      BY <1>1, <3>1, <3>2
  <2> QED
    BY <2>1 DEF P0SeenByPacman, Awaiting
<1>2. ASSUME \/ \E g \in P2!Ghost : ghost_pc[g] = "act"
             \/ p2_pc["detector"] = "publish"
      PROVE  pc["signal"] = "await_done" /\ dispatched = Enemy /\ sem_done[Enemy] = 0
  <2>1. p2_pc["controller"] \in Driving
    BY <1>2, HelpersAreAwaited DEF G2!Judging, Driving
  <2>2. P0SeenByEnemy = "waiting" /\ AnswersSeen[Enemy] = 0
    BY <2>1, EnemyHasTurn
  <2>3. (Awaiting \/ Unconsumed) /\ dispatched = Enemy
    BY <2>2 DEF P0SeenByEnemy
  <2>4. sem_done \in [Process -> Nat]
    BY SharedMemory DEF IInv
  <2>5. ~Unconsumed
    <3>1. SUFFICES ASSUME Unconsumed
                   PROVE  FALSE
      OBVIOUS
    <3>2. AnswersSeen[Enemy] = sem_done[Enemy] + 1 /\ sem_done[Enemy] \in Nat
      BY <2>3, <2>4, <3>1, Names DEF AnswersSeen
    <3> QED
      BY <2>2, <3>2
  <2> QED
    BY <2>2, <2>3, <2>5 DEF AnswersSeen, Awaiting
<1> QED
  BY <1>1, <1>2 DEF ActsOnlyInItsTurn

\* A thread that moves a player, publishes its position or asks for a priority does
\* so within a turn that P0 has granted to its process and still waits for.
THEOREM ChildrenActInTurn ==
  ASSUME ~PacmanMayFail
  PROVE  Spec => []ActsOnlyInItsTurn
<1>1. IInv => ActsOnlyInItsTurn
  BY ActsInTurn
<1>2. Spec => []IInv
  BY Invariance
<1> QED
  BY <1>1, <1>2, PTL
=============================================================================
