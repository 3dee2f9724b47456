---------------------------- MODULE PacmanPosix ----------------------------
(***************************************************************************)
(* The program: P0, P1 and P2 together, over the memory they share.  Each  *)
(* process keeps its own module; what has the same name in two of them is  *)
(* one object of shared_state_t.  The run starts when main() has forked    *)
(* both children and calls scheduler_run.                                  *)
(***************************************************************************)
EXTENDS Scheduler, Sequences

CONSTANTS
  Rows, Cols, Walls,          \* the map
  Moves, GhostMoves,          \* the lines of the movement files
  PacmanStart, GhostStart,    \* the positions the map gives
  PacmanMayFail               \* may context_init or pthread_create fail in P1?

VARIABLES
  pacman_at,      \* pacman_x, pacman_y of shared_state_t
  \* P1
  queue, reader_done, p1_should_stop, available, local_at, publish_requested,
  p1_pc, next_line, held, snapshot, p1_main_pc, executed,
  \* P2
  p2_should_stop, tracked, tracker_requested, tracker_done,
  collision_requested, collision_done, ghost_at, left, turn_requested,
  turn_done, ghost_pc, p2_pc, next_ghost, seen_pacman, seen_ghosts, seen_tick,
  \* history: the game as it stood when P0 closed the last tick
  settled

P1 == INSTANCE PacmanProcess WITH
  Start <- PacmanStart, InputMayFail <- FALSE, StartMayFail <- PacmanMayFail,
  should_stop <- p1_should_stop, pc <- p1_pc, main_pc <- p1_main_pc

P2 == INSTANCE EnemyProcess WITH
  InputMayFail <- FALSE, StartMayFail <- FALSE,
  should_stop <- p2_should_stop, pc <- p2_pc

\* What main() has checked before it forks: the positions are open cells (map.c),
\* every line of the files has been accepted (movement.c), and the priorities
\* the children may ask for are among those in use.
ASSUME PosixAssumption ==
  /\ Rows \in Nat /\ Cols \in Nat
  /\ Walls \subseteq (0..Cols-1) \X (0..Rows-1)
  /\ GhostCount \in Nat \ {0}
  /\ PacmanStart \in P1!Open /\ GhostStart \in [1..GhostCount -> P1!Open]
  /\ DOMAIN GhostMoves = 1..GhostCount
  /\ \A file \in {Moves} \cup {GhostMoves[g] : g \in 1..GhostCount} :
       /\ file \in Seq(P1!Line)
       /\ \A i \in DOMAIN file :
            file[i].type = "SET_PRIORITY" /\ P1!parse_instruction_accepts(file[i])
              => file[i].priority \in Priorities
  /\ PacmanMayFail \in BOOLEAN

p0_private == <<pacman_lives, prioridad, memory_vars, thread_vars, local_vars,
                main_vars>>
p1_private == <<queue, reader_done, p1_should_stop, available, local_at,
                publish_requested, p1_pc, next_line, held, snapshot,
                p1_main_pc, executed>>
p2_private == <<p2_should_stop, tracked, tracker_requested, tracker_done,
                collision_requested, collision_done, ghost_at, left,
                turn_requested, turn_done, ghost_pc, p2_pc, next_ghost,
                seen_pacman, seen_ghosts, seen_tick>>
game_vars == <<vars, pacman_at, p1_private, p2_private, settled>>

-----------------------------------------------------------------------------
Rules == INSTANCE GameRules WITH
  tick <- settled.tick, lives <- settled.lives, pacman <- settled.pacman,
  ghosts <- settled.ghosts, played <- settled.played, spent <- settled.spent,
  missed <- settled.missed, prio <- settled.prio, asked <- settled.asked,
  tie <- settled.tie

\* What a reader of the shared memory, and of the threads' positions, finds
\* when a tick closes.  Only two fields are counted here: the turns of the
\* ghosts, and whether Pac-Man had a line left and did not carry one out.
Snapshot ==
  [tick   |-> global_tick,
   lives  |-> pacman_lives,
   pacman |-> pacman_at,
   ghosts |-> ghost_at,
   played |-> Len(executed),
   spent  |-> settled.spent + (IF dispatched = Enemy THEN 1 ELSE 0),
   missed |-> \/ settled.missed
              \/ /\ dispatched = Pacman
                 /\ Len(executed) = settled.played
                 /\ settled.played < Len(Rules!Parsed(Moves)),
   prio   |-> prioridad,
   asked  |-> [p \in Process |-> IF p \in request_active
                 THEN pending_priority[p] ELSE Rules!NoRequest],
   tie    |-> last_round_robin]

CollisionCloses == pc["collision"] = "report" /\ pc'["collision"] = "wait"

Record == settled' = IF CollisionCloses THEN Snapshot ELSE settled

-----------------------------------------------------------------------------
(* The composition.  The failures of P0 and spurious wakeups are left to   *)
(* ScheduledGame, which covers them for any children.                      *)

P0Step(A) == A /\ UNCHANGED <<pacman_at, p1_private, p2_private>> /\ Record

P1Step(A) == A /\ UNCHANGED <<global_tick, collision, p0_private, p2_private, settled>>

P2Step(A) == A /\ UNCHANGED <<p0_private, p1_private, settled>>

P0Threads == TickThread \/ SchedulerThread \/ SignalThread \/ CollisionThread
               \/ MainThread

\* The program has returned from main().
Finished == main_pc = "exit" /\ UNCHANGED game_vars

Init ==
  /\ SchedulerInit
  /\ pacman_at = PacmanStart
  /\ P1!PacmanInit
  /\ P2!EnemyInit
  /\ settled = [tick |-> 0, lives |-> InitialLives, pacman |-> PacmanStart,
                ghosts |-> GhostStart, played |-> 0, spent |-> 0,
                missed |-> FALSE, prio |-> prioridad,
                asked |-> Rules!Silence, tie |-> Enemy]

Next ==
  \/ P0Step(P0Threads)
  \/ P1Step(P1!PacmanNext)
  \/ P2Step(P2!EnemyNext)
  \/ Finished

Spec == Init /\ [][Next]_game_vars

\* A process with a thread that can run does run.  This is less than the
\* fairness per thread of the other modules, and enough here: no thread can
\* go on for ever without the others.
Fairness ==
  /\ WF_game_vars(P0Step(P0Threads))
  /\ WF_game_vars(P1Step(P1!PacmanNext))
  /\ WF_game_vars(P2Step(P2!EnemyNext))

FairSpec == Spec /\ Fairness

-----------------------------------------------------------------------------
(* What P0 sees of its children. *)

\* P1 has an answer to give from the turn on until the publisher has posted.
Publishing == publish_requested > 0 \/ p1_pc["publisher"] \notin {"unborn", "wait", "done"}

PacmanStage ==
  IF Pacman \in exited THEN "gone"
  ELSE IF p1_pc["executor"] \in {"try", "check", "await", "pop", "process", "publish"}
    THEN "playing"
  ELSE IF p1_pc["executor"] \in {"unborn", "turn"}
    THEN IF Publishing THEN "playing" ELSE "idle"
  ELSE "woken"

EnemyStage ==
  IF Enemy \in exited THEN "gone"
  ELSE IF p2_pc["controller"] \in {"unborn", "turn"} THEN "idle"
  ELSE IF p2_pc["controller"] \in {"post_ghosts", "wait_ghosts", "post_tracker",
            "wait_tracker", "post_detector", "wait_detector", "answer"}
    THEN IF collision = NoCollision THEN "playing" ELSE "reported"
  ELSE "woken"

AsSeenByP0 == INSTANCE ScheduledGame WITH
  child <- [p \in Process |-> IF p = Pacman THEN PacmanStage ELSE EnemyStage]

-----------------------------------------------------------------------------
\* The children behave as P0's own specification assumes they do, so that
\* what is checked and proved of ScheduledGame holds of the program.
ChildrenAsAssumed == AsSeenByP0!Spec

\* The threads play the game by the rules: from one closed tick to the next,
\* positions, lives, priorities and requests change as the files say, whatever
\* the interleaving, and Pac-Man misses at most one turn.
PlaysByTheRules == Rules!Spec

\* A thread that moves a player, or asks for a priority, does so within a turn
\* P0 has granted to its process and still waits for: P1 and P2 never act at
\* the same time, nor while P0 settles a tick.
ActsOnlyInItsTurn ==
  LET InTurn(p) == pc["signal"] = "await_done" /\ dispatched = p /\ sem_done[p] = 0
  IN  /\ p1_pc["executor"] = "process" \/ p1_pc["publisher"] = "store" => InTurn(Pacman)
      /\ \A g \in P2!Ghost : ghost_pc[g] = "act" => InTurn(Enemy)
      /\ p2_pc["detector"] = "publish" => InTurn(Enemy)

\* The program ends: P0 and both its children, with every thread joined.
Termination == <>(main_pc = "exit")

\* A process that has ended is waited for (processes_wait), and does not stay
\* a zombie.  (TEST_PLAN.md:193: "P1 y P2 finalizan sin procesos zombies".)
NoZombie == Pacman \in exited ~> main_pc = "exit"
=============================================================================
