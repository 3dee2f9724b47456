---------------------------- MODULE EnemyProcess ----------------------------
(***************************************************************************)
(* P2, the enemy process (src/src/enemy.c).  Its main thread creates and   *)
(* joins the others:                                                       *)
(*   controller  takes a turn from P0, drives the helpers, answers P0      *)
(*   a thread per ghost, which carries out one instruction per turn        *)
(*   tracker     copies the published position of Pac-Man                  *)
(*   detector    compares positions and publishes the collision            *)
(* (the detector is collision_thread).  The controller starts a helper     *)
(* with one semaphore and waits for it on another.  An action is one       *)
(* critical section or one semaphore operation; no thread of P2 holds two  *)
(* mutexes.  The calls on mutexes and semaphores are assumed to succeed.   *)
(***************************************************************************)
EXTENDS Instructions

CONSTANTS
  GhostCount,              \* PACMAN_GHOST_COUNT
  GhostMoves,              \* the lines of each ghost_<n>_moves.txt
  GhostStart, PacmanStart, \* the positions the map gives
  InputMayFail,            \* may a ghost fail to load its file?
  StartMayFail             \* may context_init or pthread_create fail?

VARIABLES
  \* shared_state_t, the part P2 uses
  global_tick, game_over, pacman_at, collision, pending_priority,
  request_active, sem_turn, sem_done, exited,
  \* EnemyContext
  should_stop, tracked, tracker_requested, tracker_done,
  collision_requested, collision_done,
  \* GhostContext, per ghost: position, instructions left, semaphores
  ghost_at, left, turn_requested, turn_done, ghost_pc,
  \* the other threads, the loop counters, and the locals of detect_collision
  pc, next_ghost, seen_pacman, seen_ghosts, seen_tick

mailbox_vars  == <<pending_priority, request_active>>
out_vars      == <<collision, sem_done, exited>>
helper_vars   == <<tracker_requested, tracker_done, collision_requested,
                   collision_done>>
ghost_vars    == <<ghost_at, left, ghost_pc>>
ghost_sems    == <<turn_requested, turn_done>>
detector_vars == <<seen_pacman, seen_ghosts, seen_tick>>
control_vars  == <<pc, next_ghost>>
vars == <<global_tick, game_over, pacman_at, out_vars, mailbox_vars, sem_turn,
          should_stop, tracked, helper_vars, ghost_vars, ghost_sems,
          control_vars, detector_vars>>

p0_owned == <<global_tick, game_over, pacman_at>>

Ghost  == 1..GhostCount
Thread == {"main", "controller", "tracker", "detector"}
NoCollision == [tick |-> -1, ghost |-> -1]

At(t, label)   == pc[t] = label
Goto(t, label) == pc' = [pc EXCEPT ![t] = label]

\* for (i = 0; i < PACMAN_GHOST_COUNT; ++i): thread t does its step for the
\* next ghost and, after the last one, goes on to "label".
EachGhost(t, label) ==
  /\ next_ghost' = [next_ghost EXCEPT ![t] = IF @ = GhostCount THEN 1 ELSE @ + 1]
  /\ IF next_ghost[t] = GhostCount THEN Goto(t, label) ELSE UNCHANGED pc

-----------------------------------------------------------------------------
(* ghost_thread *)

GhostGoto(g, label) == ghost_pc' = [ghost_pc EXCEPT ![g] = label]

\* load_ghost_instructions, which no other thread sees.
load_ghost_instructions(g) ==
  /\ ghost_pc[g] = "load"
  /\ \/ /\ left' = [left EXCEPT ![g] = Parsed(GhostMoves[g])]
        /\ GhostGoto(g, "turn")
     \/ /\ InputMayFail
        /\ GhostGoto(g, "stop")
        /\ UNCHANGED left
  /\ UNCHANGED <<p0_owned, out_vars, mailbox_vars, sem_turn, should_stop,
                 tracked, helper_vars, ghost_at, ghost_sems, control_vars,
                 detector_vars>>

\* request_stop after a failed load; the thread still enters its loop.
GhostRequestsStop(g) ==
  /\ ghost_pc[g] = "stop"
  /\ should_stop' = TRUE
  /\ GhostGoto(g, "turn")
  /\ UNCHANGED <<p0_owned, out_vars, mailbox_vars, sem_turn, tracked,
                 helper_vars, ghost_at, left, ghost_sems, control_vars,
                 detector_vars>>

\* Mutant: the ghost does not consume its turn.
GhostAwaitsTurn_keeps_token(g) ==
  /\ ghost_pc[g] = "turn"
  /\ turn_requested[g] > 0
  /\ GhostGoto(g, "read_stop")
  /\ UNCHANGED <<p0_owned, out_vars, mailbox_vars, sem_turn, should_stop,
                 tracked, helper_vars, ghost_at, left, ghost_sems, control_vars,
                 detector_vars>>

GhostAwaitsTurn(g) ==
  /\ ghost_pc[g] = "turn"
  /\ turn_requested[g] > 0
  /\ turn_requested' = [turn_requested EXCEPT ![g] = @ - 1]
  /\ GhostGoto(g, "read_stop")
  /\ UNCHANGED <<p0_owned, out_vars, mailbox_vars, sem_turn, should_stop,
                 tracked, helper_vars, ghost_at, left, turn_done, control_vars,
                 detector_vars>>

GhostReadsStop(g) ==
  /\ ghost_pc[g] = "read_stop"
  /\ GhostGoto(g, IF should_stop THEN "done" ELSE "act")
  /\ UNCHANGED <<p0_owned, out_vars, mailbox_vars, sem_turn, should_stop,
                 tracked, helper_vars, ghost_at, left, ghost_sems,
                 control_vars, detector_vars>>

\* pop_instruction, and process_ghost_instruction if there is one: either
\* request_enemy_priority_change or apply_ghost_move.
process_ghost_instruction(g) ==
  /\ ghost_pc[g] = "act"
  /\ \/ /\ left[g] = <<>>
        /\ UNCHANGED <<left, ghost_at, mailbox_vars>>
     \/ /\ left[g] # <<>>
        /\ left' = [left EXCEPT ![g] = Tail(@)]
        /\ \/ /\ Head(left[g]).type = "MOVE"
              /\ ghost_at' = [ghost_at EXCEPT
                                ![g] = Moved(@, Head(left[g]).direction)]
              /\ UNCHANGED mailbox_vars
           \/ /\ Head(left[g]).type = "SET_PRIORITY"
              /\ pending_priority' =
                   [pending_priority EXCEPT ![Enemy] = Head(left[g]).priority]
              /\ request_active' = request_active \cup {Enemy}
              /\ UNCHANGED ghost_at
  /\ GhostGoto(g, "answer")
  /\ UNCHANGED <<p0_owned, out_vars, sem_turn, should_stop, tracked,
                 helper_vars, ghost_sems, control_vars, detector_vars>>

GhostAnswers(g) ==
  /\ ghost_pc[g] = "answer"
  /\ turn_done' = [turn_done EXCEPT ![g] = @ + 1]
  /\ GhostGoto(g, "turn")
  /\ UNCHANGED <<p0_owned, out_vars, mailbox_vars, sem_turn, should_stop,
                 tracked, helper_vars, ghost_at, left, turn_requested,
                 control_vars, detector_vars>>

GhostThread(g) ==
  \/ load_ghost_instructions(g) \/ GhostRequestsStop(g)
  \/ GhostAwaitsTurn(g) \/ GhostReadsStop(g)
  \/ process_ghost_instruction(g) \/ GhostAnswers(g)

-----------------------------------------------------------------------------
(* pacman_tracker_thread *)

TrackerAwaitsRequest ==
  /\ At("tracker", "wait")
  /\ tracker_requested > 0
  /\ tracker_requested' = tracker_requested - 1
  /\ Goto("tracker", "read_stop")
  /\ UNCHANGED <<p0_owned, out_vars, mailbox_vars, sem_turn, should_stop,
                 tracked, tracker_done, collision_requested, collision_done,
                 ghost_vars, ghost_sems, next_ghost, detector_vars>>

\* is_stop_requested, in a helper thread.
ReadsStop(t, label) ==
  /\ At(t, "read_stop")
  /\ Goto(t, IF should_stop THEN "done" ELSE label)
  /\ UNCHANGED <<p0_owned, out_vars, mailbox_vars, sem_turn, should_stop,
                 tracked, helper_vars, ghost_vars, ghost_sems, next_ghost,
                 detector_vars>>

\* Mutant: the copy of Pac-Man is not refreshed.
TrackPacman_stale ==
  /\ At("tracker", "track")
  /\ Goto("tracker", "answer")
  /\ UNCHANGED <<p0_owned, out_vars, mailbox_vars, sem_turn, should_stop,
                 tracked, helper_vars, ghost_vars, ghost_sems, next_ghost,
                 detector_vars>>

\* The position is read under state_mutex and kept under pacman_mutex; only
\* the tracker thread writes the copy.
TrackPacman ==
  /\ At("tracker", "track")
  /\ tracked' = pacman_at
  /\ Goto("tracker", "answer")
  /\ UNCHANGED <<p0_owned, out_vars, mailbox_vars, sem_turn, should_stop,
                 helper_vars, ghost_vars, ghost_sems, next_ghost, detector_vars>>

\* Mutant: the tracker does not answer.
TrackerAnswers_no_post ==
  /\ At("tracker", "answer")
  /\ Goto("tracker", "wait")
  /\ UNCHANGED <<p0_owned, out_vars, mailbox_vars, sem_turn, should_stop,
                 tracked, helper_vars, ghost_vars, ghost_sems, next_ghost,
                 detector_vars>>

TrackerAnswers ==
  /\ At("tracker", "answer")
  /\ tracker_done' = tracker_done + 1
  /\ Goto("tracker", "wait")
  /\ UNCHANGED <<p0_owned, out_vars, mailbox_vars, sem_turn, should_stop,
                 tracked, tracker_requested, collision_requested,
                 collision_done, ghost_vars, ghost_sems, next_ghost,
                 detector_vars>>

Tracker == TrackerAwaitsRequest \/ ReadsStop("tracker", "track")
             \/ TrackPacman \/ TrackerAnswers

-----------------------------------------------------------------------------
(* collision_thread *)

DetectorAwaitsRequest ==
  /\ At("detector", "wait")
  /\ collision_requested > 0
  /\ collision_requested' = collision_requested - 1
  /\ Goto("detector", "read_stop")
  /\ UNCHANGED <<p0_owned, out_vars, mailbox_vars, sem_turn, should_stop,
                 tracked, tracker_requested, tracker_done, collision_done,
                 ghost_vars, ghost_sems, next_ghost, detector_vars>>

\* detect_collision copies, under one mutex after the other, the position of
\* Pac-Man, those of the ghosts, and the tick ...
CopyPacman ==
  /\ At("detector", "copy_pacman")
  /\ seen_pacman' = tracked
  /\ Goto("detector", "copy_ghosts")
  /\ UNCHANGED <<p0_owned, out_vars, mailbox_vars, sem_turn, should_stop,
                 tracked, helper_vars, ghost_vars, ghost_sems, next_ghost,
                 seen_ghosts, seen_tick>>

CopyGhosts ==
  /\ At("detector", "copy_ghosts")
  /\ seen_ghosts' = ghost_at
  /\ Goto("detector", "copy_tick")
  /\ UNCHANGED <<p0_owned, out_vars, mailbox_vars, sem_turn, should_stop,
                 tracked, helper_vars, ghost_vars, ghost_sems, next_ghost,
                 seen_pacman, seen_tick>>

Colliding == {g \in Ghost : seen_ghosts[g] = seen_pacman}

CopyTick ==
  /\ At("detector", "copy_tick")
  /\ seen_tick' = global_tick
  /\ Goto("detector", IF Colliding = {} THEN "answer" ELSE "publish")
  /\ UNCHANGED <<p0_owned, out_vars, mailbox_vars, sem_turn, should_stop,
                 tracked, helper_vars, ghost_vars, ghost_sems, next_ghost,
                 seen_pacman, seen_ghosts>>

\* ... and publishes the first ghost that has met Pac-Man.
publish_collision ==
  /\ At("detector", "publish")
  /\ \E g \in Colliding :
       /\ \A h \in Colliding : g <= h
       /\ collision' = [tick |-> seen_tick, ghost |-> g]
  /\ Goto("detector", "answer")
  /\ UNCHANGED <<p0_owned, sem_done, exited, mailbox_vars, sem_turn,
                 should_stop, tracked, helper_vars, ghost_vars, ghost_sems,
                 next_ghost, detector_vars>>

DetectorAnswers ==
  /\ At("detector", "answer")
  /\ collision_done' = collision_done + 1
  /\ Goto("detector", "wait")
  /\ UNCHANGED <<p0_owned, out_vars, mailbox_vars, sem_turn, should_stop,
                 tracked, tracker_requested, tracker_done,
                 collision_requested, ghost_vars, ghost_sems, next_ghost,
                 detector_vars>>

Detector == DetectorAwaitsRequest \/ ReadsStop("detector", "copy_pacman")
              \/ CopyPacman \/ CopyGhosts \/ CopyTick \/ publish_collision
              \/ DetectorAnswers

-----------------------------------------------------------------------------
(* enemy_controller_thread *)

ControllerAwaitsTurn ==
  /\ At("controller", "turn")
  /\ sem_turn[Enemy] > 0
  /\ sem_turn' = [sem_turn EXCEPT ![Enemy] = @ - 1]
  /\ Goto("controller", "read_over")
  /\ UNCHANGED <<p0_owned, out_vars, mailbox_vars, should_stop, tracked,
                 helper_vars, ghost_vars, ghost_sems, next_ghost, detector_vars>>

ControllerReadsGameOver ==
  /\ At("controller", "read_over")
  /\ Goto("controller", IF game_over THEN "stop" ELSE "post_ghosts")
  /\ UNCHANGED <<p0_owned, out_vars, mailbox_vars, sem_turn, should_stop,
                 tracked, helper_vars, ghost_vars, ghost_sems, next_ghost,
                 detector_vars>>

post_all_ghost_turns ==
  /\ At("controller", "post_ghosts")
  /\ turn_requested' = [turn_requested EXCEPT ![next_ghost["controller"]] = @ + 1]
  /\ EachGhost("controller", "wait_ghosts")
  /\ UNCHANGED <<p0_owned, out_vars, mailbox_vars, sem_turn, should_stop,
                 tracked, helper_vars, ghost_vars, turn_done, detector_vars>>

\* Mutant: the ghosts are not awaited.
wait_all_ghosts_done_no_wait ==
  /\ At("controller", "wait_ghosts")
  /\ EachGhost("controller", "post_tracker")
  /\ UNCHANGED <<p0_owned, out_vars, mailbox_vars, sem_turn, should_stop,
                 tracked, helper_vars, ghost_vars, ghost_sems, detector_vars>>

wait_all_ghosts_done ==
  /\ At("controller", "wait_ghosts")
  /\ turn_done[next_ghost["controller"]] > 0
  /\ turn_done' = [turn_done EXCEPT ![next_ghost["controller"]] = @ - 1]
  /\ EachGhost("controller", "post_tracker")
  /\ UNCHANGED <<p0_owned, out_vars, mailbox_vars, sem_turn, should_stop,
                 tracked, helper_vars, ghost_vars, turn_requested, detector_vars>>

RequestTracker ==
  /\ At("controller", "post_tracker")
  /\ tracker_requested' = tracker_requested + 1
  /\ Goto("controller", "wait_tracker")
  /\ UNCHANGED <<p0_owned, out_vars, mailbox_vars, sem_turn, should_stop,
                 tracked, tracker_done, collision_requested, collision_done,
                 ghost_vars, ghost_sems, next_ghost, detector_vars>>

\* Mutant: the tracker is not awaited.
AwaitTracker_no_wait ==
  /\ At("controller", "wait_tracker")
  /\ Goto("controller", "post_detector")
  /\ UNCHANGED <<p0_owned, out_vars, mailbox_vars, sem_turn, should_stop,
                 tracked, helper_vars, ghost_vars, ghost_sems, next_ghost,
                 detector_vars>>

AwaitTracker ==
  /\ At("controller", "wait_tracker")
  /\ tracker_done > 0
  /\ tracker_done' = tracker_done - 1
  /\ Goto("controller", "post_detector")
  /\ UNCHANGED <<p0_owned, out_vars, mailbox_vars, sem_turn, should_stop,
                 tracked, tracker_requested, collision_requested,
                 collision_done, ghost_vars, ghost_sems, next_ghost,
                 detector_vars>>

RequestDetection ==
  /\ At("controller", "post_detector")
  /\ collision_requested' = collision_requested + 1
  /\ Goto("controller", "wait_detector")
  /\ UNCHANGED <<p0_owned, out_vars, mailbox_vars, sem_turn, should_stop,
                 tracked, tracker_requested, tracker_done, collision_done,
                 ghost_vars, ghost_sems, next_ghost, detector_vars>>

AwaitDetection ==
  /\ At("controller", "wait_detector")
  /\ collision_done > 0
  /\ collision_done' = collision_done - 1
  /\ Goto("controller", "answer")
  /\ UNCHANGED <<p0_owned, out_vars, mailbox_vars, sem_turn, should_stop,
                 tracked, tracker_requested, tracker_done,
                 collision_requested, ghost_vars, ghost_sems, next_ghost,
                 detector_vars>>

ControllerAnswers ==
  /\ At("controller", "answer")
  /\ sem_done' = [sem_done EXCEPT ![Enemy] = @ + 1]
  /\ Goto("controller", "turn")
  /\ UNCHANGED <<p0_owned, collision, exited, mailbox_vars, sem_turn,
                 should_stop, tracked, helper_vars, ghost_vars, ghost_sems,
                 next_ghost, detector_vars>>

-----------------------------------------------------------------------------
(* signal_helper_shutdown, in the controller at the end of the game and in *)
(* the main thread when a thread cannot be created.                        *)

RequestStop(t) ==
  /\ At(t, "stop")
  /\ should_stop' = TRUE
  /\ Goto(t, "stop_ghosts")
  /\ next_ghost' = [next_ghost EXCEPT ![t] = 1]
  /\ UNCHANGED <<p0_owned, out_vars, mailbox_vars, sem_turn, tracked,
                 helper_vars, ghost_vars, ghost_sems, detector_vars>>

ReleaseGhost(t) ==
  /\ At(t, "stop_ghosts")
  /\ turn_requested' = [turn_requested EXCEPT ![next_ghost[t]] = @ + 1]
  /\ EachGhost(t, "stop_tracker")
  /\ UNCHANGED <<p0_owned, out_vars, mailbox_vars, sem_turn, should_stop,
                 tracked, helper_vars, ghost_vars, turn_done, detector_vars>>

\* Mutant: the tracker is not woken for the shutdown.
ReleaseTracker_no_post(t) ==
  /\ At(t, "stop_tracker")
  /\ Goto(t, "stop_detector")
  /\ UNCHANGED <<p0_owned, out_vars, mailbox_vars, sem_turn, should_stop,
                 tracked, helper_vars, ghost_vars, ghost_sems, next_ghost,
                 detector_vars>>

ReleaseTracker(t) ==
  /\ At(t, "stop_tracker")
  /\ tracker_requested' = tracker_requested + 1
  /\ Goto(t, "stop_detector")
  /\ UNCHANGED <<p0_owned, out_vars, mailbox_vars, sem_turn, should_stop,
                 tracked, tracker_done, collision_requested, collision_done,
                 ghost_vars, ghost_sems, next_ghost, detector_vars>>

ReleaseDetector(t) ==
  /\ At(t, "stop_detector")
  /\ collision_requested' = collision_requested + 1
  /\ Goto(t, IF t = "main" THEN "post_turn" ELSE "done")
  /\ UNCHANGED <<p0_owned, out_vars, mailbox_vars, sem_turn, should_stop,
                 tracked, tracker_requested, tracker_done, collision_done,
                 ghost_vars, ghost_sems, next_ghost, detector_vars>>

signal_helper_shutdown(t) ==
  RequestStop(t) \/ ReleaseGhost(t) \/ ReleaseTracker(t) \/ ReleaseDetector(t)

Controller ==
  \/ ControllerAwaitsTurn \/ ControllerReadsGameOver
  \/ post_all_ghost_turns \/ wait_all_ghosts_done
  \/ RequestTracker \/ AwaitTracker \/ RequestDetection \/ AwaitDetection
  \/ ControllerAnswers \/ signal_helper_shutdown("controller")

-----------------------------------------------------------------------------
(* enemy_process_run *)

ContextInitFails ==
  /\ StartMayFail
  /\ At("main", "create_controller")
  /\ Goto("main", "exit")
  /\ exited' = exited \cup {Enemy}
  /\ UNCHANGED <<p0_owned, collision, sem_done, mailbox_vars, sem_turn,
                 should_stop, tracked, helper_vars, ghost_vars, ghost_sems,
                 next_ghost, detector_vars>>

Creating == {"create_controller", "create_ghosts", "create_tracker",
             "create_detector"}

CreateThread ==
  /\ \/ /\ At("main", "create_controller")
        /\ pc' = [pc EXCEPT !["main"] = "create_ghosts", !["controller"] = "turn"]
        /\ UNCHANGED <<next_ghost, ghost_pc>>
     \/ /\ At("main", "create_ghosts")
        /\ GhostGoto(next_ghost["main"], "load")
        /\ EachGhost("main", "create_tracker")
     \/ /\ At("main", "create_tracker")
        /\ pc' = [pc EXCEPT !["main"] = "create_detector", !["tracker"] = "wait"]
        /\ UNCHANGED <<next_ghost, ghost_pc>>
     \/ /\ At("main", "create_detector")
        /\ pc' = [pc EXCEPT !["main"] = "join", !["detector"] = "wait"]
        /\ UNCHANGED <<next_ghost, ghost_pc>>
  /\ UNCHANGED <<p0_owned, out_vars, mailbox_vars, sem_turn, should_stop,
                 tracked, helper_vars, ghost_at, left, ghost_sems,
                 detector_vars>>

CreateFails ==
  /\ StartMayFail
  /\ pc["main"] \in Creating
  /\ Goto("main", "stop")
  /\ UNCHANGED <<p0_owned, out_vars, mailbox_vars, sem_turn, should_stop,
                 tracked, helper_vars, ghost_vars, ghost_sems, next_ghost,
                 detector_vars>>

\* The cleanup path wakes the controller with a turn that P0 did not grant.
MainPostsTurn ==
  /\ At("main", "post_turn")
  /\ sem_turn' = [sem_turn EXCEPT ![Enemy] = @ + 1]
  /\ Goto("main", "join")
  /\ UNCHANGED <<p0_owned, out_vars, mailbox_vars, should_stop, tracked,
                 helper_vars, ghost_vars, ghost_sems, next_ghost, detector_vars>>

\* Every thread created is joined, and the process ends.
JoinThreads ==
  /\ At("main", "join")
  /\ \A t \in Thread \ {"main"} : pc[t] \in {"unborn", "done"}
  /\ \A g \in Ghost : ghost_pc[g] \in {"unborn", "done"}
  /\ Goto("main", "exit")
  /\ exited' = exited \cup {Enemy}
  /\ UNCHANGED <<p0_owned, collision, sem_done, mailbox_vars, sem_turn,
                 should_stop, tracked, helper_vars, ghost_vars, ghost_sems,
                 next_ghost, detector_vars>>

Main == CreateThread \/ signal_helper_shutdown("main") \/ MainPostsTurn
          \/ JoinThreads

-----------------------------------------------------------------------------
\* context_init and init_ghost.
EnemyInit ==
  /\ should_stop = FALSE /\ tracked = PacmanStart
  /\ tracker_requested = 0 /\ tracker_done = 0
  /\ collision_requested = 0 /\ collision_done = 0
  /\ ghost_at = GhostStart
  /\ left = [g \in Ghost |-> <<>>]
  /\ turn_requested = [g \in Ghost |-> 0] /\ turn_done = [g \in Ghost |-> 0]
  /\ ghost_pc = [g \in Ghost |-> "unborn"]
  /\ pc = [t \in Thread |-> IF t = "main" THEN "create_controller" ELSE "unborn"]
  /\ next_ghost = [t \in {"main", "controller"} |-> 1]
  /\ seen_pacman = PacmanStart /\ seen_ghosts = GhostStart /\ seen_tick = 0

EnemyNext ==
  \/ \E g \in Ghost : GhostThread(g)
  \/ Tracker \/ Detector \/ Controller \/ Main
  \/ ContextInitFails \/ CreateFails
=============================================================================
