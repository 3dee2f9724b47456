--------------------------- MODULE EnemyGameProofs ---------------------------
(***************************************************************************)
(* The safety properties of EnemyGame, proved for every maze, every number *)
(* of ghosts, every set of files and every number of turns, with every     *)
(* failure of P0, of P2's start and of the ghosts' files.                  *)
(*                                                                         *)
(* The inductive invariant says which threads there are (Creation), where  *)
(* the turn is (Turn) and what a stop request leaves possible (Stops).  As *)
(* long as none has been made and no creation has failed (Sound), the      *)
(* controller and its helpers keep exact books: one token per ghost posted *)
(* and not awaited, one for the tracker, one for the detector; and what    *)
(* they read is settled (Tracked, Copies, Verdict, Steps).  After a stop   *)
(* the books are off, but then no answer can come (Stops).                 *)
(***************************************************************************)
EXTENDS EnemyGame, InstructionsProofs

-----------------------------------------------------------------------------
(* The inductive invariant. *)

\* The labels at which the controller works on a turn, and a ghost on its part.
InTurn  == {"read_over", "post_ghosts", "wait_ghosts", "post_tracker", "wait_tracker",
            "post_detector", "wait_detector", "answer"}
Working == {"read_stop", "act", "answer"}

\* The labels of a ghost that has not loaded its file yet.
Unloaded == {"unborn", "load", "stop"}

\* The labels at which the detector has a verdict to give.
Judging == {"copy_pacman", "copy_ghosts", "copy_tick", "publish", "answer"}

\* A line of a ghost that P2 keeps.
Kept == {line \in Lines : parse_instruction_accepts(line)}

\* The labels of P0 and of the threads, and what the ghosts have to play.
Labels ==
  /\ turns \in Nat
  /\ p0 \in {"ready", "waiting", "first_post", "last_post", "wait_child"}
  /\ pc = [t \in Thread |-> pc[t]]
  /\ left \in [Ghost -> Seq(Kept)]

\* The threads are created in order, the detector last; and the controller
\* begins each of its loops with the first ghost.
Creation ==
  /\ pc["main"] = "create_controller" => pc["controller"] = "unborn"
  /\ pc["main"] \in {"create_controller", "create_ghosts"} =>
       \A g \in Ghost : g >= next_ghost["main"] => ghost_pc[g] = "unborn"
  /\ pc["main"] \in {"create_controller", "create_ghosts", "create_tracker"} =>
       pc["tracker"] = "unborn"
  /\ pc["main"] \in Creating \cup StopLabel \cup {"post_turn"} =>
       pc["detector"] = "unborn"
  /\ pc["main"] = "create_detector" \/ pc["detector"] # "unborn" =>
       pc["controller"] # "unborn" /\ pc["tracker"] # "unborn"
  /\ pc["main"] \in {"create_ghosts", "create_tracker"} => pc["controller"] # "unborn"
  /\ pc["controller"] \notin {"post_ghosts", "wait_ghosts", "stop_ghosts"} =>
       next_ghost["controller"] = 1

\* game_over ends what P0 grants, and is what ends the controller.
OverEnds ==
  /\ game_over <=> p0 \notin {"ready", "waiting"}
  /\ pc["controller"] \in StopLabel \cup {"done"} => game_over

\* Unless the creation of a thread has failed.
Whole == pc["main"] \in Creating \/ pc["detector"] # "unborn"

\* There is one turn while P0 waits, and none otherwise.
TurnsOut ==
  sem_turn[Enemy] + (IF pc["controller"] \in InTurn THEN 1 ELSE 0) + sem_done[Enemy]

Turn ==
  /\ pc["detector"] = "unborn" =>
       sem_done[Enemy] = 0 /\ collision_done = 0 /\ pc["controller"] # "answer"
  /\ Whole /\ ~game_over => TurnsOut = IF p0 = "waiting" THEN 1 ELSE 0

\* The controller has not been through its loop of waits for ghost g.
Before(g) ==
  \/ pc["controller"] \in {"unborn", "turn", "read_over", "post_ghosts", "done"} \cup StopLabel
  \/ pc["controller"] = "wait_ghosts" /\ next_ghost["controller"] <= g

\* Ghost g will not answer once should_stop is set, and the controller needs it to.
Mute(g) ==
  /\ turn_done[g] = 0 /\ ghost_pc[g] \notin {"act", "answer"} /\ Before(g)
  /\ sem_done[Enemy] = 0 /\ collision_done = 0

\* should_stop ends the helpers.  It is set at the end of the game, or before
\* the controller has had the first answer of every ghost, which it will then
\* never have.
Stops ==
  /\ \A g \in Ghost : ghost_pc[g] \in Unloaded =>
       turn_done[g] = 0 /\ Before(g) /\ sem_done[Enemy] = 0
  /\ \A g \in Ghost : ghost_pc[g] = "done" => should_stop
  /\ pc["tracker"] = "done" \/ pc["detector"] = "done" => should_stop
  /\ pc["controller"] \in {"stop_ghosts", "stop_tracker", "stop_detector"} => should_stop
  /\ pc["detector"] \in Judging => ~should_stop
  /\ should_stop /\ Whole =>
       \/ game_over /\ pc["controller"] \in StopLabel \cup {"done"}
       \/ \E g \in Ghost : Mute(g)

\* As long as no stop is requested and no creation has failed, the controller
\* and its helpers keep exact books.
Sound == ~should_stop /\ Whole

\* The controller has posted ghost g and not yet awaited it.
Due(g) ==
  \/ pc["controller"] = "post_ghosts" /\ g < next_ghost["controller"]
  \/ pc["controller"] = "wait_ghosts" /\ g >= next_ghost["controller"]

GhostTokens ==
  \A g \in Ghost :
    turn_requested[g] + (IF ghost_pc[g] \in Working THEN 1 ELSE 0) + turn_done[g]
      = IF Due(g) THEN 1 ELSE 0

TrackerTokens ==
  tracker_requested + (IF pc["tracker"] \in {"read_stop", "track", "answer"} THEN 1 ELSE 0)
    + tracker_done
    = IF pc["controller"] = "wait_tracker" THEN 1 ELSE 0

DetectorTokens ==
  collision_requested + (IF pc["detector"] \in Judging \cup {"read_stop"} THEN 1 ELSE 0)
    + collision_done
    = IF pc["controller"] = "wait_detector" THEN 1 ELSE 0

\* From the answer of the tracker to that of the turn, the copy of Pac-Man is
\* the published position.
Tracked ==
  \/ pc["tracker"] = "answer" \/ tracker_done > 0
  \/ pc["controller"] \in {"post_detector", "wait_detector", "answer"}
  \/ sem_done[Enemy] > 0
  => tracked = pacman_at

\* What the detector has copied is still so.
Copies ==
  /\ pc["detector"] \in {"copy_ghosts", "copy_tick", "publish"} => seen_pacman = tracked
  /\ pc["detector"] \in {"copy_tick", "publish"} => seen_ghosts = ghost_at
  /\ pc["detector"] = "publish" => seen_tick = global_tick /\ Colliding # {}

\* The verdict on the turn has been given, and what it says.
Judged ==
  \/ pc["detector"] = "answer" \/ collision_done > 0
  \/ pc["controller"] = "answer" \/ sem_done[Enemy] > 0

Exact ==
  \/ Meeting = {} /\ collision = NoCollision
  \/ /\ collision.tick = global_tick
     /\ collision.ghost \in Meeting
     /\ \A g \in Meeting : collision.ghost <= g

Verdict ==
  ~game_over =>
    /\ Judged => Exact
    /\ ~Judged => collision = NoCollision

\* Ghost g has yet to play the turn granted.
Pending(g) ==
  \/ sem_turn[Enemy] > 0 \/ pc["controller"] = "read_over"
  \/ pc["controller"] = "post_ghosts" /\ g >= next_ghost["controller"]
  \/ turn_requested[g] > 0 \/ ghost_pc[g] \in {"read_stop", "act"}

\* The instructions ghost g has taken: one for each turn.
Taken(g) == IF Pending(g) THEN turns - 1 ELSE turns

Steps ==
  ~game_over =>
    \A g \in Ghost :
      /\ ghost_pc[g] \in Unloaded => Taken(g) = 0
      /\ ghost_pc[g] \in {"turn"} \cup Working =>
           /\ Taken(g) \in Nat
           /\ left[g] = SubSeq(Parsed(GhostMoves[g]), Taken(g) + 1,
                               Len(Parsed(GhostMoves[g])))

\* The inductive invariant.
IInv ==
  /\ TypeOK /\ Labels /\ Creation /\ OverEnds /\ Turn /\ Stops
  /\ Sound => /\ GhostTokens /\ TrackerTokens /\ DetectorTokens
              /\ Tracked /\ Copies /\ Verdict /\ Steps

-----------------------------------------------------------------------------
(* What each thread does to the state, action by action: what the proofs    *)
(* below need of the module EnemyProcess.                                   *)

\* The labels of the threads, one by one.
LEMMA ThreadLabels ==
  /\ Thread = {"main", "controller", "tracker", "detector"}
  /\ ThreadLabel["main"] = Creating \cup StopLabel \cup {"post_turn", "join", "exit"}
  /\ ThreadLabel["controller"]
       = StopLabel \cup {"unborn", "turn", "read_over", "post_ghosts", "wait_ghosts",
                         "post_tracker", "wait_tracker", "post_detector", "wait_detector",
                         "answer", "done"}
  /\ ThreadLabel["tracker"] = {"unborn", "wait", "read_stop", "track", "answer", "done"}
  /\ ThreadLabel["detector"] = {"unborn", "wait", "read_stop", "copy_pacman", "copy_ghosts",
                                "copy_tick", "publish", "answer", "done"}
BY DEF Thread, ThreadLabel

\* Thread t goes from one label to another, and no other thread of P2 moves.
Goes(t, from, to) ==
  /\ pc[t] = from /\ pc'[t] = to
  /\ \A u \in Thread \ {t} : pc'[u] = pc[u]
  /\ pc' = [u \in Thread |-> pc'[u]]

\* Goto moves one thread's program counter and keeps every label in its thread's code.
LEMMA GotoGoes ==
  ASSUME Labels, NEW t \in Thread, NEW from, NEW to, At(t, from), Goto(t, to)
  PROVE  Goes(t, from, to)
<1>1. pc' = [pc EXCEPT ![t] = to] /\ pc[t] = from
  BY DEF Goto, At
<1>2. pc = [u \in Thread |-> pc[u]]
  BY DEF Labels
<1> HIDE DEF Thread
<1> QED
  BY <1>1, <1>2 DEF Goes

\* A step of ghost g.
GhostEffect(g) ==
  /\ UNCHANGED <<global_tick, game_over, pacman_at, collision, sem_done, sem_turn, tracked,
                 tracker_requested, tracker_done, collision_requested, collision_done, pc,
                 next_ghost, seen_pacman, seen_ghosts, seen_tick, exited>>
  /\ \A h \in Ghost \ {g} :
       /\ ghost_pc'[h] = ghost_pc[h] /\ left'[h] = left[h]
       /\ turn_requested'[h] = turn_requested[h] /\ turn_done'[h] = turn_done[h]
  /\ \/ /\ ghost_pc[g] = "load" /\ ghost_pc'[g] = "turn"
        /\ left'[g] = Parsed(GhostMoves[g])
        /\ UNCHANGED <<turn_requested, turn_done, ghost_at, should_stop>>
     \/ /\ ghost_pc[g] = "load" /\ ghost_pc'[g] = "stop"
        /\ UNCHANGED <<turn_requested, turn_done, left, ghost_at, should_stop>>
     \/ /\ ghost_pc[g] = "stop" /\ ghost_pc'[g] = "turn"
        /\ should_stop' = TRUE
        /\ UNCHANGED <<turn_requested, turn_done, left, ghost_at>>
     \/ /\ ghost_pc[g] = "turn" /\ ghost_pc'[g] = "read_stop"
        /\ turn_requested[g] > 0 /\ turn_requested'[g] = turn_requested[g] - 1
        /\ UNCHANGED <<turn_done, left, ghost_at, should_stop>>
     \/ /\ ghost_pc[g] = "read_stop"
        /\ ghost_pc'[g] = IF should_stop THEN "done" ELSE "act"
        /\ UNCHANGED <<turn_requested, turn_done, left, ghost_at, should_stop>>
     \/ /\ ghost_pc[g] = "act" /\ ghost_pc'[g] = "answer"
        /\ \/ left[g] = <<>> /\ left'[g] = left[g]
           \/ left[g] # <<>> /\ left'[g] = Tail(left[g])
        /\ UNCHANGED <<turn_requested, turn_done, should_stop>>
     \/ /\ ghost_pc[g] = "answer" /\ ghost_pc'[g] = "turn"
        /\ turn_done'[g] = turn_done[g] + 1
        /\ UNCHANGED <<turn_requested, left, ghost_at, should_stop>>

\* Whatever a ghost's step does is one of these effects.
LEMMA GhostSteps ==
  ASSUME TypeOK, Labels, NEW g \in Ghost, GhostThread(g)
  PROVE  GhostEffect(g)
<1> USE DEF GhostGoto, p0_owned, out_vars, mailbox_vars, helper_vars, ghost_sems,
            control_vars, detector_vars
<1>1. /\ ghost_pc \in [Ghost -> GhostLabel] /\ left \in [Ghost -> Seq(Kept)]
      /\ turn_requested \in [Ghost -> Nat] /\ turn_done \in [Ghost -> Nat]
      /\ ghost_at \in [Ghost -> Open]
  BY DEF TypeOK, Labels
<1>2. CASE load_ghost_instructions(g)
  BY <1>1, <1>2 DEF load_ghost_instructions, GhostEffect
<1>3. CASE GhostRequestsStop(g)
  BY <1>1, <1>3 DEF GhostRequestsStop, GhostEffect
<1>4. CASE GhostAwaitsTurn(g)
  BY <1>1, <1>4 DEF GhostAwaitsTurn, GhostEffect
<1>5. CASE GhostReadsStop(g)
  BY <1>1, <1>5 DEF GhostReadsStop, GhostEffect
<1>6. CASE process_ghost_instruction(g)
  BY <1>1, <1>6 DEF process_ghost_instruction, GhostEffect
<1>7. CASE GhostAnswers(g)
  BY <1>1, <1>7 DEF GhostAnswers, GhostEffect
<1> QED
  BY <1>2, <1>3, <1>4, <1>5, <1>6, <1>7 DEF GhostThread

\* A step of the tracker.
TrackerEffect ==
  /\ UNCHANGED <<global_tick, game_over, pacman_at, collision, sem_done, sem_turn, should_stop,
                 collision_requested, collision_done, ghost_at, left, turn_requested,
                 turn_done, ghost_pc, next_ghost, seen_pacman, seen_ghosts, seen_tick, exited,
                 pending_priority, request_active>>
  /\ \/ /\ Goes("tracker", "wait", "read_stop")
        /\ tracker_requested > 0 /\ tracker_requested' = tracker_requested - 1
        /\ UNCHANGED <<tracker_done, tracked>>
     \/ /\ Goes("tracker", "read_stop", IF should_stop THEN "done" ELSE "track")
        /\ UNCHANGED <<tracker_requested, tracker_done, tracked>>
     \/ /\ Goes("tracker", "track", "answer")
        /\ tracked' = pacman_at
        /\ UNCHANGED <<tracker_requested, tracker_done>>
     \/ /\ Goes("tracker", "answer", "wait")
        /\ tracker_done' = tracker_done + 1
        /\ UNCHANGED <<tracker_requested, tracked>>

\* Whatever the tracker's step does is one of these effects.
LEMMA TrackerSteps ==
  ASSUME Labels, Tracker
  PROVE  TrackerEffect
<1> USE DEF p0_owned, out_vars, mailbox_vars, helper_vars, ghost_vars, ghost_sems,
            control_vars, detector_vars
<1>0. "tracker" \in Thread
  BY DEF Thread
<1>1. CASE TrackerAwaitsRequest
  BY <1>0, <1>1, GotoGoes DEF TrackerAwaitsRequest, TrackerEffect
<1>2. CASE ReadsStop("tracker", "track")
  BY <1>0, <1>2, GotoGoes DEF ReadsStop, TrackerEffect
<1>3. CASE TrackPacman
  BY <1>0, <1>3, GotoGoes DEF TrackPacman, TrackerEffect
<1>4. CASE TrackerAnswers
  BY <1>0, <1>4, GotoGoes DEF TrackerAnswers, TrackerEffect
<1> QED
  BY <1>1, <1>2, <1>3, <1>4 DEF Tracker

\* A step of the detector.
DetectorEffect ==
  /\ UNCHANGED <<global_tick, game_over, pacman_at, sem_done, sem_turn, should_stop, tracked,
                 tracker_requested, tracker_done, ghost_at, left, turn_requested, turn_done,
                 ghost_pc, next_ghost, exited, pending_priority, request_active>>
  /\ \/ /\ Goes("detector", "wait", "read_stop")
        /\ collision_requested > 0 /\ collision_requested' = collision_requested - 1
        /\ UNCHANGED <<collision, collision_done, seen_pacman, seen_ghosts, seen_tick>>
     \/ /\ Goes("detector", "read_stop", IF should_stop THEN "done" ELSE "copy_pacman")
        /\ UNCHANGED <<collision, collision_requested, collision_done, seen_pacman,
                       seen_ghosts, seen_tick>>
     \/ /\ Goes("detector", "copy_pacman", "copy_ghosts")
        /\ seen_pacman' = tracked
        /\ UNCHANGED <<collision, collision_requested, collision_done, seen_ghosts, seen_tick>>
     \/ /\ Goes("detector", "copy_ghosts", "copy_tick")
        /\ seen_ghosts' = ghost_at
        /\ UNCHANGED <<collision, collision_requested, collision_done, seen_pacman, seen_tick>>
     \/ /\ Goes("detector", "copy_tick", IF Colliding = {} THEN "answer" ELSE "publish")
        /\ seen_tick' = global_tick
        /\ UNCHANGED <<collision, collision_requested, collision_done, seen_pacman,
                       seen_ghosts>>
     \/ /\ Goes("detector", "publish", "answer")
        /\ \E g \in Colliding : /\ \A h \in Colliding : g <= h
                                /\ collision' = [tick |-> seen_tick, ghost |-> g]
        /\ UNCHANGED <<collision_requested, collision_done, seen_pacman, seen_ghosts,
                       seen_tick>>
     \/ /\ Goes("detector", "answer", "wait")
        /\ collision_done' = collision_done + 1
        /\ UNCHANGED <<collision, collision_requested, seen_pacman, seen_ghosts, seen_tick>>

\* Whatever the detector's step does is one of these effects.
LEMMA DetectorSteps ==
  ASSUME Labels, Detector
  PROVE  DetectorEffect
<1> USE DEF p0_owned, out_vars, mailbox_vars, helper_vars, ghost_vars, ghost_sems,
            control_vars, detector_vars
<1>0. "detector" \in Thread
  BY DEF Thread
<1>1. CASE DetectorAwaitsRequest
  BY <1>0, <1>1, GotoGoes DEF DetectorAwaitsRequest, DetectorEffect
<1>2. CASE ReadsStop("detector", "copy_pacman")
  BY <1>0, <1>2, GotoGoes DEF ReadsStop, DetectorEffect
<1>3. CASE CopyPacman
  BY <1>0, <1>3, GotoGoes DEF CopyPacman, DetectorEffect
<1>4. CASE CopyGhosts
  BY <1>0, <1>4, GotoGoes DEF CopyGhosts, DetectorEffect
<1>5. CASE CopyTick
  BY <1>0, <1>5, GotoGoes DEF CopyTick, DetectorEffect
<1>6. CASE publish_collision
  BY <1>0, <1>6, GotoGoes DEF publish_collision, DetectorEffect
<1>7. CASE DetectorAnswers
  BY <1>0, <1>7, GotoGoes DEF DetectorAnswers, DetectorEffect
<1> QED
  BY <1>1, <1>2, <1>3, <1>4, <1>5, <1>6, <1>7 DEF Detector

\* A loop over the ghosts: thread t has done its step for one of them.
Loops(t, from, to) ==
  /\ pc[t] = from
  /\ \/ next_ghost[t] = GhostCount /\ next_ghost'[t] = 1 /\ Goes(t, from, to)
     \/ next_ghost[t] < GhostCount /\ next_ghost'[t] = next_ghost[t] + 1 /\ pc' = pc
  /\ \A u \in {"main", "controller"} \ {t} : next_ghost'[u] = next_ghost[u]
  /\ next_ghost' \in [{"main", "controller"} -> Ghost]

\* A loop over the ghosts goes on to the next ghost or leaves the loop.
LEMMA EachGhostLoops ==
  ASSUME EnemyAssumption, TypeOK, Labels, NEW t \in {"main", "controller"}, NEW from, NEW to,
         At(t, from), EachGhost(t, to)
  PROVE  Loops(t, from, to)
<1>1. /\ next_ghost \in [{"main", "controller"} -> Ghost] /\ next_ghost[t] \in 1..GhostCount
      /\ GhostCount \in Nat
  BY DEF TypeOK, Ghost, EnemyAssumption
<1>2. next_ghost' = [next_ghost EXCEPT ![t] = IF @ = GhostCount THEN 1 ELSE @ + 1]
  BY DEF EachGhost
<1>3. /\ next_ghost'[t] = IF next_ghost[t] = GhostCount THEN 1 ELSE next_ghost[t] + 1
      /\ \A u \in {"main", "controller"} \ {t} : next_ghost'[u] = next_ghost[u]
  BY <1>1, <1>2
<1>6. next_ghost' \in [{"main", "controller"} -> Ghost]
  BY <1>1, <1>2 DEF Ghost
<1>4. CASE next_ghost[t] = GhostCount
  <2>1. Goto(t, to) /\ t \in Thread
    BY <1>4 DEF EachGhost, Thread
  <2>2. Goes(t, from, to)
    BY <2>1, GotoGoes
  <2> QED
    BY <1>3, <1>4, <1>6, <2>2 DEF Loops, At
<1>5. CASE next_ghost[t] # GhostCount
  <2>1. pc' = pc
    BY <1>5 DEF EachGhost
  <2>2. next_ghost[t] < GhostCount
    BY <1>1, <1>5
  <2> QED
    BY <1>3, <1>5, <1>6, <2>1, <2>2 DEF Loops, At
<1> QED
  BY <1>4, <1>5

\* Semaphore g of the ghosts is posted, or taken.
Posts(sem, g) == sem' = [sem EXCEPT ![g] = @ + 1]
Takes(sem, g) == sem[g] > 0 /\ sem' = [sem EXCEPT ![g] = @ - 1]

\* A step of the controller.
ControllerEffect ==
  /\ UNCHANGED <<global_tick, game_over, pacman_at, collision, tracked, ghost_at, left,
                 ghost_pc, seen_pacman, seen_ghosts, seen_tick, exited, pending_priority,
                 request_active>>
  /\ \/ /\ Goes("controller", "turn", "read_over")
        /\ Takes(sem_turn, Enemy)
        /\ UNCHANGED <<sem_done, should_stop, ghost_sems, helper_vars, next_ghost>>
     \/ /\ Goes("controller", "read_over", IF game_over THEN "stop" ELSE "post_ghosts")
        /\ UNCHANGED <<sem_turn, sem_done, should_stop, ghost_sems, helper_vars, next_ghost>>
     \/ /\ Loops("controller", "post_ghosts", "wait_ghosts")
        /\ Posts(turn_requested, next_ghost["controller"])
        /\ UNCHANGED <<sem_turn, sem_done, should_stop, turn_done, helper_vars>>
     \/ /\ Loops("controller", "wait_ghosts", "post_tracker")
        /\ Takes(turn_done, next_ghost["controller"])
        /\ UNCHANGED <<sem_turn, sem_done, should_stop, turn_requested, helper_vars>>
     \/ /\ Goes("controller", "post_tracker", "wait_tracker")
        /\ tracker_requested' = tracker_requested + 1
        /\ UNCHANGED <<sem_turn, sem_done, should_stop, ghost_sems, tracker_done,
                       collision_requested, collision_done, next_ghost>>
     \/ /\ Goes("controller", "wait_tracker", "post_detector")
        /\ tracker_done > 0 /\ tracker_done' = tracker_done - 1
        /\ UNCHANGED <<sem_turn, sem_done, should_stop, ghost_sems, tracker_requested,
                       collision_requested, collision_done, next_ghost>>
     \/ /\ Goes("controller", "post_detector", "wait_detector")
        /\ collision_requested' = collision_requested + 1
        /\ UNCHANGED <<sem_turn, sem_done, should_stop, ghost_sems, tracker_requested,
                       tracker_done, collision_done, next_ghost>>
     \/ /\ Goes("controller", "wait_detector", "answer")
        /\ collision_done > 0 /\ collision_done' = collision_done - 1
        /\ UNCHANGED <<sem_turn, sem_done, should_stop, ghost_sems, tracker_requested,
                       tracker_done, collision_requested, next_ghost>>
     \/ /\ Goes("controller", "answer", "turn")
        /\ Posts(sem_done, Enemy)
        /\ UNCHANGED <<sem_turn, should_stop, ghost_sems, helper_vars, next_ghost>>
     \/ /\ Goes("controller", "stop", "stop_ghosts")
        /\ should_stop' = TRUE
        /\ next_ghost' = [next_ghost EXCEPT !["controller"] = 1]
        /\ UNCHANGED <<sem_turn, sem_done, ghost_sems, helper_vars>>
     \/ /\ Loops("controller", "stop_ghosts", "stop_tracker")
        /\ Posts(turn_requested, next_ghost["controller"])
        /\ UNCHANGED <<sem_turn, sem_done, should_stop, turn_done, helper_vars>>
     \/ /\ \/ Goes("controller", "stop_tracker", "stop_detector")
           \/ Goes("controller", "stop_detector", "done")
        /\ tracker_requested' \in {tracker_requested, tracker_requested + 1}
        /\ collision_requested' \in {collision_requested, collision_requested + 1}
        /\ UNCHANGED <<sem_turn, sem_done, should_stop, ghost_sems, tracker_done,
                       collision_done, next_ghost>>

\* Whatever the controller's step does is one of these effects.
LEMMA ControllerSteps ==
  ASSUME EnemyAssumption, TypeOK, Labels, Controller
  PROVE  ControllerEffect
<1> USE DEF p0_owned, out_vars, mailbox_vars, helper_vars, ghost_vars, ghost_sems,
            control_vars, detector_vars
<1>0. "controller" \in Thread /\ "controller" \in {"main", "controller"}
  BY DEF Thread
<1>1. CASE ControllerAwaitsTurn
  BY <1>0, <1>1, GotoGoes DEF ControllerAwaitsTurn, ControllerEffect, Takes
<1>2. CASE ControllerReadsGameOver
  BY <1>0, <1>2, GotoGoes DEF ControllerReadsGameOver, ControllerEffect
<1>3. CASE post_all_ghost_turns
  BY <1>0, <1>3, EachGhostLoops DEF post_all_ghost_turns, ControllerEffect, Posts
<1>4. CASE wait_all_ghosts_done
  BY <1>0, <1>4, EachGhostLoops DEF wait_all_ghosts_done, ControllerEffect, Takes
<1>5. CASE RequestTracker
  BY <1>0, <1>5, GotoGoes DEF RequestTracker, ControllerEffect
<1>6. CASE AwaitTracker
  BY <1>0, <1>6, GotoGoes DEF AwaitTracker, ControllerEffect
<1>7. CASE RequestDetection
  BY <1>0, <1>7, GotoGoes DEF RequestDetection, ControllerEffect
<1>8. CASE AwaitDetection
  BY <1>0, <1>8, GotoGoes DEF AwaitDetection, ControllerEffect
<1>9. CASE ControllerAnswers
  BY <1>0, <1>9, GotoGoes DEF ControllerAnswers, ControllerEffect, Posts
<1>10. CASE RequestStop("controller")
  BY <1>0, <1>10, GotoGoes DEF RequestStop, ControllerEffect
<1>11. CASE ReleaseGhost("controller")
  BY <1>0, <1>11, EachGhostLoops DEF ReleaseGhost, ControllerEffect, Posts
<1>12. CASE ReleaseTracker("controller") \/ ReleaseDetector("controller")
  BY <1>0, <1>12, GotoGoes DEF ReleaseTracker, ReleaseDetector, ControllerEffect
<1> QED
  BY <1>1, <1>2, <1>3, <1>4, <1>5, <1>6, <1>7, <1>8, <1>9, <1>10, <1>11, <1>12
     DEF Controller, signal_helper_shutdown

\* enemy_process_run, its failures included.
MainSteps == Main \/ ContextInitFails \/ CreateFails

\* A step of the main thread: it creates the next thread; or, when it has
\* failed to, it wakes those there are; or it goes on to its end.
MainEffect ==
  /\ UNCHANGED <<global_tick, game_over, pacman_at, collision, sem_done, tracked,
                 tracker_done, collision_done, ghost_at, left, turn_done, seen_pacman,
                 seen_ghosts, seen_tick, pending_priority, request_active>>
  /\ exited' \in {exited, exited \cup {Enemy}}
  /\ pc' = [t \in Thread |-> pc'[t]]
  /\ next_ghost'["controller"] = next_ghost["controller"]
  /\ \/ /\ \/ /\ pc["main"] = "create_controller" /\ pc'["main"] = "create_ghosts"
              /\ pc'["controller"] = "turn"
              /\ \A u \in {"tracker", "detector"} : pc'[u] = pc[u]
              /\ UNCHANGED <<next_ghost, ghost_pc>>
           \/ /\ Loops("main", "create_ghosts", "create_tracker")
              /\ ghost_pc' = [ghost_pc EXCEPT ![next_ghost["main"]] = "load"]
           \/ /\ pc["main"] = "create_tracker" /\ pc'["main"] = "create_detector"
              /\ pc'["tracker"] = "wait"
              /\ \A u \in {"controller", "detector"} : pc'[u] = pc[u]
              /\ UNCHANGED <<next_ghost, ghost_pc>>
           \/ /\ pc["main"] = "create_detector" /\ pc'["main"] = "join"
              /\ pc'["detector"] = "wait"
              /\ \A u \in {"controller", "tracker"} : pc'[u] = pc[u]
              /\ UNCHANGED <<next_ghost, ghost_pc>>
           \/ Goes("main", "join", "exit") /\ UNCHANGED <<next_ghost, ghost_pc>>
        /\ UNCHANGED <<sem_turn, should_stop, turn_requested, tracker_requested,
                       collision_requested>>
     \/ /\ pc["main"] \in Creating \cup StopLabel \cup {"post_turn"}
        /\ pc'["main"] \in StopLabel \cup {"post_turn", "join", "exit"}
        /\ \A u \in Thread \ {"main"} : pc'[u] = pc[u]
        /\ should_stop => should_stop'
        /\ should_stop' \in {should_stop, TRUE}
        /\ next_ghost' \in [{"main", "controller"} -> Ghost]
        /\ sem_turn' = sem_turn \/ Posts(sem_turn, Enemy)
        /\ turn_requested' = turn_requested \/ Posts(turn_requested, next_ghost["main"])
        /\ tracker_requested' \in {tracker_requested, tracker_requested + 1}
        /\ collision_requested' \in {collision_requested, collision_requested + 1}
        /\ UNCHANGED ghost_pc

\* Whatever a step of main() does is one of these effects: it posts the stops of
\* the cleanup path, but moves no piece and gives no answer.
LEMMA MainStepsEffect ==
  ASSUME EnemyAssumption, TypeOK, Labels, MainSteps
  PROVE  MainEffect
<1> USE DEF p0_owned, out_vars, mailbox_vars, helper_vars, ghost_vars, ghost_sems,
            control_vars, detector_vars
<1>0. /\ "main" \in Thread /\ "main" \in {"main", "controller"}
      /\ Thread \ {"main"} = {"controller", "tracker", "detector"}
      /\ pc = [u \in Thread |-> pc[u]]
      /\ next_ghost \in [{"main", "controller"} -> Ghost]
  BY DEF Thread, Labels, TypeOK
<1>1. CASE CreateThread
  <2>1. CASE At("main", "create_controller")
    BY <1>0, <1>1, <2>1 DEF CreateThread, At, MainEffect, Thread
  <2>2. CASE At("main", "create_ghosts")
    <3>1. Loops("main", "create_ghosts", "create_tracker")
      BY <1>0, <1>1, <2>2, EachGhostLoops DEF CreateThread, At
    <3>2. /\ pc' = [u \in Thread |-> pc'[u]]
          /\ next_ghost'["controller"] = next_ghost["controller"]
      BY <1>0, <3>1 DEF Loops, Goes
    <3>3. ghost_pc' = [ghost_pc EXCEPT ![next_ghost["main"]] = "load"]
      BY <1>1, <2>2 DEF CreateThread, At, GhostGoto
    <3> QED
      BY <1>0, <1>1, <3>1, <3>2, <3>3 DEF CreateThread, MainEffect
  <2>3. CASE At("main", "create_tracker")
    BY <1>0, <1>1, <2>3 DEF CreateThread, At, MainEffect, Thread
  <2>4. CASE At("main", "create_detector")
    BY <1>0, <1>1, <2>4 DEF CreateThread, At, MainEffect, Thread
  <2> QED
    BY <1>1, <2>1, <2>2, <2>3, <2>4 DEF CreateThread
<1>2. CASE RequestStop("main")
  <2>1. /\ next_ghost'["controller"] = next_ghost["controller"]
        /\ next_ghost' \in [{"main", "controller"} -> Ghost]
    BY <1>0, <1>2 DEF RequestStop, EnemyAssumption, Ghost
  <2> QED
    BY <1>0, <1>2, <2>1, GotoGoes DEF RequestStop, MainEffect, Goes, StopLabel
<1>3. CASE ReleaseGhost("main")
  <2>1. Loops("main", "stop_ghosts", "stop_tracker")
    BY <1>0, <1>3, EachGhostLoops DEF ReleaseGhost
  <2> QED
    BY <1>0, <1>3, <2>1 DEF ReleaseGhost, Loops, Goes, MainEffect, StopLabel, Posts
<1>4. CASE ReleaseTracker("main") \/ ReleaseDetector("main") \/ MainPostsTurn
  <2>1. \/ Goes("main", "stop_tracker", "stop_detector")
        \/ Goes("main", "stop_detector", "post_turn")
        \/ Goes("main", "post_turn", "join")
    BY <1>0, <1>4, GotoGoes DEF ReleaseTracker, ReleaseDetector, MainPostsTurn
  <2>2. UNCHANGED <<should_stop, ghost_pc, next_ghost>>
    BY <1>4 DEF ReleaseTracker, ReleaseDetector, MainPostsTurn
  <2> QED
    BY <1>0, <1>4, <2>1, <2>2
       DEF ReleaseTracker, ReleaseDetector, MainPostsTurn, MainEffect, Goes, StopLabel, Posts
<1>5. CASE ContextInitFails
  BY <1>0, <1>5, GotoGoes DEF ContextInitFails, MainEffect, Goes, Creating
<1>6. CASE CreateFails
  <2>1. Goes("main", pc["main"], "stop")
    BY <1>0, <1>6, GotoGoes DEF CreateFails, At
  <2> QED
    BY <1>0, <1>6, <2>1 DEF CreateFails, MainEffect, Goes, StopLabel
<1>7. CASE JoinThreads
  <2>1. Goes("main", "join", "exit")
    BY <1>0, <1>7, GotoGoes DEF JoinThreads
  <2> QED
    BY <1>0, <1>7, <2>1 DEF JoinThreads, MainEffect, Goes
<1> QED
  BY <1>1, <1>2, <1>3, <1>4, <1>5, <1>6, <1>7 DEF MainSteps, Main, signal_helper_shutdown

\* P0 sees nothing of P2 but the semaphores and the shared memory.
LEMMA P0Frame ==
  ASSUME P0 \/ P0Fails
  PROVE  UNCHANGED <<should_stop, tracked, tracker_requested, tracker_done,
                     collision_requested, collision_done, ghost_at, left, ghost_pc,
                     turn_requested, turn_done, pc, next_ghost, seen_pacman, seen_ghosts,
                     seen_tick, exited>>
BY DEF P0, P0Fails, GrantTurn, TakeAnswer, SetGameOver, PostShutdown, p2_private,
       helper_vars, ghost_vars, ghost_sems, control_vars, detector_vars

\* The cases of a step.
LEMMA StepCases ==
  ASSUME [Next]_game_vars
  PROVE  \/ (\E g \in Ghost : GhostThread(g)) /\ UNCHANGED <<p0, turns>>
         \/ Tracker /\ UNCHANGED <<p0, turns>>
         \/ Detector /\ UNCHANGED <<p0, turns>>
         \/ Controller /\ UNCHANGED <<p0, turns>>
         \/ MainSteps /\ UNCHANGED <<p0, turns>>
         \/ P0 \/ P0Fails
         \/ UNCHANGED game_vars
BY DEF Next, EnemyNext, MainSteps, Finished

\* A step that changes nothing.
LEMMA NothingChanges ==
  ASSUME UNCHANGED game_vars
  PROVE  /\ UNCHANGED <<global_tick, game_over, pacman_at, collision, sem_done, exited,
                        pending_priority, request_active, sem_turn, should_stop, tracked,
                        tracker_requested, tracker_done, collision_requested,
                        collision_done, ghost_at, left, ghost_pc, turn_requested,
                        turn_done, pc, next_ghost, seen_pacman, seen_ghosts, seen_tick,
                        p0, turns>>
BY DEF game_vars, vars, out_vars, mailbox_vars, helper_vars, ghost_vars, ghost_sems,
       control_vars, detector_vars

\* sem_post and sem_wait keep a family of semaphores one of naturals.
LEMMA PostOrTake ==
  ASSUME NEW S, NEW sem \in [S -> Nat], NEW g \in S, NEW next,
         \/ next = [sem EXCEPT ![g] = @ + 1]
         \/ sem[g] > 0 /\ next = [sem EXCEPT ![g] = @ - 1]
  PROVE  /\ next \in [S -> Nat]
         /\ \A h \in S \ {g} : next[h] = sem[h]
         /\ next = [sem EXCEPT ![g] = @ + 1] => next[g] = sem[g] + 1
         /\ next = [sem EXCEPT ![g] = @ - 1] => next[g] = sem[g] - 1
OBVIOUS

\* A line that P2 keeps is a line of a file, with a priority in range.
LEMMA KeptLines ==
  ASSUME EnemyAssumption
  PROVE  /\ Kept \subseteq Lines
         /\ \A line \in Kept : /\ line.type \in {"MOVE", "SET_PRIORITY"}
                               /\ line.direction \in Direction
                               /\ line.type = "SET_PRIORITY" => line.priority \in 0..MAX_PRIORITY
         /\ \A g \in Ghost : Parsed(GhostMoves[g]) \in Seq(Kept)
<1>1. \A g \in Ghost : GhostMoves[g] \in Seq(Line) /\ GhostMoves[g] \in Seq(Range(GhostMoves[g]))
  BY DEF EnemyAssumption, Ghost, Range
<1>2. Lines \subseteq Line
  <2>1. ASSUME NEW g \in Ghost
        PROVE  Range(GhostMoves[g]) \subseteq Line
    <3>1. GhostMoves[g] \in Seq(Line)
      BY <1>1
    <3> QED
      BY <3>1 DEF Range
  <2> QED
    BY <2>1 DEF Lines
<1>3. ASSUME NEW line \in Kept
      PROVE  /\ line.type \in {"MOVE", "SET_PRIORITY"}
             /\ line.direction \in Direction
             /\ line.type = "SET_PRIORITY" => line.priority \in 0..MAX_PRIORITY
  <2>1. line \in Line /\ line.priority \in Nat
    BY <1>2 DEF Kept, Line
  <2>2. line.type = "SET_PRIORITY" => line.priority <= MAX_PRIORITY
    BY DEF Kept, parse_instruction_accepts
  <2>3. ASSUME NEW n \in Nat, n <= MAX_PRIORITY
        PROVE  n \in 0..MAX_PRIORITY
    BY <2>3 DEF MAX_PRIORITY
  <2> QED
    BY <2>1, <2>2, <2>3 DEF Line
<1>4. ASSUME NEW g \in Ghost
      PROVE  Parsed(GhostMoves[g]) \in Seq(Kept)
  <2>1. GhostMoves[g] \in Seq(Lines)
    <3>1. Range(GhostMoves[g]) \subseteq Lines
      BY DEF Lines
    <3> QED
      BY <1>1, <3>1
  <2>2. Len(GhostMoves[g]) \in 0..Len(GhostMoves[g])
    BY <2>1
  <2> QED
    BY <2>1, <2>2, ParsedLines DEF Parsed, Kept
<1> QED
  BY <1>3, <1>4 DEF Kept

-----------------------------------------------------------------------------
(* One lemma per part of the invariant. *)

\* What a ghost does to the types.
LEMMA GhostTypes ==
  ASSUME MazeAssumption, EnemyAssumption, TypeOK, Labels, NEW g \in Ghost, GhostThread(g)
  PROVE  /\ ghost_pc' \in [Ghost -> GhostLabel] /\ left' \in [Ghost -> Seq(Kept)]
         /\ turn_requested' \in [Ghost -> Nat] /\ turn_done' \in [Ghost -> Nat]
         /\ ghost_at' \in [Ghost -> Open] /\ should_stop' \in BOOLEAN
         /\ pending_priority' \in [Process -> 0..MAX_PRIORITY] /\ request_active' \subseteq Process
<1>1. /\ ghost_pc \in [Ghost -> GhostLabel] /\ left \in [Ghost -> Seq(Kept)]
      /\ turn_requested \in [Ghost -> Nat] /\ turn_done \in [Ghost -> Nat]
      /\ ghost_at \in [Ghost -> Open] /\ should_stop \in BOOLEAN
      /\ pending_priority \in [Process -> 0..MAX_PRIORITY] /\ request_active \subseteq Process
  BY DEF TypeOK, Labels
<1> USE DEF GhostGoto, ghost_sems, mailbox_vars
<1>2. CASE load_ghost_instructions(g)
  BY <1>1, <1>2, KeptLines DEF load_ghost_instructions, GhostLabel
<1>3. CASE GhostRequestsStop(g) \/ GhostReadsStop(g)
  BY <1>1, <1>3 DEF GhostRequestsStop, GhostReadsStop, GhostLabel
<1>4. CASE GhostAwaitsTurn(g)
  BY <1>1, <1>4, PostOrTake DEF GhostAwaitsTurn, GhostLabel
<1>5. CASE GhostAnswers(g)
  BY <1>1, <1>5, PostOrTake DEF GhostAnswers, GhostLabel
<1>6. CASE process_ghost_instruction(g)
  <2>1. /\ UNCHANGED <<turn_requested, turn_done, should_stop>>
        /\ ghost_pc' \in [Ghost -> GhostLabel]
    BY <1>1, <1>6 DEF process_ghost_instruction, GhostLabel
  <2>2. CASE left[g] = <<>>
    BY <1>1, <1>6, <2>1, <2>2 DEF process_ghost_instruction
  <2>3. CASE left[g] # <<>>
    <3>1. left[g] \in Seq(Kept)
      BY <1>1
    <3>2. Head(left[g]) \in Kept /\ Tail(left[g]) \in Seq(Kept)
      BY <3>1, <2>3, HeadTailProperties
    <3>3. left' \in [Ghost -> Seq(Kept)]
      BY <1>1, <1>6, <2>3, <3>2 DEF process_ghost_instruction
    <3>4. CASE Head(left[g]).type = "MOVE"
      <4>1. Moved(ghost_at[g], Head(left[g]).direction) \in Open
        BY <1>1, <3>2, KeptLines, MovedStaysOpen
      <4>2. /\ ghost_at' = [ghost_at EXCEPT ![g] = Moved(@, Head(left[g]).direction)]
            /\ UNCHANGED mailbox_vars
        BY <1>6, <2>3, <3>4 DEF process_ghost_instruction
      <4>3. ghost_at' \in [Ghost -> Open]
        BY <1>1, <4>1, <4>2
      <4> QED
        BY <1>1, <2>1, <3>3, <4>2, <4>3
    <3>5. CASE Head(left[g]).type # "MOVE"
      <4>1. Head(left[g]).type = "SET_PRIORITY" /\ Head(left[g]).priority \in 0..MAX_PRIORITY
        BY <3>2, <3>5, KeptLines
      <4>2. /\ pending_priority' = [pending_priority EXCEPT ![Enemy] = Head(left[g]).priority]
            /\ request_active' = request_active \cup {Enemy}
            /\ ghost_at' = ghost_at
        BY <1>6, <2>3, <4>1, <3>5 DEF process_ghost_instruction
      <4>3. /\ pending_priority' \in [Process -> 0..MAX_PRIORITY]
            /\ request_active' \subseteq Process
        BY <1>1, <4>1, <4>2 DEF Process
      <4> QED
        BY <1>1, <2>1, <3>3, <4>2, <4>3
    <3> QED
      BY <3>4, <3>5
  <2> QED
    BY <2>2, <2>3
<1> QED
  BY <1>2, <1>3, <1>4, <1>5, <1>6 DEF GhostThread

\* What the tracker, the detector and the controller do to the types.
LEMMA HelperTypes ==
  ASSUME EnemyAssumption, TypeOK, Labels, Tracker \/ Detector \/ Controller
  PROVE  /\ \A t \in Thread : pc'[t] \in ThreadLabel[t]
         /\ pc' = [t \in Thread |-> pc'[t]]
         /\ tracked' \in Open /\ should_stop' \in BOOLEAN
         /\ {tracker_requested', tracker_done', collision_requested', collision_done'}
              \subseteq Nat
         /\ turn_requested' \in [Ghost -> Nat] /\ turn_done' \in [Ghost -> Nat]
         /\ sem_turn' \in [Process -> Nat] /\ sem_done' \in [Process -> Nat]
         /\ next_ghost' \in [{"main", "controller"} -> Ghost]
         /\ seen_pacman' \in Open /\ seen_ghosts' \in [Ghost -> Open] /\ seen_tick' \in Nat
         /\ collision' \in {NoCollision} \cup [tick : Nat, ghost : Ghost]
<1>0. /\ \A t \in Thread : pc[t] \in ThreadLabel[t]
      /\ pc = [t \in Thread |-> pc[t]]
      /\ tracked \in Open /\ pacman_at \in Open /\ should_stop \in BOOLEAN
      /\ global_tick \in Nat
      /\ tracker_requested \in Nat /\ tracker_done \in Nat
      /\ collision_requested \in Nat /\ collision_done \in Nat
      /\ turn_requested \in [Ghost -> Nat] /\ turn_done \in [Ghost -> Nat]
      /\ sem_turn \in [Process -> Nat] /\ sem_done \in [Process -> Nat]
      /\ next_ghost \in [{"main", "controller"} -> Ghost]
      /\ ghost_at \in [Ghost -> Open]
      /\ seen_pacman \in Open /\ seen_ghosts \in [Ghost -> Open] /\ seen_tick \in Nat
      /\ collision \in {NoCollision} \cup [tick : Nat, ghost : Ghost]
  BY DEF TypeOK, Labels
<1>1. ASSUME NEW t \in Thread, NEW from, NEW to, Goes(t, from, to), to \in ThreadLabel[t]
      PROVE  /\ \A u \in Thread : pc'[u] \in ThreadLabel[u]
             /\ pc' = [u \in Thread |-> pc'[u]]
  BY <1>0, <1>1 DEF Goes
<1>2. CASE Tracker
  <2>1. TrackerEffect
    BY <1>2, TrackerSteps
  <2>2. \E from : \E to \in ThreadLabel["tracker"] : Goes("tracker", from, to)
    BY <2>1, ThreadLabels DEF TrackerEffect
  <2>3. /\ \A u \in Thread : pc'[u] \in ThreadLabel[u]
        /\ pc' = [u \in Thread |-> pc'[u]]
    BY <1>1, <2>2, ThreadLabels
  <2>4. tracked' \in Open /\ tracker_requested' \in Nat /\ tracker_done' \in Nat
    BY <1>0, <2>1 DEF TrackerEffect
  <2> QED
    BY <1>0, <2>1, <2>3, <2>4 DEF TrackerEffect
<1>3. CASE Detector
  <2>1. DetectorEffect
    BY <1>3, DetectorSteps
  <2>2. \E from : \E to \in ThreadLabel["detector"] : Goes("detector", from, to)
    BY <2>1, ThreadLabels DEF DetectorEffect
  <2>3. /\ \A u \in Thread : pc'[u] \in ThreadLabel[u]
        /\ pc' = [u \in Thread |-> pc'[u]]
    BY <1>1, <2>2, ThreadLabels
  <2>4. collision_requested' \in Nat /\ collision_done' \in Nat
    BY <1>0, <2>1 DEF DetectorEffect
  <2>5. /\ seen_pacman' \in Open /\ seen_ghosts' \in [Ghost -> Open] /\ seen_tick' \in Nat
    BY <1>0, <2>1 DEF DetectorEffect
  <2>6. collision' \in {NoCollision} \cup [tick : Nat, ghost : Ghost]
    <3>1. Colliding \subseteq Ghost
      BY DEF Colliding
    <3>2. \/ collision' = collision
          \/ \E g \in Colliding : collision' = [tick |-> seen_tick, ghost |-> g]
      BY <2>1 DEF DetectorEffect
    <3> QED
      BY <1>0, <3>1, <3>2
  <2> QED
    BY <1>0, <2>1, <2>3, <2>4, <2>5, <2>6 DEF DetectorEffect
<1>4. CASE Controller
  <2>1. ControllerEffect
    BY <1>4, ControllerSteps
  <2>2. /\ \A u \in Thread : pc'[u] \in ThreadLabel[u]
        /\ pc' = [u \in Thread |-> pc'[u]]
    <3>1. \/ \E from : \E to \in ThreadLabel["controller"] : Goes("controller", from, to)
          \/ pc' = pc
      BY <2>1, ThreadLabels DEF ControllerEffect, Loops, StopLabel
    <3> QED
      BY <1>0, <1>1, <3>1, ThreadLabels
  <2>3. \/ next_ghost' = next_ghost
        \/ next_ghost' = [next_ghost EXCEPT !["controller"] = 1]
        \/ next_ghost' \in [{"main", "controller"} -> Ghost]
    BY <2>1 DEF ControllerEffect, Loops
  <2>4. next_ghost' \in [{"main", "controller"} -> Ghost]
    <3>1. 1 \in Ghost
      BY DEF EnemyAssumption, Ghost
    <3>2. CASE next_ghost' = [next_ghost EXCEPT !["controller"] = 1]
      BY <1>0, <3>1, <3>2
    <3> QED
      BY <1>0, <2>3, <3>2
  <2>5. /\ turn_requested' = turn_requested \/ Posts(turn_requested, next_ghost["controller"])
        /\ turn_done' = turn_done \/ Takes(turn_done, next_ghost["controller"])
        /\ sem_turn' = sem_turn \/ Takes(sem_turn, Enemy)
        /\ sem_done' = sem_done \/ Posts(sem_done, Enemy)
    BY <2>1 DEF ControllerEffect, ghost_sems
  <2>6. turn_requested' \in [Ghost -> Nat] /\ turn_done' \in [Ghost -> Nat]
    <3>1. next_ghost["controller"] \in Ghost
      BY <1>0
    <3>2. turn_requested' \in [Ghost -> Nat]
      <4>1. turn_requested \in [Ghost -> Nat]
        BY <1>0
      <4>2. CASE Posts(turn_requested, next_ghost["controller"])
        BY <3>1, <4>1, <4>2, PostOrTake DEF Posts
      <4> QED
        BY <2>5, <4>1, <4>2
    <3>3. turn_done' \in [Ghost -> Nat]
      <4>1. turn_done \in [Ghost -> Nat]
        BY <1>0
      <4>2. CASE Takes(turn_done, next_ghost["controller"])
        BY <3>1, <4>1, <4>2, PostOrTake DEF Takes
      <4> QED
        BY <2>5, <4>1, <4>2
    <3> QED
      BY <3>2, <3>3
  <2>7. sem_turn' \in [Process -> Nat] /\ sem_done' \in [Process -> Nat]
    <3>1. Enemy \in Process
      BY DEF Process
    <3>2. sem_turn' \in [Process -> Nat]
      <4>1. sem_turn \in [Process -> Nat] /\ (sem_turn' = sem_turn \/ Takes(sem_turn, Enemy))
        BY <1>0, <2>5
      <4>2. CASE Takes(sem_turn, Enemy)
        <5>1. sem_turn[Enemy] > 0 /\ sem_turn' = [sem_turn EXCEPT ![Enemy] = @ - 1]
          BY <4>2 DEF Takes
        <5>2. sem_turn[Enemy] \in Nat
          BY <3>1, <4>1
        <5> QED
          BY <3>1, <4>1, <5>1, <5>2
      <4> QED
        BY <4>1, <4>2
    <3>3. sem_done' \in [Process -> Nat]
      <4>1. sem_done \in [Process -> Nat]
        BY <1>0
      <4>2. CASE Posts(sem_done, Enemy)
        BY <3>1, <4>1, <4>2, PostOrTake DEF Posts
      <4> QED
        BY <2>5, <4>1, <4>2
    <3> QED
      BY <3>2, <3>3
  <2>8. /\ tracker_requested' \in Nat /\ tracker_done' \in Nat
        /\ collision_requested' \in Nat /\ collision_done' \in Nat
    <3>1. /\ tracker_requested' \in {tracker_requested, tracker_requested + 1}
          /\ \/ tracker_done' = tracker_done
             \/ tracker_done > 0 /\ tracker_done' = tracker_done - 1
          /\ collision_requested' \in {collision_requested, collision_requested + 1}
          /\ \/ collision_done' = collision_done
             \/ collision_done > 0 /\ collision_done' = collision_done - 1
      BY <2>1 DEF ControllerEffect, helper_vars
    <3>2. tracker_requested' \in Nat /\ tracker_done' \in Nat
      BY <1>0, <3>1
    <3>3. collision_requested' \in Nat /\ collision_done' \in Nat
      BY <1>0, <3>1
    <3> QED
      BY <3>2, <3>3
  <2>9. should_stop' \in BOOLEAN
    BY <1>0, <2>1 DEF ControllerEffect
  <2> QED
    BY <1>0, <2>1, <2>2, <2>4, <2>6, <2>7, <2>8, <2>9 DEF ControllerEffect
<1> QED
  BY <1>2, <1>3, <1>4

\* What the main thread does to the types.
LEMMA MainTypes ==
  ASSUME EnemyAssumption, TypeOK, Labels, MainSteps
  PROVE  /\ \A t \in Thread : pc'[t] \in ThreadLabel[t]
         /\ pc' = [t \in Thread |-> pc'[t]]
         /\ should_stop' \in BOOLEAN /\ exited' \subseteq {Enemy}
         /\ tracker_requested' \in Nat /\ collision_requested' \in Nat
         /\ turn_requested' \in [Ghost -> Nat] /\ sem_turn' \in [Process -> Nat]
         /\ next_ghost' \in [{"main", "controller"} -> Ghost]
         /\ ghost_pc' \in [Ghost -> GhostLabel]
<1>0. /\ \A t \in Thread : pc[t] \in ThreadLabel[t]
      /\ should_stop \in BOOLEAN /\ exited \subseteq {Enemy}
      /\ tracker_requested \in Nat /\ collision_requested \in Nat
      /\ turn_requested \in [Ghost -> Nat] /\ sem_turn \in [Process -> Nat]
      /\ next_ghost \in [{"main", "controller"} -> Ghost]
      /\ ghost_pc \in [Ghost -> GhostLabel]
  BY DEF TypeOK
<1>1. MainEffect
  BY MainStepsEffect
<1>2. \A t \in Thread : pc'[t] \in ThreadLabel[t]
  <2>1. /\ pc'["main"] \in Creating \cup StopLabel \cup {"post_turn", "join", "exit"}
        /\ pc'["controller"] \in {pc["controller"], "turn"}
        /\ pc'["tracker"] \in {pc["tracker"], "wait"}
        /\ pc'["detector"] \in {pc["detector"], "wait"}
    BY <1>0, <1>1, ThreadLabels DEF MainEffect, Loops, Goes, Creating
  <2> QED
    BY <1>0, <2>1, ThreadLabels
<1>3. should_stop' \in BOOLEAN /\ exited' \subseteq {Enemy}
  BY <1>0, <1>1 DEF MainEffect
<1>4. tracker_requested' \in Nat /\ collision_requested' \in Nat
  <2>1. /\ tracker_requested' \in {tracker_requested, tracker_requested + 1}
        /\ collision_requested' \in {collision_requested, collision_requested + 1}
    BY <1>1 DEF MainEffect
  <2> QED
    BY <1>0, <2>1
<1>5. turn_requested' \in [Ghost -> Nat] /\ sem_turn' \in [Process -> Nat]
  <2>1. Enemy \in Process /\ next_ghost["main"] \in Ghost
    BY <1>0 DEF Process
  <2>2. /\ turn_requested' = turn_requested \/ Posts(turn_requested, next_ghost["main"])
        /\ sem_turn' = sem_turn \/ Posts(sem_turn, Enemy)
    BY <1>1 DEF MainEffect
  <2>3. turn_requested' \in [Ghost -> Nat]
    BY <1>0, <2>1, <2>2, PostOrTake DEF Posts
  <2>4. sem_turn' \in [Process -> Nat]
    <3>1. sem_turn \in [Process -> Nat] /\ (sem_turn' = sem_turn \/ Posts(sem_turn, Enemy))
      BY <1>0, <2>2
    <3> QED
      BY <2>1, <3>1, PostOrTake DEF Posts
  <2> QED
    BY <2>3, <2>4
<1>6. next_ghost' \in [{"main", "controller"} -> Ghost]
  BY <1>0, <1>1 DEF MainEffect, Loops
<1>7. ghost_pc' \in [Ghost -> GhostLabel]
  BY <1>0, <1>1 DEF MainEffect, GhostLabel
<1> QED
  BY <1>1, <1>2, <1>3, <1>4, <1>5, <1>6, <1>7 DEF MainEffect

\* The types and the labels.
LEMMA TypeStep ==
  ASSUME MazeAssumption, EnemyAssumption, TypeOK, Labels, [Next]_game_vars
  PROVE  TypeOK' /\ Labels'
<1>0. \A f \in [Ghost -> Seq(Kept)] : f \in [Ghost -> Seq(Lines)]
  BY KeptLines
<1>1. CASE (\E g \in Ghost : GhostThread(g)) /\ UNCHANGED <<p0, turns>>
  <2>1. PICK g \in Ghost : GhostThread(g)
    BY <1>1
  <2>2. GhostEffect(g)
    BY <2>1, GhostSteps
  <2>3. /\ ghost_pc' \in [Ghost -> GhostLabel] /\ left' \in [Ghost -> Seq(Kept)]
        /\ turn_requested' \in [Ghost -> Nat] /\ turn_done' \in [Ghost -> Nat]
        /\ ghost_at' \in [Ghost -> Open] /\ should_stop' \in BOOLEAN
        /\ pending_priority' \in [Process -> 0..MAX_PRIORITY] /\ request_active' \subseteq Process
    BY <2>1, GhostTypes
  <2>4. UNCHANGED <<global_tick, game_over, pacman_at, collision, sem_done, sem_turn, tracked,
                    tracker_requested, tracker_done, collision_requested, collision_done, pc,
                    next_ghost, seen_pacman, seen_ghosts, seen_tick, exited>>
    BY <2>2 DEF GhostEffect
  <2> QED
    BY <1>0, <1>1, <2>3, <2>4 DEF TypeOK, Labels
<1>2. CASE (Tracker \/ Detector \/ Controller) /\ UNCHANGED <<p0, turns>>
  <2>1. /\ \A t \in Thread : pc'[t] \in ThreadLabel[t]
        /\ pc' = [t \in Thread |-> pc'[t]]
        /\ tracked' \in Open /\ should_stop' \in BOOLEAN
        /\ {tracker_requested', tracker_done', collision_requested', collision_done'}
             \subseteq Nat
        /\ turn_requested' \in [Ghost -> Nat] /\ turn_done' \in [Ghost -> Nat]
        /\ sem_turn' \in [Process -> Nat] /\ sem_done' \in [Process -> Nat]
        /\ next_ghost' \in [{"main", "controller"} -> Ghost]
        /\ seen_pacman' \in Open /\ seen_ghosts' \in [Ghost -> Open] /\ seen_tick' \in Nat
        /\ collision' \in {NoCollision} \cup [tick : Nat, ghost : Ghost]
    BY <1>2, HelperTypes
  <2>2. UNCHANGED <<global_tick, game_over, pacman_at, exited, pending_priority,
                    request_active, ghost_at, left, ghost_pc>>
    BY <1>2, TrackerSteps, DetectorSteps, ControllerSteps
       DEF TrackerEffect, DetectorEffect, ControllerEffect
  <2> QED
    BY <1>2, <2>1, <2>2 DEF TypeOK, Labels
<1>3. CASE MainSteps /\ UNCHANGED <<p0, turns>>
  <2>1. /\ \A t \in Thread : pc'[t] \in ThreadLabel[t]
        /\ pc' = [t \in Thread |-> pc'[t]]
        /\ should_stop' \in BOOLEAN /\ exited' \subseteq {Enemy}
        /\ tracker_requested' \in Nat /\ collision_requested' \in Nat
        /\ turn_requested' \in [Ghost -> Nat] /\ sem_turn' \in [Process -> Nat]
        /\ next_ghost' \in [{"main", "controller"} -> Ghost]
        /\ ghost_pc' \in [Ghost -> GhostLabel]
    BY <1>3, MainTypes
  <2>2. UNCHANGED <<global_tick, game_over, pacman_at, collision, sem_done, tracked,
                    tracker_done, collision_done, ghost_at, left, turn_done, seen_pacman,
                    seen_ghosts, seen_tick, pending_priority, request_active>>
    BY <1>3, MainStepsEffect DEF MainEffect
  <2> QED
    BY <1>3, <2>1, <2>2 DEF TypeOK, Labels
<1>4. CASE P0 \/ P0Fails
  <2>1. UNCHANGED <<should_stop, tracked, tracker_requested, tracker_done,
                    collision_requested, collision_done, ghost_at, left, ghost_pc,
                    turn_requested, turn_done, pc, next_ghost, seen_pacman, seen_ghosts,
                    seen_tick, exited>>
    BY <1>4, P0Frame
  <2>2. /\ global_tick \in Nat /\ turns \in Nat /\ game_over \in BOOLEAN
        /\ pacman_at \in Open /\ collision \in {NoCollision} \cup [tick : Nat, ghost : Ghost]
        /\ sem_turn \in [Process -> Nat] /\ sem_done \in [Process -> Nat]
        /\ Enemy \in Process /\ request_active \subseteq Process
        /\ pending_priority \in [Process -> 0..MAX_PRIORITY]
        /\ p0 \in {"ready", "waiting", "first_post", "last_post", "wait_child"}
    BY DEF TypeOK, Labels, Process
  <2>3. /\ global_tick' \in Nat /\ turns' \in Nat
        /\ sem_turn' \in [Process -> Nat] /\ sem_done' \in [Process -> Nat]
        /\ game_over' \in BOOLEAN /\ pacman_at' \in Open
        /\ collision' \in {NoCollision} \cup [tick : Nat, ghost : Ghost]
        /\ pending_priority' \in [Process -> 0..MAX_PRIORITY]
        /\ request_active' \subseteq Process
        /\ p0' \in {"ready", "waiting", "first_post", "last_post", "wait_child"}
    <3> USE DEF p0_owned, mailbox_vars
    <3>1. CASE GrantTurn
      BY <2>2, <3>1, PostOrTake DEF GrantTurn
    <3>2. CASE TakeAnswer
      BY <2>2, <3>2, PostOrTake DEF TakeAnswer
    <3>3. CASE SetGameOver \/ P0Fails
      BY <2>2, <3>3 DEF SetGameOver, P0Fails
    <3>4. CASE PostShutdown
      BY <2>2, <3>4, PostOrTake DEF PostShutdown
    <3> QED
      BY <1>4, <3>1, <3>2, <3>3, <3>4 DEF P0
  <2> QED
    BY <2>1, <2>3 DEF TypeOK, Labels
<1>5. CASE UNCHANGED game_vars
  BY <1>5, NothingChanges DEF TypeOK, Labels
<1> QED
  BY <1>1, <1>2, <1>3, <1>4, <1>5, StepCases

\* What a step of another thread leaves alone.
LEMMA OtherFrame ==
  ASSUME TypeOK, Labels, (\E g \in Ghost : GhostThread(g)) \/ Tracker \/ Detector
  PROVE  /\ UNCHANGED <<game_over, sem_turn, sem_done, next_ghost>>
         /\ pc'["main"] = pc["main"] /\ pc'["controller"] = pc["controller"]
         /\ pc["tracker"] = "unborn" <=> pc'["tracker"] = "unborn"
         /\ pc["detector"] = "unborn" <=> pc'["detector"] = "unborn"
         /\ \A g \in Ghost : ghost_pc[g] = "unborn" <=> ghost_pc'[g] = "unborn"
         /\ should_stop => should_stop'
<1> USE DEF Thread
<1>1. CASE \E g \in Ghost : GhostThread(g)
  BY <1>1, GhostSteps DEF GhostEffect
<1>2. CASE Tracker
  <2>1. TrackerEffect
    BY <1>2, TrackerSteps
  <2>2. \/ Goes("tracker", "wait", "read_stop") \/ Goes("tracker", "track", "answer")
        \/ Goes("tracker", "read_stop", IF should_stop THEN "done" ELSE "track")
        \/ Goes("tracker", "answer", "wait")
    BY <2>1 DEF TrackerEffect
  <2>3. UNCHANGED <<game_over, sem_turn, sem_done, next_ghost, ghost_pc, should_stop>>
    BY <2>1 DEF TrackerEffect
  <2> QED
    BY <2>2, <2>3 DEF Goes
<1>3. CASE Detector
  <2>1. DetectorEffect
    BY <1>3, DetectorSteps
  <2>2. \/ Goes("detector", "wait", "read_stop") \/ Goes("detector", "copy_pacman", "copy_ghosts")
        \/ Goes("detector", "read_stop", IF should_stop THEN "done" ELSE "copy_pacman")
        \/ Goes("detector", "copy_ghosts", "copy_tick")
        \/ Goes("detector", "copy_tick", IF Colliding = {} THEN "answer" ELSE "publish")
        \/ Goes("detector", "publish", "answer") \/ Goes("detector", "answer", "wait")
    BY <2>1 DEF DetectorEffect
  <2>3. UNCHANGED <<game_over, sem_turn, sem_done, next_ghost, ghost_pc, should_stop>>
    BY <2>1 DEF DetectorEffect
  <2> QED
    BY <2>2, <2>3 DEF Goes
<1> QED
  BY <1>1, <1>2, <1>3

\* What a step of the controller leaves alone.
LEMMA ControllerFrame ==
  ASSUME EnemyAssumption, TypeOK, Labels, Controller
  PROVE  /\ UNCHANGED <<game_over, ghost_pc>>
         /\ \A t \in Thread \ {"controller"} : pc'[t] = pc[t]
         /\ pc["controller"] # "unborn" /\ pc'["controller"] # "unborn"
         /\ next_ghost'["main"] = next_ghost["main"]
         /\ pc'["controller"] \notin {"post_ghosts", "wait_ghosts", "stop_ghosts"} =>
              \/ next_ghost'["controller"] = 1
              \/ /\ next_ghost'["controller"] = next_ghost["controller"]
                 /\ pc["controller"] \notin {"post_ghosts", "wait_ghosts", "stop_ghosts"}
         /\ pc'["controller"] \in StopLabel \cup {"done"} =>
              game_over \/ pc["controller"] \in StopLabel \cup {"done"}
         /\ should_stop => should_stop'
<1>1. ControllerEffect
  BY ControllerSteps
<1>2. next_ghost \in [{"main", "controller"} -> Ghost]
  BY DEF TypeOK
<1>3. UNCHANGED <<game_over, ghost_pc>>
  BY <1>1 DEF ControllerEffect
<1>4. should_stop => should_stop'
  BY <1>1 DEF ControllerEffect
<1>5. \/ next_ghost' = next_ghost
      \/ next_ghost' = [next_ghost EXCEPT !["controller"] = 1]
      \/ \A u \in {"main", "controller"} \ {"controller"} : next_ghost'[u] = next_ghost[u]
  BY <1>1 DEF ControllerEffect, Loops
<1>6. next_ghost'["main"] = next_ghost["main"]
  BY <1>2, <1>5
<1>7. /\ \A t \in Thread \ {"controller"} : pc'[t] = pc[t]
      /\ pc["controller"] # "unborn" /\ pc'["controller"] # "unborn"
  BY <1>1 DEF ControllerEffect, Loops, Goes, Thread
<1>8. pc'["controller"] \in StopLabel \cup {"done"} =>
        game_over \/ pc["controller"] \in StopLabel \cup {"done"}
  BY <1>1 DEF ControllerEffect, Loops, Goes, StopLabel
<1>9. pc'["controller"] \notin {"post_ghosts", "wait_ghosts", "stop_ghosts"} =>
        \/ next_ghost'["controller"] = 1
        \/ /\ next_ghost'["controller"] = next_ghost["controller"]
           /\ pc["controller"] \notin {"post_ghosts", "wait_ghosts", "stop_ghosts"}
  BY <1>1 DEF ControllerEffect, Loops, Goes
<1> QED
  BY <1>3, <1>4, <1>6, <1>7, <1>8, <1>9

\* When no creation has failed, the main thread only creates threads.
MainCreates ==
  /\ UNCHANGED <<global_tick, game_over, pacman_at, collision, sem_done, sem_turn, tracked,
                 tracker_requested, tracker_done, collision_requested, collision_done,
                 should_stop, ghost_at, left, turn_requested, turn_done, seen_pacman,
                 seen_ghosts, seen_tick>>
  /\ next_ghost'["controller"] = next_ghost["controller"]
  /\ \/ /\ pc["controller"] = "unborn" /\ pc'["controller"] = "turn"
        /\ \A u \in {"tracker", "detector"} : pc'[u] = pc[u]
        /\ UNCHANGED ghost_pc
     \/ /\ \E g \in Ghost : /\ ghost_pc[g] = "unborn" /\ ghost_pc'[g] = "load"
                            /\ \A h \in Ghost \ {g} : ghost_pc'[h] = ghost_pc[h]
        /\ \A u \in {"controller", "tracker", "detector"} : pc'[u] = pc[u]
     \/ /\ pc["tracker"] = "unborn" /\ pc'["tracker"] = "wait"
        /\ \A u \in {"controller", "detector"} : pc'[u] = pc[u]
        /\ UNCHANGED ghost_pc
     \/ /\ pc["detector"] = "unborn" /\ pc'["detector"] = "wait"
        /\ \A u \in {"controller", "tracker"} : pc'[u] = pc[u]
        /\ UNCHANGED ghost_pc
     \/ /\ \A u \in {"controller", "tracker", "detector"} : pc'[u] = pc[u]
        /\ UNCHANGED ghost_pc

\* A step of main() after which no creation has failed creates threads, or waits.
LEMMA MainWhole ==
  ASSUME EnemyAssumption, TypeOK, Labels, Creation, MainSteps, Whole'
  PROVE  Whole /\ MainCreates
<1>0. next_ghost["main"] \in Ghost /\ ghost_pc \in [Ghost -> GhostLabel]
  BY DEF TypeOK
<1>1. MainEffect
  BY MainStepsEffect
<1>2. ~ /\ pc["main"] \in Creating \cup StopLabel \cup {"post_turn"}
        /\ pc'["main"] \in StopLabel \cup {"post_turn", "join", "exit"}
        /\ \A u \in Thread \ {"main"} : pc'[u] = pc[u]
  BY DEF Whole, Creation, Creating, StopLabel, Thread
<1>3. UNCHANGED <<global_tick, game_over, pacman_at, collision, sem_done, sem_turn, tracked,
                 tracker_requested, tracker_done, collision_requested, collision_done,
                 should_stop, ghost_at, left, turn_requested, turn_done, seen_pacman,
                 seen_ghosts, seen_tick>>
  BY <1>1, <1>2 DEF MainEffect
<1>4. next_ghost'["controller"] = next_ghost["controller"]
  BY <1>1 DEF MainEffect
<1>5. CASE /\ pc["main"] = "create_controller" /\ pc'["main"] = "create_ghosts"
           /\ pc'["controller"] = "turn"
           /\ \A u \in {"tracker", "detector"} : pc'[u] = pc[u]
           /\ UNCHANGED <<next_ghost, ghost_pc>>
  BY <1>3, <1>4, <1>5 DEF MainCreates, Creation, Whole, Creating
<1>6. CASE /\ Loops("main", "create_ghosts", "create_tracker")
           /\ ghost_pc' = [ghost_pc EXCEPT ![next_ghost["main"]] = "load"]
  <2>1. /\ pc["main"] = "create_ghosts"
        /\ \A u \in {"controller", "tracker", "detector"} : pc'[u] = pc[u]
    BY <1>6 DEF Loops, Goes, Thread
  <2>2. ghost_pc[next_ghost["main"]] = "unborn"
    <3>1. next_ghost["main"] \in Nat
      BY <1>0 DEF Ghost, EnemyAssumption
    <3>2. next_ghost["main"] >= next_ghost["main"]
      BY <3>1
    <3> QED
      BY <1>0, <2>1, <3>2 DEF Creation
  <2> QED
    BY <1>0, <1>3, <1>4, <1>6, <2>1, <2>2 DEF MainCreates, Whole, Creating
<1>7. CASE /\ pc["main"] = "create_tracker" /\ pc'["main"] = "create_detector"
           /\ pc'["tracker"] = "wait"
           /\ \A u \in {"controller", "detector"} : pc'[u] = pc[u]
           /\ UNCHANGED <<next_ghost, ghost_pc>>
  BY <1>3, <1>4, <1>7 DEF MainCreates, Creation, Whole, Creating
<1>8. CASE /\ pc["main"] = "create_detector" /\ pc'["main"] = "join"
           /\ pc'["detector"] = "wait"
           /\ \A u \in {"controller", "tracker"} : pc'[u] = pc[u]
           /\ UNCHANGED <<next_ghost, ghost_pc>>
  BY <1>3, <1>4, <1>8 DEF MainCreates, Creation, Whole, Creating
<1>9. CASE Goes("main", "join", "exit") /\ UNCHANGED <<next_ghost, ghost_pc>>
  BY <1>3, <1>4, <1>9 DEF MainCreates, Whole, Creating, Goes, Thread
<1> QED
  BY <1>1, <1>2, <1>5, <1>6, <1>7, <1>8, <1>9 DEF MainEffect

\* Once a creation has failed, or a stop is requested, it stays so.
LEMMA SoundStep ==
  ASSUME EnemyAssumption, TypeOK, Labels, Creation, [Next]_game_vars
  PROVE  /\ Whole' => Whole
         /\ should_stop => should_stop'
         /\ Sound' => Sound
<1>1. CASE ((\E g \in Ghost : GhostThread(g)) \/ Tracker \/ Detector) /\ UNCHANGED <<p0, turns>>
  BY <1>1, OtherFrame DEF Whole, Sound
<1>2. CASE Controller /\ UNCHANGED <<p0, turns>>
  BY <1>2, ControllerFrame DEF Whole, Sound, Thread
<1>3. CASE MainSteps /\ UNCHANGED <<p0, turns>>
  <2>1. Whole' => Whole
    BY <1>3, MainWhole
  <2>2. should_stop => should_stop'
    BY <1>3, MainStepsEffect DEF MainEffect
  <2> QED
    BY <2>1, <2>2 DEF Sound
<1>4. CASE P0 \/ P0Fails \/ UNCHANGED game_vars
  BY <1>4, P0Frame, NothingChanges DEF Whole, Sound
<1> QED
  BY <1>1, <1>2, <1>3, <1>4, StepCases

\* The order of creation.
LEMMA CreationStep ==
  ASSUME EnemyAssumption, TypeOK, Labels, Creation, [Next]_game_vars
  PROVE  Creation'
<1>0. next_ghost["main"] \in Ghost /\ Ghost \subseteq Nat /\ ghost_pc \in [Ghost -> GhostLabel]
  <2>1. next_ghost["main"] \in Ghost /\ ghost_pc \in [Ghost -> GhostLabel]
    BY DEF TypeOK
  <2>2. Ghost \subseteq Nat
    BY DEF EnemyAssumption, Ghost
  <2> QED
    BY <2>1, <2>2
<1>1. CASE ((\E g \in Ghost : GhostThread(g)) \/ Tracker \/ Detector) /\ UNCHANGED <<p0, turns>>
  BY <1>1, OtherFrame DEF Creation
<1>2. CASE Controller /\ UNCHANGED <<p0, turns>>
  <2>1. /\ ghost_pc' = ghost_pc
        /\ \A t \in {"main", "tracker", "detector"} : pc'[t] = pc[t]
        /\ pc["controller"] # "unborn" /\ pc'["controller"] # "unborn"
        /\ next_ghost'["main"] = next_ghost["main"]
        /\ pc'["controller"] \notin {"post_ghosts", "wait_ghosts", "stop_ghosts"} =>
              \/ next_ghost'["controller"] = 1
              \/ /\ next_ghost'["controller"] = next_ghost["controller"]
                 /\ pc["controller"] \notin {"post_ghosts", "wait_ghosts", "stop_ghosts"}
    BY <1>2, ControllerFrame DEF Thread
  <2> QED
    BY <2>1 DEF Creation
<1>3. CASE MainSteps /\ UNCHANGED <<p0, turns>>
  <2>1. MainEffect
    BY <1>3, MainStepsEffect
  <2>2. next_ghost'["controller"] = next_ghost["controller"]
    BY <2>1 DEF MainEffect
  <2>3. CASE /\ pc["main"] = "create_controller" /\ pc'["main"] = "create_ghosts"
             /\ pc'["controller"] = "turn"
             /\ \A u \in {"tracker", "detector"} : pc'[u] = pc[u]
             /\ UNCHANGED <<next_ghost, ghost_pc>>
    BY <2>3 DEF Creation, Creating, StopLabel
  <2>4. CASE /\ Loops("main", "create_ghosts", "create_tracker")
             /\ ghost_pc' = [ghost_pc EXCEPT ![next_ghost["main"]] = "load"]
    <3>1. /\ pc["main"] = "create_ghosts"
          /\ \A u \in {"controller", "tracker", "detector"} : pc'[u] = pc[u]
      BY <2>4 DEF Loops, Goes, Thread
    <3>2. \/ pc'["main"] = "create_tracker"
          \/ pc'["main"] = "create_ghosts" /\ next_ghost'["main"] = next_ghost["main"] + 1
      BY <2>4, <3>1 DEF Loops, Goes
    <3>3. pc'["main"] \in {"create_controller", "create_ghosts"} =>
            \A g \in Ghost : g >= next_ghost'["main"] => ghost_pc'[g] = "unborn"
      <4>1. ASSUME NEW g \in Ghost, g >= next_ghost["main"] + 1
            PROVE  g >= next_ghost["main"] /\ g # next_ghost["main"]
        <5>1. g \in Nat /\ next_ghost["main"] \in Nat
          BY <1>0
        <5> QED
          BY <4>1, <5>1
      <4>2. ASSUME NEW g \in Ghost, g >= next_ghost'["main"],
                   pc'["main"] \in {"create_controller", "create_ghosts"}
            PROVE  ghost_pc'[g] = "unborn"
        <5>1. g >= next_ghost["main"] /\ g # next_ghost["main"]
          BY <3>2, <4>1, <4>2
        <5>2. ghost_pc[g] = "unborn"
          BY <3>1, <5>1 DEF Creation
        <5> QED
          BY <1>0, <2>4, <5>1, <5>2
      <4> QED
        BY <4>2
    <3> QED
      BY <2>2, <3>1, <3>2, <3>3 DEF Creation, Creating
  <2>5. CASE /\ pc["main"] = "create_tracker" /\ pc'["main"] = "create_detector"
             /\ pc'["tracker"] = "wait"
             /\ \A u \in {"controller", "detector"} : pc'[u] = pc[u]
             /\ UNCHANGED <<next_ghost, ghost_pc>>
    BY <2>5 DEF Creation, Creating, StopLabel
  <2>6. CASE /\ pc["main"] = "create_detector" /\ pc'["main"] = "join"
             /\ pc'["detector"] = "wait"
             /\ \A u \in {"controller", "tracker"} : pc'[u] = pc[u]
             /\ UNCHANGED <<next_ghost, ghost_pc>>
    BY <2>6 DEF Creation, Creating, StopLabel
  <2>7. CASE Goes("main", "join", "exit") /\ UNCHANGED <<next_ghost, ghost_pc>>
    BY <2>7 DEF Creation, Creating, StopLabel, Goes, Thread
  <2>8. CASE /\ pc["main"] \in Creating \cup StopLabel \cup {"post_turn"}
             /\ pc'["main"] \in StopLabel \cup {"post_turn", "join", "exit"}
             /\ \A u \in Thread \ {"main"} : pc'[u] = pc[u]
             /\ UNCHANGED ghost_pc
    BY <2>2, <2>8 DEF Creation, Creating, StopLabel, Thread
  <2> QED
    BY <2>1, <2>3, <2>4, <2>5, <2>6, <2>7, <2>8 DEF MainEffect
<1>4. CASE P0 \/ P0Fails \/ UNCHANGED game_vars
  BY <1>4, P0Frame, NothingChanges DEF Creation
<1> QED
  BY <1>1, <1>2, <1>3, <1>4, StepCases

\* The end of the game.
LEMMA OverStep ==
  ASSUME EnemyAssumption, TypeOK, Labels, Creation, OverEnds, [Next]_game_vars
  PROVE  OverEnds'
<1>1. CASE ((\E g \in Ghost : GhostThread(g)) \/ Tracker \/ Detector) /\ UNCHANGED <<p0, turns>>
  BY <1>1, OtherFrame DEF OverEnds
<1>2. CASE Controller /\ UNCHANGED <<p0, turns>>
  BY <1>2, ControllerFrame DEF OverEnds
<1>3. CASE MainSteps /\ UNCHANGED <<p0, turns>>
  <2>1. game_over' = game_over /\ pc'["controller"] \in {pc["controller"], "turn"}
    BY <1>3, MainStepsEffect DEF MainEffect, Loops, Goes, Thread
  <2> QED
    BY <1>3, <2>1 DEF OverEnds, StopLabel
<1>4. CASE P0 \/ P0Fails
  <2>1. pc' = pc
    BY <1>4, P0Frame
  <2>2. game_over' = (p0' \notin {"ready", "waiting"}) /\ (game_over => game_over')
    BY <1>4 DEF P0, P0Fails, GrantTurn, TakeAnswer, SetGameOver, PostShutdown, OverEnds,
                p0_owned, TypeOK, Labels
  <2> QED
    BY <2>1, <2>2 DEF OverEnds
<1>5. CASE UNCHANGED game_vars
  BY <1>5, NothingChanges DEF OverEnds
<1> QED
  BY <1>1, <1>2, <1>3, <1>4, <1>5, StepCases

\* The controller takes a turn, works on it, or answers.
LEMMA ControllerTurn ==
  ASSUME EnemyAssumption, TypeOK, Labels, OverEnds, Controller, ~game_over
  PROVE  \/ /\ pc["controller"] = "turn" /\ pc'["controller"] = "read_over"
            /\ sem_turn[Enemy] > 0 /\ sem_turn'[Enemy] = sem_turn[Enemy] - 1
            /\ sem_done' = sem_done
         \/ /\ pc["controller"] \in InTurn /\ pc'["controller"] \in InTurn
            /\ UNCHANGED <<sem_turn, sem_done>>
         \/ /\ pc["controller"] = "answer" /\ pc'["controller"] = "turn"
            /\ sem_done'[Enemy] = sem_done[Enemy] + 1 /\ sem_turn' = sem_turn
<1>1. ControllerEffect
  BY ControllerSteps
<1>2. pc["controller"] \notin StopLabel \cup {"done"}
  BY DEF OverEnds
<1>3. /\ sem_turn \in [Process -> Nat] /\ sem_done \in [Process -> Nat] /\ Enemy \in Process
  BY DEF TypeOK, Process
<1>4. CASE Goes("controller", "turn", "read_over") /\ Takes(sem_turn, Enemy) /\ sem_done' = sem_done
  <2>1. sem_turn[Enemy] > 0 /\ sem_turn'[Enemy] = sem_turn[Enemy] - 1
    BY <1>3, <1>4, PostOrTake DEF Takes
  <2> QED
    BY <1>4, <2>1 DEF Goes
<1>5. CASE Goes("controller", "answer", "turn") /\ Posts(sem_done, Enemy) /\ sem_turn' = sem_turn
  <2>1. sem_done'[Enemy] = sem_done[Enemy] + 1
    BY <1>3, <1>5, PostOrTake DEF Posts
  <2> QED
    BY <1>5, <2>1 DEF Goes
<1>6. CASE /\ pc["controller"] \in InTurn /\ pc'["controller"] \in InTurn
           /\ UNCHANGED <<sem_turn, sem_done>>
  BY <1>6
<1> QED
  BY <1>1, <1>2, <1>4, <1>5, <1>6 DEF ControllerEffect, Loops, Goes, InTurn, StopLabel

\* The turn.
LEMMA TurnStep ==
  ASSUME EnemyAssumption, TypeOK, Labels, Creation, OverEnds, Turn, [Next]_game_vars
  PROVE  Turn'
<1>0. /\ sem_turn[Enemy] \in Nat /\ sem_done[Enemy] \in Nat /\ Enemy \in Process
      /\ sem_turn \in [Process -> Nat] /\ sem_done \in [Process -> Nat]
      /\ collision_done \in Nat
  BY DEF TypeOK, Process
<1>1. CASE (\E g \in Ghost : GhostThread(g)) /\ UNCHANGED <<p0, turns>>
  <2>1. UNCHANGED <<game_over, sem_turn, sem_done, collision_done, pc>>
    BY <1>1, GhostSteps DEF GhostEffect
  <2> QED
    BY <1>1, <2>1 DEF Turn, Whole, TurnsOut
<1>2. CASE (Tracker \/ Detector) /\ UNCHANGED <<p0, turns>>
  <2>1. /\ UNCHANGED <<game_over, sem_turn, sem_done>>
        /\ pc'["main"] = pc["main"] /\ pc'["controller"] = pc["controller"]
        /\ pc["detector"] = "unborn" <=> pc'["detector"] = "unborn"
    BY <1>2, OtherFrame
  <2>2. pc["detector"] # "unborn" \/ collision_done' = collision_done
    BY <1>2, TrackerSteps, DetectorSteps DEF TrackerEffect, DetectorEffect, Goes
  <2> QED
    BY <1>2, <2>1, <2>2 DEF Turn, Whole, TurnsOut
<1>3. CASE Controller /\ UNCHANGED <<p0, turns>>
  <2>1. /\ game_over' = game_over
        /\ pc'["detector"] = pc["detector"] /\ pc'["main"] = pc["main"]
    BY <1>3, ControllerFrame DEF Thread
  <2>2. ASSUME pc["detector"] = "unborn"
        PROVE  sem_done'[Enemy] = 0 /\ collision_done' = 0 /\ pc'["controller"] # "answer"
    <3>1. ControllerEffect
      BY <1>3, ControllerSteps
    <3>2. sem_done[Enemy] = 0 /\ collision_done = 0 /\ pc["controller"] # "answer"
      BY <2>2 DEF Turn
    <3>3. /\ \/ sem_done' = sem_done
             \/ pc["controller"] = "answer"
          /\ \/ collision_done' = collision_done
             \/ collision_done > 0
          /\ \/ pc'["controller"] # "answer"
             \/ collision_done > 0
             \/ pc["controller"] = "answer"
      BY <3>1 DEF ControllerEffect, Loops, Goes, helper_vars
    <3> QED
      BY <3>2, <3>3
  <2>3. ASSUME Whole, ~game_over
        PROVE  TurnsOut' = TurnsOut
    <3>1. CASE /\ pc["controller"] = "turn" /\ pc'["controller"] = "read_over"
               /\ sem_turn[Enemy] > 0 /\ sem_turn'[Enemy] = sem_turn[Enemy] - 1
               /\ sem_done' = sem_done
      BY <1>0, <3>1 DEF TurnsOut, InTurn
    <3>2. CASE /\ pc["controller"] \in InTurn /\ pc'["controller"] \in InTurn
               /\ UNCHANGED <<sem_turn, sem_done>>
      BY <3>2 DEF TurnsOut
    <3>3. CASE /\ pc["controller"] = "answer" /\ pc'["controller"] = "turn"
               /\ sem_done'[Enemy] = sem_done[Enemy] + 1 /\ sem_turn' = sem_turn
      BY <1>0, <3>3 DEF TurnsOut, InTurn
    <3> QED
      BY <1>3, <2>3, <3>1, <3>2, <3>3, ControllerTurn
  <2> QED
    BY <1>3, <2>1, <2>2, <2>3 DEF Turn, Whole
<1>4. CASE MainSteps /\ UNCHANGED <<p0, turns>>
  <2>1. ASSUME pc'["detector"] = "unborn"
        PROVE  sem_done'[Enemy] = 0 /\ collision_done' = 0 /\ pc'["controller"] # "answer"
    <3>1. MainEffect
      BY <1>4, MainStepsEffect
    <3>2. UNCHANGED <<sem_done, collision_done>>
      BY <3>1 DEF MainEffect
    <3>3. pc["detector"] = "unborn" /\ pc'["controller"] \in {pc["controller"], "turn"}
      BY <2>1, <3>1 DEF MainEffect, Loops, Goes, Thread, Creation, Creating
    <3> QED
      BY <3>2, <3>3 DEF Turn
  <2>2. ASSUME Whole', ~game_over'
        PROVE  Whole /\ ~game_over /\ TurnsOut' = TurnsOut
    <3>1. Whole /\ MainCreates
      BY <1>4, <2>2, MainWhole
    <3>2. UNCHANGED <<sem_done, sem_turn, game_over>>
      BY <3>1 DEF MainCreates
    <3>3. \/ pc["controller"] = "unborn" /\ pc'["controller"] = "turn"
          \/ pc'["controller"] = pc["controller"]
      BY <3>1 DEF MainCreates
    <3> QED
      BY <2>2, <3>1, <3>2, <3>3 DEF TurnsOut, InTurn
  <2> QED
    BY <1>4, <2>1, <2>2 DEF Turn
<1>5. CASE P0 \/ P0Fails
  <2>1. UNCHANGED <<pc, collision_done>>
    BY <1>5, P0Frame
  <2>2. pc["detector"] = "unborn" => sem_done'[Enemy] = 0
    <3>1. \/ sem_done' = sem_done
          \/ sem_done[Enemy] > 0
      BY <1>5 DEF P0, P0Fails, GrantTurn, TakeAnswer, SetGameOver, PostShutdown
    <3> QED
      BY <3>1 DEF Turn
  <2>3. ASSUME Whole, ~game_over'
        PROVE  ~game_over /\ TurnsOut' = IF p0' = "waiting" THEN 1 ELSE 0
    <3>1. CASE GrantTurn
      <4>1. sem_turn'[Enemy] = sem_turn[Enemy] + 1
        BY <1>0, <3>1, PostOrTake DEF GrantTurn
      <4>2. /\ UNCHANGED <<sem_done, game_over>> /\ p0 = "ready" /\ p0' = "waiting"
        BY <3>1 DEF GrantTurn
      <4>3. sem_turn[Enemy] + (IF pc["controller"] \in InTurn THEN 1 ELSE 0) + sem_done[Enemy] = 0
        BY <2>3, <4>2 DEF Turn, TurnsOut
      <4> QED
        BY <1>0, <2>1, <2>3, <4>1, <4>2, <4>3 DEF TurnsOut
    <3>2. CASE TakeAnswer
      <4>1. sem_done'[Enemy] = sem_done[Enemy] - 1
        BY <1>0, <3>2, PostOrTake DEF TakeAnswer
      <4>2. /\ UNCHANGED <<sem_turn, game_over>> /\ p0 = "waiting" /\ p0' = "ready"
        BY <3>2 DEF TakeAnswer, p0_owned
      <4>3. sem_turn[Enemy] + (IF pc["controller"] \in InTurn THEN 1 ELSE 0) + sem_done[Enemy] = 1
        BY <2>3, <4>2 DEF Turn, TurnsOut
      <4> QED
        BY <1>0, <2>1, <2>3, <4>1, <4>2, <4>3 DEF TurnsOut
    <3>3. CASE SetGameOver \/ PostShutdown \/ P0Fails
      <4>1. game_over'
        BY <3>3 DEF SetGameOver, PostShutdown, P0Fails, OverEnds, p0_owned
      <4> QED
        BY <2>3, <4>1
    <3> QED
      BY <1>5, <3>1, <3>2, <3>3 DEF P0
  <2> QED
    BY <2>1, <2>2, <2>3 DEF Turn, Whole
<1>6. CASE UNCHANGED game_vars
  BY <1>6, NothingChanges DEF Turn, Whole, TurnsOut
<1> QED
  BY <1>1, <1>2, <1>3, <1>4, <1>5, <1>6, StepCases

\* Who is at work, when the books are exact.
LEMMA Idle ==
  ASSUME TypeOK, GhostTokens, TrackerTokens, DetectorTokens
  PROVE  /\ \A g \in Ghost :
              \/ turn_requested[g] > 0 \/ ghost_pc[g] \in Working \/ turn_done[g] > 0
              => Due(g) /\ pc["controller"] \in {"post_ghosts", "wait_ghosts"}
         /\ \/ tracker_requested > 0 \/ pc["tracker"] \in {"read_stop", "track", "answer"}
            \/ tracker_done > 0
            => pc["controller"] = "wait_tracker"
         /\ \/ collision_requested > 0 \/ pc["detector"] \in Judging \cup {"read_stop"}
            \/ collision_done > 0
            => pc["controller"] = "wait_detector"
<1>0. /\ \A g \in Ghost : turn_requested[g] \in Nat /\ turn_done[g] \in Nat
      /\ tracker_requested \in Nat /\ tracker_done \in Nat
      /\ collision_requested \in Nat /\ collision_done \in Nat
  BY DEF TypeOK
<1>1. ASSUME NEW g \in Ghost,
             turn_requested[g] > 0 \/ ghost_pc[g] \in Working \/ turn_done[g] > 0
      PROVE  Due(g) /\ pc["controller"] \in {"post_ghosts", "wait_ghosts"}
  <2>1. Due(g)
    BY <1>0, <1>1 DEF GhostTokens
  <2> QED
    BY <2>1 DEF Due
<1>2. ASSUME \/ tracker_requested > 0 \/ pc["tracker"] \in {"read_stop", "track", "answer"}
             \/ tracker_done > 0
      PROVE  pc["controller"] = "wait_tracker"
  BY <1>0, <1>2 DEF TrackerTokens
<1>3. ASSUME \/ collision_requested > 0 \/ pc["detector"] \in Judging \cup {"read_stop"}
             \/ collision_done > 0
      PROVE  pc["controller"] = "wait_detector"
  BY <1>0, <1>3 DEF DetectorTokens
<1> QED
  BY <1>1, <1>2, <1>3

\* There is one turn at most.
LEMMA OneTurn ==
  ASSUME TypeOK, Labels, OverEnds, Turn, Whole, ~game_over
  PROVE  /\ sem_turn[Enemy] \in Nat /\ sem_done[Enemy] \in Nat
         /\ p0 \in {"ready", "waiting"}
         /\ p0 = "ready" => /\ sem_turn[Enemy] = 0 /\ sem_done[Enemy] = 0
                            /\ pc["controller"] \notin InTurn
         /\ pc["controller"] \in InTurn => sem_turn[Enemy] = 0 /\ sem_done[Enemy] = 0
         /\ sem_done[Enemy] > 0 => /\ sem_turn[Enemy] = 0 /\ sem_done[Enemy] = 1
                                   /\ pc["controller"] \notin InTurn
         /\ sem_turn[Enemy] > 0 => /\ sem_done[Enemy] = 0 /\ sem_turn[Enemy] = 1
                                   /\ pc["controller"] \notin InTurn
<1>1. sem_turn[Enemy] \in Nat /\ sem_done[Enemy] \in Nat
  BY DEF TypeOK, Process
<1>2. p0 \in {"ready", "waiting"}
  BY DEF OverEnds
<1>3. sem_turn[Enemy] + (IF pc["controller"] \in InTurn THEN 1 ELSE 0) + sem_done[Enemy]
        = IF p0 = "waiting" THEN 1 ELSE 0
  BY DEF Turn, TurnsOut
<1>4. CASE pc["controller"] \in InTurn
  <2>1. sem_turn[Enemy] + 1 + sem_done[Enemy] <= 1
    BY <1>1, <1>3, <1>4
  <2> QED
    BY <1>1, <1>2, <1>3, <1>4, <2>1
<1>5. CASE pc["controller"] \notin InTurn
  <2>1. sem_turn[Enemy] + sem_done[Enemy] = IF p0 = "waiting" THEN 1 ELSE 0
    BY <1>1, <1>3, <1>5
  <2> QED
    BY <1>1, <1>2, <1>5, <2>1
<1> QED
  BY <1>4, <1>5

\* P0 grants a turn when P2 has none and nobody is at work.
LEMMA GrantIsQuiet ==
  ASSUME TypeOK, Labels, OverEnds, Turn, Whole, GhostTokens, TrackerTokens, DetectorTokens,
         p0 = "ready"
  PROVE  /\ ~game_over /\ sem_turn[Enemy] = 0 /\ sem_done[Enemy] = 0
         /\ pc["controller"] \notin InTurn
         /\ \A g \in Ghost : turn_requested[g] = 0 /\ ghost_pc[g] \notin Working
         /\ pc["tracker"] # "answer" /\ tracker_done = 0
         /\ pc["detector"] \notin Judging /\ collision_done = 0
<1>0. /\ \A g \in Ghost : turn_requested[g] \in Nat
      /\ tracker_done \in Nat /\ collision_done \in Nat
  BY DEF TypeOK
<1>1. ~game_over
  BY DEF OverEnds
<1>2. /\ sem_turn[Enemy] = 0 /\ sem_done[Enemy] = 0
      /\ pc["controller"] \notin InTurn
  BY <1>1, OneTurn
<1>3. pc["controller"] \notin {"post_ghosts", "wait_ghosts", "wait_tracker", "wait_detector"}
  BY <1>2 DEF InTurn
<1>4. \A g \in Ghost : ~(turn_requested[g] > 0) /\ ghost_pc[g] \notin Working
  BY <1>3, Idle
<1>5. /\ pc["tracker"] # "answer" /\ ~(tracker_done > 0)
      /\ pc["detector"] \notin Judging /\ ~(collision_done > 0)
  BY <1>3, Idle
<1>6. /\ \A g \in Ghost : turn_requested[g] = 0
      /\ tracker_done = 0 /\ collision_done = 0
  BY <1>0, <1>4, <1>5
<1> QED
  BY <1>1, <1>2, <1>4, <1>5, <1>6

\* As long as no stop is requested, the controller is not about to stop either.
LEMMA NoStop ==
  ASSUME EnemyAssumption, TypeOK, Labels, Stops, Sound, Sound', Controller
  PROVE  pc["controller"] \notin StopLabel
<1>1. ControllerEffect
  BY ControllerSteps
<1>2. ~should_stop /\ ~should_stop'
  BY DEF Sound
<1>3. pc["controller"] \notin {"stop_ghosts", "stop_tracker", "stop_detector"}
  BY <1>2 DEF Stops
<1>4. pc["controller"] # "stop"
  BY <1>1, <1>2 DEF ControllerEffect, Goes, Loops
<1> QED
  BY <1>3, <1>4 DEF StopLabel

\* The controller posts a ghost that is not due yet, awaits one that is, or
\* leaves the ghosts alone.
Ledger(h) ==
  \/ /\ Due(h)' <=> Due(h)
     /\ turn_requested'[h] = turn_requested[h] /\ turn_done'[h] = turn_done[h]
  \/ /\ ~Due(h) /\ Due(h)' /\ pc["controller"] = "post_ghosts" /\ h = next_ghost["controller"]
     /\ turn_requested'[h] = turn_requested[h] + 1 /\ turn_done'[h] = turn_done[h]
  \/ /\ Due(h) /\ ~Due(h)' /\ turn_done[h] > 0
     /\ turn_requested'[h] = turn_requested[h] /\ turn_done'[h] = turn_done[h] - 1

\* A step of the controller keeps the tokens of each ghost in step with the place
\* where the controller is in its loops.
LEMMA ControllerLedger ==
  ASSUME EnemyAssumption, TypeOK, Labels, Creation, Stops, Sound, Sound', Controller,
         NEW h \in Ghost
  PROVE  Ledger(h)
<1>0. /\ turn_requested \in [Ghost -> Nat] /\ turn_done \in [Ghost -> Nat]
      /\ next_ghost["controller"] \in Ghost
  BY DEF TypeOK
<1>n. /\ GhostCount \in Nat /\ 1 <= h /\ h <= GhostCount /\ h \in Nat
      /\ next_ghost["controller"] \in Nat /\ next_ghost["controller"] <= GhostCount
      /\ 1 <= next_ghost["controller"]
  BY <1>0 DEF EnemyAssumption, Ghost
<1>1. ControllerEffect
  BY ControllerSteps
<1>2. pc["controller"] \notin StopLabel
  BY NoStop
<1>3. CASE /\ Loops("controller", "post_ghosts", "wait_ghosts")
           /\ Posts(turn_requested, next_ghost["controller"])
           /\ turn_done' = turn_done
  <2>1. /\ turn_requested'[next_ghost["controller"]] = turn_requested[next_ghost["controller"]] + 1
        /\ \A g \in Ghost \ {next_ghost["controller"]} : turn_requested'[g] = turn_requested[g]
    BY <1>0, <1>3, PostOrTake DEF Posts
  <2>2. /\ pc["controller"] = "post_ghosts"
        /\ \/ /\ next_ghost["controller"] = GhostCount /\ next_ghost'["controller"] = 1
              /\ pc'["controller"] = "wait_ghosts"
           \/ /\ next_ghost'["controller"] = next_ghost["controller"] + 1
              /\ pc'["controller"] = "post_ghosts"
    BY <1>3 DEF Loops, Goes
  <2>3. CASE h = next_ghost["controller"]
    <3>1. ~Due(h)
      BY <1>n, <2>2, <2>3 DEF Due
    <3>2. Due(h)'
      BY <1>n, <2>2, <2>3 DEF Due
    <3> QED
      BY <1>3, <2>1, <2>2, <2>3, <3>1, <3>2 DEF Ledger
  <2>4. CASE h # next_ghost["controller"]
    <3>1. Due(h)' <=> Due(h)
      <4>1. CASE pc'["controller"] = "wait_ghosts"
        BY <1>n, <2>2, <2>4, <4>1 DEF Due
      <4>2. CASE pc'["controller"] = "post_ghosts"
        <5>1. next_ghost'["controller"] = next_ghost["controller"] + 1
          BY <2>2, <4>2
        <5>2. h < next_ghost'["controller"] <=> h < next_ghost["controller"]
          BY <1>n, <2>4, <5>1
        <5> QED
          BY <2>2, <4>2, <5>2 DEF Due
      <4> QED
        BY <2>2, <4>1, <4>2
    <3> QED
      BY <1>3, <2>1, <2>4, <3>1 DEF Ledger
  <2> QED
    BY <2>3, <2>4
<1>4. CASE /\ Loops("controller", "wait_ghosts", "post_tracker")
           /\ Takes(turn_done, next_ghost["controller"])
           /\ turn_requested' = turn_requested
  <2>0. turn_done[next_ghost["controller"]] > 0
    BY <1>4 DEF Takes
  <2>1. /\ turn_done'[next_ghost["controller"]] = turn_done[next_ghost["controller"]] - 1
        /\ \A g \in Ghost \ {next_ghost["controller"]} : turn_done'[g] = turn_done[g]
    BY <1>0, <1>4, <2>0, PostOrTake DEF Takes
  <2>2. /\ pc["controller"] = "wait_ghosts"
        /\ \/ /\ next_ghost["controller"] = GhostCount /\ next_ghost'["controller"] = 1
              /\ pc'["controller"] = "post_tracker"
           \/ /\ next_ghost'["controller"] = next_ghost["controller"] + 1
              /\ pc'["controller"] = "wait_ghosts"
    BY <1>4 DEF Loops, Goes
  <2>3. CASE h = next_ghost["controller"]
    <3>1. Due(h)
      BY <1>n, <2>2, <2>3 DEF Due
    <3>2. ~Due(h)'
      BY <1>n, <2>2, <2>3 DEF Due
    <3> QED
      BY <1>4, <2>0, <2>1, <2>3, <3>1, <3>2 DEF Ledger
  <2>4. CASE h # next_ghost["controller"]
    <3>1. Due(h)' <=> Due(h)
      BY <1>n, <2>2, <2>4 DEF Due
    <3> QED
      BY <1>4, <2>1, <2>4, <3>1 DEF Ledger
  <2> QED
    BY <2>3, <2>4
<1>5. CASE /\ Goes("controller", "read_over", IF game_over THEN "stop" ELSE "post_ghosts")
           /\ UNCHANGED <<ghost_sems, next_ghost>>
  <2>1. /\ pc["controller"] = "read_over" /\ pc'["controller"] \in {"stop", "post_ghosts"}
        /\ next_ghost["controller"] = 1 /\ next_ghost'["controller"] = 1
    BY <1>5 DEF Goes, Creation
  <2>2. ~Due(h) /\ ~Due(h)'
    BY <1>n, <2>1 DEF Due
  <2> QED
    BY <1>5, <2>2 DEF Ledger, ghost_sems
<1>6. CASE /\ pc["controller"] \notin {"post_ghosts", "wait_ghosts"}
           /\ pc'["controller"] \notin {"post_ghosts", "wait_ghosts"}
           /\ UNCHANGED ghost_sems
  BY <1>6 DEF Ledger, Due, ghost_sems
<1> QED
  BY <1>1, <1>2, <1>3, <1>4, <1>5, <1>6 DEF ControllerEffect, Goes, Loops, StopLabel

\* The tokens of the ghosts.
LEMMA GhostTokensStep ==
  ASSUME EnemyAssumption, IInv, Sound, Sound', [Next]_game_vars
  PROVE  GhostTokens'
<1>0. /\ TypeOK /\ Labels /\ Creation /\ Stops /\ GhostTokens
      /\ \A g \in Ghost : turn_requested[g] \in Nat /\ turn_done[g] \in Nat
  BY DEF IInv, TypeOK
<1>1. ASSUME NEW g \in Ghost, GhostThread(g)
      PROVE  GhostTokens'
  <2>1. GhostEffect(g)
    BY <1>0, <1>1, GhostSteps
  <2>2. ASSUME NEW h \in Ghost
        PROVE  Due(h)' = Due(h)
    BY <2>1 DEF GhostEffect, Due
  <2>3. ASSUME NEW h \in Ghost, h # g
        PROVE  turn_requested'[h] + (IF ghost_pc'[h] \in Working THEN 1 ELSE 0) + turn_done'[h]
                 = turn_requested[h] + (IF ghost_pc[h] \in Working THEN 1 ELSE 0) + turn_done[h]
    BY <2>1, <2>3 DEF GhostEffect
  <2>4. turn_requested'[g] + (IF ghost_pc'[g] \in Working THEN 1 ELSE 0) + turn_done'[g]
          = turn_requested[g] + (IF ghost_pc[g] \in Working THEN 1 ELSE 0) + turn_done[g]
    <3>1. ~should_stop /\ ~should_stop'
      BY DEF Sound
    <3>2. \/ /\ ghost_pc[g] \in Working <=> ghost_pc'[g] \in Working
             /\ turn_requested'[g] = turn_requested[g] /\ turn_done'[g] = turn_done[g]
          \/ /\ ghost_pc[g] \notin Working /\ ghost_pc'[g] \in Working
             /\ turn_requested'[g] = turn_requested[g] - 1 /\ turn_done'[g] = turn_done[g]
          \/ /\ ghost_pc[g] \in Working /\ ghost_pc'[g] \notin Working
             /\ turn_requested'[g] = turn_requested[g] /\ turn_done'[g] = turn_done[g] + 1
      BY <2>1, <3>1 DEF GhostEffect, Working
    <3>3. /\ turn_requested[g] \in Nat /\ turn_done[g] \in Nat
      BY <1>0
    <3>4. CASE /\ ghost_pc[g] \in Working <=> ghost_pc'[g] \in Working
               /\ turn_requested'[g] = turn_requested[g] /\ turn_done'[g] = turn_done[g]
      BY <3>4
    <3>5. CASE /\ ghost_pc[g] \notin Working /\ ghost_pc'[g] \in Working
               /\ turn_requested'[g] = turn_requested[g] - 1 /\ turn_done'[g] = turn_done[g]
      BY <3>3, <3>5
    <3>6. CASE /\ ghost_pc[g] \in Working /\ ghost_pc'[g] \notin Working
               /\ turn_requested'[g] = turn_requested[g] /\ turn_done'[g] = turn_done[g] + 1
      <4>1. /\ (IF ghost_pc[g] \in Working THEN 1 ELSE 0) = 1
            /\ (IF ghost_pc'[g] \in Working THEN 1 ELSE 0) = 0
        BY <3>6
      <4>0. turn_requested'[g] = turn_requested[g] /\ turn_done'[g] = turn_done[g] + 1
        BY <3>6
      <4>2. turn_requested'[g] + 0 + turn_done'[g] = turn_requested[g] + 1 + turn_done[g]
        <5>1. ASSUME NEW a \in Nat, NEW b \in Nat
              PROVE  a + 0 + (b + 1) = a + 1 + b
          OBVIOUS
        <5> QED
          BY <3>3, <4>0, <5>1
      <4> QED
        BY <4>1, <4>2
    <3> QED
      BY <3>2, <3>4, <3>5, <3>6
  <2> QED
    BY <1>0, <2>2, <2>3, <2>4 DEF GhostTokens
<1>2. CASE Tracker \/ Detector
  <2>1. /\ pc'["controller"] = pc["controller"] /\ next_ghost' = next_ghost
    BY <1>0, <1>2, OtherFrame
  <2>2. UNCHANGED <<turn_requested, turn_done, ghost_pc>>
    BY <1>0, <1>2, TrackerSteps, DetectorSteps DEF TrackerEffect, DetectorEffect
  <2> QED
    BY <1>0, <2>1, <2>2 DEF GhostTokens, Due
<1>3. CASE Controller
  <2>1. ghost_pc' = ghost_pc
    BY <1>0, <1>3, ControllerFrame
  <2>2. ASSUME NEW h \in Ghost
        PROVE  turn_requested'[h] + (IF ghost_pc'[h] \in Working THEN 1 ELSE 0) + turn_done'[h]
                 = IF Due(h)' THEN 1 ELSE 0
    <3>1. turn_requested[h] + (IF ghost_pc[h] \in Working THEN 1 ELSE 0) + turn_done[h]
            = IF Due(h) THEN 1 ELSE 0
      BY <1>0 DEF GhostTokens
    <3>2. Ledger(h)
      BY <1>0, <1>3, ControllerLedger
    <3> QED
      BY <1>0, <2>1, <3>1, <3>2 DEF Ledger
  <2> QED
    BY <2>2 DEF GhostTokens
<1>4. CASE MainSteps
  <2>1. MainCreates
    BY <1>0, <1>4, MainWhole DEF Sound
  <2>2. /\ UNCHANGED <<turn_requested, turn_done>>
        /\ next_ghost'["controller"] = next_ghost["controller"]
        /\ \/ pc'["controller"] = pc["controller"]
           \/ pc["controller"] = "unborn" /\ pc'["controller"] = "turn"
    BY <2>1 DEF MainCreates
  <2>3. ASSUME NEW h \in Ghost
        PROVE  ghost_pc[h] \in Working <=> ghost_pc'[h] \in Working
    BY <2>1 DEF MainCreates, Working
  <2>4. ASSUME NEW h \in Ghost
        PROVE  Due(h)' <=> Due(h)
    BY <2>2 DEF Due
  <2> QED
    BY <1>0, <2>2, <2>3, <2>4 DEF GhostTokens
<1>5. CASE P0 \/ P0Fails \/ UNCHANGED game_vars
  BY <1>0, <1>5, P0Frame, NothingChanges DEF GhostTokens, Due
<1> QED
  BY <1>1, <1>2, <1>3, <1>4, <1>5, StepCases

\* The tokens of the tracker.
LEMMA TrackerTokensStep ==
  ASSUME EnemyAssumption, IInv, Sound, Sound', [Next]_game_vars
  PROVE  TrackerTokens'
<1>0. /\ TypeOK /\ Labels /\ Creation /\ Stops /\ TrackerTokens
      /\ tracker_requested \in Nat /\ tracker_done \in Nat
  BY DEF IInv, TypeOK
<1>b. tracker_requested + (IF pc["tracker"] \in {"read_stop", "track", "answer"} THEN 1 ELSE 0)
        + tracker_done
        = IF pc["controller"] = "wait_tracker" THEN 1 ELSE 0
  BY <1>0 DEF TrackerTokens
<1>1. CASE (\E g \in Ghost : GhostThread(g)) \/ Detector
  <2>1. UNCHANGED <<tracker_requested, tracker_done>>
    BY <1>0, <1>1, GhostSteps, DetectorSteps DEF GhostEffect, DetectorEffect
  <2>2. pc'["controller"] = pc["controller"] /\ pc'["tracker"] = pc["tracker"]
    BY <1>0, <1>1, GhostSteps, DetectorSteps DEF GhostEffect, DetectorEffect, Goes, Thread
  <2> QED
    BY <1>0, <2>1, <2>2 DEF TrackerTokens
<1>2. CASE Tracker
  <2>1. TrackerEffect
    BY <1>0, <1>2, TrackerSteps
  <2>2. ~should_stop /\ pc'["controller"] = pc["controller"]
    BY <1>0, <1>2, OtherFrame DEF Sound
  <2>3. CASE /\ pc["tracker"] = "wait" /\ pc'["tracker"] = "read_stop"
             /\ tracker_requested' = tracker_requested - 1 /\ tracker_done' = tracker_done
    BY <1>0, <1>b, <2>2, <2>3 DEF TrackerTokens
  <2>4. CASE /\ pc["tracker"] \in {"read_stop", "track"} /\ pc'["tracker"] \in {"track", "answer"}
             /\ UNCHANGED <<tracker_requested, tracker_done>>
    BY <1>b, <2>2, <2>4 DEF TrackerTokens
  <2>5. CASE /\ pc["tracker"] = "answer" /\ pc'["tracker"] = "wait"
             /\ tracker_requested' = tracker_requested /\ tracker_done' = tracker_done + 1
    BY <1>0, <1>b, <2>2, <2>5 DEF TrackerTokens
  <2> QED
    BY <2>1, <2>2, <2>3, <2>4, <2>5 DEF TrackerEffect, Goes
<1>3. CASE Controller
  <2>1. ControllerEffect
    BY <1>0, <1>3, ControllerSteps
  <2>2. pc["controller"] \notin StopLabel /\ pc'["tracker"] = pc["tracker"]
    BY <1>0, <1>3, NoStop, ControllerFrame DEF Thread
  <2>3. CASE /\ pc["controller"] = "post_tracker" /\ pc'["controller"] = "wait_tracker"
             /\ tracker_requested' = tracker_requested + 1 /\ tracker_done' = tracker_done
    BY <1>0, <1>b, <2>2, <2>3 DEF TrackerTokens
  <2>4. CASE /\ pc["controller"] = "wait_tracker" /\ pc'["controller"] = "post_detector"
             /\ tracker_requested' = tracker_requested /\ tracker_done' = tracker_done - 1
    BY <1>0, <1>b, <2>2, <2>4 DEF TrackerTokens
  <2>5. CASE /\ pc["controller"] # "wait_tracker" /\ pc'["controller"] # "wait_tracker"
             /\ UNCHANGED <<tracker_requested, tracker_done>>
    BY <1>b, <2>2, <2>5 DEF TrackerTokens
  <2> QED
    BY <2>1, <2>2, <2>3, <2>4, <2>5 DEF ControllerEffect, Goes, Loops, StopLabel, helper_vars
<1>4. CASE MainSteps
  <2>1. MainCreates
    BY <1>0, <1>4, MainWhole DEF Sound
  <2>2. /\ UNCHANGED <<tracker_requested, tracker_done>>
        /\ \/ pc'["controller"] = pc["controller"]
           \/ pc["controller"] = "unborn" /\ pc'["controller"] = "turn"
        /\ \/ pc'["tracker"] = pc["tracker"]
           \/ pc["tracker"] = "unborn" /\ pc'["tracker"] = "wait"
    BY <2>1 DEF MainCreates
  <2> QED
    BY <1>b, <2>2 DEF TrackerTokens
<1>5. CASE P0 \/ P0Fails \/ UNCHANGED game_vars
  BY <1>0, <1>5, P0Frame, NothingChanges DEF TrackerTokens
<1> QED
  BY <1>1, <1>2, <1>3, <1>4, <1>5, StepCases

\* The tokens of the detector.
LEMMA DetectorTokensStep ==
  ASSUME EnemyAssumption, IInv, Sound, Sound', [Next]_game_vars
  PROVE  DetectorTokens'
<1>0. /\ TypeOK /\ Labels /\ Creation /\ Stops /\ DetectorTokens
      /\ collision_requested \in Nat /\ collision_done \in Nat
  BY DEF IInv, TypeOK
<1>b. collision_requested + (IF pc["detector"] \in Judging \cup {"read_stop"} THEN 1 ELSE 0)
        + collision_done
        = IF pc["controller"] = "wait_detector" THEN 1 ELSE 0
  BY <1>0 DEF DetectorTokens
<1>1. CASE (\E g \in Ghost : GhostThread(g)) \/ Tracker
  <2>1. UNCHANGED <<collision_requested, collision_done>>
    BY <1>0, <1>1, GhostSteps, TrackerSteps DEF GhostEffect, TrackerEffect
  <2>2. pc'["controller"] = pc["controller"] /\ pc'["detector"] = pc["detector"]
    BY <1>0, <1>1, GhostSteps, TrackerSteps DEF GhostEffect, TrackerEffect, Goes, Thread
  <2> QED
    BY <1>0, <2>1, <2>2 DEF DetectorTokens
<1>2. CASE Detector
  <2>1. DetectorEffect
    BY <1>0, <1>2, DetectorSteps
  <2>2. ~should_stop /\ pc'["controller"] = pc["controller"]
    BY <1>0, <1>2, OtherFrame DEF Sound
  <2>3. CASE /\ pc["detector"] = "wait" /\ pc'["detector"] = "read_stop"
             /\ collision_requested' = collision_requested - 1
             /\ collision_done' = collision_done
    BY <1>0, <1>b, <2>2, <2>3 DEF DetectorTokens, Judging
  <2>4. CASE /\ pc["detector"] \in Judging \cup {"read_stop"} /\ pc'["detector"] \in Judging
             /\ UNCHANGED <<collision_requested, collision_done>>
    BY <1>b, <2>2, <2>4 DEF DetectorTokens
  <2>5. CASE /\ pc["detector"] = "answer" /\ pc'["detector"] = "wait"
             /\ collision_requested' = collision_requested
             /\ collision_done' = collision_done + 1
    BY <1>0, <1>b, <2>2, <2>5 DEF DetectorTokens, Judging
  <2> QED
    BY <2>1, <2>2, <2>3, <2>4, <2>5 DEF DetectorEffect, Goes, Judging
<1>3. CASE Controller
  <2>1. ControllerEffect
    BY <1>0, <1>3, ControllerSteps
  <2>2. pc["controller"] \notin StopLabel /\ pc'["detector"] = pc["detector"]
    BY <1>0, <1>3, NoStop, ControllerFrame DEF Thread
  <2>3. CASE /\ pc["controller"] = "post_detector" /\ pc'["controller"] = "wait_detector"
             /\ collision_requested' = collision_requested + 1
             /\ collision_done' = collision_done
    BY <1>0, <1>b, <2>2, <2>3 DEF DetectorTokens
  <2>4. CASE /\ pc["controller"] = "wait_detector" /\ pc'["controller"] = "answer"
             /\ collision_requested' = collision_requested
             /\ collision_done' = collision_done - 1
    BY <1>0, <1>b, <2>2, <2>4 DEF DetectorTokens
  <2>5. CASE /\ pc["controller"] # "wait_detector" /\ pc'["controller"] # "wait_detector"
             /\ UNCHANGED <<collision_requested, collision_done>>
    BY <1>b, <2>2, <2>5 DEF DetectorTokens
  <2> QED
    BY <2>1, <2>2, <2>3, <2>4, <2>5 DEF ControllerEffect, Goes, Loops, StopLabel, helper_vars
<1>4. CASE MainSteps
  <2>1. MainCreates
    BY <1>0, <1>4, MainWhole DEF Sound
  <2>2. /\ UNCHANGED <<collision_requested, collision_done>>
        /\ \/ pc'["controller"] = pc["controller"]
           \/ pc["controller"] = "unborn" /\ pc'["controller"] = "turn"
        /\ \/ pc'["detector"] = pc["detector"]
           \/ pc["detector"] = "unborn" /\ pc'["detector"] = "wait"
    BY <2>1 DEF MainCreates
  <2> QED
    BY <1>b, <2>2 DEF DetectorTokens, Judging
<1>5. CASE P0 \/ P0Fails \/ UNCHANGED game_vars
  BY <1>0, <1>5, P0Frame, NothingChanges DEF DetectorTokens
<1> QED
  BY <1>1, <1>2, <1>3, <1>4, <1>5, StepCases

\* What the books say of a step, under a name each.
Books == /\ TypeOK /\ Labels /\ Creation /\ OverEnds /\ Turn /\ Stops
         /\ GhostTokens /\ TrackerTokens /\ DetectorTokens
         /\ Tracked /\ Copies /\ Verdict /\ Steps

\* A ghost that moves does so on its turn, which is not over.
LEMMA GhostIsDue ==
  ASSUME Books, NEW g \in Ghost, GhostEffect(g)
  PROVE  \/ ghost_at' = ghost_at
         \/ pc["controller"] \in {"post_ghosts", "wait_ghosts"}
<1>1. CASE ghost_pc[g] = "act"
  BY <1>1, Idle DEF Books, Working
<1>2. CASE ghost_pc[g] # "act"
  BY <1>2 DEF GhostEffect
<1> QED
  BY <1>1, <1>2

\* The maze is settled while the copy of Pac-Man is in use.
LEMMA TrackedStep ==
  ASSUME EnemyAssumption, Books, Sound, Sound', [Next]_game_vars
  PROVE  Tracked'
<1>0. /\ TypeOK /\ Labels /\ Creation /\ Stops /\ Tracked /\ OverEnds /\ Turn
      /\ GhostTokens /\ TrackerTokens /\ DetectorTokens
      /\ tracker_requested \in Nat /\ tracker_done \in Nat
      /\ sem_done[Enemy] \in Nat /\ Whole
  BY DEF Books, TypeOK, Sound, Process
<1>1. CASE (\E g \in Ghost : GhostThread(g)) \/ Detector
  <2>1. UNCHANGED <<tracker_done, sem_done, tracked, pacman_at>>
    BY <1>0, <1>1, GhostSteps, DetectorSteps DEF GhostEffect, DetectorEffect
  <2>2. pc'["controller"] = pc["controller"] /\ pc'["tracker"] = pc["tracker"]
    BY <1>0, <1>1, GhostSteps, DetectorSteps DEF GhostEffect, DetectorEffect, Goes, Thread
  <2> QED
    BY <1>0, <2>1, <2>2 DEF Tracked
<1>2. CASE Tracker
  <2>1. TrackerEffect
    BY <1>0, <1>2, TrackerSteps
  <2>2. /\ pc'["controller"] = pc["controller"] /\ UNCHANGED <<sem_done, pacman_at>>
    BY <2>1 DEF TrackerEffect, Goes, Thread
  <2>3. CASE Goes("tracker", "track", "answer") /\ tracked' = pacman_at
    BY <2>2, <2>3 DEF Tracked
  <2>4. CASE Goes("tracker", "answer", "wait") /\ tracked' = tracked
    BY <1>0, <2>2, <2>4 DEF Tracked, Goes
  <2>5. CASE /\ pc'["tracker"] # "answer" /\ UNCHANGED <<tracked, tracker_done>>
    BY <1>0, <2>2, <2>5 DEF Tracked
  <2> QED
    BY <2>1, <2>3, <2>4, <2>5 DEF TrackerEffect, Goes
<1>3. CASE Controller
  <2>1. ControllerEffect
    BY <1>0, <1>3, ControllerSteps
  <2>2. pc'["tracker"] = pc["tracker"] /\ UNCHANGED <<tracked, pacman_at>>
    BY <1>0, <1>3, <2>1, ControllerFrame DEF Thread, ControllerEffect
  <2>3. CASE /\ Goes("controller", "wait_tracker", "post_detector") /\ tracker_done > 0
    BY <1>0, <2>2, <2>3 DEF Tracked
  <2>4. CASE /\ pc["controller"] \in {"post_detector", "wait_detector", "answer"}
    BY <1>0, <2>2, <2>4 DEF Tracked
  <2>5. CASE /\ pc'["controller"] \notin {"post_detector", "wait_detector", "answer"}
             /\ UNCHANGED <<tracker_done, sem_done>>
    BY <1>0, <2>2, <2>5 DEF Tracked
  <2> QED
    BY <2>1, <2>3, <2>4, <2>5 DEF ControllerEffect, Goes, Loops, helper_vars
<1>4. CASE MainSteps
  <2>1. MainCreates
    BY <1>0, <1>4, MainWhole DEF Sound
  <2>2. /\ UNCHANGED <<tracker_done, sem_done, tracked, pacman_at>>
        /\ \/ pc'["controller"] = pc["controller"]
           \/ pc["controller"] = "unborn" /\ pc'["controller"] = "turn"
        /\ \/ pc'["tracker"] = pc["tracker"]
           \/ pc["tracker"] = "unborn" /\ pc'["tracker"] = "wait"
    BY <2>1 DEF MainCreates
  <2> QED
    BY <1>0, <2>2 DEF Tracked
<1>5. CASE P0 \/ P0Fails
  <2>1. UNCHANGED <<tracked, tracker_done, pc>>
    BY <1>5, P0Frame
  <2>2. CASE GrantTurn
    <3>1. p0 = "ready" /\ sem_done' = sem_done
      BY <2>2 DEF GrantTurn
    <3>2. /\ sem_done[Enemy] = 0 /\ pc["controller"] \notin InTurn
          /\ pc["tracker"] # "answer" /\ tracker_done = 0
      BY <1>0, <3>1, GrantIsQuiet
    <3> QED
      BY <2>1, <3>1, <3>2 DEF Tracked, InTurn
  <2>3. CASE TakeAnswer
    <3>1. sem_done[Enemy] > 0 /\ pacman_at' = pacman_at
      BY <2>3 DEF TakeAnswer, p0_owned
    <3> QED
      BY <1>0, <2>1, <3>1 DEF Tracked
  <2>4. CASE SetGameOver \/ PostShutdown \/ P0Fails
    <3>1. UNCHANGED <<pacman_at, sem_done>>
      BY <2>4 DEF SetGameOver, PostShutdown, P0Fails, p0_owned
    <3> QED
      BY <1>0, <2>1, <3>1 DEF Tracked
  <2> QED
    BY <1>5, <2>2, <2>3, <2>4 DEF P0
<1>6. CASE UNCHANGED game_vars
  BY <1>0, <1>6, NothingChanges DEF Tracked
<1> QED
  BY <1>1, <1>2, <1>3, <1>4, <1>5, <1>6, StepCases

\* What the detector has copied.
LEMMA CopiesStep ==
  ASSUME EnemyAssumption, Books, Sound, Sound', [Next]_game_vars
  PROVE  Copies'
<1>0. /\ TypeOK /\ Labels /\ Creation /\ Stops /\ Copies /\ OverEnds /\ Turn /\ Whole
      /\ GhostTokens /\ TrackerTokens /\ DetectorTokens
  BY DEF Books, Sound
<1>s. ASSUME pc'["detector"] = pc["detector"],
             UNCHANGED <<seen_pacman, seen_ghosts, seen_tick>>,
             pc["detector"] \in Judging => UNCHANGED <<tracked, ghost_at, global_tick>>
      PROVE  Copies'
  BY <1>0, <1>s DEF Copies, Judging, Colliding
<1>1. ASSUME NEW g \in Ghost, GhostThread(g)
      PROVE  Copies'
  <2>1. GhostEffect(g)
    BY <1>0, <1>1, GhostSteps
  <2>2. pc["detector"] \in Judging => ghost_at' = ghost_at
    <3>1. pc["detector"] \in Judging => pc["controller"] = "wait_detector"
      BY <1>0, Idle
    <3> QED
      BY <2>1, <3>1, GhostIsDue
  <2> QED
    BY <1>s, <2>1, <2>2 DEF GhostEffect
<1>2. CASE Tracker
  <2>1. TrackerEffect
    BY <1>0, <1>2, TrackerSteps
  <2>2. pc["detector"] \in Judging => tracked' = tracked
    <3>1. /\ pc["detector"] \in Judging => pc["controller"] = "wait_detector"
          /\ pc["tracker"] = "track" => pc["controller"] = "wait_tracker"
      BY <1>0, Idle
    <3>2. pc["tracker"] = "track" \/ tracked' = tracked
      BY <2>1 DEF TrackerEffect, Goes
    <3> QED
      BY <3>1, <3>2
  <2>3. pc'["detector"] = pc["detector"]
    BY <2>1 DEF TrackerEffect, Goes, Thread
  <2> QED
    BY <1>s, <2>1, <2>2, <2>3 DEF TrackerEffect
<1>3. CASE Detector
  <2>1. DetectorEffect
    BY <1>0, <1>3, DetectorSteps
  <2>2. UNCHANGED <<tracked, ghost_at, global_tick>>
    BY <2>1 DEF DetectorEffect
  <2>3. CASE Goes("detector", "copy_pacman", "copy_ghosts") /\ seen_pacman' = tracked
    BY <2>2, <2>3 DEF Copies, Goes
  <2>4. CASE /\ Goes("detector", "copy_ghosts", "copy_tick") /\ seen_ghosts' = ghost_at
             /\ seen_pacman' = seen_pacman
    BY <1>0, <2>2, <2>4 DEF Copies, Goes
  <2>5. CASE /\ Goes("detector", "copy_tick", IF Colliding = {} THEN "answer" ELSE "publish")
             /\ seen_tick' = global_tick /\ UNCHANGED <<seen_pacman, seen_ghosts>>
    <3>1. Colliding' = Colliding
      BY <2>5 DEF Colliding
    <3>2. /\ pc["detector"] = "copy_tick"
          /\ pc'["detector"] = IF Colliding = {} THEN "answer" ELSE "publish"
      BY <2>5 DEF Goes
    <3> QED
      BY <1>0, <2>2, <2>5, <3>1, <3>2 DEF Copies
  <2>6. CASE pc'["detector"] \notin {"copy_ghosts", "copy_tick", "publish"}
    BY <2>6 DEF Copies
  <2> QED
    BY <2>1, <2>3, <2>4, <2>5, <2>6 DEF DetectorEffect, Goes
<1>4. CASE Controller
  <2>1. pc'["detector"] = pc["detector"]
    BY <1>0, <1>4, ControllerFrame DEF Thread
  <2>2. UNCHANGED <<tracked, ghost_at, global_tick, seen_pacman, seen_ghosts, seen_tick>>
    BY <1>0, <1>4, ControllerSteps DEF ControllerEffect
  <2> QED
    BY <1>s, <2>1, <2>2
<1>5. CASE MainSteps
  <2>1. MainCreates
    BY <1>0, <1>5, MainWhole DEF Sound
  <2>2. UNCHANGED <<tracked, ghost_at, global_tick, seen_pacman, seen_ghosts, seen_tick>>
    BY <2>1 DEF MainCreates
  <2>3. pc'["detector"] = pc["detector"] \/ pc'["detector"] = "wait"
    BY <2>1 DEF MainCreates
  <2>4. CASE pc'["detector"] = "wait"
    BY <2>4 DEF Copies
  <2> QED
    BY <1>s, <2>2, <2>3, <2>4
<1>6. CASE P0 \/ P0Fails
  <2>1. UNCHANGED <<pc, tracked, ghost_at, seen_pacman, seen_ghosts, seen_tick>>
    BY <1>6, P0Frame
  <2>2. p0 = "ready" \/ global_tick' = global_tick
    BY <1>6 DEF P0, P0Fails, GrantTurn, TakeAnswer, SetGameOver, PostShutdown, p0_owned
  <2>3. p0 = "ready" => pc["detector"] \notin Judging
    BY <1>0, GrantIsQuiet
  <2> QED
    BY <1>s, <2>1, <2>2, <2>3
<1>7. CASE UNCHANGED game_vars
  BY <1>s, <1>7, NothingChanges
<1> QED
  BY <1>1, <1>2, <1>3, <1>4, <1>5, <1>6, <1>7, StepCases

\* The verdict.
LEMMA VerdictStep ==
  ASSUME EnemyAssumption, Books, Sound, Sound', [Next]_game_vars
  PROVE  Verdict'
<1>0. /\ TypeOK /\ Labels /\ Creation /\ Stops /\ Copies /\ OverEnds /\ Turn /\ Whole
      /\ GhostTokens /\ TrackerTokens /\ DetectorTokens /\ Tracked /\ Verdict
      /\ sem_done[Enemy] \in Nat /\ collision_done \in Nat
  BY DEF Books, Sound, TypeOK, Process
<1>s. ASSUME Judged' <=> Judged, UNCHANGED <<collision, game_over>>,
             Judged => UNCHANGED <<global_tick, ghost_at, pacman_at>>
      PROVE  Verdict'
  <2>1. CASE Judged
    BY <1>0, <1>s, <2>1 DEF Verdict, Exact, Meeting
  <2>2. CASE ~Judged
    BY <1>0, <1>s, <2>2 DEF Verdict
  <2> QED
    BY <2>1, <2>2
<1>a. ASSUME ~game_over, Judged
      PROVE  /\ pc["controller"] \notin {"post_ghosts", "wait_ghosts", "read_over"}
             /\ p0 = "waiting" /\ sem_turn[Enemy] = 0
  <2>1. \/ pc["controller"] \in {"wait_detector", "answer"} /\ pc["controller"] \in InTurn
        \/ sem_done[Enemy] > 0
    BY <1>0, <1>a, Idle DEF Judged, Judging, InTurn
  <2>2. CASE pc["controller"] \in {"wait_detector", "answer"} /\ pc["controller"] \in InTurn
    BY <1>0, <1>a, <2>2, OneTurn
  <2>3. CASE sem_done[Enemy] > 0
    <3>1. sem_turn[Enemy] = 0 /\ pc["controller"] \notin InTurn
      BY <1>0, <1>a, <2>3, OneTurn
    <3>2. p0 = "waiting"
      BY <1>0, <1>a, <2>3, OneTurn
    <3> QED
      BY <3>1, <3>2 DEF InTurn
  <2> QED
    BY <2>1, <2>2, <2>3
<1>1. ASSUME NEW g \in Ghost, GhostThread(g)
      PROVE  Verdict'
  <2>1. GhostEffect(g)
    BY <1>0, <1>1, GhostSteps
  <2>2. UNCHANGED <<pc, collision_done, sem_done, collision, game_over, global_tick, pacman_at>>
    BY <2>1 DEF GhostEffect
  <2>3. Judged' <=> Judged
    BY <2>2 DEF Judged
  <2>4. CASE game_over
    BY <2>2, <2>4 DEF Verdict
  <2>5. CASE ~game_over
    <3>1. Judged => ghost_at' = ghost_at
      BY <1>a, <2>1, <2>5, GhostIsDue
    <3> QED
      BY <1>s, <2>2, <2>3, <3>1
  <2> QED
    BY <2>4, <2>5
<1>2. CASE Tracker
  <2>1. TrackerEffect
    BY <1>0, <1>2, TrackerSteps
  <2>2. /\ UNCHANGED <<collision_done, sem_done, collision, game_over, global_tick, pacman_at,
                       ghost_at>>
        /\ pc'["detector"] = pc["detector"] /\ pc'["controller"] = pc["controller"]
    BY <2>1 DEF TrackerEffect, Goes, Thread
  <2> QED
    BY <1>s, <2>2 DEF Judged
<1>3. CASE Detector
  <2>1. DetectorEffect
    BY <1>0, <1>3, DetectorSteps
  <2>2. /\ UNCHANGED <<sem_done, game_over, global_tick, pacman_at, ghost_at, tracked>>
        /\ pc'["controller"] = pc["controller"]
    BY <2>1 DEF DetectorEffect, Goes, Thread
  <2>3. SUFFICES ASSUME ~game_over
                 PROVE  Verdict'
    BY <2>2 DEF Verdict
  <2>4. CASE /\ pc["detector"] # "answer" /\ pc'["detector"] # "answer"
             /\ UNCHANGED <<collision, collision_done>>
    BY <1>s, <2>2, <2>4 DEF Judged
  <2>5. CASE /\ pc["detector"] = "answer" /\ pc'["detector"] = "wait"
             /\ collision_done' = collision_done + 1 /\ collision' = collision
    <3>1. Judged
      BY <2>5 DEF Judged
    <3>2. collision_done' > 0
      BY <1>0, <2>5
    <3>3. Judged'
      BY <3>2 DEF Judged
    <3> QED
      BY <1>s, <2>2, <2>5, <3>1, <3>3
  <2>6. CASE /\ pc["detector"] \in {"copy_tick", "publish"} /\ pc'["detector"] = "answer"
             /\ UNCHANGED <<collision_done, seen_pacman, seen_ghosts>>
    <3>1. Judged'
      BY <2>6 DEF Judged
    <3>2. pc["controller"] = "wait_detector"
      BY <1>0, <2>6, Idle DEF Judging
    <3>3. tracked = pacman_at
      BY <1>0, <3>2 DEF Tracked
    <3>4. seen_pacman = pacman_at /\ seen_ghosts = ghost_at
      BY <1>0, <2>6, <3>3 DEF Copies
    <3>5. Meeting = Colliding /\ Meeting' = Meeting
      BY <2>2, <3>4 DEF Meeting, Colliding
    <3>6. ~Judged
      <4>1. sem_done[Enemy] = 0
        BY <1>0, <2>3, <3>2, OneTurn DEF InTurn
      <4>2. ~(collision_done > 0)
        <5>1. collision_requested + 1 + collision_done = 1
          BY <1>0, <2>6, <3>2 DEF DetectorTokens, Judging
        <5>2. collision_requested \in Nat /\ collision_done \in Nat
          BY <1>0 DEF TypeOK
        <5> QED
          BY <5>1, <5>2
      <4> QED
        BY <2>6, <3>2, <4>1, <4>2 DEF Judged
    <3>7. collision = NoCollision
      BY <1>0, <2>3, <3>6 DEF Verdict
    <3>8. CASE Colliding = {} /\ collision' = collision
      BY <3>1, <3>5, <3>7, <3>8 DEF Verdict, Exact
    <3>9. CASE \E g \in Colliding : /\ pc["detector"] = "publish"
                                    /\ \A h \in Colliding : g <= h
                                    /\ collision' = [tick |-> seen_tick, ghost |-> g]
      <4>1. seen_tick = global_tick
        BY <1>0, <3>9 DEF Copies
      <4>2. PICK g \in Colliding : /\ \A h \in Colliding : g <= h
                                   /\ collision' = [tick |-> seen_tick, ghost |-> g]
        BY <3>9
      <4>3. collision'.tick = global_tick' /\ collision'.ghost = g
        BY <2>2, <4>1, <4>2
      <4> QED
        BY <3>1, <3>5, <4>2, <4>3 DEF Verdict, Exact
    <3>10. \/ Colliding = {} /\ collision' = collision
           \/ \E g \in Colliding : /\ pc["detector"] = "publish"
                                   /\ \A h \in Colliding : g <= h
                                   /\ collision' = [tick |-> seen_tick, ghost |-> g]
      BY <2>1, <2>6 DEF DetectorEffect, Goes
    <3> QED
      BY <3>8, <3>9, <3>10
  <2> QED
    BY <2>1, <2>4, <2>5, <2>6 DEF DetectorEffect, Goes
<1>4. CASE Controller
  <2>1. ControllerEffect
    BY <1>0, <1>4, ControllerSteps
  <2>2. /\ UNCHANGED <<game_over, collision, global_tick, pacman_at, ghost_at>>
        /\ pc'["detector"] = pc["detector"]
    BY <1>0, <1>4, <2>1, ControllerFrame DEF Thread, ControllerEffect
  <2>3. CASE Goes("controller", "wait_detector", "answer") /\ collision_done > 0
    BY <1>s, <2>2, <2>3 DEF Judged, Goes
  <2>4. CASE Goes("controller", "answer", "turn") /\ Posts(sem_done, Enemy)
    <3>1. sem_done'[Enemy] = sem_done[Enemy] + 1
      <4>1. sem_done \in [Process -> Nat] /\ Enemy \in Process
        BY <1>0 DEF TypeOK, Process
      <4> QED
        BY <2>4, <4>1, PostOrTake DEF Posts
    <3>2. sem_done'[Enemy] > 0
      BY <1>0, <3>1
    <3>3. Judged' /\ Judged
      BY <2>4, <3>2 DEF Judged, Goes
    <3> QED
      BY <1>s, <2>2, <3>3
  <2>5. CASE /\ pc["controller"] # "answer" /\ pc'["controller"] # "answer"
             /\ UNCHANGED <<collision_done, sem_done>>
    BY <1>s, <2>2, <2>5 DEF Judged
  <2> QED
    BY <2>1, <2>3, <2>4, <2>5 DEF ControllerEffect, Goes, Loops, helper_vars
<1>5. CASE MainSteps
  <2>1. MainCreates
    BY <1>0, <1>5, MainWhole DEF Sound
  <2>2. UNCHANGED <<collision, game_over, global_tick, pacman_at, ghost_at, collision_done,
                    sem_done>>
    BY <2>1 DEF MainCreates
  <2>3. /\ \/ pc'["controller"] = pc["controller"]
           \/ pc["controller"] = "unborn" /\ pc'["controller"] = "turn"
        /\ \/ pc'["detector"] = pc["detector"]
           \/ pc["detector"] = "unborn" /\ pc'["detector"] = "wait"
    BY <2>1 DEF MainCreates
  <2> QED
    BY <1>s, <2>2, <2>3 DEF Judged
<1>6. CASE P0 \/ P0Fails
  <2>1. UNCHANGED <<pc, collision_done, ghost_at>>
    BY <1>6, P0Frame
  <2>2. CASE GrantTurn
    <3>1. p0 = "ready" /\ UNCHANGED <<collision, game_over, sem_done>>
      BY <2>2 DEF GrantTurn
    <3>2. ~Judged
      BY <1>0, <3>1, GrantIsQuiet DEF Judged, Judging, InTurn
    <3>3. ~Judged'
      BY <2>1, <3>1, <3>2 DEF Judged
    <3> QED
      BY <1>s, <3>1, <3>2, <3>3
  <2>3. CASE TakeAnswer
    <3>1. /\ p0 = "waiting" /\ sem_done[Enemy] > 0 /\ collision' = NoCollision
          /\ sem_done' = [sem_done EXCEPT ![Enemy] = @ - 1]
      BY <2>3 DEF TakeAnswer
    <3>2. ~game_over
      BY <1>0, <3>1 DEF OverEnds
    <3>3. sem_done[Enemy] = 1 /\ pc["controller"] \notin InTurn
      BY <1>0, <3>1, <3>2, OneTurn
    <3>4. sem_done'[Enemy] = 0
      BY <1>0, <3>1, <3>3, PostOrTake DEF TypeOK, Process
    <3>5. pc["detector"] # "answer" /\ ~(collision_done > 0) /\ pc["controller"] # "answer"
      BY <1>0, <3>3, Idle DEF InTurn, Judging
    <3>6. ~Judged'
      BY <2>1, <3>4, <3>5 DEF Judged
    <3> QED
      BY <3>1, <3>6 DEF Verdict
  <2>4. CASE SetGameOver \/ PostShutdown \/ P0Fails
    <3>1. game_over'
      BY <1>0, <2>4 DEF SetGameOver, PostShutdown, P0Fails, OverEnds, p0_owned
    <3> QED
      BY <3>1 DEF Verdict
  <2> QED
    BY <1>6, <2>2, <2>3, <2>4 DEF P0
<1>7. CASE UNCHANGED game_vars
  <2>1. Judged' <=> Judged
    BY <1>7, NothingChanges DEF Judged
  <2> QED
    BY <1>s, <1>7, <2>1, NothingChanges
<1> QED
  BY <1>1, <1>2, <1>3, <1>4, <1>5, <1>6, <1>7, StepCases

\* One more instruction taken.
LEMMA RestOfFile ==
  ASSUME NEW S, NEW all \in Seq(S), NEW n \in Nat, NEW rest,
         rest = SubSeq(all, n + 1, Len(all))
  PROVE  IF rest = <<>> THEN rest = SubSeq(all, n + 2, Len(all))
                        ELSE Tail(rest) = SubSeq(all, n + 2, Len(all))
<1>1. Len(all) \in Nat /\ all = [i \in 1..Len(all) |-> all[i]]
  OBVIOUS
<1>2. CASE n + 1 <= Len(all)
  <2>1. /\ rest = [i \in 1..(Len(all) - n) |-> all[n + i]]
        /\ rest \in Seq(S) /\ Len(rest) = Len(all) - n
    BY <1>1, <1>2
  <2>2. rest # <<>> /\ Len(Tail(rest)) = Len(all) - n - 1
    BY <1>1, <1>2, <2>1
  <2>3. Tail(rest) = [i \in 1..(Len(all) - n - 1) |-> all[n + 1 + i]]
    BY <1>1, <1>2, <2>1, <2>2
  <2>4. SubSeq(all, n + 2, Len(all)) = [i \in 1..(Len(all) - n - 1) |-> all[n + 1 + i]]
    BY <1>1, <1>2
  <2> QED
    BY <2>2, <2>3, <2>4
<1>3. CASE n + 1 > Len(all)
  <2>1. rest = <<>> /\ SubSeq(all, n + 2, Len(all)) = <<>>
    BY <1>1, <1>3
  <2> QED
    BY <2>1
<1>4. Len(all) \in Nat
  OBVIOUS
<1>5. n + 1 <= Len(all) \/ n + 1 > Len(all)
  BY <1>4
<1> QED
  BY <1>2, <1>3, <1>5

\* A ghost has its turn to play until it has carried out its line: no other step
\* of P2 gives it one, or takes it away.
LEMMA PendingStep ==
  ASSUME EnemyAssumption, Books, Sound, Sound', ~game_over, NEW h \in Ghost,
         (\E g \in Ghost : GhostThread(g)) \/ Tracker \/ Detector \/ Controller \/ MainSteps
  PROVE  IF ghost_pc[h] = "act" /\ ghost_pc'[h] = "answer" THEN Pending(h) /\ ~Pending(h)'
           ELSE Pending(h)' <=> Pending(h)
<1>0. /\ TypeOK /\ Labels /\ Creation /\ Stops /\ OverEnds /\ Turn /\ Whole
      /\ GhostTokens /\ TrackerTokens /\ DetectorTokens
      /\ sem_turn[Enemy] \in Nat /\ ~should_stop /\ ~should_stop'
      /\ \A g \in Ghost : turn_requested[g] \in Nat /\ turn_done[g] \in Nat
  BY DEF Books, Sound, TypeOK, Process
<1>1. CASE \E g \in Ghost : GhostThread(g)
  <2>1. PICK g \in Ghost : GhostEffect(g)
    BY <1>0, <1>1, GhostSteps
  <2>2. UNCHANGED <<pc, sem_turn, next_ghost, game_over>>
    BY <2>1 DEF GhostEffect
  <2>3. CASE h # g
    <3>1. /\ ghost_pc'[h] = ghost_pc[h] /\ turn_requested'[h] = turn_requested[h]
      BY <2>1, <2>3 DEF GhostEffect
    <3> QED
      BY <2>2, <3>1 DEF Pending
  <2>4. CASE h = g /\ ghost_pc[g] = "act" /\ ghost_pc'[g] = "answer"
    <3>1. turn_requested' = turn_requested
      BY <2>1, <2>4 DEF GhostEffect
    <3>2. Due(g) /\ pc["controller"] \in {"post_ghosts", "wait_ghosts"}
      BY <1>0, <2>4, Idle DEF Working
    <3>3. turn_requested[g] = 0
      <4>1. turn_requested[g] + 1 + turn_done[g] = 1
        BY <1>0, <2>4, <3>2 DEF GhostTokens, Working
      <4> QED
        BY <1>0, <4>1
    <3>4. sem_turn[Enemy] = 0
      BY <1>0, <3>2, OneTurn DEF InTurn
    <3>5. ~(pc["controller"] = "post_ghosts" /\ g >= next_ghost["controller"])
      <4>1. g \in Nat /\ next_ghost["controller"] \in Nat
        <5>1. next_ghost["controller"] \in Ghost
          BY <1>0 DEF TypeOK
        <5> QED
          BY <5>1 DEF Ghost, EnemyAssumption
      <4> QED
        BY <3>2, <4>1 DEF Due
    <3>6. Pending(g) /\ ~Pending(g)'
      BY <2>2, <2>4, <3>1, <3>2, <3>3, <3>4, <3>5 DEF Pending
    <3> QED
      BY <2>4, <3>6
  <2>5. CASE /\ h = g
             /\ \/ /\ ghost_pc[g] = "turn" /\ ghost_pc'[g] = "read_stop"
                   /\ turn_requested[g] > 0
                \/ /\ ghost_pc[g] = "read_stop" /\ ghost_pc'[g] = "act"
                   /\ turn_requested' = turn_requested
                \/ /\ ghost_pc[g] \in {"load", "stop", "answer"}
                   /\ ghost_pc'[g] \in {"turn", "stop"}
                   /\ turn_requested' = turn_requested
    BY <2>2, <2>5 DEF Pending
  <2> QED
    BY <1>0, <2>1, <2>3, <2>4, <2>5 DEF GhostEffect
<1>2. CASE Tracker \/ Detector
  <2>1. UNCHANGED <<sem_turn, next_ghost>> /\ pc'["controller"] = pc["controller"]
    BY <1>0, <1>2, OtherFrame
  <2>2. UNCHANGED <<turn_requested, ghost_pc>>
    BY <1>0, <1>2, TrackerSteps, DetectorSteps DEF TrackerEffect, DetectorEffect
  <2> QED
    BY <2>1, <2>2 DEF Pending
<1>3. CASE Controller
  <2>1. ControllerEffect
    BY <1>0, <1>3, ControllerSteps
  <2>2. UNCHANGED <<game_over, ghost_pc>>
    BY <2>1 DEF ControllerEffect
  <2>3. Pending(h)' <=> Pending(h)
    <3>0. /\ turn_requested \in [Ghost -> Nat] /\ next_ghost["controller"] \in Ghost
          /\ pc["controller"] \notin StopLabel
      BY <1>0, <1>3, NoStop DEF TypeOK
    <3>n. /\ GhostCount \in Nat /\ 1 <= h /\ h <= GhostCount /\ h \in Nat
          /\ next_ghost["controller"] \in Nat
      BY <3>0 DEF EnemyAssumption, Ghost
    <3>1. CASE /\ pc["controller"] = "turn" /\ pc'["controller"] = "read_over"
               /\ sem_turn[Enemy] > 0
      BY <2>2, <3>1 DEF Pending
    <3>2. CASE /\ pc["controller"] = "read_over" /\ pc'["controller"] = "post_ghosts"
               /\ UNCHANGED next_ghost
      <4>1. h >= next_ghost'["controller"]
        BY <1>0, <3>2, <3>n DEF Creation
      <4> QED
        BY <3>2, <4>1 DEF Pending
    <3>3. CASE /\ Loops("controller", "post_ghosts", "wait_ghosts")
               /\ Posts(turn_requested, next_ghost["controller"]) /\ sem_turn' = sem_turn
      <4>1. /\ turn_requested'[next_ghost["controller"]]
                 = turn_requested[next_ghost["controller"]] + 1
            /\ \A g \in Ghost \ {next_ghost["controller"]} :
                 turn_requested'[g] = turn_requested[g]
        BY <3>0, <3>3, PostOrTake DEF Posts
      <4>2. /\ pc["controller"] = "post_ghosts"
            /\ \/ /\ next_ghost["controller"] = GhostCount
                  /\ pc'["controller"] = "wait_ghosts"
               \/ /\ next_ghost'["controller"] = next_ghost["controller"] + 1
                  /\ pc'["controller"] = "post_ghosts"
        BY <3>3 DEF Loops, Goes
      <4>3. CASE h = next_ghost["controller"]
        <5>1. h >= next_ghost["controller"]
          BY <3>n, <4>3
        <5>2. turn_requested'[h] > 0
          BY <1>0, <4>1, <4>3
        <5> QED
          BY <4>2, <5>1, <5>2 DEF Pending
      <4>4. CASE h # next_ghost["controller"]
        <5>1. turn_requested'[h] = turn_requested[h]
          BY <4>1, <4>4
        <5>2. \/ pc'["controller"] = "wait_ghosts" /\ ~(h >= next_ghost["controller"])
              \/ /\ pc'["controller"] = "post_ghosts"
                 /\ h >= next_ghost'["controller"] <=> h >= next_ghost["controller"]
          BY <3>n, <4>2, <4>4
        <5> QED
          BY <2>2, <3>3, <4>2, <5>1, <5>2 DEF Pending
      <4> QED
        BY <4>3, <4>4
    <3>4. CASE /\ pc["controller"] \notin {"read_over", "post_ghosts"}
               /\ pc'["controller"] \notin {"read_over", "post_ghosts"}
               /\ UNCHANGED <<sem_turn, turn_requested>>
      BY <2>2, <3>4 DEF Pending
    <3> QED
      BY <2>1, <3>0, <3>1, <3>2, <3>3, <3>4
         DEF ControllerEffect, Goes, Loops, StopLabel, ghost_sems, Takes
  <2> QED
    BY <2>2, <2>3
<1>4. CASE MainSteps
  <2>1. MainCreates
    BY <1>0, <1>4, MainWhole DEF Sound
  <2>2. /\ UNCHANGED <<turn_requested, sem_turn>>
        /\ next_ghost'["controller"] = next_ghost["controller"]
        /\ \/ pc'["controller"] = pc["controller"]
           \/ pc["controller"] = "unborn" /\ pc'["controller"] = "turn"
    BY <2>1 DEF MainCreates
  <2>3. \/ ghost_pc'[h] = ghost_pc[h]
        \/ ghost_pc[h] = "unborn" /\ ghost_pc'[h] = "load"
    BY <2>1 DEF MainCreates
  <2> QED
    BY <2>2, <2>3 DEF Pending
<1> QED
  BY <1>1, <1>2, <1>3, <1>4

\* What remains of the files.
LEMMA StepsStep ==
  ASSUME EnemyAssumption, Books, Sound, Sound', [Next]_game_vars
  PROVE  Steps'
<1>0. /\ TypeOK /\ Labels /\ Creation /\ Stops /\ OverEnds /\ Turn /\ Whole
      /\ GhostTokens /\ TrackerTokens /\ DetectorTokens /\ Steps
      /\ sem_turn[Enemy] \in Nat /\ turns \in Nat /\ ~should_stop /\ ~should_stop'
      /\ \A g \in Ghost : turn_requested[g] \in Nat /\ turn_done[g] \in Nat
  BY DEF Books, Sound, TypeOK, Process, Labels
<1>s. ASSUME NEW h \in Ghost, Pending(h)' <=> Pending(h),
             left'[h] = left[h], turns' = turns, ~game_over,
             ghost_pc'[h] \in Unloaded => ghost_pc[h] \in Unloaded,
             ghost_pc'[h] \in {"turn"} \cup Working => ghost_pc[h] \in {"turn"} \cup Working
      PROVE  /\ ghost_pc'[h] \in Unloaded => Taken(h)' = 0
             /\ ghost_pc'[h] \in {"turn"} \cup Working =>
                  /\ Taken(h)' \in Nat
                  /\ left'[h] = SubSeq(Parsed(GhostMoves[h]), Taken(h)' + 1,
                                       Len(Parsed(GhostMoves[h])))
  <2>1. Taken(h)' = Taken(h)
    BY <1>s DEF Taken
  <2> QED
    BY <1>0, <1>s, <2>1 DEF Steps
<1>1. ASSUME NEW g \in Ghost, GhostThread(g), UNCHANGED <<p0, turns>>
      PROVE  Steps'
  <2>1. GhostEffect(g)
    BY <1>0, <1>1, GhostSteps
  <2>2. UNCHANGED <<pc, sem_turn, next_ghost, game_over>>
    BY <2>1 DEF GhostEffect
  <2>3. SUFFICES ASSUME ~game_over, NEW h \in Ghost
                 PROVE  /\ ghost_pc'[h] \in Unloaded => Taken(h)' = 0
                        /\ ghost_pc'[h] \in {"turn"} \cup Working =>
                             /\ Taken(h)' \in Nat
                             /\ left'[h] = SubSeq(Parsed(GhostMoves[h]), Taken(h)' + 1,
                                                  Len(Parsed(GhostMoves[h])))
    BY <2>2 DEF Steps
  <2>4. CASE h # g
    <3>1. /\ ghost_pc'[h] = ghost_pc[h] /\ left'[h] = left[h]
          /\ turn_requested'[h] = turn_requested[h]
      BY <2>1, <2>4 DEF GhostEffect
    <3>2. Pending(h)' <=> Pending(h)
      BY <1>1, <2>3, <3>1, PendingStep
    <3> QED
      BY <1>1, <1>s, <2>3, <3>1, <3>2
  <2>5. CASE h = g /\ ghost_pc[g] = "load" /\ ghost_pc'[g] = "turn"
    <3>1. left'[g] = Parsed(GhostMoves[g]) /\ turn_requested' = turn_requested
      BY <2>1, <2>5 DEF GhostEffect
    <3>2. Pending(h)' <=> Pending(h)
      BY <1>1, <2>3, <2>5, PendingStep
    <3>3. Taken(h)' = Taken(h) /\ Taken(h) = 0
      BY <1>0, <1>1, <2>3, <2>5, <3>2 DEF Taken, Steps, Unloaded
    <3>4. Parsed(GhostMoves[g]) \in Seq(Kept)
      BY KeptLines
    <3>5. SubSeq(Parsed(GhostMoves[g]), 0 + 1, Len(Parsed(GhostMoves[g]))) = Parsed(GhostMoves[g])
      BY <3>4
    <3> QED
      BY <2>5, <3>1, <3>3, <3>5 DEF Unloaded, Working
  <2>6. CASE h = g /\ ghost_pc[g] = "act" /\ ghost_pc'[g] = "answer"
    <3>1. /\ \/ left[g] = <<>> /\ left'[g] = left[g]
             \/ left[g] # <<>> /\ left'[g] = Tail(left[g])
          /\ turn_requested' = turn_requested
      BY <2>1, <2>6 DEF GhostEffect
    <3>2. Pending(g) /\ ~Pending(g)'
      BY <1>1, <2>3, <2>6, PendingStep
    <3>7. Taken(g) = turns - 1 /\ Taken(g)' = turns
      BY <1>1, <3>2 DEF Taken
    <3>8. /\ Taken(g) \in Nat
          /\ left[g] = SubSeq(Parsed(GhostMoves[g]), Taken(g) + 1, Len(Parsed(GhostMoves[g])))
      BY <1>0, <2>3, <2>6 DEF Steps, Working
    <3>9. Parsed(GhostMoves[g]) \in Seq(Kept)
      BY KeptLines
    <3>10. left'[g] = SubSeq(Parsed(GhostMoves[g]), Taken(g) + 2, Len(Parsed(GhostMoves[g])))
      BY <3>1, <3>8, <3>9, RestOfFile
    <3>11. Taken(g) + 2 = Taken(g)' + 1
      BY <1>0, <3>7
    <3> QED
      BY <1>0, <2>6, <3>7, <3>10, <3>11 DEF Unloaded
  <2>7. CASE /\ h = g /\ left'[g] = left[g]
             /\ \/ /\ ghost_pc[g] = "load" /\ ghost_pc'[g] = "stop"
                   /\ turn_requested' = turn_requested
                \/ /\ ghost_pc[g] = "turn" /\ ghost_pc'[g] = "read_stop"
                   /\ turn_requested[g] > 0
                \/ /\ ghost_pc[g] = "read_stop" /\ ghost_pc'[g] = "act"
                   /\ turn_requested' = turn_requested
                \/ /\ ghost_pc[g] = "answer" /\ ghost_pc'[g] = "turn"
                   /\ turn_requested' = turn_requested
    <3>1. Pending(h)' <=> Pending(h)
      BY <1>1, <2>3, <2>7, PendingStep
    <3>2. /\ ghost_pc'[h] \in Unloaded => ghost_pc[h] \in Unloaded
          /\ ghost_pc'[h] \in {"turn"} \cup Working => ghost_pc[h] \in {"turn"} \cup Working
      BY <2>7 DEF Unloaded, Working
    <3> QED
      BY <1>1, <1>s, <2>3, <2>7, <3>1, <3>2
  <2> QED
    BY <1>0, <2>1, <2>4, <2>5, <2>6, <2>7 DEF GhostEffect
<1>2. CASE (Tracker \/ Detector) /\ UNCHANGED <<p0, turns>>
  <2>1. UNCHANGED <<game_over, ghost_pc, left>>
    BY <1>0, <1>2, TrackerSteps, DetectorSteps DEF TrackerEffect, DetectorEffect
  <2>2. ~game_over => \A h \in Ghost : Pending(h)' <=> Pending(h)
    BY <1>2, <2>1, PendingStep
  <2> QED
    BY <1>2, <1>s, <2>1, <2>2 DEF Steps
<1>3. CASE Controller /\ UNCHANGED <<p0, turns>>
  <2>1. ControllerEffect
    BY <1>0, <1>3, ControllerSteps
  <2>2. UNCHANGED <<game_over, ghost_pc, left>>
    BY <2>1 DEF ControllerEffect
  <2>3. ASSUME ~game_over, NEW h \in Ghost
        PROVE  Pending(h)' <=> Pending(h)
    BY <1>3, <2>2, <2>3, PendingStep
  <2> QED
    BY <1>3, <1>s, <2>2, <2>3 DEF Steps
<1>4. CASE MainSteps /\ UNCHANGED <<p0, turns>>
  <2>1. MainCreates
    BY <1>0, <1>4, MainWhole DEF Sound
  <2>2. UNCHANGED <<left, game_over>>
    BY <2>1 DEF MainCreates
  <2>3. ASSUME NEW h \in Ghost
        PROVE  \/ ghost_pc'[h] = ghost_pc[h]
               \/ ghost_pc[h] = "unborn" /\ ghost_pc'[h] = "load"
    BY <2>1 DEF MainCreates
  <2>4. ASSUME ~game_over, NEW h \in Ghost
        PROVE  Pending(h)' <=> Pending(h)
    BY <1>4, <2>3, <2>4, PendingStep
  <2>5. ASSUME NEW h \in Ghost
        PROVE  /\ ghost_pc'[h] \in Unloaded => ghost_pc[h] \in Unloaded
               /\ ghost_pc'[h] \in {"turn"} \cup Working => ghost_pc[h] \in {"turn"} \cup Working
    BY <2>3 DEF Unloaded, Working
  <2> QED
    BY <1>4, <1>s, <2>2, <2>4, <2>5 DEF Steps
<1>5. CASE P0 \/ P0Fails
  <2>1. UNCHANGED <<pc, left, ghost_pc, turn_requested, next_ghost>>
    BY <1>5, P0Frame
  <2>2. CASE GrantTurn
    <3>1. /\ p0 = "ready" /\ turns' = turns + 1 /\ game_over' = game_over
          /\ sem_turn' = [sem_turn EXCEPT ![Enemy] = @ + 1]
      BY <2>2 DEF GrantTurn
    <3>2. /\ ~game_over /\ sem_turn[Enemy] = 0 /\ pc["controller"] \notin InTurn
          /\ \A g \in Ghost : turn_requested[g] = 0 /\ ghost_pc[g] \notin Working
      BY <1>0, <3>1, GrantIsQuiet
    <3>3. sem_turn'[Enemy] = 1
      BY <1>0, <3>1, <3>2, PostOrTake DEF TypeOK, Process
    <3>4. ASSUME NEW h \in Ghost
          PROVE  Taken(h)' = Taken(h)
      <4>1. ~Pending(h)
        BY <3>2 DEF Pending, InTurn, Working
      <4>2. Pending(h)'
        BY <3>3 DEF Pending
      <4>3. Taken(h) = turns
        BY <4>1 DEF Taken
      <4>4. Taken(h)' = turns' - 1
        BY <4>2 DEF Taken
      <4>5. turns' - 1 = turns
        BY <1>0, <3>1
      <4> QED
        BY <4>3, <4>4, <4>5
    <3> QED
      BY <1>0, <2>1, <3>2, <3>4 DEF Steps
  <2>3. CASE TakeAnswer
    <3>1. UNCHANGED <<sem_turn, turns, game_over>>
      BY <2>3 DEF TakeAnswer, p0_owned
    <3>2. \A h \in Ghost : Pending(h)' <=> Pending(h)
      BY <2>1, <3>1 DEF Pending
    <3> QED
      BY <1>s, <2>1, <3>1, <3>2 DEF Steps
  <2>4. CASE SetGameOver \/ PostShutdown \/ P0Fails
    <3>1. game_over'
      BY <1>0, <2>4 DEF SetGameOver, PostShutdown, P0Fails, OverEnds, p0_owned
    <3> QED
      BY <3>1 DEF Steps
  <2> QED
    BY <1>5, <2>2, <2>3, <2>4 DEF P0
<1>6. CASE UNCHANGED game_vars
  <2>1. /\ UNCHANGED <<game_over, turns, left, ghost_pc>>
        /\ \A h \in Ghost : Pending(h)' <=> Pending(h)
    BY <1>6, NothingChanges DEF Pending
  <2> QED
    BY <1>s, <2>1 DEF Steps
<1> QED
  BY <1>1, <1>2, <1>3, <1>4, <1>5, <1>6, StepCases

\* The controller cannot pass a ghost that has not answered.
LEMMA BeforeHolds ==
  ASSUME EnemyAssumption, TypeOK, Labels, Controller, NEW g \in Ghost, Before(g),
         turn_done[g] = 0
  PROVE  /\ Before(g)' /\ turn_done'[g] = 0
         /\ sem_done' = sem_done /\ collision_done' = collision_done
<1>0. /\ turn_done \in [Ghost -> Nat] /\ next_ghost["controller"] \in Ghost
  BY DEF TypeOK
<1>n. /\ GhostCount \in Nat /\ 1 <= g /\ g <= GhostCount /\ g \in Nat
      /\ next_ghost["controller"] \in Nat /\ next_ghost["controller"] <= GhostCount
  BY <1>0 DEF EnemyAssumption, Ghost
<1>1. ControllerEffect
  BY ControllerSteps
<1>2. CASE /\ Loops("controller", "wait_ghosts", "post_tracker")
           /\ Takes(turn_done, next_ghost["controller"])
           /\ UNCHANGED <<sem_done, helper_vars>>
  <2>1. turn_done[next_ghost["controller"]] > 0
    BY <1>2 DEF Takes
  <2>2. /\ next_ghost["controller"] # g
        /\ \A h \in Ghost \ {next_ghost["controller"]} : turn_done'[h] = turn_done[h]
    BY <1>0, <1>2, <2>1, PostOrTake DEF Takes
  <2>3. pc["controller"] = "wait_ghosts" /\ next_ghost["controller"] <= g
    BY <1>2 DEF Before, Loops, StopLabel
  <2>4. next_ghost["controller"] # GhostCount /\ next_ghost["controller"] + 1 <= g
    BY <1>n, <2>2, <2>3
  <2>5. pc' = pc /\ next_ghost'["controller"] = next_ghost["controller"] + 1
    BY <1>2, <2>4 DEF Loops
  <2> QED
    BY <1>2, <2>2, <2>3, <2>4, <2>5 DEF Before, helper_vars
<1>3. CASE /\ Loops("controller", "post_ghosts", "wait_ghosts")
           /\ UNCHANGED <<turn_done, sem_done, helper_vars>>
  <2>1. \/ pc'["controller"] = "post_ghosts"
        \/ pc'["controller"] = "wait_ghosts" /\ next_ghost'["controller"] = 1
    BY <1>3 DEF Loops, Goes
  <2>2. Before(g)'
    BY <1>n, <2>1 DEF Before
  <2> QED
    BY <1>3, <2>2 DEF helper_vars
<1>4. pc["controller"] \notin {"post_tracker", "wait_tracker", "post_detector",
                               "wait_detector", "answer"}
  BY DEF Before, StopLabel
<1>5. CASE /\ pc["controller"] \notin {"wait_ghosts", "post_ghosts"}
           /\ pc'["controller"] \in {"read_over", "stop", "post_ghosts", "stop_ghosts",
                                     "stop_tracker", "stop_detector", "done"}
           /\ UNCHANGED <<turn_done, sem_done, collision_done>>
  BY <1>5 DEF Before, StopLabel
<1> QED
  BY <1>1, <1>2, <1>3, <1>4, <1>5 DEF ControllerEffect, Goes, Loops, ghost_sems, helper_vars

\* Without a stop request, a detector with a verdict to give has the controller wait.
LEMMA JudgingIsAwaited ==
  ASSUME IInv, pc["detector"] \in Judging \/ collision_done > 0, ~should_stop
  PROVE  pc["controller"] = "wait_detector"
<1>1. pc["detector"] # "unborn"
  <2>1. collision_done \in Nat
    BY DEF IInv, TypeOK
  <2> QED
    BY <2>1 DEF IInv, Turn, Judging
<1>2. Sound
  BY <1>1 DEF Sound, Whole
<1> QED
  BY <1>2, Idle DEF IInv

\* What a stop request leaves possible.
LEMMA StopsStep ==
  ASSUME EnemyAssumption, IInv, [Next]_game_vars
  PROVE  Stops'
<1>0. /\ TypeOK /\ Labels /\ Creation /\ OverEnds /\ Turn /\ Stops
      /\ collision_done \in Nat /\ sem_done[Enemy] \in Nat
      /\ turn_done \in [Ghost -> Nat]
  BY DEF IInv, TypeOK, Process
<1>w. /\ Whole' => Whole
      /\ should_stop => should_stop'
  BY <1>0, SoundStep
<1>1. ASSUME NEW g \in Ghost, GhostThread(g)
      PROVE  Stops'
  <2>1. GhostEffect(g)
    BY <1>0, <1>1, GhostSteps
  <2>2. UNCHANGED <<pc, next_ghost, sem_done, collision_done, game_over>>
    BY <2>1 DEF GhostEffect
  <2>b. \A h \in Ghost : Before(h)' <=> Before(h)
    BY <2>2 DEF Before
  <2>3. ASSUME NEW h \in Ghost, ghost_pc'[h] \in Unloaded
        PROVE  ghost_pc[h] \in Unloaded /\ turn_done'[h] = turn_done[h]
    BY <2>1, <2>3 DEF GhostEffect, Unloaded
  <2>4. ASSUME NEW h \in Ghost, ghost_pc'[h] = "done"
        PROVE  should_stop'
    BY <1>0, <1>w, <2>1, <2>4 DEF GhostEffect, Stops
  <2>5. CASE ghost_pc[g] = "stop"
    <3>1. /\ should_stop' = TRUE /\ turn_done' = turn_done /\ ghost_pc'[g] = "turn"
      BY <2>1, <2>5 DEF GhostEffect
    <3>2. turn_done[g] = 0 /\ Before(g) /\ sem_done[Enemy] = 0
      BY <1>0, <2>5 DEF Stops, Unloaded
    <3>3. pc["controller"] # "wait_detector"
      BY <3>2 DEF Before, StopLabel
    <3>4. pc["detector"] \notin Judging
      BY <1>0, <3>3, JudgingIsAwaited DEF Stops
    <3>5. CASE ~should_stop
      <4>1. ~(collision_done > 0)
        BY <3>3, <3>5, JudgingIsAwaited
      <4>2. collision_done' = 0
        BY <1>0, <2>2, <4>1
      <4>3. Mute(g)'
        BY <2>2, <2>b, <3>1, <3>2, <4>2 DEF Mute
      <4> QED
        BY <1>0, <2>2, <2>b, <2>3, <2>4, <3>1, <3>4, <4>3 DEF Stops
    <3>6. CASE should_stop
      <4>1. \A h \in Ghost : Mute(h) => Mute(h)'
        BY <2>1, <2>2, <2>b, <3>1 DEF Mute, GhostEffect
      <4> QED
        BY <1>0, <1>w, <2>2, <2>b, <2>3, <2>4, <3>1, <3>4, <3>6, <4>1 DEF Stops
    <3> QED
      BY <1>0, <3>5, <3>6
  <2>6. CASE ghost_pc[g] # "stop"
    <3>1. should_stop' = should_stop
      BY <2>1, <2>6 DEF GhostEffect
    <3>2. ASSUME NEW h \in Ghost, Mute(h), should_stop
          PROVE  Mute(h)'
      <4>1. turn_done'[h] = 0 /\ ghost_pc'[h] \notin {"act", "answer"}
        BY <2>1, <3>2 DEF Mute, GhostEffect
      <4> QED
        BY <2>2, <2>b, <3>2, <4>1 DEF Mute
    <3> QED
      BY <1>0, <1>w, <2>2, <2>b, <2>3, <2>4, <3>1, <3>2 DEF Stops
  <2> QED
    BY <2>5, <2>6
<1>2. CASE Tracker
  <2>1. TrackerEffect
    BY <1>0, <1>2, TrackerSteps
  <2>2. /\ UNCHANGED <<next_ghost, sem_done, collision_done, game_over, should_stop, turn_done,
                       ghost_pc>>
        /\ pc'["controller"] = pc["controller"] /\ pc'["detector"] = pc["detector"]
    BY <2>1 DEF TrackerEffect, Goes, Thread
  <2>3. pc'["tracker"] = "done" => should_stop
    BY <1>0, <2>1 DEF TrackerEffect, Goes, Stops
  <2>4. \A h \in Ghost : (Before(h)' <=> Before(h)) /\ (Mute(h)' <=> Mute(h))
    BY <2>2 DEF Before, Mute
  <2> QED
    BY <1>0, <1>w, <2>2, <2>3, <2>4 DEF Stops
<1>3. CASE Detector
  <2>1. DetectorEffect
    BY <1>0, <1>3, DetectorSteps
  <2>2. /\ UNCHANGED <<next_ghost, sem_done, game_over, should_stop, turn_done, ghost_pc>>
        /\ pc'["controller"] = pc["controller"] /\ pc'["tracker"] = pc["tracker"]
    BY <2>1 DEF DetectorEffect, Goes, Thread
  <2>3. /\ pc'["detector"] = "done" => should_stop
        /\ pc'["detector"] \in Judging => ~should_stop
        /\ should_stop => collision_done' = collision_done
    BY <1>0, <2>1 DEF DetectorEffect, Goes, Stops, Judging
  <2>4. \A h \in Ghost : (Before(h)' <=> Before(h)) /\ (should_stop => (Mute(h)' <=> Mute(h)))
    BY <2>2, <2>3 DEF Before, Mute
  <2> QED
    BY <1>0, <1>w, <2>2, <2>3, <2>4 DEF Stops
<1>4. CASE Controller
  <2>1. ControllerEffect
    BY <1>0, <1>4, ControllerSteps
  <2>2. /\ UNCHANGED <<game_over, ghost_pc>>
        /\ pc'["detector"] = pc["detector"] /\ pc'["tracker"] = pc["tracker"]
    BY <1>0, <1>4, ControllerFrame DEF Thread
  <2>3. ASSUME NEW h \in Ghost, Before(h), turn_done[h] = 0
        PROVE  /\ Before(h)' /\ turn_done'[h] = 0
               /\ sem_done' = sem_done /\ collision_done' = collision_done
    BY <1>0, <1>4, <2>3, BeforeHolds
  <2>4. \A h \in Ghost : Mute(h) => Mute(h)'
    BY <2>2, <2>3 DEF Mute
  <2>5. \A h \in Ghost : ghost_pc'[h] \in Unloaded =>
          turn_done'[h] = 0 /\ Before(h)' /\ sem_done'[Enemy] = 0
    BY <1>0, <2>2, <2>3 DEF Stops
  <2>6. pc'["controller"] \in {"stop_ghosts", "stop_tracker", "stop_detector"} => should_stop'
    BY <1>0, <1>w, <2>1 DEF ControllerEffect, Goes, Loops, Stops
  <2>7. CASE pc["controller"] = "stop"
    <3>1. should_stop' /\ pc'["controller"] = "stop_ghosts"
      BY <2>1, <2>7 DEF ControllerEffect, Goes, Loops
    <3>2. game_over
      BY <1>0, <2>7 DEF OverEnds, StopLabel
    <3>3. pc["detector"] \notin Judging
      BY <1>0, <2>7, JudgingIsAwaited DEF Stops
    <3> QED
      BY <1>0, <2>2, <2>5, <3>1, <3>2, <3>3 DEF Stops, StopLabel
  <2>8. CASE pc["controller"] # "stop"
    <3>1. should_stop' = should_stop
      BY <2>1, <2>8 DEF ControllerEffect, Goes, Loops
    <3>2. pc["controller"] \in StopLabel \cup {"done"} =>
            pc'["controller"] \in StopLabel \cup {"done"}
      BY <2>1 DEF ControllerEffect, Goes, Loops, StopLabel
    <3> QED
      BY <1>0, <1>w, <2>2, <2>4, <2>5, <2>6, <3>1, <3>2 DEF Stops
  <2> QED
    BY <2>7, <2>8
<1>5. CASE MainSteps
  <2>1. MainEffect
    BY <1>0, <1>5, MainStepsEffect
  <2>2. /\ UNCHANGED <<game_over, sem_done, collision_done, turn_done>>
        /\ next_ghost'["controller"] = next_ghost["controller"]
    BY <2>1 DEF MainEffect
  <2>3. /\ pc'["controller"] \in {pc["controller"], "turn"}
        /\ pc'["tracker"] \in {pc["tracker"], "wait"}
        /\ pc'["detector"] \in {pc["detector"], "wait"}
    BY <2>1 DEF MainEffect, Loops, Goes, Thread
  <2>4. \A h \in Ghost : Before(h) => Before(h)'
    BY <2>2, <2>3 DEF Before
  <2>5. ASSUME NEW h \in Ghost
        PROVE  \/ ghost_pc'[h] = ghost_pc[h]
               \/ ghost_pc[h] = "unborn" /\ ghost_pc'[h] = "load"
    <3>0. ghost_pc \in [Ghost -> GhostLabel] /\ next_ghost["main"] \in Ghost
      BY <1>0 DEF TypeOK
    <3>1. \/ ghost_pc' = ghost_pc
          \/ /\ pc["main"] = "create_ghosts"
             /\ ghost_pc' = [ghost_pc EXCEPT ![next_ghost["main"]] = "load"]
      BY <2>1 DEF MainEffect, Loops
    <3>2. next_ghost["main"] >= next_ghost["main"]
      <4>1. next_ghost["main"] \in Nat
        BY <3>0 DEF Ghost, EnemyAssumption
      <4> QED
        BY <4>1
    <3>3. pc["main"] = "create_ghosts" => ghost_pc[next_ghost["main"]] = "unborn"
      BY <1>0, <3>0, <3>2 DEF Creation
    <3> QED
      BY <3>0, <3>1, <3>3
  <2>6. /\ \A h \in Ghost : ghost_pc'[h] \in Unloaded =>
             turn_done'[h] = 0 /\ Before(h)' /\ sem_done'[Enemy] = 0
        /\ \A h \in Ghost : ghost_pc'[h] = "done" => should_stop'
        /\ \A h \in Ghost : Mute(h) => Mute(h)'
    <3>1. \A h \in Ghost : Mute(h) => Mute(h)'
      BY <2>2, <2>4, <2>5 DEF Mute
    <3>2. \A h \in Ghost : ghost_pc'[h] = "done" => should_stop'
      BY <1>0, <1>w, <2>5 DEF Stops
    <3>3. \A h \in Ghost : ghost_pc'[h] \in Unloaded => ghost_pc[h] \in Unloaded
      BY <2>5 DEF Unloaded
    <3>4. \A h \in Ghost : ghost_pc'[h] \in Unloaded =>
            turn_done'[h] = 0 /\ Before(h)' /\ sem_done'[Enemy] = 0
      BY <1>0, <2>2, <2>4, <3>3 DEF Stops
    <3> QED
      BY <3>1, <3>2, <3>4
  <2>7. /\ pc'["tracker"] = "done" \/ pc'["detector"] = "done" => should_stop'
        /\ pc'["controller"] \in {"stop_ghosts", "stop_tracker", "stop_detector"} => should_stop'
    BY <1>0, <1>w, <2>3 DEF Stops
  <2>8. pc'["detector"] \in Judging => ~should_stop'
    <3>1. SUFFICES ASSUME pc["detector"] \in Judging, pc'["detector"] = pc["detector"]
                   PROVE  ~should_stop'
      BY <2>3 DEF Judging
    <3>2. pc'["detector"] # "unborn"
      BY <3>1 DEF Judging
    <3>3. MainCreates
      BY <1>0, <1>5, <3>2, MainWhole DEF Whole
    <3> QED
      BY <1>0, <3>1, <3>3 DEF MainCreates, Stops
  <2>9. ASSUME should_stop', Whole'
        PROVE  \/ game_over' /\ pc'["controller"] \in StopLabel \cup {"done"}
               \/ \E g \in Ghost : Mute(g)'
    <3>1. Whole /\ MainCreates
      BY <1>0, <1>5, <2>9, MainWhole
    <3>2. /\ should_stop
          /\ \/ pc'["controller"] = pc["controller"]
             \/ pc["controller"] = "unborn"
      BY <2>9, <3>1 DEF MainCreates
    <3>3. \/ game_over /\ pc["controller"] \in StopLabel \cup {"done"}
          \/ \E g \in Ghost : Mute(g)
      BY <1>0, <3>1, <3>2 DEF Stops
    <3> QED
      BY <2>2, <2>6, <3>2, <3>3 DEF StopLabel
  <2> QED
    BY <2>6, <2>7, <2>8, <2>9 DEF Stops
<1>6. CASE P0 \/ P0Fails
  <2>1. UNCHANGED <<pc, next_ghost, collision_done, turn_done, ghost_pc, should_stop>>
    BY <1>6, P0Frame
  <2>2. \/ sem_done' = sem_done
        \/ sem_done[Enemy] > 0
    BY <1>6 DEF P0, P0Fails, GrantTurn, TakeAnswer, SetGameOver, PostShutdown
  <2>3. game_over => game_over'
    BY <1>6 DEF P0, P0Fails, GrantTurn, TakeAnswer, SetGameOver, PostShutdown, p0_owned
  <2>4. sem_done[Enemy] = 0 => sem_done'[Enemy] = 0
    BY <2>2
  <2>5. \A h \in Ghost : (Before(h)' <=> Before(h)) /\ (Mute(h) => Mute(h)')
    BY <2>1, <2>4 DEF Before, Mute
  <2> QED
    BY <1>0, <1>w, <2>1, <2>3, <2>4, <2>5 DEF Stops
<1>7. CASE UNCHANGED game_vars
  <2>1. UNCHANGED <<pc, next_ghost, collision_done, turn_done, ghost_pc, should_stop, sem_done,
                    game_over>>
    BY <1>7, NothingChanges
  <2>2. \A h \in Ghost : (Before(h)' <=> Before(h)) /\ (Mute(h) => Mute(h)')
    BY <2>1 DEF Before, Mute
  <2> QED
    BY <1>0, <1>w, <2>1, <2>2 DEF Stops
<1> QED
  BY <1>1, <1>2, <1>3, <1>4, <1>5, <1>6, <1>7, StepCases

-----------------------------------------------------------------------------
(* The invariant, and what it says of the properties. *)

\* The initial states, whatever priorities the mailbox holds.
Starts ==
  /\ EnemyInit
  /\ global_tick = 0 /\ game_over = FALSE /\ pacman_at = PacmanStart
  /\ collision = NoCollision /\ exited = {}
  /\ pending_priority \in [Process -> 0..MAX_PRIORITY] /\ request_active = {}
  /\ sem_turn = [p \in Process |-> 0] /\ sem_done = [p \in Process |-> 0]
  /\ p0 = "ready" /\ turns = 0

\* The invariant holds when P2 starts.
LEMMA InvInit ==
  ASSUME MazeAssumption, EnemyAssumption, Starts
  PROVE  IInv
<1> USE DEF Starts, EnemyInit
<1>0. /\ Ghost \subseteq Nat /\ 1 \in Ghost
      /\ PacmanStart \in Open /\ GhostStart \in [Ghost -> Open]
  BY DEF EnemyAssumption, Ghost
<1>1. /\ pc["main"] = "create_controller" /\ pc["controller"] = "unborn"
      /\ pc["tracker"] = "unborn" /\ pc["detector"] = "unborn"
      /\ pc = [t \in Thread |-> pc[t]]
  BY DEF Thread
<1>2. /\ sem_turn[Enemy] = 0 /\ sem_done[Enemy] = 0
      /\ sem_turn \in [Process -> Nat] /\ sem_done \in [Process -> Nat]
      /\ pending_priority \in [Process -> 0..MAX_PRIORITY]
  BY DEF Process
<1>3. next_ghost["controller"] = 1 /\ next_ghost \in [{"main", "controller"} -> Ghost]
  BY <1>0
<1>4. /\ \A t \in Thread : pc[t] \in ThreadLabel[t]
  BY <1>1, ThreadLabels DEF Creating
<1>5. TypeOK
  <2>1. /\ global_tick \in Nat /\ game_over \in BOOLEAN /\ pacman_at \in Open
        /\ collision \in {NoCollision} /\ request_active \subseteq Process
        /\ exited \subseteq {Enemy} /\ should_stop \in BOOLEAN /\ tracked \in Open
    BY <1>0
  <2>2. /\ tracker_requested \in Nat /\ tracker_done \in Nat
        /\ collision_requested \in Nat /\ collision_done \in Nat
        /\ seen_pacman \in Open /\ seen_tick \in Nat
    BY <1>0
  <2>3. ghost_at \in [Ghost -> Open] /\ seen_ghosts \in [Ghost -> Open]
    BY <1>0
  <2>4. left \in [Ghost -> Seq(Lines)]
    <3>1. <<>> \in Seq(Lines)
      OBVIOUS
    <3> QED
      BY <3>1
  <2>5. /\ turn_requested \in [Ghost -> Nat] /\ turn_done \in [Ghost -> Nat]
        /\ ghost_pc \in [Ghost -> GhostLabel]
    BY DEF GhostLabel
  <2> QED
    BY <1>2, <1>3, <1>4, <2>1, <2>2, <2>3, <2>4, <2>5 DEF TypeOK
<1>6. Labels
  BY <1>1 DEF Labels
<1>7. Creation
  BY <1>1, <1>3 DEF Creation, Creating, StopLabel
<1>8. OverEnds
  BY <1>1 DEF OverEnds, StopLabel
<1>9. Turn
  BY <1>1, <1>2 DEF Turn, TurnsOut, InTurn
<1>10. Stops
  BY <1>1, <1>2 DEF Stops, Before, StopLabel, Judging
<1>11. GhostTokens
  BY <1>1 DEF GhostTokens, Due, Working
<1>12. TrackerTokens /\ DetectorTokens
  BY <1>1 DEF TrackerTokens, DetectorTokens, Judging
<1>13. Tracked /\ Copies
  BY <1>1, <1>2 DEF Tracked, Copies
<1>14. Verdict
  BY <1>1, <1>2 DEF Verdict, Judged
<1>15. Steps
  <2>1. \A g \in Ghost : ~Pending(g)
    BY <1>1, <1>2 DEF Pending
  <2> QED
    BY <2>1 DEF Steps, Taken, Working
<1> QED
  BY <1>5, <1>6, <1>7, <1>8, <1>9, <1>10, <1>11, <1>12, <1>13, <1>14, <1>15 DEF IInv

\* Every step of P2 and of what stands for P0 keeps the invariant.
LEMMA InvStep ==
  ASSUME MazeAssumption, EnemyAssumption, IInv, [Next]_game_vars
  PROVE  IInv'
<1>1. TypeOK /\ Labels /\ Creation /\ OverEnds /\ Turn /\ Stops
  BY DEF IInv
<1>2. TypeOK' /\ Labels' /\ Creation' /\ OverEnds' /\ Turn' /\ Stops'
  BY <1>1, TypeStep, CreationStep, OverStep, TurnStep, StopsStep
<1>3. ASSUME Sound'
      PROVE  /\ GhostTokens' /\ TrackerTokens' /\ DetectorTokens'
             /\ Tracked' /\ Copies' /\ Verdict' /\ Steps'
  <2>1. Sound
    BY <1>1, <1>3, SoundStep
  <2>2. Books
    BY <2>1 DEF IInv, Books
  <2> QED
    BY <1>3, <2>1, <2>2, GhostTokensStep, TrackerTokensStep, DetectorTokensStep,
       TrackedStep, CopiesStep, VerdictStep, StepsStep
<1> QED
  BY <1>2, <1>3 DEF IInv

\* The inductive invariant holds of every reachable state.
THEOREM Invariance == Spec => []IInv
<1>1. Init => IInv
  <2>1. [p \in Process |-> 0] \in [Process -> 0..MAX_PRIORITY]
    BY DEF MAX_PRIORITY
  <2>2. Init => Starts
    BY <2>1 DEF Init, Starts
  <2> QED
    BY <2>2, MazeAssumption, EnemyAssumption, InvInit
<1>2. IInv /\ [Next]_game_vars => IInv'
  BY MazeAssumption, EnemyAssumption, InvStep
<1> QED
  BY <1>1, <1>2, PTL DEF Spec

\* What goes on in the memory besides P2 and its own turns: the other process is
\* granted turns and answers them, and the mailboxes are written and emptied.
\* While P2 has no turn, the tick is counted and Pac-Man moves.
OthersMove ==
  /\ sem_turn' \in [Process -> Nat] /\ sem_turn'[Enemy] = sem_turn[Enemy]
  /\ sem_done' \in [Process -> Nat] /\ sem_done'[Enemy] = sem_done[Enemy]
  /\ pending_priority' \in [Process -> 0..MAX_PRIORITY] /\ request_active' \subseteq Process
  /\ \/ UNCHANGED <<global_tick, pacman_at>>
     \/ p0 = "ready" /\ global_tick' \in Nat /\ pacman_at' \in Open
  /\ UNCHANGED <<game_over, collision, exited, should_stop, tracked, helper_vars, ghost_vars,
                 ghost_sems, control_vars, detector_vars, p0, turns>>

\* While P0 has no turn out, P2 rests, and has published nothing.
LEMMA Resting ==
  ASSUME IInv, Sound, p0 = "ready"
  PROVE  /\ sem_done[Enemy] = 0 /\ pc["controller"] \notin InTurn
         /\ pc["tracker"] # "answer" /\ ~(tracker_done > 0)
         /\ pc["detector"] \notin Judging /\ ~(collision_done > 0)
         /\ ~Judged /\ collision = NoCollision
<1>1. /\ Verdict /\ GhostTokens /\ TrackerTokens /\ DetectorTokens
      /\ TypeOK /\ Labels /\ OverEnds /\ Turn /\ Whole
  BY DEF IInv, Sound
<1>2. ~game_over
  BY <1>1 DEF OverEnds
<1>3. sem_done[Enemy] = 0 /\ pc["controller"] \notin InTurn
  BY <1>1, <1>2, OneTurn
<1>4. /\ pc["tracker"] # "answer" /\ ~(tracker_done > 0)
      /\ pc["detector"] \notin Judging /\ ~(collision_done > 0)
  BY <1>1, <1>3, Idle DEF InTurn
<1>5. ~Judged
  BY <1>3, <1>4 DEF Judged, InTurn, Judging
<1> QED
  BY <1>1, <1>2, <1>3, <1>4, <1>5 DEF Verdict

\* None of it disturbs the invariant: what P2 has to say of the tick and of
\* Pac-Man it says while it has the turn.
LEMMA OthersKeep ==
  ASSUME IInv, OthersMove
  PROVE  IInv'
<1> USE DEF OthersMove, helper_vars, ghost_vars, ghost_sems, control_vars, detector_vars
<1>1. TypeOK'
  <2>1. global_tick' \in Nat /\ pacman_at' \in Open
    BY DEF IInv, TypeOK
  <2> QED
    BY <2>1 DEF IInv, TypeOK
<1>2. Labels' /\ Creation' /\ OverEnds'
  BY DEF IInv, Labels, Creation, OverEnds
<1>3. Turn' /\ Stops'
  BY DEF IInv, Turn, TurnsOut, Whole, Stops, Before, Mute
<1>4. Sound' <=> Sound
  BY DEF Sound, Whole
<1>5. ASSUME Sound
      PROVE  GhostTokens' /\ TrackerTokens' /\ DetectorTokens' /\ Steps'
  <2>1. GhostTokens /\ TrackerTokens /\ DetectorTokens /\ Steps
    BY <1>5 DEF IInv
  <2>2. \A g \in Ghost : (Due(g)' <=> Due(g)) /\ (Pending(g)' <=> Pending(g))
    BY DEF Due, Pending
  <2> QED
    BY <2>1, <2>2 DEF GhostTokens, TrackerTokens, DetectorTokens, Steps, Taken
<1>6. ASSUME Sound
      PROVE  Tracked' /\ Copies' /\ Verdict'
  <2>0. /\ Tracked /\ Copies /\ Verdict /\ GhostTokens /\ TrackerTokens /\ DetectorTokens
        /\ TypeOK /\ Labels /\ OverEnds /\ Turn /\ Whole
    BY <1>6 DEF IInv, Sound
  <2>1. CASE UNCHANGED <<global_tick, pacman_at>>
    BY <2>0, <2>1 DEF Tracked, Copies, Verdict, Judged, Exact, Meeting, Colliding
  <2>2. CASE p0 = "ready"
    <3>2. sem_done[Enemy] = 0 /\ pc["controller"] \notin InTurn
      BY <1>6, <2>2, Resting
    <3>3. /\ pc["tracker"] # "answer" /\ ~(tracker_done > 0)
          /\ pc["detector"] \notin Judging /\ ~(collision_done > 0)
      BY <1>6, <2>2, Resting
    <3>4. ~Judged
      BY <1>6, <2>2, Resting
    <3>5. ~Judged'
      BY <3>4 DEF Judged
    <3>6. Verdict'
      BY <2>0, <3>4, <3>5 DEF Verdict
    <3>7. Tracked'
      BY <3>2, <3>3 DEF Tracked, InTurn
    <3>8. Copies'
      BY <3>3 DEF Copies, Judging
    <3> QED
      BY <3>6, <3>7, <3>8
  <2> QED
    BY <2>1, <2>2
<1> QED
  BY <1>1, <1>2, <1>3, <1>4, <1>5, <1>6 DEF IInv

\* The types of P2; and no ghost is ever inside a wall or off the map.
THEOREM TypeCorrect == Spec => []TypeOK
<1>1. IInv => TypeOK
  BY DEF IInv
<1> QED
  BY <1>1, Invariance, PTL

\* An answer that P0 can take comes from a P2 that is whole and was not told to
\* stop, and whose threads are all at rest.
LEMMA AnsweredIsSound ==
  ASSUME IInv, Answered
  PROVE  /\ Sound /\ ~game_over /\ Whole
         /\ sem_turn[Enemy] = 0 /\ sem_done[Enemy] = 1
         /\ pc["controller"] \notin InTurn
         /\ \A g \in Ghost : ghost_pc[g] = "turn"
<1>0. /\ TypeOK /\ Labels /\ OverEnds /\ Turn /\ Stops
      /\ p0 = "waiting" /\ sem_done[Enemy] > 0 /\ sem_done[Enemy] # 0
  BY DEF IInv, Answered
<1>1. ~game_over
  BY <1>0 DEF OverEnds
<1>2. Whole
  BY <1>0 DEF Turn, Whole
<1>3. ~should_stop
  BY <1>0, <1>1, <1>2 DEF Stops, Mute
<1>4. Sound
  BY <1>2, <1>3 DEF Sound
<1>5. /\ sem_turn[Enemy] = 0 /\ sem_done[Enemy] = 1
      /\ pc["controller"] \notin InTurn
  BY <1>0, <1>1, <1>2, OneTurn
<1>6. ASSUME NEW g \in Ghost
      PROVE  ghost_pc[g] = "turn"
  <2>1. ghost_pc[g] \notin Unloaded /\ ghost_pc[g] # "done"
    BY <1>0, <1>3 DEF Stops
  <2>2. ghost_pc[g] \notin Working
    BY <1>4, <1>5, Idle DEF IInv, InTurn
  <2>3. ghost_pc[g] \in GhostLabel
    BY <1>0 DEF TypeOK
  <2> QED
    BY <2>1, <2>2, <2>3 DEF GhostLabel, Unloaded, Working
<1> QED
  BY <1>1, <1>2, <1>4, <1>5, <1>6

\* A ghost about to act has the next line of its file in hand, if there is one left.
LEMMA HeldByGhost ==
  ASSUME EnemyAssumption, IInv, Sound, ~game_over, NEW g \in Ghost, ghost_pc[g] = "act",
         NEW n \in Nat, turns = n + 1
  PROVE  IF left[g] = <<>> THEN n >= Len(Parsed(GhostMoves[g]))
           ELSE /\ n < Len(Parsed(GhostMoves[g]))
                /\ Head(left[g]) = Parsed(GhostMoves[g])[n + 1]
<1> DEFINE all == Parsed(GhostMoves[g])
<1>1. all \in Seq(Kept)
  BY KeptLines
<1>2. left[g] = SubSeq(all, n + 1, Len(all))
  <2>1. Taken(g) = n
    BY DEF Taken, Pending
  <2> QED
    BY <2>1 DEF IInv, Steps, Working
<1> HIDE DEF all
<1>3. Len(all) \in Nat
  BY <1>1
<1>4. CASE n < Len(all)
  <2>1. left[g] = [i \in 1..(Len(all) - n) |-> all[n + i]] /\ Len(left[g]) = Len(all) - n
    BY <1>1, <1>2, <1>3, <1>4
  <2>2. Len(left[g]) \in Nat /\ Len(left[g]) > 0 /\ 1 \in 1..(Len(all) - n)
    BY <1>3, <1>4, <2>1
  <2>3. left[g] # <<>>
    BY <2>2
  <2>4. Head(left[g]) = left[g][1] /\ left[g][1] = all[n + 1]
    BY <2>1, <2>2
  <2> QED
    BY <1>4, <2>3, <2>4 DEF all
<1>5. CASE n >= Len(all)
  <2>1. left[g] = <<>>
    BY <1>1, <1>2, <1>3, <1>5
  <2> QED
    BY <1>5, <2>1 DEF all
<1> QED
  BY <1>3, <1>4, <1>5

\* It comes with the exact verdict on the turn.
LEMMA AnsweredIsExact ==
  ASSUME IInv, Answered
  PROVE  Exact
<1>1. ~game_over /\ Verdict
  BY AnsweredIsSound DEF IInv
<1>2. Judged
  BY DEF Answered, Judged
<1> QED
  BY <1>1, <1>2 DEF Verdict

\* And every ghost has played it.
LEMMA AnsweredIsDone ==
  ASSUME IInv, Answered, NEW g \in Ghost
  PROVE  ~Pending(g)
<1>1. /\ sem_turn[Enemy] = 0 /\ pc["controller"] \notin InTurn
      /\ ghost_pc[g] = "turn"
      /\ TypeOK /\ GhostTokens /\ TrackerTokens /\ DetectorTokens
  BY AnsweredIsSound DEF IInv
<1>2. ~(turn_requested[g] > 0)
  BY <1>1, Idle DEF InTurn
<1> QED
  BY <1>1, <1>2 DEF Pending, InTurn

\* When P0 can take an answer, every post of the turn has met its wait.
THEOREM NoTokenIsLeft == Spec => []NoTokenLeft
<1>1. IInv => NoTokenLeft
  <2>1. SUFFICES ASSUME IInv, Answered
                 PROVE  /\ \A g \in Ghost : turn_requested[g] = 0 /\ turn_done[g] = 0
                        /\ tracker_requested = 0 /\ tracker_done = 0
                        /\ collision_requested = 0 /\ collision_done = 0
                        /\ sem_done[Enemy] = 1
    BY DEF NoTokenLeft
  <2>2. /\ sem_done[Enemy] = 1 /\ pc["controller"] \notin InTurn
        /\ TypeOK /\ GhostTokens /\ TrackerTokens /\ DetectorTokens
    BY <2>1, AnsweredIsSound DEF IInv
  <2>3. /\ \A g \in Ghost : ~(turn_requested[g] > 0) /\ ~(turn_done[g] > 0)
        /\ ~(tracker_requested > 0) /\ ~(tracker_done > 0)
        /\ ~(collision_requested > 0) /\ ~(collision_done > 0)
    BY <2>2, Idle DEF InTurn
  <2>4. /\ \A g \in Ghost : turn_requested[g] \in Nat /\ turn_done[g] \in Nat
        /\ tracker_requested \in Nat /\ tracker_done \in Nat
        /\ collision_requested \in Nat /\ collision_done \in Nat
    BY <2>2 DEF TypeOK
  <2> QED
    BY <2>2, <2>3, <2>4
<1> QED
  BY <1>1, Invariance, PTL

\* While the detector compares positions, the ghosts have moved, no other thread
\* of P2 writes, and the copy of Pac-Man is the published position.
THEOREM MazeIsSettled == Spec => []DetectorSeesSettledMaze
<1>1. IInv => DetectorSeesSettledMaze
  <2>1. SUFFICES ASSUME IInv, pc["detector"] \in {"copy_pacman", "copy_ghosts", "copy_tick",
                                                  "publish"}
                 PROVE  /\ \A g \in Ghost : ghost_pc[g] = "turn" /\ turn_requested[g] = 0
                        /\ pc["tracker"] = "wait" /\ tracker_requested = 0
                        /\ tracked = pacman_at
    BY DEF DetectorSeesSettledMaze
  <2>2. pc["detector"] \in Judging /\ ~should_stop /\ TypeOK /\ Stops /\ Creation
    BY <2>1 DEF IInv, Stops, Judging
  <2>3. pc["controller"] = "wait_detector"
    BY <2>1, <2>2, JudgingIsAwaited
  <2>4. Sound
    BY <2>1, <2>2 DEF Sound, Whole
  <2>5. GhostTokens /\ TrackerTokens /\ DetectorTokens /\ Tracked
    BY <2>1, <2>4 DEF IInv
  <2>6. /\ \A g \in Ghost : ~(turn_requested[g] > 0) /\ ghost_pc[g] \notin Working
        /\ pc["tracker"] \notin {"read_stop", "track", "answer"} /\ ~(tracker_requested > 0)
    BY <2>2, <2>3, <2>5, Idle
  <2>7. tracked = pacman_at
    BY <2>3, <2>5 DEF Tracked
  <2>8. /\ \A g \in Ghost : turn_requested[g] = 0
        /\ tracker_requested = 0
    <3>1. /\ \A g \in Ghost : turn_requested[g] \in Nat
          /\ tracker_requested \in Nat
      BY <2>2 DEF TypeOK
    <3> QED
      BY <2>6, <3>1
  <2>9. pc["tracker"] = "wait"
    <3>1. pc["tracker"] \in {"unborn", "wait", "read_stop", "track", "answer", "done"}
      BY <2>2, ThreadLabels DEF TypeOK
    <3>2. pc["tracker"] \notin {"unborn", "done"}
      BY <2>1, <2>2 DEF Creation, Stops
    <3> QED
      BY <2>6, <3>1, <3>2
  <2>10. ASSUME NEW g \in Ghost
         PROVE  ghost_pc[g] = "turn"
    <3>1. ghost_pc[g] \in GhostLabel
      BY <2>2 DEF TypeOK
    <3>2. ~Before(g)
      BY <2>3 DEF Before, StopLabel
    <3>3. ghost_pc[g] \notin Unloaded /\ ghost_pc[g] # "done"
      BY <2>2, <3>2 DEF Stops
    <3> QED
      BY <2>6, <3>1, <3>3 DEF GhostLabel, Unloaded, Working
  <2> QED
    BY <2>7, <2>8, <2>9, <2>10
<1> QED
  BY <1>1, Invariance, PTL

\* The answer to a turn comes with the exact verdict on it.
THEOREM CollisionIsExact == Spec => []CollisionExact
<1>1. IInv => CollisionExact
  BY AnsweredIsExact DEF CollisionExact, Exact
<1> QED
  BY <1>1, Invariance, PTL

\* When a turn is answered, each ghost has carried out one instruction per turn
\* granted, or has none left.
THEOREM GhostsAreInStep == Spec => []GhostsKeepStep
<1>1. IInv => GhostsKeepStep
  <2>1. SUFFICES ASSUME IInv, Answered, NEW g \in Ghost
                 PROVE  left[g] = SubSeq(Parsed(GhostMoves[g]), turns + 1,
                                         Len(Parsed(GhostMoves[g])))
    BY DEF GhostsKeepStep
  <2>2. ~game_over /\ ghost_pc[g] = "turn" /\ Steps
    BY <2>1, AnsweredIsSound DEF IInv
  <2>3. ~Pending(g)
    BY <2>1, AnsweredIsDone
  <2> QED
    BY <2>2, <2>3 DEF Steps, Taken
<1> QED
  BY <1>1, Invariance, PTL
=============================================================================
