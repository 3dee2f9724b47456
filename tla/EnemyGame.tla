------------------------------ MODULE EnemyGame ------------------------------
(***************************************************************************)
(* P2 (module EnemyProcess) closed with what it sees of the others: P0     *)
(* posts its turns one at a time, awaits each one and clears the collision *)
(* event; between two turns P1 may have moved anywhere.  In the end there  *)
(* is game_over and one more post; when P0 has failed, game_over may come  *)
(* in the middle of a turn and the shutdown is requested twice.            *)
(***************************************************************************)
EXTENDS EnemyProcess

CONSTANTS MaxTurns,      \* a bound on the turns P0 grants
          P0MayFail      \* may P0 fail while a turn is out?

\* What the other parts have checked before P2 starts: the positions are open
\* cells (map.c), and main() has accepted every line (movement.c).
ASSUME EnemyAssumption ==
  /\ GhostCount \in Nat \ {0}
  /\ PacmanStart \in Open /\ GhostStart \in [1..GhostCount -> Open]
  /\ DOMAIN GhostMoves = 1..GhostCount
  /\ \A g \in 1..GhostCount : GhostMoves[g] \in Seq(Line)

VARIABLES p0, turns

game_vars == <<vars, p0, turns>>
p2_private == <<exited, should_stop, tracked, helper_vars, ghost_vars,
                ghost_sems, control_vars, detector_vars>>

\* The turns of P1 in between, the tick, the mailbox emptied, the turn posted.
GrantTurn ==
  /\ p0 = "ready" /\ turns < MaxTurns
  /\ turns' = turns + 1
  /\ pacman_at' \in Open
  /\ global_tick' = global_tick + 1
  /\ request_active' = {}
  /\ sem_turn' = [sem_turn EXCEPT ![Enemy] = @ + 1]
  /\ p0' = "waiting"
  /\ UNCHANGED <<p2_private, game_over, sem_done, collision, pending_priority>>

\* The answer is taken and the collision thread of P0 clears the event.
TakeAnswer ==
  /\ p0 = "waiting" /\ sem_done[Enemy] > 0
  /\ sem_done' = [sem_done EXCEPT ![Enemy] = @ - 1]
  /\ collision' = NoCollision
  /\ p0' = "ready"
  /\ UNCHANGED <<p2_private, p0_owned, sem_turn, mailbox_vars, turns>>

SetGameOver ==
  /\ p0 = "ready"
  /\ game_over' = TRUE
  /\ p0' = "last_post"
  /\ UNCHANGED <<p2_private, global_tick, pacman_at, collision, sem_turn,
                 sem_done, mailbox_vars, turns>>

P0Fails ==
  /\ P0MayFail
  /\ p0 \in {"ready", "waiting"}
  /\ game_over' = TRUE
  /\ p0' = "first_post"
  /\ UNCHANGED <<p2_private, global_tick, pacman_at, collision, sem_turn,
                 sem_done, mailbox_vars, turns>>

PostShutdown ==
  /\ p0 \in {"first_post", "last_post"}
  /\ sem_turn' = [sem_turn EXCEPT ![Enemy] = @ + 1]
  /\ p0' = IF p0 = "first_post" THEN "last_post" ELSE "wait_child"
  /\ UNCHANGED <<p2_private, p0_owned, collision, sem_done, mailbox_vars, turns>>

P0 == GrantTurn \/ TakeAnswer \/ SetGameOver \/ PostShutdown

\* P2 has terminated and P0 asks nothing more of it.
Finished == At("main", "exit") /\ p0 = "wait_child" /\ UNCHANGED game_vars

Init ==
  /\ EnemyInit
  /\ global_tick = 0 /\ game_over = FALSE /\ pacman_at = PacmanStart
  /\ collision = NoCollision /\ exited = {}
  /\ pending_priority = [p \in Process |-> 0] /\ request_active = {}
  /\ sem_turn = [p \in Process |-> 0] /\ sem_done = [p \in Process |-> 0]
  /\ p0 = "ready" /\ turns = 0

Next ==
  \/ EnemyNext /\ UNCHANGED <<p0, turns>>
  \/ P0
  \/ P0Fails
  \/ Finished

Spec == Init /\ [][Next]_game_vars

P2Step(A) == A /\ UNCHANGED <<p0, turns>>

\* Each thread runs when it can; P0 takes its answers, and at some point it
\* ends the game.
Fairness ==
  /\ \A g \in Ghost : WF_game_vars(P2Step(GhostThread(g)))
  /\ WF_game_vars(P2Step(Tracker))
  /\ WF_game_vars(P2Step(Detector))
  /\ WF_game_vars(P2Step(Controller))
  /\ WF_game_vars(P2Step(Main))
  /\ WF_game_vars(P0)

FairSpec == Spec /\ Fairness

-----------------------------------------------------------------------------
Lines == UNION {Range(GhostMoves[g]) : g \in Ghost}

GhostLabel == {"unborn", "load", "stop", "turn", "read_stop", "act", "answer", "done"}

StopLabel == {"stop", "stop_ghosts", "stop_tracker", "stop_detector"}

ThreadLabel ==
  [main       |-> Creating \cup StopLabel \cup {"post_turn", "join", "exit"},
   controller |-> StopLabel \cup {"unborn", "turn", "read_over", "post_ghosts",
                   "wait_ghosts", "post_tracker", "wait_tracker",
                   "post_detector", "wait_detector", "answer", "done"},
   tracker    |-> {"unborn", "wait", "read_stop", "track", "answer", "done"},
   detector   |-> {"unborn", "wait", "read_stop", "copy_pacman", "copy_ghosts",
                   "copy_tick", "publish", "answer", "done"}]

\* The types of P2, with the legal cells: no ghost ever leaves the maze.
TypeOK ==
  /\ global_tick \in Nat /\ game_over \in BOOLEAN /\ pacman_at \in Open
  /\ collision \in {NoCollision} \cup [tick : Nat, ghost : Ghost]
  /\ pending_priority \in [Process -> 0..MAX_PRIORITY]
  /\ request_active \subseteq Process
  /\ sem_turn \in [Process -> Nat] /\ sem_done \in [Process -> Nat]
  /\ exited \subseteq {Enemy}
  /\ should_stop \in BOOLEAN /\ tracked \in Open
  /\ {tracker_requested, tracker_done, collision_requested, collision_done}
       \subseteq Nat
  /\ ghost_at \in [Ghost -> Open] /\ left \in [Ghost -> Seq(Lines)]
  /\ turn_requested \in [Ghost -> Nat] /\ turn_done \in [Ghost -> Nat]
  /\ ghost_pc \in [Ghost -> GhostLabel]
  /\ \A t \in Thread : pc[t] \in ThreadLabel[t]
  /\ next_ghost \in [{"main", "controller"} -> Ghost]
  /\ seen_pacman \in Open /\ seen_ghosts \in [Ghost -> Open]
  /\ seen_tick \in Nat

\* P0 waits for this turn and can take the answer.
Answered == p0 = "waiting" /\ sem_done[Enemy] > 0

Meeting == {g \in Ghost : ghost_at[g] = pacman_at}

\* The answer comes with an exact verdict: the event names this tick and the
\* first ghost on the published cell of Pac-Man, and there is an event if and
\* only if there is such a ghost.
CollisionExact ==
  Answered =>
    \/ Meeting = {} /\ collision = NoCollision
    \/ /\ collision.tick = global_tick
       /\ collision.ghost \in Meeting
       /\ \A g \in Meeting : collision.ghost <= g

\* While the detector compares, nothing it looks at can change: the ghosts
\* have moved and the copy of Pac-Man is the published position.
DetectorSeesSettledMaze ==
  pc["detector"] \in {"copy_pacman", "copy_ghosts", "copy_tick", "publish"} =>
    /\ \A g \in Ghost : ghost_pc[g] = "turn" /\ turn_requested[g] = 0
    /\ pc["tracker"] = "wait" /\ tracker_requested = 0
    /\ tracked = pacman_at

\* The ghosts keep step: when a turn is answered, each ghost has carried out
\* exactly one instruction per turn granted, or has come to its last one.
GhostsKeepStep ==
  Answered => \A g \in Ghost :
    LET all == Parsed(GhostMoves[g])
    IN  left[g] = SubSeq(all, turns + 1, Len(all))

\* An answered turn leaves no token behind: every post was matched by its
\* wait, so that no helper can start early in the next turn.
NoTokenLeft ==
  Answered =>
    /\ \A g \in Ghost : turn_requested[g] = 0 /\ turn_done[g] = 0
    /\ tracker_requested = 0 /\ tracker_done = 0
    /\ collision_requested = 0 /\ collision_done = 0
    /\ sem_done[Enemy] = 1

\* A request in the mailbox is not overwritten before P0 has seen it.
\* (ARCHITECTURE.md:176-178: P1 and P2 write requests, P0 applies them.)
RequestsReachP0 ==
  [][({Enemy} \subseteq request_active /\ {Enemy} \subseteq request_active')
       => pending_priority' = pending_priority]_mailbox_vars

Started ==
  /\ \A t \in Thread : pc[t] # "unborn"
  /\ \A g \in Ghost : ghost_pc[g] # "unborn"

\* A ghost that could not load its file is about to stop the helpers.
LoadFailed == \E g \in Ghost : ghost_pc[g] = "stop"

\* If its threads can be created and the files loaded, P2 answers every turn,
\* or P0 has given up.
TurnAnswered == Started /\ p0 = "waiting" ~> p0 # "waiting" \/ should_stop

\* If its threads can be created and the files loaded, the process ends with
\* all its threads joined.
Termination == <>LoadFailed \/ (Started ~> At("main", "exit"))

\* Every turn P0 posts is answered, whatever happens to the files.
\* (ARCHITECTURE.md:152: "sem_p2_done: P2 confirma fin de turno".)
EveryTurnAnswered == p0 = "waiting" ~> p0 # "waiting"

\* After game_over the process ends, whatever happened at its start.
\* (ARCHITECTURE.md:105: "Leer game_over para finalizar ordenadamente".)
EndsAfterGameOver == game_over ~> At("main", "exit")
=============================================================================
