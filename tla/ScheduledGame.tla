---------------------------- MODULE ScheduledGame ----------------------------
(***************************************************************************)
(* P0 (module Scheduler) closed with what it can see of its two children.  *)
(* A child is either waiting for its turn semaphore or somewhere within a  *)
(* turn:                                                                   *)
(*   idle      blocked in sem_wait on its turn semaphore                   *)
(*   woken     past it, about to read game_over                            *)
(*   playing   within its turn; it may write its priority mailbox          *)
(*   reported  P2 only: it has published a collision                       *)
(*   gone      terminated                                                  *)
(* The two children are modelled step by step in PacmanProcess and         *)
(* EnemyProcess.                                                           *)
(***************************************************************************)
EXTENDS Scheduler

VARIABLE child

game_vars == <<vars, child>>

Turn(k, stage) == child' = [child EXCEPT ![k] = stage]

-----------------------------------------------------------------------------
\* sem_wait on the turn semaphore.
ChildWakes(k) ==
  /\ child[k] = "idle"
  /\ sem_turn[k] > 0
  /\ sem_turn' = [sem_turn EXCEPT ![k] = @ - 1]
  /\ Turn(k, "woken")
  /\ UNCHANGED <<clock_vars, collision, priority_vars, sem_done, exited,
                 memory_vars, thread_vars, local_vars, main_vars>>

\* read_game_over: the child plays, or terminates.
ChildReadsGameOver(k) ==
  /\ child[k] = "woken"
  /\ Turn(k, IF game_over THEN "gone" ELSE "playing")
  /\ exited' = IF game_over THEN exited \cup {k} ELSE exited
  /\ UNCHANGED <<clock_vars, collision, priority_vars, semaphore_vars,
                 memory_vars, thread_vars, local_vars, main_vars>>

\* request_priority_change, request_enemy_priority_change.
ChildRequests(k, priority) ==
  /\ child[k] = "playing"
  /\ pending_priority' = [pending_priority EXCEPT ![k] = priority]
  /\ request_active' = request_active \cup {k}
  /\ UNCHANGED <<clock_vars, collision, prioridad, semaphore_vars, exited,
                 memory_vars, thread_vars, local_vars, main_vars, child>>

\* publish_collision, once the ghosts have moved.
EnemyPublishes(ghost) ==
  /\ child[Enemy] = "playing"
  /\ collision' = [tick |-> global_tick, ghost |-> ghost]
  /\ Turn(Enemy, "reported")
  /\ UNCHANGED <<clock_vars, priority_vars, semaphore_vars, exited,
                 memory_vars, thread_vars, local_vars, main_vars>>

\* The turn is acknowledged on sem_p1_done or sem_p2_done.
ChildFinishes(k) ==
  /\ child[k] \in {"playing", "reported"}
  /\ sem_done' = [sem_done EXCEPT ![k] = @ + 1]
  /\ Turn(k, "idle")
  /\ UNCHANGED <<clock_vars, collision, priority_vars, sem_turn, exited,
                 memory_vars, thread_vars, local_vars, main_vars>>

\* The publisher thread of P1 finds the game over: it stops, and the turn is
\* never acknowledged.  The executor thread still waits for the next turn.
PacmanDropsTurn ==
  /\ child[Pacman] = "playing"
  /\ game_over
  /\ Turn(Pacman, "idle")
  /\ UNCHANGED vars

Child(k) ==
  \/ ChildWakes(k)
  \/ ChildReadsGameOver(k)
  \/ \E priority \in Priorities : ChildRequests(k, priority)
  \/ ChildFinishes(k)

Children ==
  \/ \E k \in Process : Child(k)
  \/ \E ghost \in 1..GhostCount : EnemyPublishes(ghost)
  \/ PacmanDropsTurn

\* The program has returned from main().
Finished == main_pc = "exit" /\ UNCHANGED game_vars

Init ==
  /\ SchedulerInit
  /\ child = [k \in Process |-> "idle"]

Next ==
  \/ SchedulerNext /\ UNCHANGED child
  \/ Children
  \/ Finished

Spec == Init /\ [][Next]_game_vars

(***************************************************************************)
(* Every thread that can take a step eventually takes one, and a child     *)
(* does not stay in a turn for ever: each turn is a bounded piece of code. *)
(* Nothing is assumed of the failures and of the spurious wakeups.         *)
(***************************************************************************)
P0Step(A) == A /\ UNCHANGED child

Fairness ==
  /\ WF_game_vars(P0Step(TickThread))
  /\ WF_game_vars(P0Step(SchedulerThread))
  /\ WF_game_vars(P0Step(SignalThread))
  /\ WF_game_vars(P0Step(CollisionThread))
  /\ WF_game_vars(P0Step(MainThread))
  /\ \A k \in Process :
       WF_game_vars(ChildWakes(k) \/ ChildReadsGameOver(k) \/ ChildFinishes(k))

FairSpec == Spec /\ Fairness

-----------------------------------------------------------------------------
TickLabel      == {"unborn", "top", "open", "wait", "stop", "done"}
SchedulerLabel == {"unborn", "wait", "apply", "select", "publish", "done"}
SignalLabel    == {"unborn", "wait", "post", "await_done", "complete", "done"}
CollisionLabel == {"unborn", "wait", "consume", "charge", "read_over",
                   "report", "done"}
ThreadLabel == TickLabel \cup SchedulerLabel \cup SignalLabel \cup CollisionLabel

MainLabel == {"init", "create", "cancel", "join", "set_game_over",
              "post_pacman", "post_enemy", "wait_children", "exit"}

ChildStage == {"idle", "woken", "playing", "reported", "gone"}

SharedTypes ==
  /\ global_tick \in 0..MaxTicks
  /\ game_over \in BOOLEAN
  /\ pacman_lives \in 0..InitialLives
  /\ collision \in {NoCollision} \cup [tick : 0..MaxTicks, ghost : 1..GhostCount]
  /\ prioridad \in [Process -> Priorities]
  /\ pending_priority \in [Process -> Priorities]
  /\ request_active \subseteq Process
  /\ sem_turn \in [Process -> Nat]
  /\ sem_done \in [Process -> Nat]
  /\ exited \subseteq Process
  /\ child \in [Process -> ChildStage]

ThreadTypes ==
  /\ flags \subseteq Flag
  /\ asleep \subseteq Thread
  /\ pc \in [Thread -> ThreadLabel]
  /\ pc["tick"] \in TickLabel /\ pc["scheduler"] \in SchedulerLabel
  /\ pc["signal"] \in SignalLabel /\ pc["collision"] \in CollisionLabel

LocalTypes ==
  /\ last_round_robin \in Process
  /\ last_processed_collision_tick \in -1..MaxTicks
  /\ selected_process \in Process
  /\ choice \in Process /\ dispatched \in Process
  /\ saw_game_over \in BOOLEAN
  /\ main_pc \in MainLabel
  /\ created \in 0..ThreadCount
  /\ status \in {"ok", "error"}
  /\ caller \in {"scheduler_run", "main"}

\* The type invariant of P0 and of the children it sees; the tick counter
\* stays within max_ticks and the lives do not go below zero.
TypeOK == SharedTypes /\ ThreadTypes /\ LocalTypes

(***************************************************************************)
(* The tick is a baton: the tick thread, the scheduler thread, the signal  *)
(* thread and the collision thread work on it one after the other, and     *)
(* between two of them a runtime flag carries it.                          *)
(***************************************************************************)
Baton ==
  {t \in Thread : pc[t] \notin {"unborn", "wait", "done"}}
    \cup (flags \cap {"tick_ready", "selection_ready", "turn_done"})
    \cup {f \in flags \cap {"collision_done"} : pc["tick"] = "wait"}

\* At most one thread works on the tick, and no flag is pending meanwhile: no
\* flag that the tick thread resets is one that another thread has yet to see.
OneBaton == \A a, b \in Baton : a = b

\* The children that have a turn: posted, being played, or acknowledged to P0.
Busy == {"woken", "playing", "reported"}
Custody(k) == sem_turn[k] + (IF child[k] \in Busy THEN 1 ELSE 0) + sem_done[k]

BeforeShutdown == main_pc \in {"init", "create", "cancel", "join"}

\* Until the shutdown at most one turn exists, whatever fails; while the
\* signal thread waits for an answer exactly one does, for the process it
\* waits for, and while it is elsewhere none does.
TurnExclusive ==
  BeforeShutdown =>
    /\ Custody(Pacman) + Custody(Enemy) <= 1
    /\ pc["signal"] = "await_done" => Custody(dispatched) = 1
    /\ pc["signal"] \notin {"await_done", "done"} =>
         Custody(Pacman) = 0 /\ Custody(Enemy) = 0

\* Unless a call fails, the game never ends in the middle of a turn.  (The
\* publisher of P1 drops such a turn, and P0 would wait for ever.)
NoTurnInterrupted ==
  "thread_error" \notin flags =>
    \A k \in Process : child[k] \in {"playing", "reported"} => ~game_over

\* A pending collision event is of the current tick, and that tick has not
\* been charged: last_processed_collision_tick never discards an event.
EventFresh ==
  collision # NoCollision =>
    /\ collision.tick = global_tick
    /\ last_processed_collision_tick < global_tick

\* When a tick opens, the previous one is settled: no turn is outstanding, no
\* collision is pending and the last charge is of an earlier tick.
TickOpensSettled ==
  pc["tick"] = "open" =>
    /\ collision = NoCollision
    /\ last_processed_collision_tick < global_tick
    /\ BeforeShutdown => Custody(Pacman) + Custody(Enemy) = 0

\* No request arrives between the moment P0 applies the requests and the
\* moment it grants the turn: the process granted has the higher priority,
\* or an equal one, of the priorities as requested so far.
DispatchRespectsPriority ==
  /\ pc["scheduler"] \in {"select", "publish"} => request_active = {}
  /\ pc["signal"] = "post" =>
       /\ request_active = {}
       /\ prioridad[dispatched] >= prioridad[Other(dispatched)]

\* The program ends without an error only when Pac-Man has lost every life or
\* the last tick has been played and settled.
StoppedForAReason ==
  main_pc = "exit" /\ status = "ok" =>
    /\ pacman_lives = 0 \/ global_tick = MaxTicks
    /\ collision = NoCollision

\* Main returns: no thread of P0 and no child is left waiting, on the error
\* paths too.
Termination == <>(main_pc = "exit")
=============================================================================
