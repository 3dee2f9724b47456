----------------------- MODULE ScheduledGameRefinement -----------------------
(***************************************************************************)
(* P0 and its threads implement the game of module TurnGame, as long as no *)
(* system call fails in a running thread (threads may fail to be created,  *)
(* wakeups may be spurious).                                               *)
(***************************************************************************)
EXTENDS ScheduledGame

Answered ==
  \/ pc["collision"] \in {"consume", "charge", "read_over", "report"}
  \/ "turn_done" \in flags
  \/ pc["signal"] = "complete"

Granted ==
  \/ pc["scheduler"] = "publish"
  \/ "selection_ready" \in flags
  \/ pc["signal"] \in {"post", "await_done"}

Opened ==
  \/ pc["tick"] = "open"
  \/ "tick_ready" \in flags
  \/ pc["scheduler"] \in {"apply", "select"}

\* The tick is where the baton is.
Phase == IF Answered THEN "answered"
         ELSE IF Granted THEN "granted"
         ELSE IF Opened THEN "open"
         ELSE "settled"

\* The process selected travels from the scheduler thread to the signal
\* thread through the runtime.
Holder == IF Phase # "granted" THEN "none"
          ELSE IF pc["scheduler"] = "publish" THEN choice
          ELSE IF "selection_ready" \in flags THEN selected_process
          ELSE dispatched

Wants == [p \in Process |-> IF p \in request_active THEN pending_priority[p]
                                                    ELSE prioridad[p]]

\* An event is owed from its publication until a life has been taken.
Owed == collision # NoCollision \/ pc["collision"] = "charge"

Abstract == INSTANCE TurnGame WITH
  MayAbort <- ResourcesMayFail,
  tick <- global_tick, lives <- pacman_lives, over <- game_over,
  phase <- Phase, holder <- Holder, tie <- last_round_robin,
  wants <- Wants, hit <- Owed

\* P0 implements the game: one turn per tick, to the process that wants it
\* most; every collision paid once, before the next tick; and the game ends.
ImplementsTurnGame == Abstract!FairSpec
=============================================================================
