----------------------------- MODULE PacmanGame -----------------------------
(***************************************************************************)
(* P1 (module PacmanProcess) closed with what it sees of P0: turns posted  *)
(* one at a time, each one awaited; in the end game_over and one more      *)
(* post.  When P0 has failed, game_over may come in the middle of a turn   *)
(* and the shutdown is requested twice.                                    *)
(***************************************************************************)
EXTENDS PacmanProcess

CONSTANTS MaxTurns,      \* a bound on the turns P0 grants
          P0MayFail      \* may P0 fail while a turn is out?

\* What the other parts have checked before P1 starts: Pac-Man is on an open
\* cell (map.c), and main() has accepted every line (movement.c).
ASSUME PacmanAssumption == Start \in Open /\ Moves \in Seq(Line)

VARIABLES p0, turns

game_vars == <<vars, p0, turns>>
p1_private == <<exited, queue_vars, publish_requested, reader_vars,
                turn_vars, out_vars, pc, main_pc>>

\* The scheduler thread empties the mailbox, then the signal thread posts.
GrantTurn ==
  /\ p0 = "ready" /\ turns < MaxTurns
  /\ turns' = turns + 1
  /\ request_active' = {}
  /\ sem_turn' = [sem_turn EXCEPT ![Pacman] = @ + 1]
  /\ p0' = "waiting"
  /\ UNCHANGED <<p1_private, game_over, sem_done, pending_priority>>

TakeAnswer ==
  /\ p0 = "waiting" /\ sem_done[Pacman] > 0
  /\ sem_done' = [sem_done EXCEPT ![Pacman] = @ - 1]
  /\ p0' = "ready"
  /\ UNCHANGED <<p1_private, game_over, sem_turn, mailbox_vars, turns>>

SetGameOver ==
  /\ p0 = "ready"
  /\ game_over' = TRUE
  /\ p0' = "last_post"
  /\ UNCHANGED <<p1_private, sem_turn, sem_done, mailbox_vars, turns>>

P0Fails ==
  /\ P0MayFail
  /\ p0 \in {"ready", "waiting"}
  /\ game_over' = TRUE
  /\ p0' = "first_post"
  /\ UNCHANGED <<p1_private, sem_turn, sem_done, mailbox_vars, turns>>

PostShutdown ==
  /\ p0 \in {"first_post", "last_post"}
  /\ sem_turn' = [sem_turn EXCEPT ![Pacman] = @ + 1]
  /\ p0' = IF p0 = "first_post" THEN "last_post" ELSE "wait_child"
  /\ UNCHANGED <<p1_private, game_over, sem_done, mailbox_vars, turns>>

P0 == GrantTurn \/ TakeAnswer \/ SetGameOver \/ PostShutdown

\* P1 has terminated and P0 asks nothing more of it.
Finished ==
  /\ main_pc = "exit" /\ p0 = "wait_child"
  /\ UNCHANGED game_vars

Init ==
  /\ PacmanInit
  /\ game_over = FALSE /\ exited = {} /\ pacman_at = Start
  /\ pending_priority = [p \in Process |-> 0] /\ request_active = {}
  /\ sem_turn = [p \in Process |-> 0] /\ sem_done = [p \in Process |-> 0]
  /\ p0 = "ready" /\ turns = 0

Next ==
  \/ PacmanNext /\ UNCHANGED <<p0, turns>>
  \/ P0
  \/ P0Fails
  \/ Finished

Spec == Init /\ [][Next]_game_vars

P1Step(A) == A /\ UNCHANGED <<p0, turns>>

\* Each thread runs when it can; P0 takes its answers, and at some point it
\* ends the game.
Fairness ==
  /\ WF_game_vars(P1Step(Reader))
  /\ WF_game_vars(P1Step(Executor))
  /\ WF_game_vars(P1Step(Publisher))
  /\ WF_game_vars(P1Step(Main))
  /\ WF_game_vars(P0)

FairSpec == Spec /\ Fairness

-----------------------------------------------------------------------------
ThreadLabel ==
  [reader    |-> {"unborn", "open", "read", "push", "push_post", "mark_done",
                  "done_post", "done"},
   executor  |-> {"unborn", "turn", "read_over", "try", "check", "await",
                  "pop", "process", "publish", "stop", "stop_post",
                  "stop_publish", "done"},
   publisher |-> {"unborn", "wait", "read_over", "copy", "store", "answer",
                  "done"}]

\* The types of P1, with the legal cells: no move ever leaves the maze.
TypeOK ==
  /\ game_over \in BOOLEAN
  /\ \A at \in {pacman_at, local_at, snapshot} : at \in Open
  /\ pending_priority \in [Process -> 0..MAX_PRIORITY]
  /\ request_active \subseteq Process
  /\ sem_turn \in [Process -> Nat] /\ sem_done \in [Process -> Nat]
  /\ exited \subseteq {Pacman}
  /\ queue \in Seq(Range(Moves)) /\ executed \in Seq(Range(Moves))
  /\ reader_done \in BOOLEAN /\ should_stop \in BOOLEAN
  /\ available \in Nat /\ publish_requested \in Nat
  /\ held \in Range(Moves) \cup {NoInstruction}
  /\ next_line \in 1..Len(Moves) + 1
  /\ \A t \in Thread : pc[t] \in ThreadLabel[t]

InHand == IF pc["executor"] = "process" THEN <<held>> ELSE <<>>

\* What was carried out, what is in hand and what is queued are the valid
\* lines of the file, in order: none is lost, repeated or overtaken between
\* the two threads.
OrderKept ==
  LET passed == executed \o InHand \o queue
  IN  /\ IsPrefix(passed, Parsed(Moves))
      /\ reader_done /\ next_line > Len(Moves) => passed = Parsed(Moves)

Started == \A t \in Thread : pc[t] # "unborn"

\* Whether the cleanup path after a failed start has posted a turn of its own.
CleanupTurn ==
  IF ~Started /\ main_pc \in {"post_publish", "join", "exit"} THEN 1 ELSE 0

\* P1 carries out no more instructions than it was granted turns, the one the
\* cleanup path grants included.
OneInstructionPerTurn == Len(executed) + Len(InHand) <= turns + CleanupTurn

Posting == IF pc["reader"] = "push_post" THEN 1 ELSE 0
Popping == IF pc["executor"] = "pop" THEN 1 ELSE 0

\* The posts of available cover the queue: the executor cannot block in
\* sem_wait while an instruction is in the queue and already announced.
TokensCoverQueue == Len(queue) <= available + Posting + Popping

\* The executor finds the queue empty under the mutex only after the reader
\* has finished (or a stop was requested): it never pays a turn for an
\* instruction that is still on its way.
EmptyPopOnlyAtEnd ==
  pc["executor"] = "pop" /\ queue = <<>> => reader_done \/ should_stop

\* When P0 sees the answer, the position it can read is the one the turn
\* produced, and no publication is left over to race with the next turn.
AnswerAfterPublication ==
  p0 = "waiting" /\ sem_done[Pacman] > 0 =>
    /\ pacman_at = local_at
    /\ publish_requested = 0 /\ pc["publisher"] = "wait"
    /\ sem_done[Pacman] = 1

\* P2 never sees Pac-Man jump: each publication moves it by one cell at most.
PublishedStepByStep == [][Distance(pacman_at', pacman_at) <= 1]_pacman_at

\* A turn is given up for lack of instructions only when none is queued.
\* (pacman.c:532 reports "sin instrucciones disponibles para este turno".)
TurnWastedOnlyWhenEmpty ==
  [][pc["executor"] = "check" /\ pc'["executor"] = "publish" => queue = <<>>]_game_vars

\* If its threads can be created, P1 answers every turn, or P0 has given up.
TurnAnswered == Started /\ p0 = "waiting" ~> p0 # "waiting"

\* If its threads can be created, the process ends with the three of them
\* joined.
Termination == Started ~> main_pc = "exit"
=============================================================================
