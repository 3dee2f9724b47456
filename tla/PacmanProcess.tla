---------------------------- MODULE PacmanProcess ----------------------------
(***************************************************************************)
(* P1, the Pac-Man process (src/src/pacman.c).  Its main thread creates    *)
(* and joins three threads:                                                *)
(*   reader     parses pacman_moves.txt into the queue of instructions     *)
(*   executor   takes a turn from P0 and carries out one instruction       *)
(*   publisher  copies the local position to shared memory and answers P0  *)
(* An action is one critical section or one semaphore operation; no thread *)
(* of P1 holds two mutexes.  The calls on mutexes and semaphores are       *)
(* assumed to succeed.                                                     *)
(***************************************************************************)
EXTENDS Instructions

CONSTANTS
  Moves,           \* the lines of pacman_moves.txt
  Start,           \* where the map puts Pac-Man
  InputMayFail,    \* may fopen or malloc fail in the reader?
  StartMayFail     \* may context_init or pthread_create fail?

VARIABLES
  \* shared_state_t, the part P1 uses
  game_over, pacman_at, pending_priority, request_active, sem_turn, sem_done,
  exited,
  \* PacmanInstructionQueue
  queue, reader_done, should_stop, available,
  \* PacmanLocalState and publish_requested
  local_at, publish_requested,
  \* the threads and their locals
  pc, next_line, held, snapshot, main_pc,
  \* history: the instructions carried out so far
  executed

mailbox_vars == <<pending_priority, request_active>>
queue_vars   == <<queue, reader_done, should_stop, available>>
reader_vars  == <<next_line>>
turn_vars    == <<local_at, held, executed>>
out_vars     == <<pacman_at, snapshot>>
vars == <<game_over, exited, sem_turn, sem_done, mailbox_vars, queue_vars,
          publish_requested, reader_vars, turn_vars, out_vars, pc, main_pc>>

Thread == {"reader", "executor", "publisher"}
At(t, label) == pc[t] = label
Goto(t, label) == pc' = [pc EXCEPT ![t] = label]

-----------------------------------------------------------------------------
(* movement_reader_thread *)

ReaderOpens ==
  /\ At("reader", "open")
  /\ \/ Goto("reader", "read")
     \/ InputMayFail /\ Goto("reader", "mark_done")
  /\ UNCHANGED <<game_over, exited, sem_turn, sem_done, mailbox_vars,
                 queue_vars, publish_requested, reader_vars, turn_vars,
                 out_vars, main_pc>>

\* fgets and parse_instruction: a line that does not parse is skipped.
ReadLine ==
  /\ At("reader", "read")
  /\ \/ /\ next_line > Len(Moves)
        /\ Goto("reader", "mark_done")
        /\ UNCHANGED next_line
     \/ /\ next_line <= Len(Moves)
        /\ ~parse_instruction_accepts(Moves[next_line])
        /\ next_line' = next_line + 1
        /\ UNCHANGED pc
     \/ /\ next_line <= Len(Moves)
        /\ parse_instruction_accepts(Moves[next_line])
        /\ \/ Goto("reader", "push")
           \/ InputMayFail /\ Goto("reader", "mark_done")   \* malloc fails
        /\ UNCHANGED next_line
  /\ UNCHANGED <<game_over, exited, sem_turn, sem_done, mailbox_vars,
                 queue_vars, publish_requested, turn_vars, out_vars, main_pc>>

\* Mutant: the instruction goes to the head of the list.
queue_push_lifo ==
  /\ At("reader", "push")
  /\ queue' = <<Moves[next_line]>> \o queue
  /\ next_line' = next_line + 1
  /\ Goto("reader", "push_post")
  /\ UNCHANGED <<game_over, exited, sem_turn, sem_done, mailbox_vars,
                 reader_done, should_stop, available, publish_requested,
                 turn_vars, out_vars, main_pc>>

\* queue_push: append under the mutex, then post available.
queue_push ==
  /\ At("reader", "push")
  /\ queue' = Append(queue, Moves[next_line])
  /\ next_line' = next_line + 1
  /\ Goto("reader", "push_post")
  /\ UNCHANGED <<game_over, exited, sem_turn, sem_done, mailbox_vars,
                 reader_done, should_stop, available, publish_requested,
                 turn_vars, out_vars, main_pc>>

\* Mutant: only the end of the file is announced.
ReaderPosts_only_at_end ==
  /\ pc["reader"] \in {"push_post", "done_post"}
  /\ available' = IF At("reader", "push_post") THEN available ELSE available + 1
  /\ Goto("reader", IF At("reader", "push_post") THEN "read" ELSE "done")
  /\ UNCHANGED <<game_over, exited, sem_turn, sem_done, mailbox_vars, queue,
                 reader_done, should_stop, publish_requested, reader_vars,
                 turn_vars, out_vars, main_pc>>

\* The sem_post of queue_push, and the one of queue_mark_reader_done.
ReaderPosts ==
  /\ pc["reader"] \in {"push_post", "done_post"}
  /\ available' = available + 1
  /\ Goto("reader", IF At("reader", "push_post") THEN "read" ELSE "done")
  /\ UNCHANGED <<game_over, exited, sem_turn, sem_done, mailbox_vars, queue,
                 reader_done, should_stop, publish_requested, reader_vars,
                 turn_vars, out_vars, main_pc>>

queue_mark_reader_done ==
  /\ At("reader", "mark_done")
  /\ reader_done' = TRUE
  /\ Goto("reader", "done_post")
  /\ UNCHANGED <<game_over, exited, sem_turn, sem_done, mailbox_vars, queue,
                 should_stop, available, publish_requested, reader_vars,
                 turn_vars, out_vars, main_pc>>

Reader == ReaderOpens \/ ReadLine \/ queue_push \/ ReaderPosts
            \/ queue_mark_reader_done

-----------------------------------------------------------------------------
(* movement_executor_thread *)

ExecutorAwaitsTurn ==
  /\ At("executor", "turn")
  /\ sem_turn[Pacman] > 0
  /\ sem_turn' = [sem_turn EXCEPT ![Pacman] = @ - 1]
  /\ Goto("executor", "read_over")
  /\ UNCHANGED <<game_over, exited, sem_done, mailbox_vars, queue_vars,
                 publish_requested, reader_vars, turn_vars, out_vars, main_pc>>

ExecutorReadsGameOver ==
  /\ At("executor", "read_over")
  /\ Goto("executor", IF game_over THEN "stop" ELSE "try")
  /\ held' = NoInstruction
  /\ UNCHANGED <<game_over, exited, sem_turn, sem_done, mailbox_vars,
                 queue_vars, publish_requested, reader_vars, local_at,
                 executed, out_vars, main_pc>>

\* Mutant: the result of sem_trywait is ignored.
TryAvailable_ignores_result ==
  /\ At("executor", "try")
  /\ available' = IF available > 0 THEN available - 1 ELSE 0
  /\ Goto("executor", "pop")
  /\ UNCHANGED <<game_over, exited, sem_turn, sem_done, mailbox_vars, queue,
                 reader_done, should_stop, publish_requested, reader_vars,
                 turn_vars, out_vars, main_pc>>

\* queue_pop: sem_trywait on available ...
TryAvailable ==
  /\ At("executor", "try")
  /\ \/ /\ available > 0
        /\ available' = available - 1
        /\ Goto("executor", "pop")
     \/ /\ available = 0
        /\ UNCHANGED available
        /\ Goto("executor", "check")
  /\ UNCHANGED <<game_over, exited, sem_turn, sem_done, mailbox_vars, queue,
                 reader_done, should_stop, publish_requested, reader_vars,
                 turn_vars, out_vars, main_pc>>

\* Mutant: reader_done is not looked at.
CheckReaderDone_never_gives_up ==
  /\ At("executor", "check")
  /\ Goto("executor", IF should_stop THEN "publish" ELSE "await")
  /\ UNCHANGED <<game_over, exited, sem_turn, sem_done, mailbox_vars,
                 queue_vars, publish_requested, reader_vars, turn_vars,
                 out_vars, main_pc>>

\* ... which finds nothing: give up the turn if nothing more will come ...
CheckReaderDone ==
  /\ At("executor", "check")
  /\ Goto("executor", IF reader_done \/ should_stop THEN "publish" ELSE "await")
  /\ UNCHANGED <<game_over, exited, sem_turn, sem_done, mailbox_vars,
                 queue_vars, publish_requested, reader_vars, turn_vars,
                 out_vars, main_pc>>

\* ... else sem_wait ...
AwaitAvailable ==
  /\ At("executor", "await")
  /\ available > 0
  /\ available' = available - 1
  /\ Goto("executor", "pop")
  /\ UNCHANGED <<game_over, exited, sem_turn, sem_done, mailbox_vars, queue,
                 reader_done, should_stop, publish_requested, reader_vars,
                 turn_vars, out_vars, main_pc>>

\* ... and queue_pop_locked, which leaves the executor without an instruction
\* when the queue is empty.
queue_pop_locked ==
  /\ At("executor", "pop")
  /\ \/ /\ queue = <<>>
        /\ UNCHANGED <<queue, held>>
        /\ Goto("executor", "publish")
     \/ /\ queue # <<>>
        /\ held' = Head(queue)
        /\ queue' = Tail(queue)
        /\ Goto("executor", "process")
  /\ UNCHANGED <<game_over, exited, sem_turn, sem_done, mailbox_vars,
                 reader_done, should_stop, available, publish_requested,
                 reader_vars, local_at, executed, out_vars, main_pc>>

\* Mutant: a move is applied twice.
process_instruction_twice ==
  /\ At("executor", "process")
  /\ local_at' = IF held.type = "MOVE"
                   THEN Moved(Moved(local_at, held.direction), held.direction)
                   ELSE local_at
  /\ executed' = Append(executed, held)
  /\ Goto("executor", "publish")
  /\ UNCHANGED <<game_over, exited, sem_turn, sem_done, mailbox_vars, queue_vars,
                 publish_requested, reader_vars, held, out_vars, main_pc>>

\* process_instruction: request_priority_change or apply_move.
process_instruction ==
  /\ At("executor", "process")
  /\ \/ /\ held.type = "SET_PRIORITY"
        /\ pending_priority' = [pending_priority EXCEPT ![Pacman] = held.priority]
        /\ request_active' = request_active \cup {Pacman}
        /\ UNCHANGED local_at
     \/ /\ held.type = "MOVE"
        /\ local_at' = Moved(local_at, held.direction)
        /\ UNCHANGED mailbox_vars
  /\ executed' = Append(executed, held)
  /\ Goto("executor", "publish")
  /\ UNCHANGED <<game_over, exited, sem_turn, sem_done, queue_vars,
                 publish_requested, reader_vars, held, out_vars, main_pc>>

\* Mutant: the executor goes on without a new turn.
ExecutorRequestsPublication_no_turn ==
  /\ pc["executor"] \in {"publish", "stop_publish"}
  /\ publish_requested' = publish_requested + 1
  /\ Goto("executor", IF At("executor", "publish") THEN "read_over" ELSE "done")
  /\ UNCHANGED <<game_over, exited, sem_turn, sem_done, mailbox_vars,
                 queue_vars, reader_vars, turn_vars, out_vars, main_pc>>

\* Mutant: the publisher is not told of the end.
ExecutorRequestsPublication_not_at_end ==
  /\ pc["executor"] \in {"publish", "stop_publish"}
  /\ publish_requested' =
       publish_requested + (IF At("executor", "publish") THEN 1 ELSE 0)
  /\ Goto("executor", IF At("executor", "publish") THEN "turn" ELSE "done")
  /\ UNCHANGED <<game_over, exited, sem_turn, sem_done, mailbox_vars,
                 queue_vars, reader_vars, turn_vars, out_vars, main_pc>>

\* sem_post on publish_requested, at the end of a turn or of the thread.
ExecutorRequestsPublication ==
  /\ pc["executor"] \in {"publish", "stop_publish"}
  /\ publish_requested' = publish_requested + 1
  /\ Goto("executor", IF At("executor", "publish") THEN "turn" ELSE "done")
  /\ UNCHANGED <<game_over, exited, sem_turn, sem_done, mailbox_vars,
                 queue_vars, reader_vars, turn_vars, out_vars, main_pc>>

\* queue_request_stop, in the executor.
ExecutorRequestsStop ==
  /\ At("executor", "stop")
  /\ should_stop' = TRUE
  /\ Goto("executor", "stop_post")
  /\ UNCHANGED <<game_over, exited, sem_turn, sem_done, mailbox_vars, queue,
                 reader_done, available, publish_requested, reader_vars,
                 turn_vars, out_vars, main_pc>>

ExecutorPostsStop ==
  /\ At("executor", "stop_post")
  /\ available' = available + 1
  /\ Goto("executor", "stop_publish")
  /\ UNCHANGED <<game_over, exited, sem_turn, sem_done, mailbox_vars, queue,
                 reader_done, should_stop, publish_requested, reader_vars,
                 turn_vars, out_vars, main_pc>>

Executor ==
  \/ ExecutorAwaitsTurn \/ ExecutorReadsGameOver
  \/ TryAvailable \/ CheckReaderDone \/ AwaitAvailable \/ queue_pop_locked
  \/ process_instruction \/ ExecutorRequestsPublication
  \/ ExecutorRequestsStop \/ ExecutorPostsStop

-----------------------------------------------------------------------------
(* pacman_publisher_thread *)

PublisherAwaitsRequest ==
  /\ At("publisher", "wait")
  /\ publish_requested > 0
  /\ publish_requested' = publish_requested - 1
  /\ Goto("publisher", "read_over")
  /\ UNCHANGED <<game_over, exited, sem_turn, sem_done, mailbox_vars,
                 queue_vars, reader_vars, turn_vars, out_vars, main_pc>>

\* The publisher stops on game over, without answering P0.
PublisherReadsGameOver ==
  /\ At("publisher", "read_over")
  /\ Goto("publisher", IF game_over THEN "done" ELSE "copy")
  /\ UNCHANGED <<game_over, exited, sem_turn, sem_done, mailbox_vars,
                 queue_vars, publish_requested, reader_vars, turn_vars,
                 out_vars, main_pc>>

\* Mutant: the publisher stores its previous copy.
PublisherCopies_stale ==
  /\ At("publisher", "copy")
  /\ Goto("publisher", "store")
  /\ UNCHANGED <<game_over, exited, sem_turn, sem_done, mailbox_vars,
                 queue_vars, publish_requested, reader_vars, turn_vars,
                 out_vars, main_pc>>

\* The position is copied under the local mutex ...
PublisherCopies ==
  /\ At("publisher", "copy")
  /\ snapshot' = local_at
  /\ Goto("publisher", "store")
  /\ UNCHANGED <<game_over, exited, sem_turn, sem_done, mailbox_vars,
                 queue_vars, publish_requested, reader_vars, turn_vars,
                 pacman_at, main_pc>>

\* ... stored under state_mutex ...
PublisherStores ==
  /\ At("publisher", "store")
  /\ pacman_at' = snapshot
  /\ Goto("publisher", "answer")
  /\ UNCHANGED <<game_over, exited, sem_turn, sem_done, mailbox_vars,
                 queue_vars, publish_requested, reader_vars, turn_vars,
                 snapshot, main_pc>>

\* ... and the turn is acknowledged.
PublisherAnswers ==
  /\ At("publisher", "answer")
  /\ sem_done' = [sem_done EXCEPT ![Pacman] = @ + 1]
  /\ Goto("publisher", "wait")
  /\ UNCHANGED <<game_over, exited, sem_turn, mailbox_vars, queue_vars,
                 publish_requested, reader_vars, turn_vars, out_vars, main_pc>>

Publisher == PublisherAwaitsRequest \/ PublisherReadsGameOver
               \/ PublisherCopies \/ PublisherStores \/ PublisherAnswers

-----------------------------------------------------------------------------
(* pacman_process_run *)

ContextInitFails ==
  /\ StartMayFail
  /\ main_pc = "create_reader"
  /\ main_pc' = "exit"
  /\ exited' = exited \cup {Pacman}
  /\ UNCHANGED <<game_over, sem_turn, sem_done, mailbox_vars, queue_vars,
                 publish_requested, reader_vars, turn_vars, out_vars, pc>>

Creates(t, label, next) ==
  /\ Goto(t, label)
  /\ main_pc' = next
  /\ UNCHANGED <<game_over, exited, sem_turn, sem_done, mailbox_vars,
                 queue_vars, publish_requested, reader_vars, turn_vars, out_vars>>

CreateThread ==
  \/ main_pc = "create_reader" /\ Creates("reader", "open", "create_executor")
  \/ main_pc = "create_executor" /\ Creates("executor", "turn", "create_publisher")
  \/ main_pc = "create_publisher" /\ Creates("publisher", "wait", "join")

CreateFails ==
  /\ StartMayFail
  /\ main_pc \in {"create_reader", "create_executor", "create_publisher"}
  /\ main_pc' = "stop"
  /\ UNCHANGED <<game_over, exited, sem_turn, sem_done, mailbox_vars,
                 queue_vars, publish_requested, reader_vars, turn_vars,
                 out_vars, pc>>

\* The cleanup path: queue_request_stop, then one post for each thread that
\* may be waiting.
MainRequestsStop ==
  /\ main_pc = "stop"
  /\ should_stop' = TRUE
  /\ main_pc' = "post_available"
  /\ UNCHANGED <<game_over, exited, sem_turn, sem_done, mailbox_vars, queue,
                 reader_done, available, publish_requested, reader_vars,
                 turn_vars, out_vars, pc>>

MainPostsAvailable ==
  /\ main_pc = "post_available"
  /\ available' = available + 1
  /\ main_pc' = "post_turn"
  /\ UNCHANGED <<game_over, exited, sem_turn, sem_done, mailbox_vars, queue,
                 reader_done, should_stop, publish_requested, reader_vars,
                 turn_vars, out_vars, pc>>

MainPostsTurn ==
  /\ main_pc = "post_turn"
  /\ sem_turn' = [sem_turn EXCEPT ![Pacman] = @ + 1]
  /\ main_pc' = "post_publish"
  /\ UNCHANGED <<game_over, exited, sem_done, mailbox_vars, queue_vars,
                 publish_requested, reader_vars, turn_vars, out_vars, pc>>

MainPostsPublish ==
  /\ main_pc = "post_publish"
  /\ publish_requested' = publish_requested + 1
  /\ main_pc' = "join"
  /\ UNCHANGED <<game_over, exited, sem_turn, sem_done, mailbox_vars,
                 queue_vars, reader_vars, turn_vars, out_vars, pc>>

\* Every thread created is joined, and the process ends.
JoinThreads ==
  /\ main_pc = "join"
  /\ \A t \in Thread : pc[t] \in {"unborn", "done"}
  /\ main_pc' = "exit"
  /\ exited' = exited \cup {Pacman}
  /\ UNCHANGED <<game_over, sem_turn, sem_done, mailbox_vars, queue_vars,
                 publish_requested, reader_vars, turn_vars, out_vars, pc>>

Main == CreateThread \/ MainRequestsStop \/ MainPostsAvailable
          \/ MainPostsTurn \/ MainPostsPublish \/ JoinThreads

-----------------------------------------------------------------------------
\* context_init.
PacmanInit ==
  /\ queue = <<>> /\ reader_done = FALSE /\ should_stop = FALSE
  /\ available = 0 /\ publish_requested = 0
  /\ local_at = Start /\ snapshot = Start
  /\ pc = [t \in Thread |-> "unborn"]
  /\ next_line = 1
  /\ held = NoInstruction
  /\ main_pc = "create_reader"
  /\ executed = <<>>

PacmanNext == Reader \/ Executor \/ Publisher \/ Main
                \/ ContextInitFails \/ CreateFails
=============================================================================
