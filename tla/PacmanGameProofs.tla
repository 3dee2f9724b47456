-------------------------- MODULE PacmanGameProofs --------------------------
(***************************************************************************)
(* The safety properties of PacmanGame, proved for every maze, every file  *)
(* and every number of turns, with every failure of P0 and of P1's start.  *)
(*                                                                         *)
(* The inductive invariant says which threads there are (Creation), that   *)
(* the semaphore of the queue announces what is in it (Tokens), where the  *)
(* turn is (Turn), how far the published position may lag (Positions), how *)
(* many turns the instructions have cost (Cost), and what the queue holds  *)
(* of the file (Order).                                                    *)
(***************************************************************************)
EXTENDS PacmanGame, InstructionsProofs

-----------------------------------------------------------------------------
(* The inductive invariant. *)

\* The labels at which the executor works on a turn, before it asks for the
\* publication.
Playing == {"try", "check", "await", "pop", "process"}

\* The labels at which the publisher works on one.
Publishing == {"read_over", "copy", "store", "answer"}

Creating == {"create_reader", "create_executor", "create_publisher"}
Cleanup  == {"stop", "post_available", "post_turn", "post_publish"}

\* The labels of P0 and of the main thread.
Labels ==
  /\ turns \in Nat
  /\ p0 \in {"ready", "waiting", "first_post", "last_post", "wait_child"}
  /\ main_pc \in Creating \cup Cleanup \cup {"join", "exit"}
  /\ pc \in [Thread -> UNION {ThreadLabel[t] : t \in Thread}]

\* The threads are created in order, and the last one only when all went well.
Creation ==
  /\ main_pc = "create_reader" => pc["reader"] = "unborn"
  /\ main_pc \in {"create_reader", "create_executor"} => pc["executor"] = "unborn"
  /\ main_pc \in Creating \cup Cleanup => pc["publisher"] = "unborn"
  /\ main_pc = "create_executor" => pc["reader"] # "unborn"
  /\ main_pc = "create_publisher" \/ pc["publisher"] # "unborn" =>
       pc["reader"] # "unborn" /\ pc["executor"] # "unborn"

\* game_over ends what P0 grants, and only game_over ends the threads.
OverEnds ==
  /\ game_over <=> p0 \notin {"ready", "waiting"}
  /\ pc["publisher"] = "done" => game_over
  /\ pc["executor"] \in {"stop", "stop_post", "stop_publish", "done"} => game_over

\* Until the reader has finished or a stop is requested, the posts of available
\* announce exactly what is queued; the posts that announce the end come after.
Tokens ==
  /\ TokensCoverQueue
  /\ ~reader_done /\ ~should_stop => Len(queue) = available + Posting + Popping
  /\ pc["reader"] = "done_post" => reader_done
  /\ pc["executor"] = "stop_post" => should_stop
  /\ main_pc = "post_available" => should_stop

\* Unless the creation of a thread has failed.
Whole == main_pc \in Creating \/ pc["publisher"] # "unborn"

\* The turns that are posted, in the hands of a thread, or answered.
TurnsOut ==
  sem_turn[Pacman]
    + (IF pc["executor"] \in Playing \cup {"read_over", "publish"} THEN 1 ELSE 0)
    + publish_requested
    + (IF pc["publisher"] \in Publishing THEN 1 ELSE 0)
    + sem_done[Pacman]

\* There is one turn while P0 waits, and none otherwise; when P0 gives up, the
\* executor still has the turn it plays to itself.
Turn ==
  /\ pc["publisher"] = "unborn" => sem_done[Pacman] = 0
  /\ Whole /\ ~game_over => TurnsOut = IF p0 = "waiting" THEN 1 ELSE 0
  /\ Whole /\ pc["executor"] \in Playing \cup {"publish"} =>
       /\ publish_requested = 0 /\ sem_done[Pacman] = 0
       /\ pc["publisher"] \in {"unborn", "wait"}

\* The published position is the local one, unless a publication is due; and
\* then it is one step behind at most.
Positions ==
  Whole =>
    /\ /\ pc["publisher"] \in {"unborn", "wait", "answer"}
       /\ publish_requested = 0 /\ pc["executor"] # "publish"
       => pacman_at = local_at
    /\ pc["publisher"] = "store" => snapshot = local_at
    /\ pc["publisher"] # "done" => Distance(local_at, pacman_at) <= 1

\* Each instruction has cost a turn, granted by P0 or by the cleanup path.
Cost ==
  /\ Len(executed) + (IF pc["executor"] \in Playing THEN 1 ELSE 0)
       <= turns + CleanupTurn
  /\ ~game_over =>
       Len(executed) + sem_turn[Pacman]
         + (IF pc["executor"] \in Playing \cup {"read_over"} THEN 1 ELSE 0)
         <= turns + CleanupTurn

\* A line that the parser of P1 keeps.
Kept == {line \in Range(Moves) : parse_instruction_accepts(line)}

\* What has passed through the queue is what the parser has made of the lines
\* read so far.
Order ==
  /\ executed \in Seq(Kept) /\ queue \in Seq(Kept)
  /\ pc["executor"] = "process" => held \in Kept
  /\ pc["reader"] = "push" =>
       next_line \in 1..Len(Moves) /\ parse_instruction_accepts(Moves[next_line])
  /\ executed \o InHand \o queue = ParsedUpTo(Moves)[next_line - 1]

\* The inductive invariant.
IInv ==
  /\ TypeOK /\ Labels /\ Creation /\ OverEnds
  /\ Tokens /\ Turn /\ Positions /\ Cost /\ Order

-----------------------------------------------------------------------------
(* What the steps of each thread leave alone. *)

\* The labels of the threads, one by one.
LEMMA ThreadLabels ==
  /\ Thread = {"reader", "executor", "publisher"}
  /\ ThreadLabel["reader"] = {"unborn", "open", "read", "push", "push_post", "mark_done",
                              "done_post", "done"}
  /\ ThreadLabel["executor"] = {"unborn", "turn", "read_over", "try", "check", "await",
                                "pop", "process", "publish", "stop", "stop_post",
                                "stop_publish", "done"}
  /\ ThreadLabel["publisher"] = {"unborn", "wait", "read_over", "copy", "store", "answer",
                                 "done"}
BY DEF Thread, ThreadLabel

\* Thread t comes to a label of its own, and only it moves.
Advances(t, label) ==
  /\ pc'[t] = label /\ label \in ThreadLabel[t]
  /\ \A u \in Thread \ {t} : pc'[u] = pc[u]
  /\ pc' \in [Thread -> UNION {ThreadLabel[u] : u \in Thread}]
  /\ \A u \in Thread : pc'[u] \in ThreadLabel[u]

\* Goto moves one thread's program counter and keeps every label in its thread's code.
LEMMA GotoMoves ==
  ASSUME TypeOK, Labels, NEW t \in Thread, NEW label \in ThreadLabel[t], Goto(t, label)
  PROVE  Advances(t, label)
<1>1. /\ pc \in [Thread -> UNION {ThreadLabel[u] : u \in Thread}]
      /\ \A u \in Thread : pc[u] \in ThreadLabel[u]
  BY DEF TypeOK, Labels
<1>2. label \in UNION {ThreadLabel[u] : u \in Thread}
  OBVIOUS
<1>3. pc' = [pc EXCEPT ![t] = label]
  BY DEF Goto
<1> HIDE DEF Thread
<1> QED
  BY <1>1, <1>2, <1>3 DEF Advances

\* The reader: its own steps, the queue and the tokens of available.
LEMMA ReaderFrame ==
  ASSUME TypeOK, Labels, Reader
  PROVE  /\ UNCHANGED <<game_over, exited, sem_turn, sem_done, mailbox_vars, should_stop,
                        publish_requested, turn_vars, out_vars, main_pc>>
         /\ pc["reader"] \notin {"unborn", "done"}
         /\ \E label \in ThreadLabel["reader"] \ {"unborn"} : Advances("reader", label)
<1>1. UNCHANGED <<game_over, exited, sem_turn, sem_done, mailbox_vars, should_stop,
                  publish_requested, turn_vars, out_vars, main_pc>>
  BY DEF Reader, ReaderOpens, ReadLine, queue_push, ReaderPosts, queue_mark_reader_done,
         queue_vars, reader_vars
<1>2. pc["reader"] \notin {"unborn", "done"}
  BY DEF Reader, ReaderOpens, ReadLine, queue_push, ReaderPosts, queue_mark_reader_done, At
<1>3. \/ \E label \in ThreadLabel["reader"] \ {"unborn"} : Goto("reader", label)
      \/ pc' = pc
  BY ThreadLabels
     DEF Reader, ReaderOpens, ReadLine, queue_push, ReaderPosts, queue_mark_reader_done
<1>4. CASE pc' = pc
  <2>1. Advances("reader", pc["reader"])
    BY <1>4, ThreadLabels DEF Advances, TypeOK, Labels
  <2> QED
    BY <1>1, <1>2, <2>1 DEF Advances
<1> QED
  BY <1>1, <1>2, <1>3, <1>4, GotoMoves, ThreadLabels

\* The executor: it takes turns and tokens, and is the only one to move Pac-Man.
LEMMA ExecutorFrame ==
  ASSUME TypeOK, Labels, Executor
  PROVE  /\ UNCHANGED <<game_over, exited, sem_done, reader_done, reader_vars, out_vars,
                        main_pc>>
         /\ pc["executor"] \notin {"unborn", "done"}
         /\ \E label \in ThreadLabel["executor"] \ {"unborn"} : Advances("executor", label)
<1> USE DEF Executor, ExecutorAwaitsTurn, ExecutorReadsGameOver, TryAvailable,
            CheckReaderDone, AwaitAvailable, queue_pop_locked, process_instruction,
            ExecutorRequestsPublication, ExecutorRequestsStop, ExecutorPostsStop
<1>1. UNCHANGED <<game_over, exited, sem_done, reader_done, reader_vars, out_vars, main_pc>>
  BY DEF queue_vars
<1>2. pc["executor"] \notin {"unborn", "done"}
  BY DEF At
<1>3. \E label \in ThreadLabel["executor"] \ {"unborn"} : Goto("executor", label)
  BY ThreadLabels
<1> QED
  BY <1>1, <1>2, <1>3, GotoMoves, ThreadLabels

\* The publisher: the shared position and the answer.
LEMMA PublisherFrame ==
  ASSUME TypeOK, Labels, Publisher
  PROVE  /\ UNCHANGED <<game_over, exited, sem_turn, mailbox_vars, queue_vars, reader_vars,
                        turn_vars, main_pc>>
         /\ pc["publisher"] \notin {"unborn", "done"}
         /\ \E label \in ThreadLabel["publisher"] \ {"unborn"} : Advances("publisher", label)
<1> USE DEF Publisher, PublisherAwaitsRequest, PublisherReadsGameOver, PublisherCopies,
            PublisherStores, PublisherAnswers
<1>1. UNCHANGED <<game_over, exited, sem_turn, mailbox_vars, queue_vars, reader_vars,
                  turn_vars, main_pc>>
  OBVIOUS
<1>2. pc["publisher"] \notin {"unborn", "done"}
  BY DEF At
<1>3. \E label \in ThreadLabel["publisher"] \ {"unborn"} : Goto("publisher", label)
  BY ThreadLabels
<1> QED
  BY <1>1, <1>2, <1>3, GotoMoves, ThreadLabels

\* pacman_process_run, its failures included.
MainSteps == Main \/ ContextInitFails \/ CreateFails

\* It leaves the turn in play and the instructions alone.
LEMMA MainFrame ==
  ASSUME TypeOK, Labels, MainSteps
  PROVE  /\ UNCHANGED <<game_over, sem_done, mailbox_vars, queue, reader_done, reader_vars,
                        turn_vars, out_vars>>
         /\ pc' \in [Thread -> UNION {ThreadLabel[t] : t \in Thread}]
         /\ \A t \in Thread : pc'[t] \in ThreadLabel[t]
<1> USE DEF MainSteps, Main, CreateThread, Creates, MainRequestsStop, MainPostsAvailable,
            MainPostsTurn, MainPostsPublish, JoinThreads, ContextInitFails, CreateFails
<1>1. UNCHANGED <<game_over, sem_done, mailbox_vars, queue, reader_done, reader_vars,
                  turn_vars, out_vars>>
  BY DEF queue_vars
<1>2. \/ pc' = pc
      \/ Goto("reader", "open") \/ Goto("executor", "turn") \/ Goto("publisher", "wait")
  OBVIOUS
<1>3. CASE pc' = pc
  BY <1>1, <1>3 DEF TypeOK, Labels
<1>4. CASE Goto("reader", "open") \/ Goto("executor", "turn") \/ Goto("publisher", "wait")
  BY <1>1, <1>4, GotoMoves, ThreadLabels DEF Advances
<1> QED
  BY <1>2, <1>3, <1>4

\* Either it creates the next thread, which starts, or no thread moves.
LEMMA MainMoves ==
  ASSUME TypeOK, Labels, Creation, MainSteps
  PROVE  \/ pc' = pc /\ ~CreateThread
         \/ /\ \/ /\ main_pc = "create_reader" /\ main_pc' = "create_executor"
                  /\ pc["reader"] = "unborn" /\ Advances("reader", "open")
               \/ /\ main_pc = "create_executor" /\ main_pc' = "create_publisher"
                  /\ pc["executor"] = "unborn" /\ Advances("executor", "turn")
               \/ /\ main_pc = "create_publisher" /\ main_pc' = "join"
                  /\ pc["publisher"] = "unborn" /\ Advances("publisher", "wait")
            /\ CreateThread
            /\ UNCHANGED <<exited, sem_turn, queue_vars, publish_requested>>
<1>1. CASE CreateThread
  BY <1>1, GotoMoves, ThreadLabels DEF CreateThread, Creates, Creation, Creating
<1>2. CASE ~CreateThread
  BY <1>2 DEF MainSteps, Main, MainRequestsStop, MainPostsAvailable, MainPostsTurn,
              MainPostsPublish, JoinThreads, ContextInitFails, CreateFails
<1> QED
  BY <1>1, <1>2

\* The executor and the publisher are born ready to wait.
LEMMA MainThreads ==
  ASSUME TypeOK, Labels, Creation, MainSteps
  PROVE  /\ \/ pc'["executor"] = pc["executor"]
            \/ pc["executor"] = "unborn" /\ pc'["executor"] = "turn"
         /\ \/ pc'["publisher"] = pc["publisher"]
            \/ pc["publisher"] = "unborn" /\ pc'["publisher"] = "wait"
<1>1. \/ pc' = pc
      \/ Advances("reader", "open")
      \/ pc["executor"] = "unborn" /\ Advances("executor", "turn")
      \/ pc["publisher"] = "unborn" /\ Advances("publisher", "wait")
  BY MainMoves
<1> QED
  BY <1>1 DEF Advances, Thread

\* P0 sees nothing of P1 but the semaphores and the shared memory.
LEMMA P0Frame ==
  ASSUME P0 \/ P0Fails
  PROVE  UNCHANGED p1_private /\ UNCHANGED <<pacman_at, snapshot, pc, main_pc>>
BY DEF P0, P0Fails, GrantTurn, TakeAnswer, SetGameOver, PostShutdown, p1_private, out_vars

\* The cases of a step.
LEMMA StepCases ==
  ASSUME [Next]_game_vars
  PROVE  \/ Reader /\ UNCHANGED <<p0, turns>>
         \/ Executor /\ UNCHANGED <<p0, turns>>
         \/ Publisher /\ UNCHANGED <<p0, turns>>
         \/ MainSteps /\ UNCHANGED <<p0, turns>>
         \/ P0 \/ P0Fails
         \/ UNCHANGED game_vars
BY DEF Next, PacmanNext, MainSteps, Finished

\* sem_post and sem_wait keep a family of semaphores one of naturals.
LEMMA SemaphoreSteps ==
  ASSUME NEW sem \in [Process -> Nat]
  PROVE  /\ [sem EXCEPT ![Pacman] = @ + 1] \in [Process -> Nat]
         /\ [sem EXCEPT ![Pacman] = @ + 1][Pacman] = sem[Pacman] + 1
         /\ sem[Pacman] > 0 => /\ [sem EXCEPT ![Pacman] = @ - 1] \in [Process -> Nat]
                               /\ [sem EXCEPT ![Pacman] = @ - 1][Pacman] = sem[Pacman] - 1
         /\ sem[Pacman] \in Nat
BY DEF Process

-----------------------------------------------------------------------------
(* One lemma per part of the invariant. *)

\* What the threads do to the types and the labels.
LEMMA TypeStep ==
  ASSUME MazeAssumption, PacmanAssumption, IInv, [Next]_game_vars
  PROVE  TypeOK' /\ Labels'
<1>0. TypeOK /\ Labels /\ Order
  BY DEF IInv
<1> USE DEF TypeOK, Labels, queue_vars, reader_vars, turn_vars, out_vars, mailbox_vars,
            Process, Pacman, Enemy, Thread
<1>1. CASE Reader /\ UNCHANGED <<p0, turns>>
  <2>1. /\ pc' \in [Thread -> UNION {ThreadLabel[t] : t \in Thread}]
        /\ \A t \in Thread : pc'[t] \in ThreadLabel[t]
    BY <1>0, <1>1, ReaderFrame DEF Advances
  <2>2. /\ queue' \in Seq(Range(Moves)) /\ reader_done' \in BOOLEAN
        /\ available' \in Nat /\ next_line' \in 1..Len(Moves) + 1
    <3>1. CASE queue_push
      <4>1. next_line \in 1..Len(Moves) /\ Moves[next_line] \in Range(Moves)
        BY <1>0, <3>1, PacmanAssumption DEF Order, queue_push, At, Range, PacmanAssumption
      <4>2. queue' \in Seq(Range(Moves))
        <5>1. queue \in Seq(Range(Moves)) /\ queue' = Append(queue, Moves[next_line])
          BY <1>0, <3>1 DEF queue_push
        <5> QED
          BY <4>1, <5>1
      <4>3. next_line' \in 1..Len(Moves) + 1
        <5>1. Len(Moves) \in Nat /\ next_line' = next_line + 1
          BY <3>1, PacmanAssumption DEF queue_push, PacmanAssumption
        <5> QED
          BY <4>1, <5>1
      <4>4. reader_done' \in BOOLEAN /\ available' \in Nat
        BY <1>0, <3>1 DEF queue_push
      <4> QED
        BY <4>2, <4>3, <4>4
    <3>2. CASE ReaderOpens \/ ReadLine
      <4>1. Len(Moves) \in Nat
        BY PacmanAssumption DEF PacmanAssumption
      <4>2. next_line' \in 1..Len(Moves) + 1
        BY <1>0, <3>2, <4>1 DEF ReaderOpens, ReadLine
      <4> QED
        BY <1>0, <3>2, <4>2 DEF ReaderOpens, ReadLine
    <3>3. CASE ReaderPosts \/ queue_mark_reader_done
      <4>1. queue' = queue /\ next_line' = next_line /\ reader_done' \in {reader_done, TRUE}
        BY <3>3 DEF ReaderPosts, queue_mark_reader_done
      <4>2. available' \in Nat
        BY <1>0, <3>3 DEF ReaderPosts, queue_mark_reader_done
      <4> QED
        BY <1>0, <4>1, <4>2
    <3> QED
      BY <1>1, <3>1, <3>2, <3>3 DEF Reader
  <2> QED
    BY <1>0, <1>1, <2>1, <2>2, ReaderFrame
<1>2. CASE Executor /\ UNCHANGED <<p0, turns>>
  <2>1. /\ pc' \in [Thread -> UNION {ThreadLabel[t] : t \in Thread}]
        /\ \A t \in Thread : pc'[t] \in ThreadLabel[t]
    BY <1>0, <1>2, ExecutorFrame DEF Advances
  <2>2. CASE queue_pop_locked
    <3>1. /\ queue' \in Seq(Range(Moves)) /\ held' \in Range(Moves) \cup {NoInstruction}
      <4>1. queue \in Seq(Range(Moves)) /\ held \in Range(Moves) \cup {NoInstruction}
        BY <1>0
      <4>2. queue # <<>> => Head(queue) \in Range(Moves) /\ Tail(queue) \in Seq(Range(Moves))
        BY <4>1
      <4> HIDE DEF TypeOK
      <4> QED
        BY <2>2, <4>1, <4>2 DEF queue_pop_locked
    <3> QED
      BY <1>0, <1>2, <2>1, <2>2, <3>1, ExecutorFrame DEF queue_pop_locked
  <2>3. CASE process_instruction
    <3>1. held \in Kept /\ held \in Line
      BY <1>0, <2>3, PacmanAssumption
         DEF process_instruction, At, Order, Kept, Range, PacmanAssumption
    <3>2. local_at' \in Open
      BY <1>0, <2>3, <3>1, MovedStaysOpen DEF process_instruction, Line
    <3>3. pending_priority' \in [Process -> 0..MAX_PRIORITY] /\ request_active' \subseteq Process
      <4>1. held.type = "SET_PRIORITY" => held.priority \in 0..MAX_PRIORITY
        <5>1. held.priority \in Nat
          BY <3>1 DEF Line
        <5>2. held.type = "SET_PRIORITY" => held.priority <= MAX_PRIORITY
          BY <3>1 DEF Kept, parse_instruction_accepts
        <5>3. ASSUME NEW n \in Nat, n <= MAX_PRIORITY
              PROVE  n \in 0..MAX_PRIORITY
          BY <5>3 DEF MAX_PRIORITY
        <5> QED
          BY <5>1, <5>2, <5>3
      <4> QED
        BY <1>0, <2>3, <4>1 DEF process_instruction
    <3>4. executed' \in Seq(Range(Moves))
      BY <1>0, <2>3, <3>1 DEF process_instruction, Kept
    <3> QED
      BY <1>0, <1>2, <2>1, <2>3, <3>2, <3>3, <3>4, ExecutorFrame DEF process_instruction
  <2>4. CASE \/ ExecutorAwaitsTurn \/ ExecutorReadsGameOver \/ TryAvailable
             \/ CheckReaderDone \/ AwaitAvailable \/ ExecutorRequestsPublication
             \/ ExecutorRequestsStop \/ ExecutorPostsStop
    <3>1. UNCHANGED <<game_over, exited, sem_done, reader_done, next_line, pacman_at,
                      snapshot, main_pc, queue, local_at, executed, pending_priority,
                      request_active>>
      BY <1>0, <1>2, <2>4, ExecutorFrame
         DEF ExecutorAwaitsTurn, ExecutorReadsGameOver, TryAvailable, CheckReaderDone,
             AwaitAvailable, ExecutorRequestsPublication, ExecutorRequestsStop,
             ExecutorPostsStop
    <3>2. /\ sem_turn' \in [Process -> Nat] /\ available' \in Nat
          /\ publish_requested' \in Nat /\ should_stop' \in BOOLEAN
          /\ held' \in {held, NoInstruction}
      <4>1. /\ sem_turn \in [Process -> Nat] /\ available \in Nat
            /\ publish_requested \in Nat /\ should_stop \in BOOLEAN
        BY <1>0
      <4>2. /\ \/ sem_turn' = sem_turn
               \/ /\ sem_turn[Pacman] > 0
                  /\ sem_turn' = [sem_turn EXCEPT ![Pacman] = @ - 1]
            /\ \/ available' \in {available, available + 1}
               \/ available > 0 /\ available' = available - 1
            /\ publish_requested' \in {publish_requested, publish_requested + 1}
            /\ should_stop' \in {should_stop, TRUE}
            /\ held' \in {held, NoInstruction}
        BY <2>4
           DEF ExecutorAwaitsTurn, ExecutorReadsGameOver, TryAvailable, CheckReaderDone,
             AwaitAvailable, ExecutorRequestsPublication, ExecutorRequestsStop,
             ExecutorPostsStop
      <4>3. sem_turn' \in [Process -> Nat]
        BY <4>1, <4>2, SemaphoreSteps
      <4>4. available' \in Nat /\ publish_requested' \in Nat
        BY <4>1, <4>2
      <4>5. should_stop' \in BOOLEAN /\ held' \in {held, NoInstruction}
        BY <4>1, <4>2
      <4> QED
        BY <4>3, <4>4, <4>5
    <3> QED
      BY <1>0, <1>2, <2>1, <3>1, <3>2
  <2> QED
    BY <1>2, <2>2, <2>3, <2>4 DEF Executor
<1>3. CASE Publisher /\ UNCHANGED <<p0, turns>>
  <2>1. /\ pc' \in [Thread -> UNION {ThreadLabel[t] : t \in Thread}]
        /\ \A t \in Thread : pc'[t] \in ThreadLabel[t]
    BY <1>0, <1>3, PublisherFrame DEF Advances
  <2>2. /\ pacman_at' \in Open /\ snapshot' \in Open /\ publish_requested' \in Nat
        /\ sem_done' \in [Process -> Nat] /\ exited' = exited
    <3>1. /\ pacman_at' \in {pacman_at, snapshot} /\ snapshot' \in {snapshot, local_at}
          /\ \/ publish_requested' = publish_requested
             \/ publish_requested > 0 /\ publish_requested' = publish_requested - 1
          /\ sem_done' = sem_done \/ sem_done' = [sem_done EXCEPT ![Pacman] = @ + 1]
          /\ exited' = exited
      BY <1>3 DEF Publisher, PublisherAwaitsRequest, PublisherReadsGameOver,
                  PublisherCopies, PublisherStores, PublisherAnswers
    <3>2. pacman_at' \in Open /\ snapshot' \in Open
      BY <1>0, <3>1
    <3>3. publish_requested' \in Nat
      BY <1>0, <3>1
    <3>4. sem_done' \in [Process -> Nat]
      BY <1>0, <3>1, SemaphoreSteps
    <3> QED
      BY <3>1, <3>2, <3>3, <3>4
  <2> QED
    BY <1>0, <1>3, <2>1, <2>2, PublisherFrame
<1>4. CASE MainSteps /\ UNCHANGED <<p0, turns>>
  <2>1. main_pc' \in Creating \cup Cleanup \cup {"join", "exit"}
    BY <1>4 DEF MainSteps, Main, CreateThread, Creates, MainRequestsStop,
         MainPostsAvailable, MainPostsTurn, MainPostsPublish, JoinThreads, ContextInitFails,
         CreateFails, Creating, Cleanup
  <2>2. /\ sem_turn' \in [Process -> Nat] /\ available' \in Nat /\ publish_requested' \in Nat
        /\ should_stop' \in BOOLEAN /\ exited' \subseteq {Pacman}
    <3>1. /\ sem_turn \in [Process -> Nat] /\ available \in Nat /\ publish_requested \in Nat
          /\ should_stop \in BOOLEAN /\ exited \subseteq {Pacman}
      BY <1>0
    <3>2. /\ sem_turn' \in {sem_turn, [sem_turn EXCEPT ![Pacman] = @ + 1]}
          /\ available' \in {available, available + 1}
          /\ publish_requested' \in {publish_requested, publish_requested + 1}
          /\ should_stop' \in {should_stop, TRUE}
          /\ exited' \in {exited, exited \cup {Pacman}}
      BY <1>4 DEF MainSteps, Main, CreateThread, Creates, MainRequestsStop,
         MainPostsAvailable, MainPostsTurn, MainPostsPublish, JoinThreads, ContextInitFails,
         CreateFails
    <3>3. sem_turn' \in [Process -> Nat]
      BY <3>1, <3>2, SemaphoreSteps
    <3>4. available' \in Nat /\ publish_requested' \in Nat
      BY <3>1, <3>2
    <3>5. should_stop' \in BOOLEAN /\ exited' \subseteq {Pacman}
      BY <3>1, <3>2
    <3> QED
      BY <3>3, <3>4, <3>5
  <2> QED
    BY <1>0, <1>4, <2>1, <2>2, MainFrame
<1>5. CASE P0 \/ P0Fails
  <2>1. /\ UNCHANGED <<exited, publish_requested, pacman_at, snapshot, pc, main_pc>>
        /\ UNCHANGED queue_vars /\ UNCHANGED reader_vars /\ UNCHANGED turn_vars
    BY <1>5, P0Frame DEF p1_private
  <2>2. /\ game_over' \in BOOLEAN /\ turns' \in Nat
        /\ p0' \in {"ready", "waiting", "first_post", "last_post", "wait_child"}
        /\ sem_turn' \in [Process -> Nat] /\ sem_done' \in [Process -> Nat]
        /\ pending_priority' = pending_priority /\ request_active' \subseteq Process
    <3>1. /\ game_over \in BOOLEAN /\ turns \in Nat /\ request_active \subseteq Process
          /\ sem_turn \in [Process -> Nat] /\ sem_done \in [Process -> Nat]
      BY <1>0
    <3>2. /\ game_over' \in {game_over, TRUE} /\ turns' \in {turns, turns + 1}
          /\ p0' \in {"ready", "waiting", "first_post", "last_post", "wait_child"}
          /\ sem_turn' \in {sem_turn, [sem_turn EXCEPT ![Pacman] = @ + 1]}
          /\ \/ sem_done' = sem_done
             \/ /\ sem_done[Pacman] > 0
                /\ sem_done' = [sem_done EXCEPT ![Pacman] = @ - 1]
          /\ pending_priority' = pending_priority
          /\ request_active' \in {request_active, {}}
      BY <1>5 DEF P0, P0Fails, GrantTurn, TakeAnswer, SetGameOver, PostShutdown
    <3>3. sem_turn' \in [Process -> Nat] /\ sem_done' \in [Process -> Nat]
      BY <3>1, <3>2, SemaphoreSteps
    <3>4. turns' \in Nat
      BY <3>1, <3>2
    <3>5. game_over' \in BOOLEAN /\ request_active' \subseteq Process
      BY <3>1, <3>2
    <3> QED
      BY <3>2, <3>3, <3>4, <3>5
  <2> QED
    BY <1>0, <2>1, <2>2
<1>6. CASE UNCHANGED game_vars
  BY <1>0, <1>6 DEF game_vars, vars
<1> QED
  BY <1>1, <1>2, <1>3, <1>4, <1>5, <1>6, StepCases

\* The threads come into being in the order of pacman_process_run.
LEMMA CreationStep ==
  ASSUME IInv, [Next]_game_vars
  PROVE  Creation'
<1>0. TypeOK /\ Labels /\ Creation
  BY DEF IInv
<1> USE DEF Creation, Creating, Cleanup, Thread
<1>1. CASE Reader
  BY <1>0, <1>1, ReaderFrame DEF Advances
<1>2. CASE Executor
  BY <1>0, <1>2, ExecutorFrame DEF Advances
<1>3. CASE Publisher
  BY <1>0, <1>3, PublisherFrame DEF Advances
<1>4. CASE MainSteps
  <2>1. CASE CreateThread
    <3>1. \/ /\ main_pc = "create_reader" /\ main_pc' = "create_executor"
             /\ Advances("reader", "open")
          \/ /\ main_pc = "create_executor" /\ main_pc' = "create_publisher"
             /\ Advances("executor", "turn")
          \/ /\ main_pc = "create_publisher" /\ main_pc' = "join"
             /\ Advances("publisher", "wait")
      BY <1>0, <1>4, <2>1, MainMoves
    <3>2. \/ /\ main_pc = "create_reader" /\ main_pc' = "create_executor"
             /\ pc'["reader"] = "open"
             /\ pc'["executor"] = pc["executor"] /\ pc'["publisher"] = pc["publisher"]
          \/ /\ main_pc = "create_executor" /\ main_pc' = "create_publisher"
             /\ pc'["executor"] = "turn"
             /\ pc'["reader"] = pc["reader"] /\ pc'["publisher"] = pc["publisher"]
          \/ /\ main_pc = "create_publisher" /\ main_pc' = "join"
             /\ pc'["publisher"] = "wait"
             /\ pc'["reader"] = pc["reader"] /\ pc'["executor"] = pc["executor"]
      BY <3>1 DEF Advances
    <3> QED
      BY <1>0, <3>2
  <2>2. CASE \/ MainRequestsStop \/ MainPostsAvailable \/ MainPostsTurn \/ MainPostsPublish
             \/ JoinThreads \/ ContextInitFails \/ CreateFails
    BY <1>0, <2>2 DEF MainRequestsStop, MainPostsAvailable, MainPostsTurn, MainPostsPublish,
                      JoinThreads, ContextInitFails, CreateFails
  <2> QED
    BY <1>4, <2>1, <2>2 DEF MainSteps, Main
<1>5. CASE P0 \/ P0Fails
  BY <1>0, <1>5, P0Frame
<1>6. CASE UNCHANGED game_vars
  BY <1>0, <1>6 DEF game_vars, vars
<1> QED
  BY <1>1, <1>2, <1>3, <1>4, <1>5, <1>6, StepCases

\* No thread ends before game_over, and P0 grants nothing after it.
LEMMA OverStep ==
  ASSUME IInv, [Next]_game_vars
  PROVE  OverEnds'
<1>0. TypeOK /\ Labels /\ Creation /\ OverEnds
  BY DEF IInv
<1> USE DEF OverEnds, Thread
<1>1. CASE Reader /\ UNCHANGED <<p0, turns>>
  BY <1>0, <1>1, ReaderFrame DEF Advances
<1>2. CASE Executor /\ UNCHANGED <<p0, turns>>
  <2>1. pc'["executor"] \in {"stop", "stop_post", "stop_publish", "done"} => game_over
    BY <1>0, <1>2 DEF Executor, ExecutorAwaitsTurn, ExecutorReadsGameOver, TryAvailable,
         CheckReaderDone, AwaitAvailable, queue_pop_locked, process_instruction,
         ExecutorRequestsPublication, ExecutorRequestsStop, ExecutorPostsStop, At, Goto, Labels
  <2> QED
    BY <1>0, <1>2, <2>1, ExecutorFrame DEF Advances
<1>3. CASE Publisher /\ UNCHANGED <<p0, turns>>
  <2>1. pc'["publisher"] = "done" => game_over
    BY <1>0, <1>3 DEF Publisher, PublisherAwaitsRequest, PublisherReadsGameOver,
                      PublisherCopies, PublisherStores, PublisherAnswers, At, Goto, Labels
  <2> QED
    BY <1>0, <1>3, <2>1, PublisherFrame DEF Advances
<1>4. CASE MainSteps /\ UNCHANGED <<p0, turns>>
  BY <1>0, <1>4, MainFrame, MainMoves DEF Advances
<1>5. CASE P0 \/ P0Fails
  <2>1. pc' = pc
    BY <1>5, P0Frame
  <2> QED
    BY <1>0, <1>5, <2>1
       DEF P0, P0Fails, GrantTurn, TakeAnswer, SetGameOver, PostShutdown, Labels
<1>6. CASE UNCHANGED game_vars
  BY <1>0, <1>6 DEF game_vars, vars
<1> QED
  BY <1>1, <1>2, <1>3, <1>4, <1>5, <1>6, StepCases

\* Each instruction queued is posted once, and taken once.
LEMMA TokensStep ==
  ASSUME IInv, [Next]_game_vars
  PROVE  Tokens'
<1>0. TypeOK /\ Labels /\ Creation /\ Tokens /\ Len(queue) \in Nat
  BY DEF IInv, TypeOK
<1> USE DEF Tokens, TokensCoverQueue, Posting, Popping, Thread
<1>1. CASE Reader
  <2>1. /\ pc'["executor"] = pc["executor"] /\ main_pc' = main_pc
        /\ should_stop' = should_stop
    BY <1>0, <1>1, ReaderFrame DEF Advances
  <2>2. CASE queue_push
    <3>1. Len(queue') = Len(queue) + 1
      BY <1>0, <2>2 DEF queue_push, TypeOK
    <3> QED
      BY <1>0, <2>1, <2>2, <3>1 DEF queue_push, At, Goto, TypeOK, Labels
  <2>3. CASE ReaderOpens \/ ReadLine \/ ReaderPosts \/ queue_mark_reader_done
    BY <1>0, <2>1, <2>3 DEF ReaderOpens, ReadLine, ReaderPosts, queue_mark_reader_done,
                            queue_vars, At, Goto, TypeOK, Labels
  <2> QED
    BY <1>1, <2>2, <2>3 DEF Reader
<1>2. CASE Executor
  <2>1. /\ pc'["reader"] = pc["reader"] /\ main_pc' = main_pc
        /\ reader_done' = reader_done
    BY <1>0, <1>2, ExecutorFrame DEF Advances
  <2>2. CASE queue_pop_locked
    <3>1. \/ queue' = queue /\ queue = <<>> /\ Len(queue) = 0
          \/ Len(queue') = Len(queue) - 1 /\ Len(queue') \in Nat
      BY <1>0, <2>2 DEF queue_pop_locked, TypeOK
    <3> QED
      BY <1>0, <2>1, <2>2, <3>1 DEF queue_pop_locked, At, Goto, TypeOK, Labels
  <2>3. CASE TryAvailable \/ AwaitAvailable
    BY <1>0, <2>1, <2>3 DEF TryAvailable, AwaitAvailable, At, Goto, TypeOK, Labels
  <2>4. CASE ExecutorRequestsStop \/ ExecutorPostsStop
    BY <1>0, <2>1, <2>4 DEF ExecutorRequestsStop, ExecutorPostsStop, At, Goto, TypeOK, Labels
  <2>5. CASE \/ ExecutorAwaitsTurn \/ ExecutorReadsGameOver \/ CheckReaderDone
             \/ process_instruction \/ ExecutorRequestsPublication
    BY <1>0, <2>1, <2>5 DEF ExecutorAwaitsTurn, ExecutorReadsGameOver, CheckReaderDone,
         process_instruction, ExecutorRequestsPublication, queue_vars, At, Goto, Labels
  <2> QED
    BY <1>2, <2>2, <2>3, <2>4, <2>5 DEF Executor
<1>3. CASE Publisher
  BY <1>0, <1>3, PublisherFrame DEF Advances, queue_vars
<1>4. CASE MainSteps
  <2>1. /\ pc'["executor"] = "stop_post" => pc["executor"] = "stop_post"
        /\ Posting' = Posting /\ Popping' = Popping
        /\ pc'["reader"] = "done_post" => pc["reader"] = "done_post"
    BY <1>0, <1>4, MainMoves DEF Advances
  <2>2. /\ available' \in {available, available + 1}
        /\ main_pc # "post_available" => available' = available
        /\ should_stop' \in {should_stop, TRUE}
        /\ main_pc' = "post_available" => should_stop'
    BY <1>4 DEF MainSteps, Main, CreateThread, Creates, MainRequestsStop,
         MainPostsAvailable, MainPostsTurn, MainPostsPublish, JoinThreads, ContextInitFails,
         CreateFails, queue_vars
  <2>3. queue' = queue /\ reader_done' = reader_done
    BY <1>0, <1>4, MainFrame
  <2>4. available \in Nat /\ should_stop \in BOOLEAN /\ should_stop' \in BOOLEAN
    BY <1>0, <1>4, <2>2 DEF TypeOK
  <2>5. Posting \in Nat /\ Popping \in Nat
    OBVIOUS
  <2> HIDE DEF Posting, Popping
  <2>6. TokensCoverQueue'
    BY <1>0, <2>1, <2>2, <2>3, <2>4, <2>5
  <2>7. ASSUME ~reader_done', ~should_stop'
        PROVE  Len(queue') = available' + Posting' + Popping'
    <3>1. ~reader_done /\ ~should_stop /\ available' = available
      BY <1>0, <2>2, <2>3, <2>4, <2>7
    <3> QED
      BY <1>0, <2>1, <2>3, <3>1
  <2>8. /\ pc'["reader"] = "done_post" => reader_done'
        /\ pc'["executor"] = "stop_post" => should_stop'
    BY <1>0, <2>1, <2>2, <2>3, <2>4
  <2> QED
    BY <2>2, <2>6, <2>7, <2>8
<1>5. CASE P0 \/ P0Fails
  BY <1>0, <1>5, P0Frame DEF p1_private, queue_vars
<1>6. CASE UNCHANGED game_vars
  BY <1>0, <1>6 DEF game_vars, vars, queue_vars
<1> QED
  BY <1>1, <1>2, <1>3, <1>4, <1>5, <1>6, StepCases

\* No failed creation is made good.
LEMMA WholeStep ==
  ASSUME IInv, [Next]_game_vars
  PROVE  /\ Whole' => Whole
         /\ pc'["publisher"] = "unborn" => pc["publisher"] = "unborn"
<1>0. TypeOK /\ Labels /\ Creation
  BY DEF IInv
<1> USE DEF Whole, Creating
<1>1. CASE Reader
  BY <1>0, <1>1, ReaderFrame DEF Advances, Thread
<1>2. CASE Executor
  BY <1>0, <1>2, ExecutorFrame DEF Advances, Thread
<1>3. CASE Publisher
  BY <1>0, <1>3, PublisherFrame DEF Advances
<1>4. CASE MainSteps
  <2>1. \/ pc' = pc /\ ~CreateThread
        \/ /\ main_pc \in Creating
           /\ pc["publisher"] = "unborn" \/ pc'["publisher"] = pc["publisher"]
    BY <1>0, <1>4, MainMoves DEF Advances, Thread
  <2>2. ~CreateThread => main_pc' \notin Creating
    BY <1>4 DEF MainSteps, Main, MainRequestsStop, MainPostsAvailable, MainPostsTurn,
                MainPostsPublish, JoinThreads, ContextInitFails, CreateFails
  <2>3. pc'["publisher"] = "unborn" => pc["publisher"] = "unborn"
    BY <1>0, <1>4, MainMoves DEF Advances, Thread
  <2> QED
    BY <2>1, <2>2, <2>3
<1>5. CASE P0 \/ P0Fails
  BY <1>5, P0Frame
<1>6. CASE UNCHANGED game_vars
  BY <1>6 DEF game_vars, vars
<1> QED
  BY <1>1, <1>2, <1>3, <1>4, <1>5, <1>6, StepCases

\* The one turn P0 grants goes from the semaphore through the executor and the
\* publisher, and back.
LEMMA TurnStep ==
  ASSUME IInv, [Next]_game_vars
  PROVE  Turn'
<1>0. TypeOK /\ Labels /\ Creation /\ OverEnds /\ Turn
  BY DEF IInv
<1>1. (Whole' => Whole) /\ (pc'["publisher"] = "unborn" => pc["publisher"] = "unborn")
  BY WholeStep
<1>2. /\ sem_turn \in [Process -> Nat] /\ sem_done \in [Process -> Nat]
      /\ sem_turn[Pacman] \in Nat /\ sem_done[Pacman] \in Nat /\ publish_requested \in Nat
  BY <1>0, SemaphoreSteps DEF TypeOK
<1> USE DEF Turn, TurnsOut, Playing, Publishing
<1>3. CASE Reader /\ UNCHANGED <<p0, turns>>
  BY <1>0, <1>1, <1>3, ReaderFrame DEF Advances, Thread
<1>4. CASE Executor /\ UNCHANGED <<p0, turns>>
  <2>1. /\ pc'["publisher"] = pc["publisher"] /\ sem_done' = sem_done
        /\ game_over' = game_over /\ p0' = p0
    BY <1>0, <1>4, ExecutorFrame DEF Advances, Thread
  <2>2. pc \in [Thread -> UNION {ThreadLabel[t] : t \in Thread}] /\ "executor" \in Thread
    BY <1>0 DEF Labels, Thread
  <2> HIDE DEF Thread
  <2>3. CASE ExecutorAwaitsTurn
    <3>1. /\ pc["executor"] = "turn" /\ pc'["executor"] = "read_over"
          /\ sem_turn'[Pacman] = sem_turn[Pacman] - 1
          /\ publish_requested' = publish_requested
      BY <1>2, <2>2, <2>3, SemaphoreSteps DEF ExecutorAwaitsTurn, At, Goto
    <3> QED
      BY <1>0, <1>1, <1>2, <2>1, <3>1
  <2>4. CASE ExecutorReadsGameOver
    <3>1. /\ pc["executor"] = "read_over"
          /\ pc'["executor"] = IF game_over THEN "stop" ELSE "try"
          /\ sem_turn' = sem_turn /\ publish_requested' = publish_requested
      BY <2>2, <2>4 DEF ExecutorReadsGameOver, At, Goto
    <3>2. CASE game_over
      BY <1>0, <1>1, <2>1, <3>1, <3>2
    <3>3. CASE ~game_over
      <4>1. pc["publisher"] \in {"unborn", "wait"} \cup Publishing
        BY <1>0, <3>3, ThreadLabels DEF TypeOK, OverEnds, Thread
      <4>2. pc'["executor"] = "try" /\ pc["executor"] = "read_over"
        BY <3>1, <3>3
      <4>3. Whole => /\ TurnsOut = IF p0 = "waiting" THEN 1 ELSE 0
                     /\ publish_requested = 0 /\ sem_done[Pacman] = 0
                     /\ pc["publisher"] \in {"unborn", "wait"}
        BY <1>0, <1>2, <3>3, <4>1, <4>2
      <4> QED
        BY <1>0, <1>1, <1>2, <2>1, <3>1, <4>2, <4>3
    <3> QED
      BY <3>2, <3>3
  <2>5. CASE TryAvailable \/ CheckReaderDone \/ AwaitAvailable \/ queue_pop_locked
               \/ process_instruction
    <3>1. /\ pc["executor"] \in Playing /\ pc'["executor"] \in Playing \cup {"publish"}
          /\ sem_turn' = sem_turn /\ publish_requested' = publish_requested
      BY <2>2, <2>5 DEF TryAvailable, CheckReaderDone, AwaitAvailable, queue_pop_locked,
                        process_instruction, At, Goto
    <3> QED
      BY <1>0, <1>1, <1>2, <2>1, <3>1
  <2>6. CASE ExecutorRequestsPublication
    <3>1. /\ pc["executor"] \in {"publish", "stop_publish"}
          /\ pc'["executor"] = IF pc["executor"] = "publish" THEN "turn" ELSE "done"
          /\ sem_turn' = sem_turn /\ publish_requested' = publish_requested + 1
      BY <2>2, <2>6 DEF ExecutorRequestsPublication, At, Goto
    <3>2. pc["executor"] = "stop_publish" => game_over
      BY <1>0 DEF OverEnds
    <3> QED
      BY <1>0, <1>1, <1>2, <2>1, <3>1, <3>2
  <2>7. CASE ExecutorRequestsStop \/ ExecutorPostsStop
    <3>1. /\ pc["executor"] \in {"stop", "stop_post"}
          /\ pc'["executor"] \in {"stop_post", "stop_publish"}
      BY <2>2, <2>7 DEF ExecutorRequestsStop, ExecutorPostsStop, At, Goto
    <3>2. game_over
      BY <1>0, <3>1 DEF OverEnds
    <3> QED
      BY <1>0, <1>1, <2>1, <3>1, <3>2
  <2> QED
    BY <1>4, <2>3, <2>4, <2>5, <2>6, <2>7 DEF Executor
<1>5. CASE Publisher /\ UNCHANGED <<p0, turns>>
  <2>1. /\ pc'["executor"] = pc["executor"] /\ sem_turn' = sem_turn
        /\ game_over' = game_over /\ p0' = p0
        /\ pc'["publisher"] # "unborn" /\ pc["publisher"] # "unborn"
    BY <1>0, <1>5, PublisherFrame DEF Advances, Thread
  <2>2. pc \in [Thread -> UNION {ThreadLabel[t] : t \in Thread}] /\ "publisher" \in Thread
    BY <1>0 DEF Labels, Thread
  <2>3. Whole
    BY <2>1 DEF Whole
  <2>4. CASE PublisherAwaitsRequest
    <3>1. /\ pc["publisher"] = "wait" /\ pc'["publisher"] = "read_over"
          /\ publish_requested > 0 /\ publish_requested' = publish_requested - 1
          /\ sem_done' = sem_done
      BY <2>2, <2>4 DEF PublisherAwaitsRequest, At, Goto
    <3> QED
      BY <1>0, <1>2, <2>1, <2>3, <3>1
  <2>5. CASE PublisherReadsGameOver
    <3>1. /\ pc["publisher"] = "read_over"
          /\ pc'["publisher"] = IF game_over THEN "done" ELSE "copy"
          /\ sem_done' = sem_done /\ publish_requested' = publish_requested
      BY <2>2, <2>5 DEF PublisherReadsGameOver, At, Goto
    <3> QED
      BY <1>0, <1>2, <2>1, <2>3, <3>1
  <2>6. CASE PublisherCopies \/ PublisherStores
    <3>1. /\ pc["publisher"] \in {"copy", "store"} /\ pc'["publisher"] \in {"store", "answer"}
          /\ sem_done' = sem_done /\ publish_requested' = publish_requested
      BY <2>2, <2>6 DEF PublisherCopies, PublisherStores, At, Goto
    <3> QED
      BY <1>0, <1>2, <2>1, <2>3, <3>1
  <2>7. CASE PublisherAnswers
    <3>1. /\ pc["publisher"] = "answer" /\ pc'["publisher"] = "wait"
          /\ sem_done'[Pacman] = sem_done[Pacman] + 1
          /\ publish_requested' = publish_requested
      BY <1>2, <2>2, <2>7, SemaphoreSteps DEF PublisherAnswers, At, Goto
    <3> QED
      BY <1>0, <1>2, <2>1, <2>3, <3>1
  <2> QED
    BY <1>5, <2>4, <2>5, <2>6, <2>7 DEF Publisher
<1>6. CASE MainSteps /\ UNCHANGED <<p0, turns>>
  <2>1. sem_done' = sem_done /\ game_over' = game_over /\ p0' = p0
    BY <1>0, <1>6, MainFrame
  <2>2. /\ \/ pc'["executor"] = pc["executor"]
           \/ pc["executor"] = "unborn" /\ pc'["executor"] = "turn"
        /\ \/ pc'["publisher"] = pc["publisher"]
           \/ pc["publisher"] = "unborn" /\ pc'["publisher"] = "wait"
    BY <1>0, <1>6, MainThreads
  <2>3. Whole' => sem_turn' = sem_turn /\ publish_requested' = publish_requested
    <3>1. CASE CreateThread
      BY <1>0, <1>6, <3>1, MainMoves
    <3>2. CASE ~CreateThread
      <4>1. pc' = pc
        BY <1>0, <1>6, <3>2, MainMoves
      <4>2. \/ UNCHANGED <<sem_turn, publish_requested>>
            \/ main_pc = "post_turn" \/ main_pc = "post_publish"
        BY <1>6, <3>2 DEF MainSteps, Main, MainRequestsStop, MainPostsAvailable,
             MainPostsTurn, MainPostsPublish, JoinThreads, ContextInitFails, CreateFails
      <4>3. main_pc \in {"post_turn", "post_publish"} => ~Whole
        BY <1>0 DEF Creation, Whole, Creating, Cleanup
      <4> QED
        BY <1>1, <4>1, <4>2, <4>3
    <3> QED
      BY <3>1, <3>2
  <2> QED
    BY <1>0, <1>1, <1>2, <2>1, <2>2, <2>3
<1>7. CASE P0 \/ P0Fails
  <2>1. pc' = pc /\ publish_requested' = publish_requested
    BY <1>7, P0Frame DEF p1_private
  <2>2. CASE GrantTurn
    <3>1. /\ p0 = "ready" /\ p0' = "waiting" /\ game_over' = game_over /\ sem_done' = sem_done
          /\ sem_turn'[Pacman] = sem_turn[Pacman] + 1
      BY <1>2, <2>2, SemaphoreSteps DEF GrantTurn
    <3>2. Whole' /\ ~game_over' => TurnsOut' = TurnsOut + 1 /\ TurnsOut = 0
      BY <1>0, <1>1, <1>2, <2>1, <3>1
    <3> HIDE DEF TurnsOut
    <3> QED
      BY <1>0, <1>1, <2>1, <3>1, <3>2
  <2>3. CASE TakeAnswer
    <3>1. /\ p0 = "waiting" /\ p0' = "ready" /\ game_over' = game_over /\ sem_turn' = sem_turn
          /\ sem_done[Pacman] > 0 /\ sem_done'[Pacman] = sem_done[Pacman] - 1
      BY <1>2, <2>3, SemaphoreSteps DEF TakeAnswer
    <3>2. Whole' /\ ~game_over' => TurnsOut' = TurnsOut - 1 /\ TurnsOut = 1
      BY <1>0, <1>1, <1>2, <2>1, <3>1
    <3>3. /\ pc["publisher"] # "unborn"
          /\ Whole => pc["executor"] \notin Playing \cup {"publish"}
      BY <1>0, <1>2, <3>1
    <3> HIDE DEF TurnsOut
    <3> QED
      BY <1>1, <2>1, <3>1, <3>2, <3>3
  <2>4. CASE SetGameOver \/ P0Fails
    <3>1. game_over' /\ sem_done' = sem_done
      BY <2>4 DEF SetGameOver, P0Fails
    <3> QED
      BY <1>0, <1>1, <2>1, <3>1
  <2>5. CASE PostShutdown
    <3>1. game_over /\ game_over' /\ sem_done' = sem_done
      BY <1>0, <2>5 DEF PostShutdown, OverEnds
    <3> QED
      BY <1>0, <1>1, <2>1, <3>1
  <2> QED
    BY <1>7, <2>2, <2>3, <2>4, <2>5 DEF P0
<1>8. CASE UNCHANGED game_vars
  BY <1>0, <1>1, <1>8 DEF game_vars, vars
<1> QED
  BY <1>3, <1>4, <1>5, <1>6, <1>7, <1>8, StepCases

\* The published position is one move behind at most, and only while a
\* publication is due.
LEMMA PositionsStep ==
  ASSUME MazeAssumption, PacmanAssumption, IInv, [Next]_game_vars
  PROVE  Positions'
<1>0. TypeOK /\ Labels /\ Creation /\ Turn /\ Positions /\ Order
  BY DEF IInv
<1>1. (Whole' => Whole) /\ (pc'["publisher"] = "unborn" => pc["publisher"] = "unborn")
  BY WholeStep
<1>2. publish_requested \in Nat /\ local_at \in Open /\ pacman_at \in Open /\ snapshot \in Open
  BY <1>0 DEF TypeOK
<1>3. pc \in [Thread -> UNION {ThreadLabel[t] : t \in Thread}]
  BY <1>0 DEF Labels
<1> USE DEF Positions
<1>4. CASE Reader /\ UNCHANGED <<p0, turns>>
  BY <1>0, <1>1, <1>4, ReaderFrame DEF Advances, Thread, turn_vars, out_vars
<1>5. CASE Executor /\ UNCHANGED <<p0, turns>>
  <2>1. pc'["publisher"] = pc["publisher"] /\ pacman_at' = pacman_at /\ snapshot' = snapshot
    BY <1>0, <1>5, ExecutorFrame DEF Advances, Thread, out_vars
  <2>2. CASE process_instruction
    <3>1. pc["executor"] = "process" /\ pc'["executor"] = "publish"
      BY <1>3, <2>2 DEF process_instruction, At, Goto, Thread
    <3>2. Whole => /\ pacman_at = local_at
                   /\ pc["publisher"] \in {"unborn", "wait"}
      BY <1>0, <3>1 DEF Turn, Playing
    <3>3. held \in Line
      BY <1>0, <3>1, PacmanAssumption DEF Order, Kept, Range, PacmanAssumption
    <3>4. Distance(local_at', local_at) <= 1
      <4>1. CASE local_at' = local_at
        BY <1>2, <4>1, DistanceToItself
      <4>2. CASE local_at' = Moved(local_at, held.direction)
        <5>1. held.direction \in Direction
          BY <3>3 DEF Line
        <5> QED
          BY <1>2, <4>2, <5>1, MovedStaysOpen
      <4> QED
        BY <2>2, <4>1, <4>2 DEF process_instruction
    <3> QED
      BY <1>1, <2>1, <3>1, <3>2, <3>4
  <2>3. CASE ~process_instruction
    <3>1. local_at' = local_at
      BY <1>5, <2>3 DEF Executor, ExecutorAwaitsTurn, ExecutorReadsGameOver, TryAvailable,
           CheckReaderDone, AwaitAvailable, queue_pop_locked, ExecutorRequestsPublication,
           ExecutorRequestsStop, ExecutorPostsStop, turn_vars
    <3>2. \/ publish_requested' = publish_requested /\ pc["executor"] # "publish"
          \/ publish_requested' = publish_requested + 1
      BY <1>5, <2>3 DEF Executor, ExecutorAwaitsTurn, ExecutorReadsGameOver, TryAvailable,
           CheckReaderDone, AwaitAvailable, queue_pop_locked, ExecutorRequestsPublication,
           ExecutorRequestsStop, ExecutorPostsStop, At
    <3>3. publish_requested' = 0 => publish_requested = 0 /\ pc["executor"] # "publish"
      BY <1>2, <3>2
    <3> QED
      BY <1>0, <1>1, <2>1, <3>1, <3>3
  <2> QED
    BY <2>2, <2>3
<1>6. CASE Publisher /\ UNCHANGED <<p0, turns>>
  <2>1. pc'["executor"] = pc["executor"] /\ local_at' = local_at
    BY <1>0, <1>6, PublisherFrame DEF Advances, Thread, turn_vars
  <2>2. CASE PublisherAwaitsRequest
    <3>1. /\ pc["publisher"] = "wait" /\ pc'["publisher"] = "read_over"
          /\ pacman_at' = pacman_at
      BY <1>3, <2>2 DEF PublisherAwaitsRequest, At, Goto, Thread, out_vars
    <3> QED
      BY <1>0, <1>1, <2>1, <3>1
  <2>3. CASE PublisherReadsGameOver
    <3>1. /\ pc["publisher"] = "read_over" /\ pc'["publisher"] \in {"done", "copy"}
          /\ pacman_at' = pacman_at
      BY <1>3, <2>3 DEF PublisherReadsGameOver, At, Goto, Thread, out_vars
    <3> QED
      BY <1>0, <1>1, <2>1, <3>1
  <2>4. CASE PublisherCopies
    <3>1. /\ pc["publisher"] = "copy" /\ pc'["publisher"] = "store"
          /\ pacman_at' = pacman_at /\ snapshot' = local_at
      BY <1>3, <2>4 DEF PublisherCopies, At, Goto, Thread
    <3> QED
      BY <1>0, <1>1, <2>1, <3>1
  <2>5. CASE PublisherStores
    <3>1. /\ pc["publisher"] = "store" /\ pc'["publisher"] = "answer"
          /\ pacman_at' = snapshot
      BY <1>3, <2>5 DEF PublisherStores, At, Goto, Thread
    <3>2. Distance(local_at, local_at) <= 1
      BY <1>2, DistanceToItself
    <3> QED
      BY <1>0, <1>1, <2>1, <3>1, <3>2
  <2>6. CASE PublisherAnswers
    <3>1. /\ pc["publisher"] = "answer" /\ pc'["publisher"] = "wait"
          /\ pacman_at' = pacman_at /\ publish_requested' = publish_requested
      BY <1>3, <2>6 DEF PublisherAnswers, At, Goto, Thread, out_vars
    <3> QED
      BY <1>0, <1>1, <2>1, <3>1
  <2> QED
    BY <1>6, <2>2, <2>3, <2>4, <2>5, <2>6 DEF Publisher
<1>7. CASE MainSteps /\ UNCHANGED <<p0, turns>>
  <2>1. local_at' = local_at /\ pacman_at' = pacman_at /\ snapshot' = snapshot
    BY <1>0, <1>7, MainFrame DEF turn_vars, out_vars
  <2>2. /\ \/ pc'["executor"] = pc["executor"]
           \/ pc["executor"] = "unborn" /\ pc'["executor"] = "turn"
        /\ \/ pc'["publisher"] = pc["publisher"]
           \/ pc["publisher"] = "unborn" /\ pc'["publisher"] = "wait"
    BY <1>0, <1>7, MainThreads
  <2>3. publish_requested' \in {publish_requested, publish_requested + 1}
    BY <1>7 DEF MainSteps, Main, CreateThread, Creates, MainRequestsStop, MainPostsAvailable,
         MainPostsTurn, MainPostsPublish, JoinThreads, ContextInitFails, CreateFails
  <2>4. publish_requested' = 0 => publish_requested = 0
    BY <1>2, <2>3
  <2> QED
    BY <1>0, <1>1, <2>1, <2>2, <2>4
<1>8. CASE P0 \/ P0Fails
  <2>1. UNCHANGED <<pc, main_pc, publish_requested, local_at, pacman_at, snapshot>>
    BY <1>8, P0Frame DEF p1_private, turn_vars
  <2> QED
    BY <1>0, <1>1, <2>1
<1>9. CASE UNCHANGED game_vars
  BY <1>0, <1>1, <1>9 DEF game_vars, vars, turn_vars, out_vars
<1> QED
  BY <1>4, <1>5, <1>6, <1>7, <1>8, <1>9, StepCases

\* The cleanup path posts its turn once.
LEMMA CleanupGrows ==
  ASSUME IInv, [Next]_game_vars
  PROVE  /\ CleanupTurn \in 0..1 /\ CleanupTurn' \in 0..1 /\ CleanupTurn <= CleanupTurn'
         /\ MainPostsTurn => CleanupTurn = 0 /\ CleanupTurn' = 1
<1>0. TypeOK /\ Labels /\ Creation
  BY DEF IInv
<1> USE DEF CleanupTurn, Started, Thread
<1>1. CASE Reader
  BY <1>0, <1>1, ReaderFrame DEF Advances, MainPostsTurn
<1>2. CASE Executor
  BY <1>0, <1>2, ExecutorFrame DEF Advances, MainPostsTurn
<1>3. CASE Publisher
  BY <1>0, <1>3, PublisherFrame DEF Advances, MainPostsTurn
<1>4. CASE MainSteps
  <2>1. CASE CreateThread
    <3>1. main_pc \in Creating /\ ~MainPostsTurn
      BY <2>1 DEF CreateThread, Creating, MainPostsTurn
    <3> QED
      BY <3>1 DEF Creating
  <2>2. CASE ~CreateThread
    <3>1. pc' = pc
      BY <1>0, <1>4, <2>2, MainMoves
    <3>2. /\ main_pc \in {"post_publish", "join", "exit"} => main_pc' \in {"join", "exit"}
          /\ main_pc = "post_turn" => main_pc' = "post_publish"
      BY <1>4, <2>2 DEF MainSteps, Main, MainRequestsStop, MainPostsAvailable, MainPostsTurn,
           MainPostsPublish, JoinThreads, ContextInitFails, CreateFails
    <3>3. main_pc = "post_turn" => ~Started
      BY <1>0 DEF Creation, Cleanup
    <3> QED
      BY <3>1, <3>2, <3>3 DEF MainPostsTurn
  <2> QED
    BY <2>1, <2>2
<1>5. CASE P0 \/ P0Fails
  BY <1>5, P0Frame DEF MainPostsTurn
<1>6. CASE UNCHANGED game_vars
  BY <1>6 DEF game_vars, vars, MainPostsTurn
<1> QED
  BY <1>1, <1>2, <1>3, <1>4, <1>5, <1>6, StepCases

\* Every instruction is paid with a turn.
LEMMA CostStep ==
  ASSUME IInv, [Next]_game_vars
  PROVE  Cost'
<1>0. TypeOK /\ Labels /\ Creation /\ OverEnds /\ Cost
  BY DEF IInv
<1>1. /\ CleanupTurn \in 0..1 /\ CleanupTurn' \in 0..1 /\ CleanupTurn <= CleanupTurn'
      /\ MainPostsTurn => CleanupTurn = 0 /\ CleanupTurn' = 1
  BY CleanupGrows
<1>2. /\ sem_turn \in [Process -> Nat] /\ sem_turn[Pacman] \in Nat /\ turns \in Nat
      /\ Len(executed) \in Nat
  BY <1>0, SemaphoreSteps DEF TypeOK, Labels
<1>3. pc \in [Thread -> UNION {ThreadLabel[t] : t \in Thread}]
  BY <1>0 DEF Labels
<1> HIDE DEF CleanupTurn
<1> USE DEF Cost, Playing
<1>4. CASE Reader /\ UNCHANGED <<p0, turns>>
  <2>1. /\ UNCHANGED <<game_over, sem_turn, executed, turns>>
        /\ pc'["executor"] = pc["executor"]
    BY <1>0, <1>4, ReaderFrame DEF Advances, Thread, turn_vars
  <2> QED
    BY <1>0, <1>1, <1>2, <2>1
<1>5. CASE Executor /\ UNCHANGED <<p0, turns>>
  <2>1. game_over' = game_over /\ turns' = turns
    BY <1>0, <1>5, ExecutorFrame
  <2>2. CASE ExecutorAwaitsTurn
    <3>1. /\ pc["executor"] = "turn" /\ pc'["executor"] = "read_over" /\ executed' = executed
          /\ sem_turn'[Pacman] = sem_turn[Pacman] - 1
      BY <1>2, <1>3, <2>2, SemaphoreSteps DEF ExecutorAwaitsTurn, At, Goto, Thread, turn_vars
    <3> QED
      BY <1>0, <1>1, <1>2, <2>1, <3>1
  <2>3. CASE ExecutorReadsGameOver
    <3>1. /\ pc["executor"] = "read_over" /\ executed' = executed /\ sem_turn' = sem_turn
          /\ pc'["executor"] = IF game_over THEN "stop" ELSE "try"
      BY <1>3, <2>3 DEF ExecutorReadsGameOver, At, Goto, Thread
    <3> QED
      BY <1>0, <1>1, <1>2, <2>1, <3>1
  <2>4. CASE TryAvailable \/ CheckReaderDone \/ AwaitAvailable \/ queue_pop_locked
    <3>1. /\ pc["executor"] \in Playing /\ executed' = executed /\ sem_turn' = sem_turn
      BY <2>4 DEF TryAvailable, CheckReaderDone, AwaitAvailable, queue_pop_locked, At,
                  turn_vars
    <3> QED
      BY <1>0, <1>1, <1>2, <2>1, <3>1
  <2>5. CASE process_instruction
    <3>1. /\ pc["executor"] = "process" /\ pc'["executor"] = "publish" /\ sem_turn' = sem_turn
          /\ executed' = Append(executed, held)
      BY <1>3, <2>5 DEF process_instruction, At, Goto, Thread
    <3>2. Len(executed') = Len(executed) + 1
      BY <1>0, <3>1 DEF TypeOK
    <3> QED
      BY <1>0, <1>1, <1>2, <2>1, <3>1, <3>2
  <2>6. CASE ExecutorRequestsPublication \/ ExecutorRequestsStop \/ ExecutorPostsStop
    <3>1. /\ pc'["executor"] \in {"turn", "done", "stop_post", "stop_publish"}
          /\ pc["executor"] \in {"publish", "stop", "stop_post", "stop_publish"}
          /\ executed' = executed /\ sem_turn' = sem_turn
      BY <1>3, <2>6 DEF ExecutorRequestsPublication, ExecutorRequestsStop, ExecutorPostsStop,
           At, Goto, Thread, turn_vars
    <3> QED
      BY <1>0, <1>1, <1>2, <2>1, <3>1
  <2> QED
    BY <1>5, <2>2, <2>3, <2>4, <2>5, <2>6 DEF Executor
<1>6. CASE Publisher /\ UNCHANGED <<p0, turns>>
  <2>1. /\ UNCHANGED <<game_over, sem_turn, executed, turns>>
        /\ pc'["executor"] = pc["executor"]
    BY <1>0, <1>6, PublisherFrame DEF Advances, Thread, turn_vars
  <2> QED
    BY <1>0, <1>1, <1>2, <2>1
<1>7. CASE MainSteps /\ UNCHANGED <<p0, turns>>
  <2>1. game_over' = game_over /\ executed' = executed /\ turns' = turns
    BY <1>0, <1>7, MainFrame DEF turn_vars
  <2>2. \/ pc'["executor"] = pc["executor"]
        \/ pc["executor"] = "unborn" /\ pc'["executor"] = "turn"
    BY <1>0, <1>7, MainThreads
  <2>3. \/ sem_turn' = sem_turn
        \/ /\ sem_turn'[Pacman] = sem_turn[Pacman] + 1
           /\ CleanupTurn = 0 /\ CleanupTurn' = 1
    <3>1. CASE MainPostsTurn
      BY <1>1, <1>2, <3>1, SemaphoreSteps DEF MainPostsTurn
    <3>2. CASE ~MainPostsTurn
      BY <1>7, <3>2 DEF MainSteps, Main, CreateThread, Creates, MainRequestsStop,
           MainPostsAvailable, MainPostsPublish, JoinThreads, ContextInitFails, CreateFails
    <3> QED
      BY <3>1, <3>2
  <2>4. /\ pc'["executor"] \in Playing <=> pc["executor"] \in Playing
        /\ pc'["executor"] \in Playing \cup {"read_over"}
             <=> pc["executor"] \in Playing \cup {"read_over"}
    BY <2>2
  <2> HIDE DEF Playing
  <2> QED
    BY <1>0, <1>1, <1>2, <2>1, <2>3, <2>4
<1>8. CASE P0 \/ P0Fails
  <2>1. pc' = pc /\ executed' = executed
    BY <1>8, P0Frame DEF p1_private, turn_vars
  <2>2. \/ /\ turns' = turns + 1 /\ sem_turn'[Pacman] = sem_turn[Pacman] + 1
           /\ game_over' = game_over
        \/ turns' = turns /\ game_over'
        \/ turns' = turns /\ sem_turn' = sem_turn /\ game_over' = game_over
    BY <1>0, <1>2, <1>8, SemaphoreSteps
       DEF P0, P0Fails, GrantTurn, TakeAnswer, SetGameOver, PostShutdown, OverEnds
  <2> HIDE DEF Playing
  <2>3. CASE game_over'
    <3>1. turns' \in Nat /\ turns' >= turns
      BY <1>2, <2>2
    <3> QED
      BY <1>0, <1>1, <1>2, <2>1, <2>3, <3>1
  <2>4. CASE ~game_over'
    <3>1. \/ turns' = turns + 1 /\ sem_turn'[Pacman] = sem_turn[Pacman] + 1
          \/ turns' = turns /\ sem_turn'[Pacman] = sem_turn[Pacman]
      BY <2>2, <2>4
    <3>2. ~game_over
      BY <1>0, <2>2, <2>4
    <3> QED
      BY <1>0, <1>1, <1>2, <2>1, <2>4, <3>1, <3>2
  <2> QED
    BY <2>3, <2>4
<1>9. CASE UNCHANGED game_vars
  <2>1. UNCHANGED <<game_over, sem_turn, executed, turns, pc>>
    BY <1>9 DEF game_vars, vars, turn_vars
  <2> QED
    BY <1>0, <1>1, <1>2, <2>1
<1> QED
  BY <1>4, <1>5, <1>6, <1>7, <1>8, <1>9, StepCases

\* The queue is what the parser has made of the lines read, less what has been
\* taken from it.
LEMMA OrderStep ==
  ASSUME PacmanAssumption, IInv, [Next]_game_vars
  PROVE  Order'
<1>0. TypeOK /\ Labels /\ Order
  BY DEF IInv
<1>1. /\ Moves \in Seq(Line) /\ Len(Moves) \in Nat /\ next_line \in 1..Len(Moves) + 1
      /\ executed \in Seq(Kept) /\ queue \in Seq(Kept)
      /\ executed \o InHand \o queue = ParsedUpTo(Moves)[next_line - 1]
  BY <1>0, PacmanAssumption DEF PacmanAssumption, TypeOK, Order
<1>2. pc \in [Thread -> UNION {ThreadLabel[t] : t \in Thread}]
  BY <1>0 DEF Labels
<1>3. InHand \in Seq(Kept)
  <2>1. CASE pc["executor"] = "process"
    BY <1>0, <2>1 DEF InHand, Order
  <2>2. CASE pc["executor"] # "process"
    BY <2>2 DEF InHand
  <2> QED
    BY <2>1, <2>2
<1> USE DEF Order
<1>4. CASE Reader /\ UNCHANGED <<p0, turns>>
  <2>1. /\ pc'["executor"] = pc["executor"] /\ executed' = executed /\ held' = held
    BY <1>0, <1>4, ReaderFrame DEF Advances, Thread, turn_vars
  <2>2. InHand' = InHand
    BY <2>1 DEF InHand
  <2>3. CASE ReaderOpens \/ ReaderPosts \/ queue_mark_reader_done
    <3>1. queue' = queue /\ next_line' = next_line /\ pc'["reader"] # "push"
      BY <1>2, <2>3 DEF ReaderOpens, ReaderPosts, queue_mark_reader_done, queue_vars,
           reader_vars, Goto, Thread
    <3> QED
      BY <1>0, <2>1, <2>2, <3>1
  <2>4. CASE ReadLine
    <3>1. queue' = queue /\ pc["reader"] = "read"
      BY <2>4 DEF ReadLine, queue_vars, At
    <3>2. CASE next_line' = next_line
      <4>1. pc'["reader"] = "push" =>
              next_line \in 1..Len(Moves) /\ parse_instruction_accepts(Moves[next_line])
        BY <1>1, <1>2, <2>4, <3>1, <3>2 DEF ReadLine, Goto, Thread
      <4> QED
        BY <1>0, <2>1, <2>2, <3>1, <3>2, <4>1
    <3>3. CASE next_line' # next_line
      <4>1. /\ next_line \in 1..Len(Moves) /\ ~parse_instruction_accepts(Moves[next_line])
            /\ next_line' = next_line + 1 /\ pc' = pc
        BY <1>1, <2>4, <3>3 DEF ReadLine
      <4>2. ParsedUpTo(Moves)[next_line] = ParsedUpTo(Moves)[next_line - 1]
        BY <1>1, <4>1, ParsedStep
      <4>3. next_line' - 1 = next_line
        BY <1>1, <4>1
      <4> QED
        BY <1>0, <2>1, <2>2, <3>1, <4>1, <4>2, <4>3
    <3> QED
      BY <3>2, <3>3
  <2>5. CASE queue_push
    <3>1. /\ pc["reader"] = "push" /\ pc'["reader"] = "push_post"
          /\ queue' = Append(queue, Moves[next_line]) /\ next_line' = next_line + 1
      BY <1>2, <2>5 DEF queue_push, At, Goto, Thread
    <3>2. next_line \in 1..Len(Moves) /\ parse_instruction_accepts(Moves[next_line])
      BY <1>0, <3>1
    <3>3. Moves[next_line] \in Kept
      BY <1>1, <3>2 DEF Kept, Range
    <3>4. executed \o InHand \in Seq(Kept)
      BY <1>1, <1>3
    <3>5. executed \o InHand \o Append(queue, Moves[next_line])
            = Append(executed \o InHand \o queue, Moves[next_line])
      <4> DEFINE passed == executed \o InHand
      <4> HIDE DEF passed, Kept
      <4>1. passed \in Seq(Kept) /\ queue \in Seq(Kept) /\ Moves[next_line] \in Kept
        BY <1>1, <3>3, <3>4 DEF passed
      <4>2. passed \o Append(queue, Moves[next_line]) = Append(passed \o queue, Moves[next_line])
        BY <4>1, PushAppends
      <4> QED
        BY <4>2 DEF passed
    <3>6. ParsedUpTo(Moves)[next_line] = Append(ParsedUpTo(Moves)[next_line - 1], Moves[next_line])
      BY <1>1, <3>2, ParsedStep
    <3>7. next_line' - 1 = next_line /\ queue' \in Seq(Kept)
      BY <1>1, <3>1, <3>3
    <3> QED
      BY <1>0, <1>1, <2>1, <2>2, <3>1, <3>5, <3>6, <3>7
  <2> QED
    BY <1>4, <2>3, <2>4, <2>5 DEF Reader
<1>5. CASE Executor /\ UNCHANGED <<p0, turns>>
  <2>1. pc'["reader"] = pc["reader"] /\ next_line' = next_line
    BY <1>0, <1>5, ExecutorFrame DEF Advances, Thread, reader_vars
  <2>2. CASE queue_pop_locked
    <3>1. CASE queue = <<>>
      <4>1. /\ queue' = queue /\ pc["executor"] = "pop" /\ pc'["executor"] = "publish"
            /\ executed' = executed
        BY <1>2, <2>2, <3>1 DEF queue_pop_locked, At, Goto, Thread
      <4> QED
        BY <1>0, <2>1, <4>1 DEF InHand
    <3>2. CASE queue # <<>>
      <4>1. /\ held' = Head(queue) /\ queue' = Tail(queue) /\ executed' = executed
            /\ pc["executor"] = "pop" /\ pc'["executor"] = "process"
        BY <1>2, <2>2, <3>2 DEF queue_pop_locked, At, Goto, Thread
      <4>2. InHand = <<>> /\ InHand' = <<Head(queue)>>
        BY <4>1 DEF InHand
      <4>3. /\ Head(queue) \in Kept /\ Tail(queue) \in Seq(Kept)
            /\ executed \o <<>> \o queue = executed \o <<Head(queue)>> \o Tail(queue)
        BY <1>1, <3>2, PopKeeps
      <4> QED
        BY <1>0, <1>1, <2>1, <4>1, <4>2, <4>3
    <3> QED
      BY <3>1, <3>2
  <2>3. CASE process_instruction
    <3>1. /\ pc["executor"] = "process" /\ pc'["executor"] = "publish"
          /\ executed' = Append(executed, held) /\ queue' = queue
      BY <1>2, <2>3 DEF process_instruction, At, Goto, Thread, queue_vars
    <3>2. held \in Kept /\ InHand = <<held>> /\ InHand' = <<>>
      BY <1>0, <3>1 DEF InHand
    <3>3. executed \o <<held>> \o queue = Append(executed, held) \o <<>> \o queue
      BY <1>1, <3>2, CarryKeeps
    <3>4. executed' \in Seq(Kept)
      BY <1>1, <3>1, <3>2
    <3> QED
      BY <1>0, <1>1, <2>1, <3>1, <3>2, <3>3, <3>4
  <2>4. CASE ~queue_pop_locked /\ ~process_instruction
    <3>1. /\ executed' = executed /\ queue' = queue
          /\ pc["executor"] # "process" /\ pc'["executor"] # "process"
      BY <1>2, <1>5, <2>4 DEF Executor, ExecutorAwaitsTurn, ExecutorReadsGameOver, TryAvailable,
           CheckReaderDone, AwaitAvailable, ExecutorRequestsPublication, ExecutorRequestsStop,
           ExecutorPostsStop, At, Goto, Thread, turn_vars, queue_vars
    <3> QED
      BY <1>0, <2>1, <3>1 DEF InHand
  <2> QED
    BY <2>2, <2>3, <2>4
<1>6. CASE Publisher /\ UNCHANGED <<p0, turns>>
  <2>1. /\ UNCHANGED <<executed, held, queue, next_line>>
        /\ pc'["executor"] = pc["executor"] /\ pc'["reader"] = pc["reader"]
    BY <1>0, <1>6, PublisherFrame DEF Advances, Thread, turn_vars, queue_vars, reader_vars
  <2> QED
    BY <1>0, <2>1 DEF InHand
<1>7. CASE MainSteps /\ UNCHANGED <<p0, turns>>
  <2>1. UNCHANGED <<executed, held, queue, next_line>>
    BY <1>0, <1>7, MainFrame DEF turn_vars, reader_vars
  <2>2. /\ pc'["executor"] = "process" <=> pc["executor"] = "process"
        /\ pc'["reader"] = "push" => pc["reader"] = "push"
    <3>1. Creation
      BY DEF IInv
    <3> QED
      BY <1>0, <1>7, <3>1, MainMoves DEF Advances, Thread
  <2> QED
    BY <1>0, <2>1, <2>2 DEF InHand
<1>8. CASE P0 \/ P0Fails
  <2>1. UNCHANGED <<executed, held, queue, next_line, pc>>
    BY <1>8, P0Frame DEF p1_private, turn_vars, queue_vars, reader_vars
  <2> QED
    BY <1>0, <2>1 DEF InHand
<1>9. CASE UNCHANGED game_vars
  <2>1. UNCHANGED <<executed, held, queue, next_line, pc>>
    BY <1>9 DEF game_vars, vars, turn_vars, queue_vars, reader_vars
  <2> QED
    BY <1>0, <2>1 DEF InHand
<1> QED
  BY <1>4, <1>5, <1>6, <1>7, <1>8, <1>9, StepCases

-----------------------------------------------------------------------------
(* The theorems. *)

\* The initial states, whatever priorities the mailbox holds.
Starts ==
  /\ PacmanInit
  /\ game_over = FALSE /\ exited = {} /\ pacman_at = Start
  /\ pending_priority \in [Process -> 0..MAX_PRIORITY] /\ request_active = {}
  /\ sem_turn = [p \in Process |-> 0] /\ sem_done = [p \in Process |-> 0]
  /\ p0 = "ready" /\ turns = 0

\* The invariant holds when P1 starts.
LEMMA InvInit ==
  ASSUME MazeAssumption, PacmanAssumption, Starts
  PROVE  IInv
<1> USE DEF Starts, PacmanInit
<1>1. TypeOK
  <2>1. Len(Moves) \in Nat
    BY PacmanAssumption DEF PacmanAssumption
  <2>2. \A t \in Thread : pc[t] \in ThreadLabel[t]
    BY ThreadLabels
  <2> QED
    <3>1. Start \in Open
      BY PacmanAssumption DEF PacmanAssumption
    <3>2. [p \in Process |-> 0] \in [Process -> Nat] /\ <<>> \in Seq(Range(Moves))
      OBVIOUS
    <3>3. next_line \in 1..Len(Moves) + 1
      BY <2>1
    <3> QED
      BY <2>2, <3>1, <3>2, <3>3 DEF TypeOK
<1>2. Labels
  BY ThreadLabels DEF Labels, Creating
<1>3. Creation /\ OverEnds /\ Tokens /\ Turn
  BY DEF Creation, OverEnds, Tokens, TokensCoverQueue, Posting, Popping, Turn, TurnsOut,
         Playing, Publishing, Thread, Process, Pacman
<1>4. Positions
  <2>1. Distance(Start, Start) = 0
    BY PacmanAssumption, DistanceToItself DEF PacmanAssumption
  <2> QED
    BY <2>1 DEF Positions, Thread
<1>5. Cost
  BY DEF Cost, CleanupTurn, Playing, Thread, Process, Pacman
<1>6. Order
  <2>1. Moves \in Seq(Line)
    BY PacmanAssumption DEF PacmanAssumption
  <2>2. ParsedUpTo(Moves)[0] = <<>>
    BY <2>1, ParsedStep
  <2>3. InHand = <<>>
    BY DEF InHand, Thread
  <2>4. next_line - 1 = 0 /\ executed \o InHand \o queue = <<>>
    BY <2>3
  <2> QED
    BY <2>2, <2>4 DEF Order, Thread
<1> QED
  BY <1>1, <1>2, <1>3, <1>4, <1>5, <1>6 DEF IInv

\* Every step of P1 and of what stands for P0 keeps the invariant.
LEMMA InvStep ==
  ASSUME MazeAssumption, PacmanAssumption, IInv, [Next]_game_vars
  PROVE  IInv'
<1>1. TypeOK' /\ Labels'
  BY TypeStep
<1>2. Creation' /\ OverEnds' /\ Tokens' /\ Turn'
  BY CreationStep, OverStep, TokensStep, TurnStep
<1>3. Positions' /\ Cost' /\ Order'
  BY PositionsStep, CostStep, OrderStep
<1> QED
  BY <1>1, <1>2, <1>3 DEF IInv

\* The inductive invariant holds in every state P1 reaches.
THEOREM Invariance == Spec => []IInv
<1>1. Init => IInv
  <2>1. [p \in Process |-> 0] \in [Process -> 0..MAX_PRIORITY]
    BY DEF MAX_PRIORITY
  <2>2. Init => Starts
    BY <2>1 DEF Init, Starts
  <2> QED
    BY <2>2, InvInit, MazeAssumption, PacmanAssumption
<1>2. IInv /\ [Next]_game_vars => IInv'
  BY InvStep, MazeAssumption, PacmanAssumption
<1> QED
  BY <1>1, <1>2, PTL DEF Spec

\* What goes on in the memory besides P1 and its own turns: the other process is
\* granted turns and answers them, and the mailboxes are written and emptied.
OthersMove ==
  /\ sem_turn' \in [Process -> Nat] /\ sem_turn'[Pacman] = sem_turn[Pacman]
  /\ sem_done' \in [Process -> Nat] /\ sem_done'[Pacman] = sem_done[Pacman]
  /\ pending_priority' \in [Process -> 0..MAX_PRIORITY] /\ request_active' \subseteq Process
  /\ UNCHANGED <<game_over, exited, queue_vars, publish_requested, reader_vars, turn_vars,
                 out_vars, pc, main_pc, p0, turns>>

\* None of it disturbs the invariant.
LEMMA OthersKeep ==
  ASSUME IInv, OthersMove
  PROVE  IInv'
<1> USE DEF OthersMove, queue_vars, reader_vars, turn_vars, out_vars
<1>1. TypeOK'
  BY DEF IInv, TypeOK
<1>2. Labels' /\ Creation' /\ OverEnds'
  BY DEF IInv, Labels, Creation, OverEnds
<1>3. Tokens' /\ Turn'
  BY DEF IInv, Tokens, TokensCoverQueue, Posting, Popping, Turn, TurnsOut, Whole
<1>4. Positions' /\ Cost'
  BY DEF IInv, Positions, Whole, Cost, CleanupTurn, Started
<1>5. Order'
  BY DEF IInv, Order, InHand
<1> QED
  BY <1>1, <1>2, <1>3, <1>4, <1>5 DEF IInv

\* Where the turn is, while the game goes on.
LEMMA TurnIsOne ==
  ASSUME IInv, Whole, ~game_over
  PROVE  /\ p0 = "ready" =>
              /\ pc["executor"] \notin Playing \cup {"read_over", "publish"}
              /\ pc["publisher"] \notin Publishing
         /\ sem_turn[Pacman] > 0 => publish_requested = 0 /\ pc["publisher"] \notin Publishing
         /\ pc["executor"] \in Playing \cup {"read_over", "publish"} =>
              /\ sem_done[Pacman] = 0 /\ sem_turn[Pacman] = 0
              /\ pc["publisher"] \notin Publishing
         /\ pc["publisher"] \in Publishing => sem_done[Pacman] = 0 /\ publish_requested = 0
<1>1. sem_turn[Pacman] \in Nat /\ sem_done[Pacman] \in Nat /\ publish_requested \in Nat
  BY DEF IInv, TypeOK, Process
<1>2. TurnsOut = IF p0 = "waiting" THEN 1 ELSE 0
  BY DEF IInv, Turn
<1>3. CASE /\ pc["executor"] \in Playing \cup {"read_over", "publish"}
           /\ pc["publisher"] \in Publishing
  <2>1. TurnsOut = sem_turn[Pacman] + 1 + publish_requested + 1 + sem_done[Pacman]
    BY <1>3 DEF TurnsOut
  <2> QED
    BY <1>1, <1>2, <2>1
<1>4. CASE /\ pc["executor"] \in Playing \cup {"read_over", "publish"}
           /\ pc["publisher"] \notin Publishing
  <2>1. TurnsOut = sem_turn[Pacman] + 1 + publish_requested + 0 + sem_done[Pacman]
    BY <1>4 DEF TurnsOut
  <2>2. sem_turn[Pacman] = 0 /\ publish_requested = 0 /\ sem_done[Pacman] = 0 /\ p0 # "ready"
    BY <1>1, <1>2, <2>1
  <2> QED
    BY <1>4, <2>2
<1>5. CASE /\ pc["executor"] \notin Playing \cup {"read_over", "publish"}
           /\ pc["publisher"] \in Publishing
  <2>1. TurnsOut = sem_turn[Pacman] + 0 + publish_requested + 1 + sem_done[Pacman]
    BY <1>5 DEF TurnsOut
  <2>2. sem_turn[Pacman] = 0 /\ publish_requested = 0 /\ sem_done[Pacman] = 0 /\ p0 # "ready"
    BY <1>1, <1>2, <2>1
  <2> QED
    BY <1>5, <2>2
<1>6. CASE /\ pc["executor"] \notin Playing \cup {"read_over", "publish"}
           /\ pc["publisher"] \notin Publishing
  <2>1. TurnsOut = sem_turn[Pacman] + 0 + publish_requested + 0 + sem_done[Pacman]
    BY <1>6 DEF TurnsOut
  <2>2. sem_turn[Pacman] > 0 => publish_requested = 0
    BY <1>1, <1>2, <2>1
  <2> QED
    BY <1>6, <2>2
<1> QED
  BY <1>3, <1>4, <1>5, <1>6

\* The executor finds nothing only when nothing more will come.
LEMMA EmptyAtEnd ==
  ASSUME IInv
  PROVE  EmptyPopOnlyAtEnd
<1>1. SUFFICES ASSUME pc["executor"] = "pop", queue = <<>>, ~reader_done, ~should_stop
               PROVE  FALSE
  BY DEF EmptyPopOnlyAtEnd
<1>2. Len(queue) = available + Posting + Popping /\ available \in Nat
  BY <1>1 DEF IInv, Tokens, TypeOK
<1>3. Posting \in Nat /\ Popping = 1 /\ Len(queue) = 0
  BY <1>1 DEF Posting, Popping
<1> QED
  BY <1>2, <1>3

\* The answer is the last thing that is left of a turn.
LEMMA Answer ==
  ASSUME IInv, p0 = "waiting", sem_done[Pacman] > 0
  PROVE  /\ pacman_at = local_at
         /\ publish_requested = 0 /\ pc["publisher"] = "wait"
         /\ sem_done[Pacman] = 1 /\ sem_turn[Pacman] = 0
         /\ pc["executor"] \notin Playing \cup {"read_over", "publish"}
<1>1. ~game_over /\ pc["publisher"] # "unborn" /\ Whole
  BY DEF IInv, OverEnds, Turn, Whole
<1>2. TurnsOut = 1
  BY <1>1 DEF IInv, Turn
<1>3. /\ sem_turn[Pacman] \in Nat /\ sem_done[Pacman] \in Nat /\ publish_requested \in Nat
      /\ pc["publisher"] \in ThreadLabel["publisher"]
  BY DEF IInv, TypeOK, Process, Pacman, Thread
<1>4. /\ publish_requested = 0 /\ sem_done[Pacman] = 1 /\ sem_turn[Pacman] = 0
      /\ pc["executor"] \notin Playing \cup {"read_over", "publish"}
      /\ pc["publisher"] \notin Publishing
  BY <1>2, <1>3 DEF TurnsOut
<1>5. pc["publisher"] = "wait"
  BY <1>1, <1>3, <1>4, ThreadLabels DEF IInv, OverEnds, Publishing
<1> QED
  BY <1>1, <1>4, <1>5 DEF IInv, Positions

\* What has passed through the queue is the beginning of the file.
LEMMA PassedIsPrefix ==
  ASSUME PacmanAssumption, IInv
  PROVE  /\ executed \o InHand \o queue = ParsedUpTo(Moves)[next_line - 1]
         /\ IsPrefix(ParsedUpTo(Moves)[next_line - 1], Parsed(Moves))
         /\ next_line > Len(Moves) => ParsedUpTo(Moves)[next_line - 1] = Parsed(Moves)
<1>1. /\ Moves \in Seq(Line) /\ Len(Moves) \in Nat /\ next_line \in 1..Len(Moves) + 1
      /\ executed \o InHand \o queue = ParsedUpTo(Moves)[next_line - 1]
  BY PacmanAssumption DEF PacmanAssumption, IInv, TypeOK, Order
<1>2. next_line - 1 \in 0..Len(Moves)
  BY <1>1
<1>3. IsPrefix(ParsedUpTo(Moves)[next_line - 1], Parsed(Moves))
  BY <1>1, <1>2, ParsedGrows
<1>4. next_line > Len(Moves) => next_line - 1 = Len(Moves)
  BY <1>1
<1> QED
  BY <1>1, <1>3, <1>4 DEF Parsed

\* What has been carried out is no longer than the file ...
LEMMA CarriedOut ==
  ASSUME PacmanAssumption, IInv
  PROVE  /\ Len(executed) \in Nat /\ Len(Parsed(Moves)) \in Nat
         /\ Len(executed) <= Len(Parsed(Moves))
<1>1. executed \in Seq(Kept) /\ queue \in Seq(Kept) /\ InHand \in Seq(Kept)
  BY DEF IInv, Order, InHand
<1>2. Moves \in Seq(Line) /\ Len(Moves) \in Nat
  BY PacmanAssumption DEF PacmanAssumption
<1>3. Len(Parsed(Moves)) \in Nat
  <2>1. \A n \in 0..Len(Moves) :
          ParsedUpTo(Moves)[n] \in Seq({line \in Line : parse_instruction_accepts(line)})
    BY <1>2, ParsedLines
  <2>2. Len(Moves) \in 0..Len(Moves)
    BY <1>2
  <2>3. Parsed(Moves) \in Seq({line \in Line : parse_instruction_accepts(line)})
    BY <2>1, <2>2 DEF Parsed
  <2> QED
    BY <2>3
<1>4. Len(executed \o InHand \o queue) = Len(executed) + Len(InHand) + Len(queue)
  BY <1>1
<1>5. Len(executed \o InHand \o queue) <= Len(Parsed(Moves))
  BY PassedIsPrefix DEF IsPrefix
<1>6. Len(executed) \in Nat /\ Len(InHand) \in Nat /\ Len(queue) \in Nat
  BY <1>1
<1> QED
  BY <1>3, <1>4, <1>5, <1>6

\* ... the instruction in hand is the next line of it ...
LEMMA HeldIsNext ==
  ASSUME PacmanAssumption, IInv, pc["executor"] = "process"
  PROVE  /\ Len(executed) < Len(Parsed(Moves))
         /\ held = Parsed(Moves)[Len(executed) + 1]
<1> DEFINE n == Len(executed)
           passed == executed \o InHand \o queue
<1>1. executed \in Seq(Kept) /\ queue \in Seq(Kept) /\ held \in Kept /\ InHand = <<held>>
  BY DEF IInv, Order, InHand
<1>2. /\ n \in Nat /\ Len(queue) \in Nat /\ Len(passed) = n + 1 + Len(queue)
      /\ passed[n + 1] = held
  BY <1>1
<1>3. IsPrefix(passed, Parsed(Moves)) /\ Len(Parsed(Moves)) \in Nat
  BY PassedIsPrefix, CarriedOut
<1> HIDE DEF n, passed
<1>4. /\ Len(passed) <= Len(Parsed(Moves)) /\ Len(passed) \in Nat /\ n + 1 \in 1..Len(passed)
      /\ SubSeq(passed, 1, Len(passed)) = SubSeq(Parsed(Moves), 1, Len(passed))
  BY <1>2, <1>3 DEF IsPrefix
<1>5. /\ SubSeq(passed, 1, Len(passed)) = [i \in 1..Len(passed) |-> passed[i]]
      /\ SubSeq(Parsed(Moves), 1, Len(passed)) = [i \in 1..Len(passed) |-> Parsed(Moves)[i]]
  BY <1>4
<1>6. passed[n + 1] = Parsed(Moves)[n + 1]
  BY <1>4, <1>5
<1> QED
  BY <1>2, <1>4, <1>6 DEF n

\* ... and once the reader is through and the queue is empty, all of it is done.
LEMMA NothingLeft ==
  ASSUME PacmanAssumption, IInv, pc["executor"] # "process", queue = <<>>,
         next_line = Len(Moves) + 1
  PROVE  Len(executed) = Len(Parsed(Moves))
<1>1. executed \in Seq(Kept) /\ InHand = <<>>
  BY DEF IInv, Order, InHand
<1>2. executed \o InHand \o queue = executed
  BY <1>1, ConcatEmptySeq
<1>3. next_line > Len(Moves)
  BY PacmanAssumption DEF PacmanAssumption
<1> QED
  BY <1>2, <1>3, PassedIsPrefix

\* P1's variables keep their types, and no move leaves the maze.
THEOREM TypeCorrect == Spec => []TypeOK
<1>1. IInv => TypeOK
  BY DEF IInv
<1> QED
  BY <1>1, Invariance, PTL

\* queue_push and queue_pop: the executor does not sleep in sem_wait over an
\* instruction that has been announced.
THEOREM NoSleepOverTheQueue == Spec => []TokensCoverQueue
<1>1. IInv => TokensCoverQueue
  BY DEF IInv, Tokens
<1> QED
  BY <1>1, Invariance, PTL

\* queue_pop gives a turn up in sem_wait only when nothing more will come.
THEOREM NoTurnLostToAnEmptyQueue == Spec => []EmptyPopOnlyAtEnd
<1>1. IInv => EmptyPopOnlyAtEnd
  BY EmptyAtEnd
<1> QED
  BY <1>1, Invariance, PTL

\* The answer P0 takes from sem_done is for a position that is published.
THEOREM AnswerIsSettled == Spec => []AnswerAfterPublication
<1>1. IInv => AnswerAfterPublication
  BY Answer DEF AnswerAfterPublication
<1> QED
  BY <1>1, Invariance, PTL

\* P1 never plays more instructions than it was granted turns.
THEOREM InstructionsArePaid == Spec => []OneInstructionPerTurn
<1>1. IInv => OneInstructionPerTurn
  <2>1. SUFFICES ASSUME IInv
                 PROVE  OneInstructionPerTurn
    OBVIOUS
  <2>2. /\ Len(executed) \in Nat /\ turns \in Nat /\ CleanupTurn \in {0, 1}
        /\ Len(executed) + (IF pc["executor"] \in Playing THEN 1 ELSE 0) <= turns + CleanupTurn
    BY <2>1 DEF IInv, TypeOK, Labels, CleanupTurn, Cost
  <2>3. Len(InHand) = IF pc["executor"] = "process" THEN 1 ELSE 0
    BY DEF InHand
  <2> QED
    BY <2>2, <2>3 DEF OneInstructionPerTurn, Playing
<1> QED
  BY <1>1, Invariance, PTL

\* The two threads hand over the instructions of the file in their order.
THEOREM FileIsPlayedInOrder == Spec => []OrderKept
<1>1. IInv => OrderKept
  BY PassedIsPrefix, PacmanAssumption DEF OrderKept
<1> QED
  BY <1>1, Invariance, PTL

\* pacman_publisher_thread: P2 sees Pac-Man move by one cell at a time.
THEOREM PublicationsAreSteps == Spec => PublishedStepByStep
<1>1. ASSUME IInv, [Next]_game_vars
      PROVE  [Distance(pacman_at', pacman_at) <= 1]_pacman_at
  <2>1. pacman_at' = pacman_at \/ PublisherStores
    <3>1. TypeOK /\ Labels
      BY <1>1 DEF IInv
    <3>2. CASE Reader \/ Executor
      BY <3>1, <3>2, ReaderFrame, ExecutorFrame DEF out_vars
    <3>3. CASE Publisher
      BY <3>3 DEF Publisher, PublisherAwaitsRequest, PublisherReadsGameOver, PublisherCopies,
                  PublisherAnswers, out_vars
    <3>4. CASE MainSteps
      BY <3>1, <3>4, MainFrame DEF out_vars
    <3>5. CASE P0 \/ P0Fails \/ UNCHANGED game_vars
      BY <3>5, P0Frame DEF game_vars, vars, out_vars
    <3> QED
      BY <1>1, <3>2, <3>3, <3>4, <3>5, StepCases
  <2>2. CASE PublisherStores
    <3>1. pc["publisher"] = "store" /\ pacman_at' = snapshot
      BY <2>2 DEF PublisherStores, At
    <3>2. snapshot = local_at /\ Distance(local_at, pacman_at) <= 1
      BY <1>1, <3>1 DEF IInv, Positions, Whole
    <3> QED
      BY <3>1, <3>2
  <2> QED
    BY <2>1, <2>2
<1> QED
  BY <1>1, Invariance, PTL DEF Spec, PublishedStepByStep
=============================================================================
