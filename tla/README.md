# Pac-Man POSIX: specification, model checking and proofs

The program is a game played by three processes in shared memory. P0 counts
ticks and grants one turn per tick, to Pac-Man (P1) or to the ghosts (P2),
through POSIX semaphores. Each process runs several threads. There is no
busy-waiting and no timeout anywhere: every hand-over is a semaphore or a
condition variable, so one lost signal stops the game for ever, and one extra
signal lets a thread run out of turn.

This directory models that protocol in TLA+, with what main() does before and
after it, checks it with TLC and proves the safety of each process, and of the three
together, with TLAPS. Paths such as `scheduler.c:484` are relative to `src/src/`, those that
begin with `docs/` to `src/`.

## 1. Inventory of the system

| Component | Source | State it keeps | Operations | Modelled in |
|---|---|---|---|---|
| P0 scheduler | `scheduler.c` | `SchedulerRuntime` (flags, selected process), `Scheduler` (last round robin, last tick charged) | `scheduler_run` with the tick, scheduler, signal and collision threads; `scheduler_request_shutdown` | `Scheduler`, `ScheduledGame` |
| P1 Pac-Man | `pacman.c` | instruction queue, local position, `available`, `publish_requested` | `pacman_process_run` with the reader, executor and publisher threads | `PacmanProcess`, `PacmanGame` |
| P2 enemies | `enemy.c` | ghosts and their instructions, tracked Pac-Man, `should_stop`, helper semaphores | `enemy_process_run` with the controller, four ghosts, tracker and collision threads | `EnemyProcess`, `EnemyGame` |
| Shared memory | `shared.c`, `include/shared.h` | `shared_state_t`: clock, lives, positions, priorities and their mailboxes, collision event, four semaphores, three mutexes; the name of the object | create, initialise, release | `Lifecycle` (resources), `Inputs` (contents), `SchedulerInit` |
| Process management | `processes.c` | the two pids | `processes_start` (fork), `processes_wait` | `Lifecycle`, `WaitChildren` of `Scheduler` |
| Main program | `main.c` | none that outlives it | load, create, start, run, wait, release | `Lifecycle`; arguments in `Inputs`; from `scheduler_run` on, in `Scheduler` |
| Map loader | `map.c` | `Map` | load and validate a map | `Inputs` |
| Movement files | `movement.c` | a count | validate a file | `Inputs` |

How they interact:

* P0 -> child: `sem_pacman_turn`, `sem_enemy_turn` (one post is one turn), and
  `game_over`, which a child reads after it has taken its turn.
* child -> P0: `sem_p1_done`, `sem_p2_done` (one post is one answer); the two
  mailboxes `pending_priority` / `request_active`; from P2, the collision event.
* P1 -> P2: the published position of Pac-Man, through shared memory.
* Inside P0: five threads, counting main, over one mutex, four condition
  variables and six flags.
* Inside P1: a queue with a counting semaphore, and a semaphore that starts the
  publisher.
* Inside P2: a pair of semaphores per helper thread.
* files -> everything: main() checks `map.txt` and the five movement files; the
  children read the movement files a second time, with parsers of their own.
* run -> run: every run of the program uses the one name `PACMAN_SHARED_NAME`.

What is hard, and what makes each component correct:

* **P0.** Four threads pass a tick around. A flag must not be reset before it is
  seen, nor seen twice; a wakeup may be spurious; a thread may fail at any call
  while the others sleep. Correct means: one thread at a time owns the tick, one
  turn exists at a time, the turn goes to the process with the higher priority,
  a collision costs exactly one life and is paid before the next tick, the game
  is over only between turns, and the program always ends.
* **P1.** `queue_pop` looks at the semaphore, at `reader_done` and at the queue in
  three separate steps while the reader pushes. Correct means: no instruction is
  lost, repeated or reordered, one instruction per turn at most, a turn is
  answered even when the file is exhausted, and the answer comes after the
  publication.
* **P2.** The controller starts six helpers and waits for them. Correct means:
  nothing moves while the detector compares, the verdict is exact, each ghost
  acts once per turn, no semaphore is left raised for the next turn.
* **Input.** `fgets` cuts long lines, numbers are `long` before they are `int`, and two
  parsers read the movement files. Correct means: what starts is what the files say,
  and everything else is refused.
* **Life cycle.** Eleven exits of main(), each with its own list of what to release.
  Correct means: nothing is released twice, too early or not at all, and a run that is
  killed does not spoil the next.
* **Failures.** The start of each process, its files, and P0's calls may fail.
  Correct means that nobody is then left waiting. Section 5 shows where the code
  falls short.

`PROJECT.json` lists each of these hazards at its line.

## 2. Modules

```
TurnGame                 what P0 promises, without threads
   ^ implemented by (ScheduledGameRefinement)
ScheduledGame            P0 + its two children as P0 sees them
   |  EXTENDS Scheduler            the threads of P0 and main()
   ^ EXTENDED by ScheduledGameProofs         theorems
   ^ implemented by
PacmanPosix              Scheduler + PacmanProcess + EnemyProcess  <- MCPacmanPosix
   |  EXTENDED by PacmanPosixProofs          theorems about the composition
   | implements
   v
GameRules                the game as the files define it, one step per tick
   (that PacmanPosix implements it: GameRulesProofs)

Instructions             instructions, parsing, the maze and its moves
   ^ EXTENDED by
PacmanProcess  <- PacmanGame  <- MCPacmanGame      P1, closed with P0
EnemyProcess   <- EnemyGame   <- MCEnemyGame       P2, closed with P0 and P1

Lifecycle      <- MCLifecycle      main(), shared memory, fork and wait, several runs
Inputs         <- MCInputs         arguments, environment, map and movement files
```

The theorems about a module stand in a module of their own that extends it:
`ScheduledGameProofs` (which extends `ScheduledGameRefinement`, for the safety part of the
refinement), `PacmanGameProofs`, `EnemyGameProofs`, `LifecycleProofs`, `InputsProofs`,
`PacmanPosixProofs`, `GameRulesProofs` (which extends the one before), and `InstructionsProofs`,
which has only lemmas.

**Grain.** An action is one critical section or one semaphore operation of one
thread, because no thread of the program ever holds two mutexes and all shared
data is read and written under its mutex. (One exception is made smaller on
purpose: the tracker of P2 reads the position under one mutex and stores it
under another in a single action, `TrackPacman`; it is the only writer of the
copy, and the only reader waits for it.) A program counter per thread says which
section comes next. Local variables that survive from one section to the next
(`choice`, `dispatched`, `saw_game_over`, `held`, `snapshot`, `seen_*`) are state.

**Data.** Flags that are 0 or 1 in C are sets of raised flags. The two priorities,
the two mailboxes and the four semaphores are functions of the process. An
instruction is a record. `pthread_cond_wait` is the set `asleep`: a wait adds the
thread to it and a signal, a broadcast or a spurious wakeup takes it out; the loop
around the wait is `AwaitFlag`.

**Scheduler / ScheduledGame.** `TickThread`, `SchedulerThread`, `SignalThread` and
`CollisionThread` are the bodies of the four thread functions; `MainThread` is
`scheduler_run`, `scheduler_request_shutdown` and the rest of `main()`. In
`Failure` are a failing `runtime_init` or `pthread_create` (`ResourcesMayFail`), a
failing mutex, condition or semaphore call in any thread, which leads to
`runtime_mark_error` (`CallsMayFail`), and spurious wakeups (always allowed).
`ScheduledGame` adds the children: idle, woken, playing, reported (P2 only), gone.
A playing child may write its mailbox any number of times, P2 may publish a
collision, and P1 drops its turn when it finds `game_over` in the middle of it.

**TurnGame** is the game without machinery: a tick opens, the turn is granted, the
turn is answered, a collision is paid, the tick is settled. `MayAbort` lets it give
up when the program cannot start.

**PacmanProcess, EnemyProcess** have every thread of the child and its main
thread, with the cleanup path that runs when a thread cannot be created.
`PacmanGame` and `EnemyGame` close each with the other side of its semaphores: P0
posts a turn, waits for the answer, sets `game_over` between turns and posts once
more, or (`P0MayFail`) sets it in the middle of a turn and posts twice, which is
what `ScheduledGame` shows P0 to do. In `EnemyGame`, P1 has moved to any open cell
between two enemy turns.

**PacmanPosix** is the program: P0's module extended, P1's and P2's instantiated, the
fields of `shared_state_t` shared by name. `AsSeenByP0` maps the threads of P1 and P2 to
the five stages of a child in `ScheduledGame`; the property `ChildrenAsAssumed` is that
specification, so whatever is checked or proved of `ScheduledGame` holds of the program.
The history variable `settled` is the game as it stands each time the collision thread
closes a tick; `PlaysByTheRules` is the specification of **GameRules** over it. `GameRules`
knows no thread and no semaphore: the turn goes by priority or alternately, Pac-Man or all
the ghosts carry out their next line, and a life is lost when an *enemy* turn ends with a
ghost on Pac-Man. It leaves two choices open, because the program does: which of several
requests in one enemy turn counts, and a single turn Pac-Man may miss while its file is
being read (both are findings below). P0's own failures and spurious wakeups are left to
`ScheduledGame`, which allows any children.

**Lifecycle** has one action per system call of main(), `shared.c` and `processes.c` that
can fail or that somebody else can observe. `held` counts how often each resource (map,
descriptor, mapping, each mutex and semaphore) has been acquired, so that a second release
shows as a negative count. The name of the shared memory object is one variable for all
runs: a run may find, remove or be robbed of the name of another, and a run may be killed.
The children are inherited memory and an exit status; the game is one step.

**Inputs** is the way of the input from the files to the shared memory: `Rest`, `Whole` and
`Piece` are what `fgets` returns, `ReadRow` one round of the loop of `map_load`,
`Found` and `EntitiesValid` the registration of the players, `parse_instruction` the second
reading of a movement file by a child. `WellFormed` at its end is the reference: the same
input described without buffers. A number is its value and its form, because `strtol` takes
signs and leading spaces and `is_digits` does not.

**Instructions** has what P1 and P2 both implement: which lines are parsed, what a
move does at a wall or at an edge.

## 3. Runs

Expected to pass, deadlock included unless said otherwise:

| Run | Distinct states | Shows |
|---|---|---|
| `p0` | 90,378 | the eight safety invariants of P0 and `Termination`, with every failure and spurious wakeup |
| `p0_refinement` | 17,974 | P0 implements `TurnGame`, its liveness included (threads and `runtime_init` may fail to start, running threads make no failing call) |
| `p1` | 55,923 | the queue and the publication of P1, its answers and its end, with input, start and P0 failing |
| `p2` | 443,977 | the verdict, the ghosts and the semaphores of P2, its answers and its end, with input, start and P0 failing |
| `game` | 488,719 | the three processes together: they play by the rules, act only in their turns, are the children P0 expects, and end |
| `lifecycle` | 265,585 | two runs with one name: nothing is left, released twice or shared, with calls and children failing and P0 killed |
| `inputs` | 151,929 (12,360 inputs) | what main() accepts, and that the game starts from what the files say |

Deadlock is not checked in `p1` and `p2`: a failed start makes the child stop for ever (that
is the subject of the runs `zombie` and `p2_startup`), and their liveness properties are
conditional on the start. Section 5 lists the runs that find a violation.

What the properties say, beyond their types:

* `OneBaton`: of the threads at work and the flags pending, at most one carries
  the tick. The resets in `TickOpens` therefore never destroy a flag that somebody
  has yet to see.
* `TurnExclusive`: until the shutdown at most one turn exists, in whatever form
  (posted, being played, answered); while the signal thread waits, exactly one, for
  the process it waits for.
* `NoTurnInterrupted`: unless a call fails, `game_over` is never set while a child
  plays. The publisher of P1 relies on this (`pacman.c:564`).
* `EventFresh`, `TickOpensSettled`: `last_processed_collision_tick` never discards
  an event that should be charged, and a tick opens with nothing left over.
* `DispatchRespectsPriority`: applying the requests, selecting and posting are
  separate sections, yet no request slips in between.
* `StoppedForAReason`: success means that every life or every tick is spent and
  every collision was charged.
* `OrderKept`, `TokensCoverQueue`, `EmptyPopOnlyAtEnd`: P1's queue across its steps.
* `AnswerAfterPublication`, `PublishedStepByStep`: what P0 and P2 can see of P1.
* `CollisionExact`: with the answer of P2 comes the event of this tick and of the
  first ghost on the cell of Pac-Man, if and only if there is one.
* `OneInstructionPerTurn`: P1 carries out no more instructions than it has turns. One turn
  is its own: after a failed `pthread_create` the cleanup path posts `sem_pacman_turn`
  (`pacman.c:698`) before `game_over` is set, and the executor may play it. The property
  counts that turn, which `docs/ARCHITECTURE.md:67` does not mention.
* `DetectorSeesSettledMaze`, `GhostsKeepStep`, `NoTokenLeft`: the fork and join of P2.
* `ActsOnlyInItsTurn`: no thread of P1 or P2 moves a player, requests a priority or publishes
  but in a turn P0 has granted to its process and still waits for.
* `ChildrenAsAssumed`, `PlaysByTheRules`: see `PacmanPosix` above.
* `NothingLeft`, `SyncOutlivesChildren`: main() releases everything on every path, and its
  synchronisation objects only after the last child has gone.
* `OwnMemory`, `NameHasOwner`: two runs never play in one object, however often they remove
  each other's name; a name outlives its run only when that run was killed or the system
  refused.
* `SuccessMeansPlayed`: exit status 0 means that every step and both children succeeded.
* `AcceptsWellFormed`: the pieces `fgets` makes of a long line neither hide a mistake nor
  make one, and no number passes that does not fit. `StartsAsWritten`: rows are y, columns
  are x, every player is on its letter. `ChildrenFollowFiles`: the second reading of a
  movement file loses only priorities above 100.

**Bounds.** P0: three ticks, two lives, two priorities, two ghosts. Three ticks allow
a Round Robin alternation interrupted by a priority, two collisions that end the
game early, and a last tick reached without them; the code compares ticks for equality,
or with `max_ticks`, and never by how far apart they are. P1: five lines, one for each kind (into a wall,
open, out of the maze, a valid request, one that is out of range), in a maze of 2 x 3
cells, and five turns, one more than there are valid lines, so that the empty file
occurs. P2: two ghosts with files of different length (three and two valid lines, the second with a move out of the maze),
three turns, and Pac-Man at any open cell; two ghosts are enough to meet Pac-Man
together, to finish in either order and to differ in one having no instructions.
`MaxTurns` bounds the environment only and never P1 or P2.
The whole program: three ticks, two lives, two priorities, two ghosts in a maze of 2 x 3, so
that both processes get turns in either order, ties alternate, a request changes the next
tick, and a collision can follow a turn of either. The life cycle: two runs, enough for one to
remove, replace or inherit the name of the other; each runs once, so a restart after a crash
is the second run starting after the first. The input: a buffer of four characters, a map of
two rows and columns, one ghost, `INT_MAX` 127 and `LONG_MAX` 255, which keep the order of the
real limits (a full row and its line ending fit into the buffer; priorities fit into an
`int`); lines up to twice the buffer, rows beyond the limit, and numbers at each limit and one
beyond it.

**Fairness.** Weak fairness of each thread: the scheduler of the operating system
runs a thread that can run. A thread blocked on a semaphore or in `pthread_cond_wait`
is not enabled, so nothing is assumed of it. In `ScheduledGame` a child does not stay
in a turn for ever (that is `TurnAnswered` in the runs of P1 and P2, where it is
checked); a request, a collision, a failure and a spurious wakeup are never forced.
In `PacmanPosix` weak fairness per process is enough, because no thread can go on for ever
without the others. In `Lifecycle` a run goes on, and a child that finds `game_over` ends;
`scheduler_run` need not return once a child has gone (that it does not is the finding
`zombie`). In `PacmanGame` and `EnemyGame` weak fairness of P0 says that it takes its answers and
at some point ends the game, which is `Termination` of `p0`.

## 4. Proofs

Every theorem holds for all values of the constants that satisfy the named assumption of the
module; TLC evaluates that assumption on each run.

| Assumption | Says | Because |
|---|---|---|
| `SchedulerAssumption` | at least one tick and one life, priorities within 0..100 | `parse_max_ticks` and `shared.h`; a child validates a priority before it writes it |
| `MazeAssumption` | the walls are cells of the map | `map_load` stores a row only within its size |
| `PacmanAssumption`, `EnemyAssumption` | the players start on open cells, at least one ghost, and the files hold lines the validator of main() accepts | `map_load` registers a player where its character stands; `main()` rejects a file before it forks |
| `ProgramAssumption` | a model value is not a run | |
| `InputsAssumption` | a full row of the shared memory with CR LF fits in the buffer; 100 is an `int`, and every `int` is a `long` | `line[4096]` and `PACMAN_MAX_MAP_COLS`; C |
| `CasesAssumption` | bare digits are no negative number; a last line without a newline is not empty | what a text file is |
| `PosixAssumption` | the four above for the whole program, and that a valid request of a file is among the priorities in use | as above |

### P0: ScheduledGameProofs

For every number of ticks, lives and ghosts, every set of priorities and either value of the
failure switches, all safety invariants of the run `p0` are invariants of `Spec`:

| Theorem | Property |
|---|---|
| `TypeCorrect` | `TypeOK` |
| `BatonUnique` | `OneBaton` |
| `OneTurnAtATime` | `TurnExclusive` |
| `PriorityRespected` | `DispatchRespectsPriority` |
| `NoEventDiscarded` | `EventFresh` |
| `TicksSettled` | `TickOpensSettled` |
| `TurnsComplete` | `NoTurnInterrupted` |
| `SuccessHasAReason` | `StoppedForAReason` |

None of these is inductive by itself. `IInv` (theorem `Invariance`) adds what each
needs from the others:

* `Creation`, `Joined`: which threads exist. Without them a thread could be created with
  a flag already raised, or run during the shutdown.
* `OverAtEnd`: before the shutdown `game_over` comes true only between the end of the turn
  and the end of its tick; with `OneBaton` this gives `NoTurnInterrupted`.
* `Orphaned`: a signal thread that fails may leave a turn behind. Then an error is marked
  and nobody carries the baton, so no second turn is posted.
* `QuietShutdown`: unless a call failed, the turns posted by the shutdown find `game_over`
  and nobody plays them.
* `Charges`: while P2 may still publish, the tick has not been charged; once the collision
  thread has consumed the event, there is none.
* `Selection`: between the selection and the post, the flag carries a choice that is still
  the right one, because no child holds a turn in which it could ask for another.
* `Ending`: whatever makes a thread stop, other than the end of the game, is recorded as
  an error.

The proof has one lemma per part (`OneBatonStep`, `TurnExclusiveStep`, ...), each with one
step per group of actions and under it one step per action that disturbs the part. `InvStep`
puts them together. Two sets of lemmas are used throughout: `Awaited` and its four instances
say what a wait may do, and `CustodyKept`, `CustodyPosted` and so on say how an action changes
the number of turns that exist.

### P0 implements TurnGame: the last part of ScheduledGameProofs

`PlaysTheTurnGame`: if no call of a running thread fails, `Spec => Abstract!Spec`, which is the
safety part of the property `ImplementsTurnGame`. (Creations may fail: the abstract game
may give up before it begins.) The refinement mapping reads the phase of the
tick off the place of the baton, so `OneBaton` is what makes it a function; a step of a thread
is then the abstract step that ends its phase, or invisible. Two facts are added to
`IInv`: `Unfailing` (no thread has marked an error, and spent lives end the game in the same
critical section, so the abstract game need never settle a tick without lives), and
`PlayerHolds` (the child that plays is the one the turn was granted to). That the game also goes
on is liveness and stays with TLC.

### P1: PacmanGameProofs

For every maze, every file and every number of turns, whether or not P0 or P1's own start fails:

| Theorem | Property |
|---|---|
| `TypeCorrect` | `TypeOK` |
| `NoSleepOverTheQueue` | `TokensCoverQueue` |
| `NoTurnLostToAnEmptyQueue` | `EmptyPopOnlyAtEnd` |
| `AnswerIsSettled` | `AnswerAfterPublication` |
| `InstructionsArePaid` | `OneInstructionPerTurn` |
| `FileIsPlayedInOrder` | `OrderKept` |
| `PublicationsAreSteps` | `PublishedStepByStep` |

`IInv` counts. `Tokens`: until the reader is done, `available` plus the tokens on their way is
exactly the length of the queue; `TokensCoverQueue`, the inequality that the property needs, is
not kept by a step of the reader that ends in between. `Turn`: the turn posted, held by the
executor, requested from the publisher, held by the publisher or answered adds up to one while P0
waits. `Positions` follows the position through its three copies (`local_at`, `snapshot`,
`pacman_at`). `Cost` pays an instruction with a turn before the turn is spent, and `Order` is the
equation between what was played, is held, is queued and what the reader has parsed. `Turn` and
`Positions` are claimed only while all threads exist (`Whole`): the cleanup path of a failed start
posts a turn of its own. That a move stays in the maze is `MovedStaysOpen` in `InstructionsProofs`,
whose lemma about `ParsedUpTo` goes by induction on the lines, with the smallest counterexample
instead of the induction theorem.

### P2: EnemyGameProofs

For every maze, every number of ghosts and every file, whether or not P0, P2's start or a load
fails:

| Theorem | Property |
|---|---|
| `TypeCorrect` | `TypeOK` |
| `NoTokenIsLeft` | `NoTokenLeft` |
| `MazeIsSettled` | `DetectorSeesSettledMaze` |
| `CollisionIsExact` | `CollisionExact` |
| `GhostsAreInStep` | `GhostsKeepStep` |

The books of P2 (`GhostTokens`, `TrackerTokens`, `DetectorTokens`: one token for each helper the
controller has posted and not awaited) are exact only as long as no stop is requested and no
creation has failed (`Sound`). The theorems have no such hypothesis: a stop that comes
early takes away a ghost the controller needs, so that no answer can follow (`Stops`: some ghost
is `Mute` and the controller has not been through its loop for it), and one that comes at
the end comes when the controller has left its loop. `Tracked`, `Copies` and `Verdict` follow the
positions from the tracker's copy to the detector's verdict; `Steps` counts the instructions each
ghost has taken against the turns granted.

### The life cycle: LifecycleProofs

For any number of runs under one name, every call that may fail and every moment P0 may be killed:

| Theorem | Property |
|---|---|
| `TypeCorrect` | `TypeOK` |
| `NothingIsLeft` | `NothingLeft` |
| `SyncIsKept` | `SyncOutlivesChildren` |
| `MemoryIsOwn` | `OwnMemory` |
| `NameIsOwned` | `NameHasOwner` |
| `SuccessIsEarned` | `SuccessMeansPlayed` |

The inductive invariant says for each label of `main()` exactly which resources are held
(`Holdings`): each failure leaves by a `goto` into the path of success, and it must arrive there
with what that path has at that place. `HoldEffect` is the lemma behind all of it: what is acquired
was free and what is released was held.

### The three processes together: PacmanPosixProofs

`ScheduledGame`, `PacmanGame` and `EnemyGame` each assume something of the other side of their
semaphores. These theorems discharge the assumptions: for every maze, every set of files and
every number of ticks, ghosts and lives,

| Theorem | Property |
|---|---|
| `ChildrenAreAsAssumed` | `ChildrenAsAssumed` |
| `ChildrenActInTurn` | `ActsOnlyInItsTurn` |

Their one hypothesis is `~PacmanMayFail`: the `context_init` and the `pthread_create` of P1
succeed. Without it both are false. The cleanup path of P1 posts a turn that P0 has not
granted (`pacman.c:698`), and a P1 that ends early never answers the one it was granted.

The argument is circular in appearance: P0 is well-behaved if its children are, and they are if
P0 is. It is resolved by carrying the three inductive invariants along at once. Each closed
specification is a *view* of the program (`G0`, `G1` and `G2` are instances of the three proof
modules): P0 sees a stage of each child, P1 and P2 see a P0 that is `ready`, `waiting`, about to
post for the last time or waiting for the process. A step of one process is a step of its own
view, and in the other two a step of the environment or none (`SchedulerStep`, `PacmanStep`,
`EnemyStep`); the invariant of each view is then kept by the step lemma already proved of it. Two
views are finer than what is in memory. For P2 the turn lasts until the collision thread has
consumed the event, later than P0 has taken the answer, so its answer is counted twice as long
(`AnswersSeen`); and P2's tick is the one of the turn posted, not the one being opened
(`TickSeen`).

The joint invariant adds what none of the three can see: `Count` (the tick counted is the number
of ticks closed, and one if a tick is open; it bounds the turns of P1 and P2 by `MaxTicks`),
`Quiet` (no turn is out when `game_over` is set), `PacmanWhole` and `EnemyWhole` (a child that has
exited has joined every thread, and once the game is over none of its threads plays).

### The program plays by the rules: GameRulesProofs

| Theorem | Property |
|---|---|
| `ProgramPlaysByTheRules` | `PlaysByTheRules` |

This is the refinement of the whole: every step of the three processes is a step of `GameRules`
(when the collision thread closes a tick) or none, for every maze, every set of files, any number
of ghosts, ticks and lives, and whatever the interleaving; the hypothesis is again that P1 can
start. `GameRules` takes one step where the program takes some fifty, by six groups of threads, so
the inductive invariant `RulesInv` adds to the joint invariant of `PacmanPosixProofs` what the
program has changed *so far* since the last closed tick:

* `Requests`: the mailboxes hold what was asked in the last tick until they are applied; from then
  on `prioridad` is what the rules make of it, and the process chosen (`Choice`, wherever it is
  held at the moment) is one the rules grant the turn to.
* `PacmanPart`: in its own turn Pac-Man either is not done (`PacmanUndone`), or has carried out the
  next line of its file and nothing else (`Played`), or has given the turn up (`GivenUp`); the
  position in memory follows before the answer can be taken.
* `ReadToTheEnd`: Pac-Man misses a turn at most once. A turn is given up only when the reader is
  done; by then every line is in the queue, with its token, so that from the next turn on an empty
  queue means that no line is left. This is where the token counts of `PacmanGameProofs` are needed.
* `GhostsPart`: each ghost that has played (`~Yet(g)`) has carried out its line, each other stands
  where it stood; and the mailbox holds the request of one of those that have asked (`GhostsAsk`),
  whichever wrote last.
* `Lives`: a life less exactly when the tick was the ghosts' and one of them stands on Pac-Man.
  That the event P0 consumes says so is `CollisionExact` of P2, at the moment of the answer.

There is one lemma for each handler of P0 (`Applies`, `Selects`, `HandOver`, `Posts`, `Takes`,
`LivesCharged`, `TickIsClosed`), `RulesAtPacman` and `RulesAtEnemy` for the children, and
`StepOfTheRules` for the step itself. What they need of P1 and P2 is proved in the modules of
those: the line in hand is the next one of the file (`HeldIsNext`, `HeldByGhost`), a ghost has its
turn to play until it has carried out its line (`PendingStep`), and at the answer all have
(`AnsweredIsDone`).

### The input: InputsProofs

For every case and every value of the sizes (the buffer of `fgets`, the shared memory, `INT_MAX`,
`LONG_MAX`), with any call failing:

| Theorem | Property |
|---|---|
| `WellFormedIsAccepted` | `AcceptsWellFormed` |
| `GameIsAsWritten` | `StartsAsWritten` |
| `ChildrenReadTheSame` | `ChildrenFollowFiles` |

Only the first two need an induction, over the rounds of the loop of `map_load`. `IInv` (theorem
`Invariance`) says in `ReadSoFar` that one of three things holds:

* `Straight`: the rows are the lines before the next one, stripped. A round that reads a whole
  line keeps this (`WholeRow`), and a row it refuses is a mistake of the map (`RefusedRow`).
* The map is not well formed, and what has been read is too wide for the shared memory (`Wide`) or
  some line is `Padded`. The first piece of a line that does not fit in the buffer leads here
  (`LongRow`): without a CR the piece is a full buffer, so it is wider than a row may be. The width
  of the first row never changes again, so that the error is found at the latest by
  `copy_map_to_shared`, though no check of `map_load` has noticed it.
* `Stuck`: a row was filled up with CRs beyond the buffer. The map may be well formed, but only
  CRs are left of the line, and the next round refuses them as an empty row (`StuckIsRefused`). This
  is why `AcceptsWellFormed` leaves such lines out.

`strip_line_ending` keeps the shortest beginning of a line behind which there are only CRs; that it
exists is `LeastNumber` of `InstructionsProofs`. Of the later checks the proof shows that each
refuses what `WellFormed` excludes (`EntitiesAgree`, `FilesAgree`, `NumbersAgree`,
`EnvironmentAgrees`), and that a number within its range survives the conversion to `int`
(`IntKeeps`). For the children no induction is needed: the two recursions, that of
`parse_instruction` over the file and that of `Parsed` over what the file asks for, take the same
value at each line, so they define the same function (`ChildrenRead`).

### Not proved

* Liveness under fairness: `Termination`, `TurnAnswered`, `EveryTurnAnswered`, `EndsAfterGameOver`
  and the fair half of `ImplementsTurnGame`. TLAPS cannot do it; TLC checks it.
* The runs that expect a violation have nothing to prove.

TLC finds no violation of the inductive invariants on the instances of the runs.

## 5. Where the code and its documents part

Each is a run that is expected to find a violation.

| Run | Property | What happens |
|---|---|---|
| `p1_wasted_turn` | `TurnWastedOnlyWhenEmpty` | `queue_pop` reads `reader_done` after `sem_trywait` failed. If the reader pushes and finishes in between, the turn is given up with instructions in the queue (`pacman.c:274-289`). |
| `p2_load_failure` | `EveryTurnAnswered` | A ghost that cannot load its file leaves without answering; the controller, and P0, wait for ever (`enemy.c:491`). |
| `p2_startup` | `EndsAfterGameOver` | When P2 fails to start its ghosts are stopped first and the controller is woken next; it starts a turn and waits for ghosts that are gone (`enemy.c:886-890`). |
| `p2_two_requests` | `RequestsReachP0` | The ghosts share one mailbox: of two requests in a turn P0 sees one (`enemy.c:384`). |
| `zombie` | `NoZombie` | When P1 cannot start, it ends without posting `sem_p1_done` (`pacman.c:673`); P0 waits for the answer (`scheduler.c:149`) and never for the process, which stays a zombie (`docs/TEST_PLAN.md:193`). |

Two more observations, without a run. A line of `map.txt` whose carriage returns fill the
buffer of 4096 characters (`A`, thousands of CR, `P`) is read as two rows, because
`strip_line_ending` takes the CRs at the end of each piece; `AcceptsWellFormed` excludes such
lines (`Padded`). And an executor of P1 that takes an error path posts `publish_requested`
with `game_over` still 0: the publisher answers once and then waits for ever, so that the next
turn is not answered and P1 is not joined.

The passing liveness runs are therefore conditional: they hold when the threads of a
child can be created, and, for P2, when its files can be loaded.

## 6. Not modelled

* What is printed, and `scheduler_run_dry`, which has no caller.
* Failing mutex, condition and semaphore calls inside P1 and P2. On an initialised object, and
  with `EINTR` retried as the code does, POSIX gives them no reason to fail.
* In P0: a failure inside `runtime_request_shutdown` or `runtime_mark_error`, a failure in
  the main thread's own `set_game_over` and posts, and a failing unlock that would leave a
  mutex held.
* A child that is killed in the middle of a turn: it may hold a mutex of the shared memory, and
  nothing in the code deals with that. A child that ends by itself is in `zombie`, one that is
  killed at any other time in `Lifecycle`.
* In the input: paths that are too long, NUL characters, and lines of a movement file longer
  than the buffer. A failing `waitpid`.
* The scores, which nothing changes.

## 7. Plan

Done: `TurnGame`, `Scheduler`, `ScheduledGame` with its refinement and proofs, `Instructions`,
`PacmanProcess`/`PacmanGame`, `EnemyProcess`/`EnemyGame`, `GameRules`, `PacmanPosix`, `Lifecycle`,
`Inputs`.

The safety invariants of `ScheduledGame`, `PacmanGame`, `EnemyGame`, `Lifecycle`, `PacmanPosix`
and `Inputs`, the safety part of `ScheduledGame => TurnGame`, the composition of the three processes
and its `PlaysByTheRules` are theorems: nothing of the plan is left.
