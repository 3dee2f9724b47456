----------------------------- MODULE Lifecycle -----------------------------
(***************************************************************************)
(* One run of the program from main() to its exit: what it acquires, the   *)
(* two children, and what it releases on every path, whichever call fails. *)
(* Several runs of the program use the one name of the shared memory       *)
(* object, at the same time or one after another; a run may be killed.     *)
(*                                                                         *)
(* An action is one system call that another run or a child can observe,   *)
(* with the local work around it.  What the game does between the forks    *)
(* and the wait is scheduler_run, here one step (module ScheduledGame).    *)
(***************************************************************************)
EXTENDS Integers, Sequences, SequencesExt

CONSTANTS
  Program,     \* runs of the program
  None,        \* no run
  MayFail,     \* may a call, or a child, fail?
  MayCrash     \* may P0 be killed?

ASSUME ProgramAssumption ==
  /\ None \notin Program
  /\ MayFail \in BOOLEAN /\ MayCrash \in BOOLEAN

VARIABLES
  name,              \* the run whose object PACMAN_SHARED_NAME names
  pc, status,        \* main(): where it is, and the result so far
  held,              \* how often each resource has been acquired
  object,            \* the object fd refers to, by the run that created it
  sync_initialized,  \* of SharedMemory
  game_over,         \* the objects whose game_over is set and turns posted
  child, reaped,     \* the children, and those waited for
  refused            \* history: what a failing call has not released

vars == <<name, pc, status, held, object, sync_initialized, game_over, child,
          reaped, refused>>

Child == {"pacman", "enemy"}
Mutexes    == <<"state_mutex", "priority_mutex", "collision_mutex">>
Semaphores == <<"sem_pacman_turn", "sem_enemy_turn", "sem_p1_done", "sem_p2_done">>
Sync     == Range(Mutexes) \cup Range(Semaphores)
Resource == {"map", "fd", "state"} \cup Sync

At(p, label)   == pc[p] = label
Goto(p, label) == pc' = [pc EXCEPT ![p] = label] /\ UNCHANGED status
Fails(p, label) == pc' = [pc EXCEPT ![p] = label]
                     /\ status' = [status EXCEPT ![p] = "error"]

CallFails(p, label) == MayFail /\ Fails(p, label)

\* Run p acquires the resources in got and releases those in gone.
Hold(p, got, gone) ==
  held' = [held EXCEPT ![p] = [r \in Resource |->
             @[r] + (IF r \in got THEN 1 ELSE 0) - (IF r \in gone THEN 1 ELSE 0)]]

First(n, order) == Range(SubSeq(order, 1, n))

-----------------------------------------------------------------------------
(* main(), before there is anything shared *)

\* argc and parse_max_ticks.
CheckArguments(p) ==
  /\ At(p, "arguments")
  /\ Goto(p, "load_map") \/ CallFails(p, "exit")
  /\ UNCHANGED <<name, held, object, sync_initialized, game_over, child,
                 reaped, refused>>

\* map_load leaves the rows it has read in the map, even when it fails.
LoadMap(p) ==
  /\ At(p, "load_map")
  /\ Hold(p, {"map"}, {})
  /\ Goto(p, "load_movements") \/ CallFails(p, "free_map")
  /\ UNCHANGED <<name, object, sync_initialized, game_over, child, reaped,
                 refused>>

LoadMovements(p) ==
  /\ At(p, "load_movements")
  /\ Goto(p, "unlink") \/ CallFails(p, "free_map")
  /\ UNCHANGED <<name, held, object, sync_initialized, game_over, child,
                 reaped, refused>>

-----------------------------------------------------------------------------
(* shared_memory_create *)

\* shm_unlink: a name left over from another run is no error (nor is none).
UnlinkLeftover(p) ==
  /\ At(p, "unlink")
  /\ \/ name' = None /\ Goto(p, "open")
     \/ CallFails(p, "free_map") /\ UNCHANGED name
  /\ UNCHANGED <<held, object, sync_initialized, game_over, child, reaped,
                 refused>>

\* Mutant: without O_EXCL the object of another run is opened.
Open_shared(p) ==
  /\ At(p, "open")
  /\ name' = IF name = None THEN p ELSE name
  /\ object' = [object EXCEPT ![p] = name']
  /\ Hold(p, {"fd"}, {})
  /\ Goto(p, "truncate")
  /\ UNCHANGED <<sync_initialized, game_over, child, reaped, refused>>

\* shm_open with O_CREAT and O_EXCL.
Open(p) ==
  /\ At(p, "open")
  /\ \/ /\ name = None
        /\ name' = p
        /\ object' = [object EXCEPT ![p] = p]
        /\ Hold(p, {"fd"}, {})
        /\ Goto(p, "truncate")
     \/ /\ name # None \/ MayFail
        /\ Fails(p, "free_map")
        /\ UNCHANGED <<name, object, held>>
  /\ UNCHANGED <<sync_initialized, game_over, child, reaped, refused>>

\* Mutant: the name is left when the object cannot be sized.
Truncate_no_release(p) ==
  /\ At(p, "truncate")
  /\ Goto(p, "mmap") \/ CallFails(p, "free_map")
  /\ UNCHANGED <<name, held, object, sync_initialized, game_over, child,
                 reaped, refused>>

Truncate(p) ==
  /\ At(p, "truncate")
  /\ Goto(p, "mmap") \/ CallFails(p, "release")
  /\ UNCHANGED <<name, held, object, sync_initialized, game_over, child,
                 reaped, refused>>

MapMemory(p) ==
  /\ At(p, "mmap")
  /\ \/ Goto(p, "fill") /\ Hold(p, {"state"}, {})
     \/ CallFails(p, "release") /\ UNCHANGED held
  /\ UNCHANGED <<name, object, sync_initialized, game_over, child, reaped,
                 refused>>

-----------------------------------------------------------------------------
(* shared_state_initialize *)

\* memset, the priorities of the environment, copy_map_to_shared and
\* copy_initial_positions; the map may be too large.
FillState(p) ==
  /\ At(p, "fill")
  /\ game_over' = game_over \ {object[p]}
  /\ Goto(p, "mutexes") \/ CallFails(p, "release")
  /\ UNCHANGED <<name, held, object, sync_initialized, child, reaped, refused>>

\* Mutant: the first mutex is not destroyed.
mutexes_undone_but_first(n) == IF n >= 2 THEN {"priority_mutex"} ELSE {}

\* What the label fail of initialize_mutexes destroys after n initialisations.
mutexes_undone(n) ==
  (IF n >= 2 THEN {"priority_mutex"} ELSE {})
    \cup (IF n >= 1 THEN {"state_mutex"} ELSE {})

initialize_mutexes(p) ==
  /\ At(p, "mutexes")
  /\ \/ Goto(p, "semaphores") /\ Hold(p, Range(Mutexes), {})
     \/ /\ CallFails(p, "release")
        /\ \E n \in 0..Len(Mutexes)-1 :
             Hold(p, First(n, Mutexes), mutexes_undone(n))
  /\ UNCHANGED <<name, object, sync_initialized, game_over, child, reaped,
                 refused>>

\* What the label fail of initialize_semaphores destroys.
semaphores_undone(n) ==
  (IF n >= 3 THEN {"sem_p1_done"} ELSE {})
    \cup (IF n >= 2 THEN {"sem_enemy_turn"} ELSE {})
    \cup (IF n >= 1 THEN {"sem_pacman_turn"} ELSE {})

\* initialize_semaphores; main() notes that all is initialised, or else
\* shared_state_initialize destroys the mutexes too.
initialize_semaphores(p) ==
  /\ At(p, "semaphores")
  /\ \/ /\ Goto(p, "fork_pacman") /\ Hold(p, Range(Semaphores), {})
        /\ sync_initialized' = [sync_initialized EXCEPT ![p] = TRUE]
     \/ /\ CallFails(p, "release")
        /\ \E n \in 0..Len(Semaphores)-1 :
             Hold(p, First(n, Semaphores), semaphores_undone(n) \cup Range(Mutexes))
        /\ UNCHANGED sync_initialized
  /\ UNCHANGED <<name, object, game_over, child, reaped, refused>>

-----------------------------------------------------------------------------
(* processes_start, scheduler_run, processes_wait *)

Fork(p, c, next) ==
  \/ /\ child' = [child EXCEPT ![p][c] = "running"]
     /\ Goto(p, next)
  \/ CallFails(p, "shutdown") /\ UNCHANGED child

processes_start(p) ==
  /\ \/ At(p, "fork_pacman") /\ Fork(p, "pacman", "fork_enemy")
     \/ At(p, "fork_enemy") /\ Fork(p, "enemy", "run")
  /\ UNCHANGED <<name, held, object, sync_initialized, game_over, reaped,
                 refused>>

\* The game: it ends with game_over and the children released, or in an error.
SchedulerRun(p) ==
  /\ At(p, "run")
  /\ \/ Goto(p, "wait_pacman") /\ game_over' = game_over \cup {object[p]}
     \/ CallFails(p, "shutdown") /\ UNCHANGED game_over
  /\ UNCHANGED <<name, held, object, sync_initialized, child, reaped, refused>>

\* Mutant: the children are not told.
RequestShutdown_silent(p) ==
  /\ At(p, "shutdown")
  /\ Goto(p, "wait_pacman")
  /\ UNCHANGED <<name, held, object, sync_initialized, game_over, child,
                 reaped, refused>>

\* scheduler_request_shutdown, which main() calls after an error.
RequestShutdown(p) ==
  /\ At(p, "shutdown")
  /\ game_over' = game_over \cup {object[p]}
  /\ Goto(p, "wait_pacman")
  /\ UNCHANGED <<name, held, object, sync_initialized, child, reaped, refused>>

\* Mutant: the exit status of a child is not looked at.
Wait_ignores_status(p, c, next) ==
  /\ child[p][c] # "running"
  /\ reaped' = [reaped EXCEPT ![p] = IF child[p][c] = "unborn" THEN @ ELSE @ \cup {c}]
  /\ Goto(p, next)

\* wait_one_child: there may be nothing to wait for.
Wait(p, c, next) ==
  \/ child[p][c] = "unborn" /\ Goto(p, next) /\ UNCHANGED reaped
  \/ /\ child[p][c] \in {"success", "failure"}
     /\ reaped' = [reaped EXCEPT ![p] = @ \cup {c}]
     /\ IF child[p][c] = "success" THEN Goto(p, next) ELSE Fails(p, next)

\* Mutant: P2 is not waited for when P1 was not in order.
processes_wait_gives_up(p) ==
  /\ \/ At(p, "wait_pacman")
          /\ Wait(p, "pacman", IF child[p]["pacman"] = "failure"
                                 THEN "release" ELSE "wait_enemy")
     \/ At(p, "wait_enemy") /\ Wait(p, "enemy", "release")
  /\ UNCHANGED <<name, held, object, sync_initialized, game_over, child, refused>>

processes_wait(p) ==
  /\ \/ At(p, "wait_pacman") /\ Wait(p, "pacman", "wait_enemy")
     \/ At(p, "wait_enemy") /\ Wait(p, "enemy", "release")
  /\ UNCHANGED <<name, held, object, sync_initialized, game_over, child, refused>>

-----------------------------------------------------------------------------
(* shared_memory_release, map_free *)

Acquired(p, r) == held[p][r] > 0

\* Mutant: sync_initialized is not looked at.
Detach_always_destroys(p) ==
  /\ At(p, "release")
  /\ LET open == {r \in {"fd", "state"} : Acquired(p, r)}
     IN  Hold(p, {}, open \cup (IF Acquired(p, "state") THEN Sync ELSE {}))
  /\ sync_initialized' = [sync_initialized EXCEPT ![p] = FALSE]
  /\ Goto(p, "unlink_own")
  /\ UNCHANGED <<name, object, game_over, child, reaped, refused>>

\* destroy_sync_objects, munmap and close.  When munmap or close fails, the
\* run goes on and ends in an error.
Detach(p) ==
  /\ At(p, "release")
  /\ \E stuck \in SUBSET {r \in {"fd", "state"} : Acquired(p, r)} :
       LET open == {r \in {"fd", "state"} : Acquired(p, r)}
       IN  /\ stuck # {} => MayFail
           /\ Hold(p, {}, (open \ stuck)
                            \cup (IF sync_initialized[p] THEN Sync ELSE {}))
           /\ refused' = [refused EXCEPT ![p] = @ \cup stuck]
           /\ IF stuck = {} THEN Goto(p, "unlink_own") ELSE Fails(p, "unlink_own")
  /\ sync_initialized' = [sync_initialized EXCEPT ![p] = FALSE]
  /\ UNCHANGED <<name, object, game_over, child, reaped>>

\* shm_unlink removes the name, whichever object it stands for by now.
UnlinkOwn(p) ==
  /\ At(p, "unlink_own")
  /\ \/ name' = None /\ Goto(p, "free_map") /\ UNCHANGED refused
     \/ /\ CallFails(p, "free_map")
        /\ refused' = [refused EXCEPT ![p] = @ \cup {"name"}]
        /\ UNCHANGED name
  /\ UNCHANGED <<held, object, sync_initialized, game_over, child, reaped>>

map_free(p) ==
  /\ At(p, "free_map")
  /\ Hold(p, {}, {"map"})
  /\ Goto(p, "exit")
  /\ UNCHANGED <<name, object, sync_initialized, game_over, child, reaped,
                 refused>>

Main(p) ==
  \/ CheckArguments(p) \/ LoadMap(p) \/ LoadMovements(p)
  \/ UnlinkLeftover(p) \/ Open(p) \/ Truncate(p) \/ MapMemory(p)
  \/ FillState(p) \/ initialize_mutexes(p) \/ initialize_semaphores(p)
  \/ processes_start(p) \/ SchedulerRun(p) \/ RequestShutdown(p)
  \/ processes_wait(p) \/ Detach(p) \/ UnlinkOwn(p) \/ map_free(p)

-----------------------------------------------------------------------------
\* run_pacman_process, run_enemy_process: a child ends when it finds game_over
\* in the memory it has inherited ...
ChildEnds(p, c) ==
  /\ child[p][c] = "running"
  /\ object[p] \in game_over
  /\ \/ child' = [child EXCEPT ![p][c] = "success"]
     \/ MayFail /\ child' = [child EXCEPT ![p][c] = "failure"]
  /\ UNCHANGED <<name, pc, status, held, object, sync_initialized, game_over,
                 reaped, refused>>

\* ... or when it cannot start, or is killed.
ChildFails(p, c) ==
  /\ MayFail
  /\ child[p][c] = "running"
  /\ child' = [child EXCEPT ![p][c] = "failure"]
  /\ UNCHANGED <<name, pc, status, held, object, sync_initialized, game_over,
                 reaped, refused>>

\* P0 is killed: its children and the name are left.
Crash(p) ==
  /\ MayCrash
  /\ pc[p] \notin {"arguments", "exit", "crashed"}
  /\ pc' = [pc EXCEPT ![p] = "crashed"]
  /\ UNCHANGED <<name, status, held, object, sync_initialized, game_over, child,
                 reaped, refused>>

Finished == (\A p \in Program : pc[p] \in {"exit", "crashed"}) /\ UNCHANGED vars

Init ==
  /\ name = None
  /\ pc = [p \in Program |-> "arguments"]
  /\ status = [p \in Program |-> "ok"]
  /\ held = [p \in Program |-> [r \in Resource |-> 0]]
  /\ object = [p \in Program |-> None]
  /\ sync_initialized = [p \in Program |-> FALSE]
  /\ game_over = {}
  /\ child = [p \in Program |-> [c \in Child |-> "unborn"]]
  /\ reaped = [p \in Program |-> {}]
  /\ refused = [p \in Program |-> {}]

Next ==
  \/ \E p \in Program :
       \/ Main(p) \/ Crash(p)
       \/ \E c \in Child : ChildEnds(p, c) \/ ChildFails(p, c)
  \/ Finished

Spec == Init /\ [][Next]_vars

\* main() runs on, except that scheduler_run need not return once a child has
\* gone; a child that is told of the end ends.
Fairness ==
  \A p \in Program :
    /\ WF_vars(Main(p) /\ (At(p, "run") => \A c \in Child : child[p][c] = "running"))
    /\ \A c \in Child : WF_vars(ChildEnds(p, c))

FairSpec == Spec /\ Fairness

-----------------------------------------------------------------------------
Label == {"arguments", "load_map", "load_movements", "unlink", "open", "truncate",
          "mmap", "fill", "mutexes", "semaphores", "fork_pacman", "fork_enemy",
          "run", "shutdown", "wait_pacman", "wait_enemy", "release",
          "unlink_own", "free_map", "exit", "crashed"}

\* The types; above all, nothing is ever held twice or released twice.
TypeOK ==
  /\ name \in Program \cup {None}
  /\ pc \in [Program -> Label] /\ status \in [Program -> {"ok", "error"}]
  /\ held \in [Program -> [Resource -> 0..1]]
  /\ object \in [Program -> Program \cup {None}]
  /\ sync_initialized \in [Program -> BOOLEAN]
  /\ game_over \subseteq Program
  /\ child \in [Program -> [Child -> {"unborn", "running", "success", "failure"}]]
  /\ reaped \in [Program -> SUBSET Child]
  /\ refused \in [Program -> SUBSET {"fd", "state", "name"}]

\* Whichever call failed, a run that has ended holds nothing but what the
\* system refused to take back, and has waited for each child it started.
NothingLeft ==
  \A p \in Program : At(p, "exit") =>
    /\ \A r \in Resource : Acquired(p, r) => r \in refused[p]
    /\ \A c \in Child : child[p][c] # "unborn" => c \in reaped[p]

\* No mutex or semaphore is missing, or destroyed, while a child may use it.
SyncOutlivesChildren ==
  \A p \in Program, c \in Child :
    child[p][c] = "running" => \A s \in Sync : Acquired(p, s)

\* Two runs never share an object, so that none plays in the memory of another,
\* not even of one that was killed and has left its children and the name.
OwnMemory ==
  \A p, q \in Program : p # q /\ object[p] # None => object[p] # object[q]

\* The name never outlives the run whose object it stands for, unless that run
\* was killed or the system refused to remove it: even when another run has
\* removed the name meanwhile and has put its own in its place.
NameHasOwner ==
  \A p \in Program : name = p => ~At(p, "exit") \/ "name" \in refused[p]

\* The exit status is that of the whole game: success means that every step
\* succeeded, both children included.
SuccessMeansPlayed ==
  \A p \in Program : At(p, "exit") /\ status[p] = "ok" =>
    /\ \A c \in Child : child[p][c] = "success"
    /\ refused[p] = {}

\* The program ends, unless it is killed or a child goes before its time.
Termination ==
  \A p \in Program :
    <>(\/ pc[p] \in {"exit", "crashed"}
       \/ At(p, "run") /\ \E c \in Child : child[p][c] = "failure")
=============================================================================
