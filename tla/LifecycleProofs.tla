-------------------------- MODULE LifecycleProofs --------------------------
(***************************************************************************)
(* The safety invariants of Lifecycle, proved for every set of runs that   *)
(* use the name, every call that may fail and every moment P0 is killed.   *)
(*                                                                         *)
(* The inductive invariant says, for each label of main(), what the run    *)
(* holds there (Holdings), what the name and the object are (Naming), what *)
(* has become of the children (Children) and what the result vouches for   *)
(* (Results).  One lemma per part shows that every action keeps it.        *)
(***************************************************************************)
EXTENDS Lifecycle, TLAPS

-----------------------------------------------------------------------------
(* The inductive invariant. *)

\* Run p holds each resource of R once, and no other.
Holds(p, R) == \A r \in Resource : held[p][r] = IF r \in R THEN 1 ELSE 0

\* The labels at which the children are started, play or are waited for.
Sharing == {"fork_pacman", "fork_enemy", "run", "shutdown", "wait_pacman",
            "wait_enemy"}

\* The labels at which shared_memory_release has given back what it can.
Released == {"unlink_own", "free_map", "exit"}

\* What a run holds is told by where it is: the goto of every failure joins the
\* path of success with what that path has there.
Holdings(p) ==
  /\ pc[p] \in {"arguments", "load_map"} => Holds(p, {})
  /\ pc[p] \in {"load_movements", "unlink", "open"} => Holds(p, {"map"})
  /\ pc[p] \in {"truncate", "mmap"} => Holds(p, {"map", "fd"})
  /\ pc[p] \in {"fill", "mutexes"} => Holds(p, {"map", "fd", "state"})
  /\ pc[p] = "semaphores" => Holds(p, {"map", "fd", "state"} \cup Range(Mutexes))
  /\ pc[p] \in Sharing => Holds(p, Resource) /\ sync_initialized[p]
  /\ pc[p] = "release" =>
       IF sync_initialized[p] THEN Holds(p, Resource)
         ELSE Holds(p, {"map", "fd"}) \/ Holds(p, {"map", "fd", "state"})
  /\ pc[p] \in {"unlink_own", "free_map"} => Holds(p, {"map"} \cup (refused[p] \ {"name"}))
  /\ pc[p] = "exit" => Holds(p, refused[p] \ {"name"})
  /\ sync_initialized[p] => pc[p] \in Sharing \cup {"release", "crashed"}
  /\ refused[p] # {} => pc[p] \in Released \cup {"crashed"}

\* A run opens no object but its own.  Only a run that has an object, and has
\* not come past the unlink, can be the one that is named.
Naming(p) ==
  /\ object[p] \in {None, p}
  /\ name = p =>
       \/ pc[p] \in {"truncate", "mmap", "fill", "mutexes", "semaphores"}
       \/ pc[p] \in Sharing \cup {"release", "unlink_own", "crashed"}
       \/ "name" \in refused[p]
  /\ pc[p] \in Sharing \cup {"truncate", "mmap", "fill", "mutexes", "semaphores"} =>
       object[p] = p

\* The children are forked one after the other and waited for in that order.
\* While one runs, P0 has not passed its wait, or is dead.
Children(p) ==
  /\ pc[p] \notin Sharing \cup {"release", "crashed"} \cup Released =>
       \A c \in Child : child[p][c] = "unborn"
  /\ pc[p] = "fork_pacman" => child[p]["pacman"] = "unborn"
  /\ pc[p] \in {"fork_pacman", "fork_enemy"} => child[p]["enemy"] = "unborn"
  /\ \A c \in reaped[p] : child[p][c] \in {"success", "failure"}
  /\ pc[p] = "wait_enemy" /\ child[p]["pacman"] # "unborn" => "pacman" \in reaped[p]
  /\ pc[p] \in {"release"} \cup Released =>
       \A c \in Child : child[p][c] # "unborn" => c \in reaped[p]
  /\ \A c \in Child : child[p][c] = "running" => \A s \in Sync : held[p][s] = 1

\* A result of success at a label means that nothing before it has failed.
Results(p) ==
  status[p] = "ok" =>
    /\ refused[p] = {}
    /\ pc[p] # "shutdown"
    /\ pc[p] \in {"fork_enemy", "run", "wait_pacman"} => child[p]["pacman"] # "unborn"
    /\ pc[p] \in {"run", "wait_pacman", "wait_enemy"} => child[p]["enemy"] # "unborn"
    /\ pc[p] = "wait_enemy" => child[p]["pacman"] = "success"
    /\ pc[p] \in {"release"} \cup Released => \A c \in Child : child[p][c] = "success"

\* The inductive invariant.
IInv ==
  /\ TypeOK
  /\ \A p \in Program : Holdings(p) /\ Naming(p) /\ Children(p) /\ Results(p)

-----------------------------------------------------------------------------
(* The resources. *)

\* The objects of the two labels fail (shared.c) are what their functions take.
LEMMA Objects ==
  /\ Range(Mutexes) = {"state_mutex", "priority_mutex", "collision_mutex"}
  /\ Range(Semaphores) = {"sem_pacman_turn", "sem_enemy_turn", "sem_p1_done", "sem_p2_done"}
  /\ Sync = Range(Mutexes) \cup Range(Semaphores)
  /\ Resource = {"map", "fd", "state"} \cup Sync
<1>1. Range(Mutexes) = {"state_mutex", "priority_mutex", "collision_mutex"}
  BY DEF Range, Mutexes
<1>2. Range(Semaphores) = {"sem_pacman_turn", "sem_enemy_turn", "sem_p1_done", "sem_p2_done"}
  BY DEF Range, Semaphores
<1> QED
  BY <1>1, <1>2 DEF Sync, Resource

\* The first n elements of a sequence.
LEMMA FirstOf ==
  ASSUME NEW S, NEW s \in Seq(S), NEW n \in 0..Len(s)
  PROVE  Range(SubSeq(s, 1, n)) = {s[i] : i \in 1..n}
<1>1. SubSeq(s, 1, n) = [i \in 1..n |-> s[i]]
  OBVIOUS
<1> QED
  BY <1>1 DEF Range

\* initialize_mutexes destroys exactly the mutexes it has initialised when the
\* next one fails (shared.c).
LEMMA MutexesUndone ==
  ASSUME NEW n \in 0..Len(Mutexes)-1
  PROVE  First(n, Mutexes) = mutexes_undone(n)
<1>1. n \in 0..2
  BY DEF Mutexes
<1>2. Range(SubSeq(Mutexes, 1, n)) = {Mutexes[i] : i \in 1..n}
  <2>1. Mutexes \in Seq({"state_mutex", "priority_mutex", "collision_mutex"})
    BY DEF Mutexes
  <2> QED
    BY <2>1, FirstOf
<1>3. CASE n = 0
  BY <1>2, <1>3 DEF First, mutexes_undone
<1>4. CASE n = 1
  <2>1. 1..n = {1}
    BY <1>4
  <2> QED
    BY <1>2, <1>4, <2>1 DEF First, mutexes_undone, Mutexes
<1>5. CASE n = 2
  <2>1. 1..n = {1, 2}
    BY <1>5
  <2> QED
    BY <1>2, <1>5, <2>1 DEF First, mutexes_undone, Mutexes
<1> QED
  BY <1>1, <1>3, <1>4, <1>5

\* initialize_semaphores does the same for the semaphores.
LEMMA SemaphoresUndone ==
  ASSUME NEW n \in 0..Len(Semaphores)-1
  PROVE  First(n, Semaphores) = semaphores_undone(n)
<1>1. n \in 0..3
  BY DEF Semaphores
<1>2. Range(SubSeq(Semaphores, 1, n)) = {Semaphores[i] : i \in 1..n}
  <2>1. Semaphores \in
          Seq({"sem_pacman_turn", "sem_enemy_turn", "sem_p1_done", "sem_p2_done"})
    BY DEF Semaphores
  <2> QED
    BY <2>1, FirstOf
<1>3. CASE n = 0
  BY <1>2, <1>3 DEF First, semaphores_undone
<1>4. CASE n = 1
  <2>1. 1..n = {1}
    BY <1>4
  <2> QED
    BY <1>2, <1>4, <2>1 DEF First, semaphores_undone, Semaphores
<1>5. CASE n = 2
  <2>1. 1..n = {1, 2}
    BY <1>5
  <2> QED
    BY <1>2, <1>5, <2>1 DEF First, semaphores_undone, Semaphores
<1>6. CASE n = 3
  <2>1. 1..n = {1, 2, 3}
    BY <1>6
  <2> QED
    BY <1>2, <1>6, <2>1 DEF First, semaphores_undone, Semaphores
<1> QED
  BY <1>1, <1>3, <1>4, <1>5, <1>6

\* What is acquired was free and what is released was held: then the new
\* holdings are the old ones with the one and without the other.
LEMMA HoldEffect ==
  ASSUME TypeOK, NEW p \in Program, NEW R, NEW got, NEW gone,
         Holds(p, R), got \cap R = {}, gone \subseteq R \cup got,
         Hold(p, got, gone)
  PROVE  /\ held' \in [Program -> [Resource -> 0..1]]
         /\ \A r \in Resource : held'[p][r] = IF r \in (R \cup got) \ gone THEN 1 ELSE 0
         /\ \A q \in Program \ {p} : held'[q] = held[q]
<1>1. held \in [Program -> [Resource -> 0..1]]
  BY DEF TypeOK
<1>2. held' = [held EXCEPT ![p] = [r \in Resource |->
        held[p][r] + (IF r \in got THEN 1 ELSE 0) - (IF r \in gone THEN 1 ELSE 0)]]
  BY <1>1 DEF Hold
<1>3. ASSUME NEW r \in Resource
      PROVE  held'[p][r] = IF r \in (R \cup got) \ gone THEN 1 ELSE 0
  <2>1. held'[p][r] = held[p][r] + (IF r \in got THEN 1 ELSE 0) - (IF r \in gone THEN 1 ELSE 0)
    BY <1>1, <1>2
  <2>2. held[p][r] = IF r \in R THEN 1 ELSE 0
    BY DEF Holds
  <2> QED
    BY <2>1, <2>2
<1>4. held'[p] \in [Resource -> 0..1]
  <2>1. held'[p] = [r \in Resource |->
          held[p][r] + (IF r \in got THEN 1 ELSE 0) - (IF r \in gone THEN 1 ELSE 0)]
    BY <1>1, <1>2
  <2>2. \A r \in Resource : held'[p][r] \in 0..1
    BY <1>3
  <2> QED
    BY <2>1, <2>2
<1> QED
  BY <1>1, <1>2, <1>3, <1>4

-----------------------------------------------------------------------------
(* The steps of one run. *)

\* A step of run p, of its main() or of a child of it.
Step(p) == \/ Main(p) \/ Crash(p)
           \/ \E c \in Child : ChildEnds(p, c) \/ ChildFails(p, c)

\* What the inductive invariant says of one run.
RunInv(p) == Holdings(p) /\ Naming(p) /\ Children(p) /\ Results(p)

\* Run p, and only it, comes to a label with a result.
Reaches(p, label, result) ==
  /\ pc'[p] = label /\ status'[p] = result
  /\ pc' \in [Program -> Label] /\ status' \in [Program -> {"ok", "error"}]
  /\ \A q \in Program \ {p} : pc'[q] = pc[q] /\ status'[q] = status[q]

\* The two outcomes of a system call: the path goes on with the result it has,
\* or to the label of the failure with the result error.
LEMMA Outcomes ==
  ASSUME TypeOK, NEW p \in Program, NEW label \in Label
  PROVE  /\ Goto(p, label) => Reaches(p, label, status[p])
         /\ Fails(p, label) => Reaches(p, label, "error")
<1>1. pc \in [Program -> Label] /\ status \in [Program -> {"ok", "error"}]
  BY DEF TypeOK
<1>2. ASSUME Goto(p, label)
      PROVE  Reaches(p, label, status[p])
  BY <1>1, <1>2 DEF Goto, Reaches
<1>3. ASSUME Fails(p, label)
      PROVE  Reaches(p, label, "error")
  BY <1>1, <1>3 DEF Fails, Reaches
<1> QED
  BY <1>2, <1>3

\* What an action does to the holdings: their type, those of p at its new
\* label, and nothing to those of the other runs.
HeldStep(p) ==
  /\ held' \in [Program -> [Resource -> 0..1]]
  /\ Holdings(p)'
  /\ \A q \in Program \ {p} : held'[q] = held[q]

\* The same after an action that acquires got and releases gone.
LEMMA HeldAfter ==
  ASSUME TypeOK, NEW p \in Program, NEW R, NEW got, NEW gone, NEW S,
         Holds(p, R), got \cap R = {}, gone \subseteq R \cup got,
         S = (R \cup got) \ gone, Hold(p, got, gone)
  PROVE  /\ held' \in [Program -> [Resource -> 0..1]]
         /\ Holds(p, S)'
         /\ \A q \in Program \ {p} : held'[q] = held[q]
<1>1. /\ held' \in [Program -> [Resource -> 0..1]]
      /\ \A r \in Resource : held'[p][r] = IF r \in (R \cup got) \ gone THEN 1 ELSE 0
      /\ \A q \in Program \ {p} : held'[q] = held[q]
  BY HoldEffect
<1>2. \A r \in Resource : held'[p][r] = IF r \in S THEN 1 ELSE 0
  BY <1>1
<1>3. Holds(p, S)'
  BY <1>2 DEF Holds
<1> QED
  BY <1>1, <1>3

\* Up to the exclusive shm_open a failing call leaves only the map to free.
LEMMA BeforeOpenHolds ==
  ASSUME TypeOK, NEW p \in Program, Holdings(p),
         CheckArguments(p) \/ LoadMap(p) \/ LoadMovements(p) \/ UnlinkLeftover(p) \/ Open(p)
  PROVE  HeldStep(p)
<1> USE DEF HeldStep, Holdings, Sharing, Released, At, Reaches
<1>0. {"load_map", "exit", "load_movements", "free_map", "unlink", "open", "truncate"}
        \subseteq Label
  BY DEF Label
<1>1. CASE CheckArguments(p)
  <2>1. held' = held /\ sync_initialized' = sync_initialized /\ refused' = refused
    BY <1>1 DEF CheckArguments
  <2>2. Holds(p, {}) /\ pc'[p] \in {"load_map", "exit"}
    BY <1>0, <1>1, Outcomes DEF CheckArguments, CallFails
  <2>3. refused[p] = {} /\ ~sync_initialized[p]
    BY <1>1 DEF CheckArguments
  <2> QED
    BY <2>1, <2>2, <2>3 DEF Holds, TypeOK
<1>2. CASE LoadMap(p)
  <2>1. sync_initialized' = sync_initialized /\ refused' = refused
    BY <1>2 DEF LoadMap
  <2>2. Holds(p, {}) /\ pc'[p] \in {"load_movements", "free_map"}
    BY <1>0, <1>2, Outcomes DEF LoadMap, CallFails
  <2>3. refused[p] = {} /\ ~sync_initialized[p]
    BY <1>2 DEF LoadMap
  <2>4. Hold(p, {"map"}, {})
    BY <1>2 DEF LoadMap
  <2>5. /\ held' \in [Program -> [Resource -> 0..1]]
        /\ Holds(p, {"map"})'
        /\ \A q \in Program \ {p} : held'[q] = held[q]
    BY <2>2, <2>4, HeldAfter
  <2> QED
    BY <2>1, <2>2, <2>3, <2>5 DEF Holds
<1>3. CASE LoadMovements(p) \/ UnlinkLeftover(p)
  <2>1. held' = held /\ sync_initialized' = sync_initialized /\ refused' = refused
    BY <1>3 DEF LoadMovements, UnlinkLeftover
  <2>2. Holds(p, {"map"}) /\ pc'[p] \in {"unlink", "free_map", "open"}
    BY <1>0, <1>3, Outcomes DEF LoadMovements, UnlinkLeftover, CallFails
  <2>3. refused[p] = {} /\ ~sync_initialized[p]
    BY <1>3 DEF LoadMovements, UnlinkLeftover
  <2> QED
    BY <2>1, <2>2, <2>3 DEF Holds, TypeOK
<1>4. CASE Open(p)
  <2>1. sync_initialized' = sync_initialized /\ refused' = refused
    BY <1>4 DEF Open
  <2>2. Holds(p, {"map"})
    BY <1>4 DEF Open
  <2>3. refused[p] = {} /\ ~sync_initialized[p]
    BY <1>4 DEF Open
  <2>4. CASE Hold(p, {"fd"}, {}) /\ Goto(p, "truncate")
    <3>1. /\ held' \in [Program -> [Resource -> 0..1]]
          /\ Holds(p, {"map", "fd"})'
          /\ \A q \in Program \ {p} : held'[q] = held[q]
      BY <2>2, <2>4, HeldAfter
    <3>2. pc'[p] = "truncate"
      BY <1>0, <2>4, Outcomes
    <3> QED
      BY <2>1, <2>3, <3>1, <3>2 DEF Holds
  <2>5. CASE held' = held /\ Fails(p, "free_map")
    <3>1. pc'[p] = "free_map"
      BY <1>0, <2>5, Outcomes
    <3> QED
      BY <2>1, <2>2, <2>3, <2>5, <3>1 DEF Holds, TypeOK
  <2> QED
    BY <1>4, <2>4, <2>5 DEF Open
<1> QED
  BY <1>1, <1>2, <1>3, <1>4

\* ftruncate, mmap and the filling of the memory: a failure gives back what the
\* label release finds held.
LEMMA MemoryHolds ==
  ASSUME TypeOK, NEW p \in Program, Holdings(p), Naming(p),
         Truncate(p) \/ MapMemory(p) \/ FillState(p)
  PROVE  HeldStep(p)
<1> USE DEF HeldStep, Holdings, Sharing, Released, At, Reaches
<1>0. {"mmap", "release", "fill", "mutexes"} \subseteq Label
  BY DEF Label
<1>1. CASE Truncate(p)
  <2>1. held' = held /\ sync_initialized' = sync_initialized /\ refused' = refused
    BY <1>1 DEF Truncate
  <2>2. Holds(p, {"map", "fd"}) /\ pc'[p] \in {"mmap", "release"}
    BY <1>0, <1>1, Outcomes DEF Truncate, CallFails
  <2>3. refused[p] = {} /\ ~sync_initialized[p]
    BY <1>1 DEF Truncate
  <2> QED
    BY <2>1, <2>2, <2>3 DEF Holds, TypeOK
<1>2. CASE MapMemory(p)
  <2>1. sync_initialized' = sync_initialized /\ refused' = refused
    BY <1>2 DEF MapMemory
  <2>2. Holds(p, {"map", "fd"})
    BY <1>2 DEF MapMemory
  <2>3. refused[p] = {} /\ ~sync_initialized[p]
    BY <1>2 DEF MapMemory
  <2>4. CASE Hold(p, {"state"}, {}) /\ Goto(p, "fill")
    <3>1. /\ held' \in [Program -> [Resource -> 0..1]]
          /\ Holds(p, {"map", "fd", "state"})'
          /\ \A q \in Program \ {p} : held'[q] = held[q]
      BY <2>2, <2>4, HeldAfter
    <3>2. pc'[p] = "fill"
      BY <1>0, <2>4, Outcomes
    <3> QED
      BY <2>1, <2>3, <3>1, <3>2 DEF Holds
  <2>5. CASE held' = held /\ Fails(p, "release")
    <3>1. pc'[p] = "release"
      BY <1>0, <2>5, Outcomes
    <3> QED
      BY <2>1, <2>2, <2>3, <2>5, <3>1 DEF Holds, TypeOK
  <2> QED
    BY <1>2, <2>4, <2>5 DEF MapMemory, CallFails
<1>3. CASE FillState(p)
  <2>1. held' = held /\ sync_initialized' = sync_initialized /\ refused' = refused
    BY <1>3 DEF FillState
  <2>2. Holds(p, {"map", "fd", "state"}) /\ pc'[p] \in {"mutexes", "release"}
    BY <1>0, <1>3, Outcomes DEF FillState, CallFails
  <2>3. refused[p] = {} /\ ~sync_initialized[p]
    BY <1>3 DEF FillState
  <2> QED
    BY <2>1, <2>2, <2>3 DEF Holds, TypeOK
<1> QED
  BY <1>1, <1>2, <1>3

\* shared_state_initialize: when an initialisation fails, exactly the objects
\* initialised before it are destroyed, whichever it was.
LEMMA SyncHolds ==
  ASSUME TypeOK, NEW p \in Program, Holdings(p),
         initialize_mutexes(p) \/ initialize_semaphores(p)
  PROVE  HeldStep(p)
<1> USE DEF HeldStep, Holdings, Sharing, Released, At, Reaches
<1>0. {"release", "semaphores", "fork_pacman"} \subseteq Label
  BY DEF Label
<1> DEFINE M == {"map", "fd", "state"}
<1>m. M \cap Range(Mutexes) = {} /\ M \cap Range(Semaphores) = {}
        /\ Range(Mutexes) \cap Range(Semaphores) = {}
  BY Objects
<1>r. Resource = (M \cup Range(Mutexes)) \cup Range(Semaphores)
  BY Objects
<1>1. CASE initialize_mutexes(p)
  <2>1. sync_initialized' = sync_initialized /\ refused' = refused
    BY <1>1 DEF initialize_mutexes
  <2>2. Holds(p, M) /\ refused[p] = {} /\ ~sync_initialized[p]
    BY <1>1 DEF initialize_mutexes
  <2>3. CASE Goto(p, "semaphores") /\ Hold(p, Range(Mutexes), {})
    <3>1. /\ held' \in [Program -> [Resource -> 0..1]]
          /\ Holds(p, M \cup Range(Mutexes))'
          /\ \A q \in Program \ {p} : held'[q] = held[q]
      <4>1. Range(Mutexes) \cap M = {} /\ M \cup Range(Mutexes) = (M \cup Range(Mutexes)) \ {}
        BY <1>m
      <4> HIDE DEF M
      <4> QED
        BY <2>2, <2>3, <4>1, HeldAfter
    <3>2. pc'[p] = "semaphores"
      BY <1>0, <2>3, Outcomes
    <3> QED
      BY <2>1, <2>2, <3>1, <3>2 DEF Holds
  <2>4. ASSUME Fails(p, "release"), NEW n \in 0..Len(Mutexes)-1,
               Hold(p, First(n, Mutexes), mutexes_undone(n))
        PROVE  HeldStep(p)
    <3>1. mutexes_undone(n) \subseteq Range(Mutexes)
      BY Objects DEF mutexes_undone
    <3>2. Hold(p, mutexes_undone(n), mutexes_undone(n))
      BY <2>4, MutexesUndone
    <3>3. /\ held' \in [Program -> [Resource -> 0..1]]
          /\ Holds(p, M)'
          /\ \A q \in Program \ {p} : held'[q] = held[q]
      <4>1. mutexes_undone(n) \cap M = {} /\ M = (M \cup mutexes_undone(n)) \ mutexes_undone(n)
        BY <1>m, <3>1
      <4> HIDE DEF M
      <4> QED
        BY <2>2, <3>2, <4>1, HeldAfter
    <3>4. pc'[p] = "release"
      BY <1>0, <2>4, Outcomes
    <3> QED
      BY <2>1, <2>2, <3>3, <3>4 DEF Holds
  <2> QED
    BY <1>1, <2>3, <2>4 DEF initialize_mutexes, CallFails
<1>2. CASE initialize_semaphores(p)
  <2>1. refused' = refused
    BY <1>2 DEF initialize_semaphores
  <2>2. Holds(p, M \cup Range(Mutexes)) /\ refused[p] = {} /\ ~sync_initialized[p]
    BY <1>2 DEF initialize_semaphores
  <2>3. CASE /\ Goto(p, "fork_pacman") /\ Hold(p, Range(Semaphores), {})
             /\ sync_initialized' = [sync_initialized EXCEPT ![p] = TRUE]
    <3>1. /\ held' \in [Program -> [Resource -> 0..1]]
          /\ Holds(p, Resource)'
          /\ \A q \in Program \ {p} : held'[q] = held[q]
      <4>1. Range(Semaphores) \cap (M \cup Range(Mutexes)) = {}
        BY <1>m
      <4>2. Resource = ((M \cup Range(Mutexes)) \cup Range(Semaphores)) \ {}
        BY <1>r
      <4> HIDE DEF M
      <4> QED
        BY <2>2, <2>3, <4>1, <4>2, HeldAfter
    <3>2. pc'[p] = "fork_pacman" /\ sync_initialized'[p]
      BY <1>0, <2>3, Outcomes DEF TypeOK
    <3> QED
      BY <2>1, <2>2, <3>1, <3>2 DEF Holds
  <2>4. ASSUME Fails(p, "release"), NEW n \in 0..Len(Semaphores)-1,
               Hold(p, First(n, Semaphores), semaphores_undone(n) \cup Range(Mutexes)),
               sync_initialized' = sync_initialized
        PROVE  HeldStep(p)
    <3> DEFINE U == semaphores_undone(n)
    <3>1. U \subseteq Range(Semaphores)
      BY Objects DEF semaphores_undone
    <3>2. Hold(p, U, U \cup Range(Mutexes))
      BY <2>4, SemaphoresUndone
    <3>3. /\ held' \in [Program -> [Resource -> 0..1]]
          /\ Holds(p, M)'
          /\ \A q \in Program \ {p} : held'[q] = held[q]
      <4>1. /\ U \cap (M \cup Range(Mutexes)) = {}
            /\ M = ((M \cup Range(Mutexes)) \cup U) \ (U \cup Range(Mutexes))
        <5> HIDE DEF M, U
        <5> QED
          BY <1>m, <3>1
      <4> HIDE DEF M, U
      <4> QED
        BY <2>2, <3>2, <4>1, HeldAfter
    <3>4. pc'[p] = "release"
      BY <1>0, <2>4, Outcomes
    <3> QED
      BY <2>1, <2>2, <2>4, <3>3, <3>4 DEF Holds
  <2> QED
    BY <1>2, <2>3, <2>4 DEF initialize_semaphores, CallFails
<1> QED
  BY <1>1, <1>2

\* From the first fork to the wait nothing is acquired or released.
LEMMA GameHolds ==
  ASSUME TypeOK, NEW p \in Program, Holdings(p),
         processes_start(p) \/ SchedulerRun(p) \/ RequestShutdown(p) \/ processes_wait(p)
  PROVE  HeldStep(p)
<1> USE DEF HeldStep, Holdings, Sharing, Released, At, Reaches
<1>0. Sharing \cup {"release"} \subseteq Label
  BY DEF Label
<1>1. held' = held /\ sync_initialized' = sync_initialized /\ refused' = refused
  BY DEF processes_start, SchedulerRun, RequestShutdown, processes_wait
<1>2. pc[p] \in Sharing
  BY DEF processes_start, SchedulerRun, RequestShutdown, processes_wait
<1>3. pc'[p] \in Sharing \cup {"release"}
  <2>1. CASE processes_start(p)
    BY <1>0, <2>1, Outcomes DEF processes_start, Fork, CallFails
  <2>2. CASE SchedulerRun(p) \/ RequestShutdown(p)
    BY <1>0, <2>2, Outcomes DEF SchedulerRun, RequestShutdown, CallFails
  <2>3. CASE processes_wait(p)
    BY <1>0, <2>3, Outcomes DEF processes_wait, Wait
  <2> QED
    BY <2>1, <2>2, <2>3
<1> QED
  BY <1>1, <1>2, <1>3 DEF Holds, TypeOK

\* shared_memory_release and map_free give back all that is held, except what
\* the system refuses.
LEMMA ReleaseHolds ==
  ASSUME TypeOK, NEW p \in Program, Holdings(p),
         Detach(p) \/ UnlinkOwn(p) \/ map_free(p)
  PROVE  HeldStep(p)
<1> USE DEF HeldStep, Holdings, Sharing, Released, At, Reaches
<1>0. {"unlink_own", "free_map", "exit"} \subseteq Label
  BY DEF Label
<1>1. CASE Detach(p)
  <2> DEFINE open == {r \in {"fd", "state"} : Acquired(p, r)}
             sync == IF sync_initialized[p] THEN Sync ELSE {}
  <2>1. PICK stuck \in SUBSET open :
          /\ Hold(p, {}, (open \ stuck) \cup sync)
          /\ refused' = [refused EXCEPT ![p] = @ \cup stuck]
          /\ IF stuck = {} THEN Goto(p, "unlink_own") ELSE Fails(p, "unlink_own")
    BY <1>1 DEF Detach
  <2>2. refused[p] = {}
    BY <1>1 DEF Detach
  <2>3. PICK R : Holds(p, R) /\ R = ({"map"} \cup open) \cup sync
    <3>1. {"map", "fd", "state"} \subseteq Resource /\ {"map", "fd", "state"} \cap Sync = {}
      BY Objects
    <3>2. CASE sync_initialized[p]
      <4>1. Holds(p, Resource)
        BY <1>1, <3>2 DEF Detach
      <4>2. open = {"fd", "state"}
        BY <3>1, <4>1 DEF Holds, Acquired
      <4>3. Resource = ({"map"} \cup open) \cup sync
        BY <3>2, <4>2, Objects
      <4> QED
        BY <4>1, <4>3
    <3>3. CASE ~sync_initialized[p] /\ Holds(p, {"map", "fd"})
      <4>1. open = {"fd"}
        BY <3>1, <3>3 DEF Holds, Acquired
      <4> QED
        BY <3>3, <4>1
    <3>4. CASE ~sync_initialized[p] /\ Holds(p, {"map", "fd", "state"})
      <4>1. open = {"fd", "state"}
        BY <3>1, <3>4 DEF Holds, Acquired
      <4> QED
        BY <3>4, <4>1
    <3> QED
      BY <1>1, <3>2, <3>3, <3>4 DEF Detach
  <2>4. /\ held' \in [Program -> [Resource -> 0..1]]
        /\ Holds(p, {"map"} \cup stuck)'
        /\ \A q \in Program \ {p} : held'[q] = held[q]
    <3>1. {"map"} \cup stuck = (R \cup {}) \ ((open \ stuck) \cup sync)
      <4>1. "map" \notin open /\ "map" \notin sync /\ open \cap sync = {}
        BY Objects
      <4> HIDE DEF open, sync
      <4> QED
        BY <2>1, <2>3, <4>1
    <3>2. (open \ stuck) \cup sync \subseteq R \cup {}
      BY <2>3
    <3> DEFINE gone == (open \ stuck) \cup sync
    <3>3. Hold(p, {}, gone) /\ Holds(p, R)
      BY <2>1, <2>3
    <3>4. {} \cap R = {} /\ R \cup {} = R
      OBVIOUS
    <3> HIDE DEF open, sync, gone
    <3> QED
      BY <3>1, <3>2, <3>3, <3>4, HeldAfter DEF gone
  <2>5. refused'[p] = stuck /\ "name" \notin stuck
    BY <2>1, <2>2 DEF TypeOK
  <2>6. pc'[p] = "unlink_own"
    BY <1>0, <2>1, Outcomes
  <2>7. ~sync_initialized'[p]
    BY <1>1 DEF Detach, TypeOK
  <2> QED
    BY <2>4, <2>5, <2>6, <2>7 DEF Holds
<1>2. CASE UnlinkOwn(p)
  <2>1. held' = held /\ sync_initialized' = sync_initialized
    BY <1>2 DEF UnlinkOwn
  <2>2. Holds(p, {"map"} \cup (refused[p] \ {"name"})) /\ ~sync_initialized[p]
    BY <1>2 DEF UnlinkOwn
  <2>3. refused'[p] \ {"name"} = refused[p] \ {"name"}
    BY <1>2 DEF UnlinkOwn, TypeOK
  <2>4. pc'[p] = "free_map"
    BY <1>0, <1>2, Outcomes DEF UnlinkOwn, CallFails
  <2> QED
    BY <2>1, <2>2, <2>3, <2>4 DEF Holds, TypeOK
<1>3. CASE map_free(p)
  <2>1. sync_initialized' = sync_initialized /\ refused' = refused
    BY <1>3 DEF map_free
  <2>2. Holds(p, {"map"} \cup (refused[p] \ {"name"})) /\ ~sync_initialized[p]
    BY <1>3 DEF map_free
  <2>3. Hold(p, {}, {"map"}) /\ refused[p] \subseteq {"fd", "state", "name"}
    BY <1>3 DEF map_free, TypeOK
  <2>4. /\ held' \in [Program -> [Resource -> 0..1]]
        /\ Holds(p, refused[p] \ {"name"})'
        /\ \A q \in Program \ {p} : held'[q] = held[q]
    <3>1. PICK R, S : R = {"map"} \cup S /\ S = refused[p] \ {"name"}
      OBVIOUS
    <3>2. S = (R \cup {}) \ {"map"} /\ {"map"} \subseteq R \cup {} /\ {} \cap R = {}
      BY <2>3, <3>1
    <3>3. Holds(p, R)
      BY <2>2, <3>1
    <3>4. /\ held' \in [Program -> [Resource -> 0..1]]
          /\ Holds(p, S)'
          /\ \A q \in Program \ {p} : held'[q] = held[q]
      BY <2>3, <3>2, <3>3, HeldAfter
    <3> QED
      BY <2>1, <3>1, <3>4 DEF Holds
  <2>5. pc'[p] = "exit"
    BY <1>0, <1>3, Outcomes DEF map_free
  <2> QED
    BY <2>1, <2>2, <2>4, <2>5 DEF Holds
<1> QED
  BY <1>1, <1>2, <1>3

\* Every step of a run keeps what its label says of its holdings, and leaves
\* those of the others alone.
LEMMA StepHolds ==
  ASSUME TypeOK, NEW p \in Program, RunInv(p), Step(p)
  PROVE  HeldStep(p)
<1>1. CASE Main(p)
  BY <1>1, BeforeOpenHolds, MemoryHolds, SyncHolds, GameHolds, ReleaseHolds DEF RunInv, Main
<1>2. CASE Crash(p)
  BY <1>2 DEF Crash, RunInv, HeldStep, Holdings, Sharing, Released, TypeOK
<1>3. CASE \E c \in Child : ChildEnds(p, c) \/ ChildFails(p, c)
  <2>1. /\ held' = held /\ sync_initialized' = sync_initialized /\ refused' = refused
        /\ pc' = pc
    BY <1>3 DEF ChildEnds, ChildFails
  <2> QED
    BY <2>1 DEF RunInv, HeldStep, Holdings, Holds, TypeOK
<1> QED
  BY <1>1, <1>2, <1>3 DEF Step

\* The types of the variables other than held, and that a step of p leaves the
\* other runs alone: of what they share it may take the name, or remove it.
Local(p) ==
  /\ name' \in Program \cup {None} /\ name' \in {name, None, p}
  /\ pc' \in [Program -> Label] /\ status' \in [Program -> {"ok", "error"}]
  /\ object' \in [Program -> Program \cup {None}]
  /\ sync_initialized' \in [Program -> BOOLEAN]
  /\ game_over' \subseteq Program
  /\ child' \in [Program -> [Child -> {"unborn", "running", "success", "failure"}]]
  /\ reaped' \in [Program -> SUBSET Child]
  /\ refused' \in [Program -> SUBSET {"fd", "state", "name"}]
  /\ \A q \in Program \ {p} :
       /\ pc'[q] = pc[q] /\ status'[q] = status[q] /\ object'[q] = object[q]
       /\ sync_initialized'[q] = sync_initialized[q] /\ child'[q] = child[q]
       /\ reaped'[q] = reaped[q] /\ refused'[q] = refused[q]

\* main() up to the filling of the memory.
LEMMA SetupLocal ==
  ASSUME TypeOK, NEW p \in Program, RunInv(p),
         \/ CheckArguments(p) \/ LoadMap(p) \/ LoadMovements(p) \/ UnlinkLeftover(p)
         \/ Open(p) \/ Truncate(p) \/ MapMemory(p) \/ FillState(p)
  PROVE  Local(p)
<1>0. {"load_map", "exit", "load_movements", "free_map", "unlink", "open", "truncate",
       "mmap", "release", "fill", "mutexes"} \subseteq Label
  BY DEF Label
<1>1. \E label \in Label : Goto(p, label) \/ Fails(p, label)
  BY <1>0 DEF CheckArguments, LoadMap, LoadMovements, UnlinkLeftover, Open, Truncate,
              MapMemory, FillState, CallFails
<1>2. \E label \in Label, result \in {status[p], "error"} : Reaches(p, label, result)
  BY <1>1, Outcomes
<1>3. /\ sync_initialized' = sync_initialized /\ child' = child
      /\ reaped' = reaped /\ refused' = refused
  BY DEF CheckArguments, LoadMap, LoadMovements, UnlinkLeftover, Open, Truncate,
         MapMemory, FillState
<1>4. CASE Open(p)
  <2>1. game_over' = game_over
    BY <1>4 DEF Open
  <2>2. \/ name' = p /\ object' = [object EXCEPT ![p] = p]
        \/ name' = name /\ object' = object
    BY <1>4 DEF Open
  <2>3. /\ name' \in Program \cup {None} /\ name' \in {name, None, p}
        /\ object' \in [Program -> Program \cup {None}]
        /\ \A q \in Program \ {p} : object'[q] = object[q]
    BY <2>2 DEF TypeOK
  <2> QED
    BY <1>2, <1>3, <2>1, <2>3 DEF Local, TypeOK, Reaches
<1>5. CASE ~Open(p)
  <2>1. object' = object /\ name' \in {name, None} /\ game_over' \subseteq game_over
    BY <1>5 DEF CheckArguments, LoadMap, LoadMovements, UnlinkLeftover, Open, Truncate,
                MapMemory, FillState
  <2> QED
    BY <1>2, <1>3, <2>1 DEF Local, TypeOK, Reaches
<1> QED
  BY <1>4, <1>5

\* main() from the initialisation of the objects to the exit.
LEMMA PlayLocal ==
  ASSUME TypeOK, NEW p \in Program, RunInv(p),
         \/ initialize_mutexes(p) \/ initialize_semaphores(p) \/ processes_start(p)
         \/ SchedulerRun(p) \/ RequestShutdown(p) \/ processes_wait(p)
         \/ Detach(p) \/ UnlinkOwn(p) \/ map_free(p)
  PROVE  Local(p)
<1>0. {"release", "semaphores", "fork_pacman", "fork_enemy", "run", "shutdown",
       "wait_pacman", "wait_enemy", "unlink_own", "free_map", "exit"} \subseteq Label
  BY DEF Label
<1>1. \E label \in Label : Goto(p, label) \/ Fails(p, label)
  <2>1. CASE \/ initialize_mutexes(p) \/ initialize_semaphores(p) \/ processes_start(p)
             \/ SchedulerRun(p) \/ RequestShutdown(p)
    BY <1>0, <2>1 DEF initialize_mutexes, initialize_semaphores, processes_start,
                      SchedulerRun, RequestShutdown, Fork, CallFails
  <2>2. CASE processes_wait(p) \/ Detach(p) \/ UnlinkOwn(p) \/ map_free(p)
    BY <1>0, <2>2 DEF processes_wait, Wait, Detach, UnlinkOwn, map_free, CallFails
  <2> QED
    BY <2>1, <2>2
<1>2. \E label \in Label, result \in {status[p], "error"} : Reaches(p, label, result)
  BY <1>1, Outcomes
<1>3. object' = object
  BY DEF initialize_mutexes, initialize_semaphores, processes_start, SchedulerRun,
         RequestShutdown, processes_wait, Detach, UnlinkOwn, map_free
<1>4. name' \in {name, None}
  BY DEF initialize_mutexes, initialize_semaphores, processes_start, SchedulerRun,
         RequestShutdown, processes_wait, Detach, UnlinkOwn, map_free
<1>5. game_over' = game_over \/ game_over' = game_over \cup {p}
  <2>1. SchedulerRun(p) \/ RequestShutdown(p) => object[p] = p
    BY DEF SchedulerRun, RequestShutdown, RunInv, Naming, Sharing, At
  <2> QED
    BY <2>1 DEF initialize_mutexes, initialize_semaphores, processes_start, SchedulerRun,
                RequestShutdown, processes_wait, Detach, UnlinkOwn, map_free
<1>6. \/ sync_initialized' = sync_initialized
      \/ \E b \in BOOLEAN : sync_initialized' = [sync_initialized EXCEPT ![p] = b]
  BY DEF initialize_mutexes, initialize_semaphores, processes_start, SchedulerRun,
         RequestShutdown, processes_wait, Detach, UnlinkOwn, map_free
<1>7. \/ child' = child
      \/ \E c \in Child : child' = [child EXCEPT ![p][c] = "running"]
  BY DEF initialize_mutexes, initialize_semaphores, processes_start, Fork, SchedulerRun,
         RequestShutdown, processes_wait, Detach, UnlinkOwn, map_free, Child
<1>8. \/ reaped' = reaped
      \/ \E c \in Child : reaped' = [reaped EXCEPT ![p] = @ \cup {c}]
  BY DEF initialize_mutexes, initialize_semaphores, processes_start, SchedulerRun,
         RequestShutdown, processes_wait, Wait, Detach, UnlinkOwn, map_free, Child
<1>9. \/ refused' = refused
      \/ \E S \in SUBSET {"fd", "state", "name"} :
           refused' = [refused EXCEPT ![p] = @ \cup S]
  BY DEF initialize_mutexes, initialize_semaphores, processes_start, SchedulerRun,
         RequestShutdown, processes_wait, Detach, UnlinkOwn, map_free
<1>10. /\ child' \in [Program -> [Child -> {"unborn", "running", "success", "failure"}]]
       /\ \A q \in Program \ {p} : child'[q] = child[q]
  <2>1. CASE child' = child
    BY <2>1 DEF TypeOK
  <2>2. ASSUME NEW c \in Child, child' = [child EXCEPT ![p][c] = "running"]
        PROVE  /\ child' \in [Program -> [Child -> {"unborn", "running", "success", "failure"}]]
               /\ \A q \in Program \ {p} : child'[q] = child[q]
    BY <2>2 DEF TypeOK
  <2> QED
    BY <1>7, <2>1, <2>2
<1>11. /\ reaped' \in [Program -> SUBSET Child]
       /\ refused' \in [Program -> SUBSET {"fd", "state", "name"}]
       /\ \A q \in Program \ {p} : reaped'[q] = reaped[q] /\ refused'[q] = refused[q]
  <2>1. reaped' \in [Program -> SUBSET Child] /\ \A q \in Program \ {p} : reaped'[q] = reaped[q]
    <3>1. CASE reaped' = reaped
      BY <3>1 DEF TypeOK
    <3>2. ASSUME NEW c \in Child, reaped' = [reaped EXCEPT ![p] = @ \cup {c}]
          PROVE  /\ reaped' \in [Program -> SUBSET Child]
                 /\ \A q \in Program \ {p} : reaped'[q] = reaped[q]
      BY <3>2 DEF TypeOK
    <3> QED
      BY <1>8, <3>1, <3>2
  <2>2. /\ refused' \in [Program -> SUBSET {"fd", "state", "name"}]
        /\ \A q \in Program \ {p} : refused'[q] = refused[q]
    <3>1. CASE refused' = refused
      BY <3>1 DEF TypeOK
    <3>2. ASSUME NEW S \in SUBSET {"fd", "state", "name"},
                 refused' = [refused EXCEPT ![p] = @ \cup S]
          PROVE  /\ refused' \in [Program -> SUBSET {"fd", "state", "name"}]
                 /\ \A q \in Program \ {p} : refused'[q] = refused[q]
      BY <3>2 DEF TypeOK
    <3> QED
      BY <1>9, <3>1, <3>2
  <2> QED
    BY <2>1, <2>2
<1>12. /\ sync_initialized' \in [Program -> BOOLEAN]
       /\ \A q \in Program \ {p} : sync_initialized'[q] = sync_initialized[q]
  BY <1>6 DEF TypeOK
<1> QED
  BY <1>2, <1>3, <1>4, <1>5, <1>10, <1>11, <1>12 DEF Local, TypeOK, Reaches

\* Every step of a run is local to it.
LEMMA StepLocal ==
  ASSUME TypeOK, NEW p \in Program, RunInv(p), Step(p)
  PROVE  Local(p)
<1>1. CASE Main(p)
  BY <1>1, SetupLocal, PlayLocal DEF Main
<1>2. CASE Crash(p)
  <2>1. "crashed" \in Label
    BY DEF Label
  <2> QED
    BY <1>2, <2>1 DEF Crash, Local, TypeOK
<1>3. CASE \E c \in Child : ChildEnds(p, c) \/ ChildFails(p, c)
  <2>1. PICK c \in Child, end \in {"success", "failure"} :
          child' = [child EXCEPT ![p][c] = end]
    BY <1>3 DEF ChildEnds, ChildFails
  <2>2. /\ child' \in [Program -> [Child -> {"unborn", "running", "success", "failure"}]]
        /\ \A q \in Program \ {p} : child'[q] = child[q]
    BY <2>1 DEF TypeOK
  <2> QED
    BY <1>3, <2>2 DEF ChildEnds, ChildFails, Local, TypeOK
<1> QED
  BY <1>1, <1>2, <1>3 DEF Step

\* Where a step of p leaves p: the next label of the path, or that of a failure.
LEMMA NextLabel ==
  ASSUME TypeOK, NEW p \in Program
  PROVE  /\ CheckArguments(p) => pc'[p] \in {"load_map", "exit"}
         /\ LoadMap(p) => pc'[p] \in {"load_movements", "free_map"}
         /\ LoadMovements(p) => pc'[p] \in {"unlink", "free_map"}
         /\ UnlinkLeftover(p) => pc'[p] \in {"open", "free_map"}
         /\ Truncate(p) => pc'[p] \in {"mmap", "release"}
         /\ MapMemory(p) => pc'[p] \in {"fill", "release"}
         /\ FillState(p) => pc'[p] \in {"mutexes", "release"}
         /\ initialize_mutexes(p) => pc'[p] \in {"semaphores", "release"}
         /\ initialize_semaphores(p) => pc'[p] \in {"fork_pacman", "release"}
         /\ SchedulerRun(p) => pc'[p] \in {"wait_pacman", "shutdown"}
         /\ RequestShutdown(p) => pc'[p] = "wait_pacman"
         /\ Detach(p) => pc'[p] = "unlink_own"
         /\ UnlinkOwn(p) => pc'[p] = "free_map"
         /\ map_free(p) => pc'[p] = "exit"
<1> USE DEF At, Reaches
<1>1. {"load_map", "exit", "load_movements", "free_map", "unlink", "open", "release",
       "mmap", "fill", "mutexes", "semaphores", "fork_pacman", "shutdown", "wait_pacman",
       "unlink_own"} \subseteq Label
  BY DEF Label
<1>2. CheckArguments(p) => pc'[p] \in {"load_map", "exit"}
  BY <1>1, Outcomes DEF CheckArguments, CallFails
<1>3. LoadMap(p) => pc'[p] \in {"load_movements", "free_map"}
  BY <1>1, Outcomes DEF LoadMap, CallFails
<1>4. LoadMovements(p) => pc'[p] \in {"unlink", "free_map"}
  BY <1>1, Outcomes DEF LoadMovements, CallFails
<1>5. UnlinkLeftover(p) => pc'[p] \in {"open", "free_map"}
  BY <1>1, Outcomes DEF UnlinkLeftover, CallFails
<1>6. Truncate(p) => pc'[p] \in {"mmap", "release"}
  BY <1>1, Outcomes DEF Truncate, CallFails
<1>7. MapMemory(p) => pc'[p] \in {"fill", "release"}
  BY <1>1, Outcomes DEF MapMemory, CallFails
<1>8. FillState(p) => pc'[p] \in {"mutexes", "release"}
  BY <1>1, Outcomes DEF FillState, CallFails
<1>9. initialize_mutexes(p) => pc'[p] \in {"semaphores", "release"}
  BY <1>1, Outcomes DEF initialize_mutexes, CallFails
<1>10. initialize_semaphores(p) => pc'[p] \in {"fork_pacman", "release"}
  BY <1>1, Outcomes DEF initialize_semaphores, CallFails
<1>11. Detach(p) => pc'[p] = "unlink_own"
  BY <1>1, Outcomes DEF Detach
<1>12. map_free(p) => pc'[p] = "exit"
  BY <1>1, Outcomes DEF map_free
<1>13. SchedulerRun(p) => pc'[p] \in {"wait_pacman", "shutdown"}
  BY <1>1, Outcomes DEF SchedulerRun, CallFails
<1>14. RequestShutdown(p) => pc'[p] = "wait_pacman"
  BY <1>1, Outcomes DEF RequestShutdown
<1>15. UnlinkOwn(p) => pc'[p] = "free_map"
  BY <1>1, Outcomes DEF UnlinkOwn, CallFails
<1> QED
  BY <1>2, <1>3, <1>4, <1>5, <1>6, <1>7, <1>8, <1>9, <1>10, <1>11, <1>12, <1>13, <1>14, <1>15

\* Only the exclusive shm_open names an object, and only the unlink, or a
\* failure of it, lets main() pass with the name still there.
LEMMA StepNaming ==
  ASSUME ProgramAssumption, TypeOK, NEW p \in Program, RunInv(p), Step(p)
  PROVE  Naming(p)'
<1> USE DEF RunInv, Naming, Sharing, At, Reaches
<1>0. {"truncate", "free_map"} \subseteq Label /\ None \notin Program
  BY DEF Label, ProgramAssumption
<1>1. CASE CheckArguments(p) \/ LoadMap(p) \/ LoadMovements(p) \/ UnlinkLeftover(p)
  <2>1. object' = object /\ name' \in {None, name} /\ refused' = refused
    BY <1>1 DEF CheckArguments, LoadMap, LoadMovements, UnlinkLeftover
  <2>2. name = p => "name" \in refused[p]
    BY <1>1 DEF CheckArguments, LoadMap, LoadMovements, UnlinkLeftover
  <2> QED
    BY <1>0, <1>1, <2>1, <2>2, NextLabel
<1>2. CASE Open(p)
  <2>1. CASE /\ name' = p /\ object' = [object EXCEPT ![p] = p]
             /\ Goto(p, "truncate")
    BY <1>0, <2>1, Outcomes DEF TypeOK
  <2>2. CASE name' = name /\ object' = object /\ Fails(p, "free_map")
    <3>1. pc'[p] = "free_map" /\ refused' = refused
      BY <1>0, <1>2, <2>2, Outcomes DEF Open
    <3> QED
      BY <1>2, <2>2, <3>1 DEF Open
  <2> QED
    BY <1>2, <2>1, <2>2 DEF Open
<1>3. CASE \/ Truncate(p) \/ MapMemory(p) \/ FillState(p)
           \/ initialize_mutexes(p) \/ initialize_semaphores(p)
  <2>1. object' = object /\ name' = name /\ refused' = refused
    BY <1>3 DEF Truncate, MapMemory, FillState, initialize_mutexes, initialize_semaphores
  <2>2. object[p] = p
    BY <1>3 DEF Truncate, MapMemory, FillState, initialize_mutexes, initialize_semaphores
  <2> QED
    BY <1>3, <2>1, <2>2, NextLabel
<1>4. CASE processes_start(p) \/ SchedulerRun(p) \/ RequestShutdown(p) \/ processes_wait(p)
  <2>1. object' = object /\ name' = name /\ refused' = refused
    BY <1>4 DEF processes_start, SchedulerRun, RequestShutdown, processes_wait
  <2>2. object[p] = p
    BY <1>4 DEF processes_start, SchedulerRun, RequestShutdown, processes_wait
  <2>3. Sharing \cup {"release"} \subseteq Label
    BY DEF Label
  <2>4. pc'[p] \in Sharing \cup {"release"}
    <3>1. CASE processes_start(p)
      BY <2>3, <3>1, Outcomes DEF processes_start, Fork, CallFails
    <3>2. CASE SchedulerRun(p) \/ RequestShutdown(p)
      BY <2>3, <3>2, Outcomes DEF SchedulerRun, RequestShutdown, CallFails
    <3>3. CASE processes_wait(p)
      BY <2>3, <3>3, Outcomes DEF processes_wait, Wait
    <3> QED
      BY <1>4, <3>1, <3>2, <3>3
  <2> QED
    BY <2>1, <2>2, <2>4
<1>5. CASE Detach(p)
  <2>1. object' = object /\ name' = name /\ pc[p] = "release"
    BY <1>5 DEF Detach
  <2>2. pc'[p] = "unlink_own"
    BY <1>5, NextLabel
  <2> QED
    BY <2>1, <2>2
<1>6. CASE UnlinkOwn(p)
  <2>1. object' = object
    BY <1>6 DEF UnlinkOwn
  <2>2. name' = None \/ "name" \in refused'[p]
    BY <1>6 DEF UnlinkOwn, TypeOK
  <2>3. pc'[p] = "free_map"
    BY <1>0, <1>6, Outcomes DEF UnlinkOwn, CallFails
  <2> QED
    BY <1>0, <2>1, <2>2, <2>3
<1>7. CASE map_free(p)
  <2>1. object' = object /\ name' = name /\ refused' = refused
    BY <1>7 DEF map_free
  <2>2. pc[p] = "free_map" /\ pc'[p] = "exit"
    BY <1>7, NextLabel DEF map_free
  <2> QED
    BY <2>1, <2>2
<1>8. CASE Crash(p)
  BY <1>8 DEF Crash, TypeOK
<1>9. CASE \E c \in Child : ChildEnds(p, c) \/ ChildFails(p, c)
  BY <1>9 DEF ChildEnds, ChildFails
<1> QED
  BY <1>1, <1>2, <1>3, <1>4, <1>5, <1>6, <1>7, <1>8, <1>9 DEF Step, Main

\* fork, called for Pac-Man and then for the enemies: the new child runs, or the
\* main process goes to its shutdown in error.
LEMMA ForkStep ==
  ASSUME TypeOK, NEW p \in Program, NEW c \in Child, NEW next \in Label, Fork(p, c, next)
  PROVE  \/ /\ Reaches(p, next, status[p])
            /\ child'[p][c] = "running"
            /\ \A d \in Child \ {c} : child'[p][d] = child[p][d]
         \/ Reaches(p, "shutdown", "error") /\ child' = child
<1>1. "shutdown" \in Label
  BY DEF Label
<1>2. CASE Goto(p, next) /\ child' = [child EXCEPT ![p][c] = "running"]
  BY <1>2, Outcomes DEF TypeOK
<1>3. CASE Fails(p, "shutdown") /\ child' = child
  BY <1>1, <1>3, Outcomes
<1> QED
  BY <1>2, <1>3 DEF Fork, CallFails

\* waitpid: a child that was started is reaped once it has ended, and the result
\* is an error when its exit status is.
LEMMA WaitStep ==
  ASSUME TypeOK, NEW p \in Program, NEW c \in Child, NEW next \in Label, Wait(p, c, next)
  PROVE  \/ child[p][c] = "unborn" /\ Reaches(p, next, status[p]) /\ reaped' = reaped
         \/ /\ child[p][c] \in {"success", "failure"}
            /\ reaped'[p] = reaped[p] \cup {c}
            /\ \/ child[p][c] = "success" /\ Reaches(p, next, status[p])
               \/ Reaches(p, next, "error")
<1>1. CASE child[p][c] = "unborn" /\ Goto(p, next) /\ reaped' = reaped
  BY <1>1, Outcomes
<1>2. CASE /\ child[p][c] \in {"success", "failure"}
           /\ reaped' = [reaped EXCEPT ![p] = @ \cup {c}]
           /\ IF child[p][c] = "success" THEN Goto(p, next) ELSE Fails(p, next)
  <2>1. reaped'[p] = reaped[p] \cup {c}
    BY <1>2 DEF TypeOK
  <2>2. \/ child[p][c] = "success" /\ Reaches(p, next, status[p])
        \/ Reaches(p, next, "error")
    BY <1>2, Outcomes
  <2> QED
    BY <1>2, <2>1, <2>2
<1> QED
  BY <1>1, <1>2 DEF Wait

\* A child ends once, and only its own entry changes.
LEMMA ChildStep ==
  ASSUME TypeOK, NEW p \in Program, NEW c \in Child, ChildEnds(p, c) \/ ChildFails(p, c)
  PROVE  /\ child[p][c] = "running" /\ child'[p][c] \in {"success", "failure"}
         /\ \A d \in Child \ {c} : child'[p][d] = child[p][d]
         /\ pc' = pc /\ status' = status /\ held' = held /\ reaped' = reaped
         /\ refused' = refused
<1>1. \/ child' = [child EXCEPT ![p][c] = "success"]
      \/ child' = [child EXCEPT ![p][c] = "failure"]
  BY DEF ChildEnds, ChildFails
<1>2. child'[p][c] \in {"success", "failure"} /\ \A d \in Child \ {c} : child'[p][d] = child[p][d]
  BY <1>1 DEF TypeOK
<1> QED
  BY <1>2 DEF ChildEnds, ChildFails

\* The children are started in order and waited for in order, with everything
\* they use in place meanwhile.
LEMMA StepChildren ==
  ASSUME TypeOK, NEW p \in Program, RunInv(p), Step(p)
  PROVE  Children(p)'
<1> USE DEF Children, Sharing, Released, At, Reaches, Child
<1>0. /\ Children(p)
      /\ held' \in [Program -> [Resource -> 0..1]]
      /\ pc'[p] \in Sharing => \A s \in Sync : held'[p][s] = 1
      /\ Sharing \cup {"release"} \subseteq Label
  <2>1. HeldStep(p)
    BY StepHolds
  <2> QED
    BY <2>1, Objects DEF RunInv, HeldStep, Holdings, Holds, Label
<1>1. CASE \/ CheckArguments(p) \/ LoadMap(p) \/ LoadMovements(p) \/ UnlinkLeftover(p)
           \/ Open(p) \/ Truncate(p) \/ MapMemory(p) \/ FillState(p)
           \/ initialize_mutexes(p) \/ initialize_semaphores(p)
  <2>1. child' = child /\ reaped' = reaped
    BY <1>1 DEF CheckArguments, LoadMap, LoadMovements, UnlinkLeftover, Open, Truncate,
                MapMemory, FillState, initialize_mutexes, initialize_semaphores
  <2>2. \A c \in Child : child[p][c] = "unborn"
    BY <1>0, <1>1 DEF CheckArguments, LoadMap, LoadMovements, UnlinkLeftover, Open, Truncate,
                MapMemory, FillState, initialize_mutexes, initialize_semaphores
  <2> QED
    BY <1>0, <2>1, <2>2
<1>2. CASE processes_start(p)
  <2>1. reaped' = reaped
    BY <1>2 DEF processes_start
  <2>2. CASE At(p, "fork_pacman") /\ Fork(p, "pacman", "fork_enemy")
    <3>1. \/ pc'[p] = "fork_enemy" /\ child'[p]["enemy"] = child[p]["enemy"]
          \/ pc'[p] = "shutdown" /\ child' = child
      BY <1>0, <2>2, ForkStep
    <3>2. \A c \in reaped[p] : child'[p][c] \in {"success", "failure"}
      <4>1. "pacman" \notin reaped[p] /\ reaped[p] \subseteq Child
        BY <1>0, <2>2 DEF TypeOK
      <4> QED
        BY <1>0, <3>1, <4>1
    <3> QED
      BY <1>0, <2>1, <2>2, <3>1, <3>2
  <2>3. CASE At(p, "fork_enemy") /\ Fork(p, "enemy", "run")
    <3>1. \/ pc'[p] = "run" /\ child'[p]["pacman"] = child[p]["pacman"]
          \/ pc'[p] = "shutdown" /\ child' = child
      BY <1>0, <2>3, ForkStep
    <3>2. \A c \in reaped[p] : child'[p][c] \in {"success", "failure"}
      <4>1. "enemy" \notin reaped[p] /\ reaped[p] \subseteq Child
        BY <1>0, <2>3 DEF TypeOK
      <4> QED
        BY <1>0, <3>1, <4>1
    <3> QED
      BY <1>0, <2>1, <2>3, <3>1, <3>2
  <2> QED
    BY <1>2, <2>2, <2>3 DEF processes_start
<1>3. CASE SchedulerRun(p) \/ RequestShutdown(p)
  <2>1. child' = child /\ reaped' = reaped
    BY <1>3 DEF SchedulerRun, RequestShutdown
  <2>2. pc'[p] \in {"wait_pacman", "shutdown"}
    BY <1>3, NextLabel
  <2> QED
    BY <1>0, <2>1, <2>2
<1>4. CASE processes_wait(p)
  <2>1. child' = child
    BY <1>4 DEF processes_wait
  <2>2. CASE At(p, "wait_pacman") /\ Wait(p, "pacman", "wait_enemy")
    BY <1>0, <2>1, <2>2, WaitStep
  <2>3. CASE At(p, "wait_enemy") /\ Wait(p, "enemy", "release")
    BY <1>0, <2>1, <2>3, WaitStep
  <2> QED
    BY <1>4, <2>2, <2>3 DEF processes_wait
<1>5. CASE Detach(p) \/ UnlinkOwn(p) \/ map_free(p)
  <2>1. child' = child /\ reaped' = reaped
    BY <1>5 DEF Detach, UnlinkOwn, map_free
  <2>2. pc[p] \in {"release"} \cup Released /\ pc'[p] \in Released
    BY <1>5, NextLabel DEF Detach, UnlinkOwn, map_free
  <2> QED
    BY <1>0, <2>1, <2>2
<1>6. CASE Crash(p)
  <2>1. child' = child /\ reaped' = reaped /\ held' = held /\ pc'[p] = "crashed"
    BY <1>6 DEF Crash, TypeOK
  <2> QED
    BY <1>0, <2>1
<1>7. CASE \E c \in Child : ChildEnds(p, c) \/ ChildFails(p, c)
  <2>1. PICK c \in Child : ChildEnds(p, c) \/ ChildFails(p, c)
    BY <1>7
  <2>2. /\ child[p][c] = "running" /\ child'[p][c] \in {"success", "failure"}
        /\ \A d \in Child \ {c} : child'[p][d] = child[p][d]
        /\ pc' = pc /\ held' = held /\ reaped' = reaped
    BY <2>1, ChildStep
  <2>3. reaped[p] \subseteq Child \ {c}
    BY <1>0, <2>2 DEF TypeOK
  <2>4. pc[p] \in Sharing \cup {"crashed"}
    BY <1>0, <2>2, <2>3
  <2>5. \A d \in Child : child'[p][d] = "running" => child[p][d] = "running"
    BY <2>2
  <2>6. child'[p][c] # "unborn" /\ \A d \in reaped[p] : child'[p][d] = child[p][d]
    BY <2>2, <2>3
  <2>7. /\ pc[p] = "fork_pacman" => child'[p]["pacman"] = "unborn"
        /\ pc[p] \in {"fork_pacman", "fork_enemy"} => child'[p]["enemy"] = "unborn"
        /\ pc[p] = "wait_enemy" /\ child'[p]["pacman"] # "unborn" => "pacman" \in reaped[p]
    BY <1>0, <2>2, <2>3
  <2> QED
    BY <1>0, <2>2, <2>4, <2>5, <2>6, <2>7
<1> QED
  BY <1>1, <1>2, <1>3, <1>4, <1>5, <1>6, <1>7 DEF Step, Main

\* A failure is never forgotten: the result stays an error to the exit.
LEMMA StepResults ==
  ASSUME TypeOK, NEW p \in Program, RunInv(p), Step(p)
  PROVE  Results(p)'
<1> USE DEF Results, Sharing, Released, At, Reaches, Child
<1>0. /\ Results(p) /\ Children(p)
      /\ Sharing \cup {"release"} \subseteq Label
  BY DEF RunInv, Label
<1>1. CASE \/ CheckArguments(p) \/ LoadMap(p) \/ LoadMovements(p) \/ UnlinkLeftover(p)
           \/ Open(p) \/ Truncate(p) \/ MapMemory(p) \/ FillState(p)
           \/ initialize_mutexes(p) \/ initialize_semaphores(p)
  <2>1. child' = child /\ refused' = refused
    BY <1>1 DEF CheckArguments, LoadMap, LoadMovements, UnlinkLeftover, Open, Truncate,
                MapMemory, FillState, initialize_mutexes, initialize_semaphores
  <2>2. \E label \in {"load_map", "load_movements", "unlink", "open", "truncate", "mmap",
                      "fill", "mutexes", "semaphores", "fork_pacman"} :
          Goto(p, label) \/ \E next \in {"free_map", "release", "exit"} : Fails(p, next)
    BY <1>1 DEF CheckArguments, LoadMap, LoadMovements, UnlinkLeftover, Open, Truncate,
                MapMemory, FillState, initialize_mutexes, initialize_semaphores, CallFails
  <2>3. {"load_map", "load_movements", "unlink", "open", "truncate", "mmap", "fill",
         "mutexes", "semaphores", "fork_pacman", "free_map", "release", "exit"} \subseteq Label
    BY DEF Label
  <2>4. \/ /\ status'[p] = status[p]
           /\ pc'[p] \in {"load_map", "load_movements", "unlink", "open", "truncate", "mmap",
                          "fill", "mutexes", "semaphores", "fork_pacman"}
        \/ status'[p] = "error"
    BY <2>2, <2>3, Outcomes
  <2> QED
    BY <1>0, <2>1, <2>4
<1>2. CASE processes_start(p)
  <2>1. refused' = refused
    BY <1>2 DEF processes_start
  <2>2. CASE At(p, "fork_pacman") /\ Fork(p, "pacman", "fork_enemy")
    BY <1>0, <2>1, <2>2, ForkStep
  <2>3. CASE At(p, "fork_enemy") /\ Fork(p, "enemy", "run")
    BY <1>0, <2>1, <2>3, ForkStep
  <2> QED
    BY <1>2, <2>2, <2>3 DEF processes_start
<1>3. CASE SchedulerRun(p) \/ RequestShutdown(p)
  <2>1. child' = child /\ refused' = refused
    BY <1>3 DEF SchedulerRun, RequestShutdown
  <2>2. \/ status'[p] = "error"
        \/ status'[p] = status[p] /\ pc'[p] = "wait_pacman" /\ pc[p] \in {"run", "shutdown"}
    BY <1>0, <1>3, Outcomes DEF SchedulerRun, RequestShutdown, CallFails
  <2> QED
    BY <1>0, <2>1, <2>2
<1>4. CASE processes_wait(p)
  <2>1. child' = child /\ refused' = refused
    BY <1>4 DEF processes_wait
  <2>2. CASE At(p, "wait_pacman") /\ Wait(p, "pacman", "wait_enemy")
    BY <1>0, <2>1, <2>2, WaitStep
  <2>3. CASE At(p, "wait_enemy") /\ Wait(p, "enemy", "release")
    BY <1>0, <2>1, <2>3, WaitStep
  <2> QED
    BY <1>4, <2>2, <2>3 DEF processes_wait
<1>5. CASE Detach(p) \/ UnlinkOwn(p) \/ map_free(p)
  <2>1. child' = child
    BY <1>5 DEF Detach, UnlinkOwn, map_free
  <2>2. pc[p] \in {"release"} \cup Released /\ pc'[p] \in Released
    BY <1>5, NextLabel DEF Detach, UnlinkOwn, map_free
  <2>3. \/ status'[p] = "error"
        \/ status'[p] = status[p] /\ refused'[p] = refused[p]
    <3>1. {"unlink_own", "free_map", "exit"} \subseteq Label
      BY DEF Label
    <3>2. CASE Detach(p)
      <4>1. PICK stuck \in SUBSET {"fd", "state"} :
              /\ refused' = [refused EXCEPT ![p] = @ \cup stuck]
              /\ IF stuck = {} THEN Goto(p, "unlink_own") ELSE Fails(p, "unlink_own")
        BY <3>2 DEF Detach
      <4>2. refused'[p] = refused[p] \cup stuck
        BY <4>1 DEF TypeOK
      <4>3. \/ Reaches(p, "unlink_own", status[p]) /\ stuck = {}
            \/ Reaches(p, "unlink_own", "error")
        BY <3>1, <4>1, Outcomes
      <4> QED
        BY <4>2, <4>3
    <3>3. CASE UnlinkOwn(p)
      <4>1. \/ Goto(p, "free_map") /\ refused' = refused
            \/ Fails(p, "free_map")
        BY <3>3 DEF UnlinkOwn, CallFails
      <4>2. \/ Reaches(p, "free_map", status[p]) /\ refused' = refused
            \/ Reaches(p, "free_map", "error")
        BY <3>1, <4>1, Outcomes
      <4> QED
        BY <4>2
    <3>4. CASE map_free(p)
      BY <3>1, <3>4, Outcomes DEF map_free
    <3> QED
      BY <1>5, <3>2, <3>3, <3>4
  <2> QED
    BY <1>0, <2>1, <2>2, <2>3
<1>6. CASE Crash(p)
  <2>1. child' = child /\ refused' = refused /\ status' = status /\ pc'[p] = "crashed"
    BY <1>6 DEF Crash, TypeOK
  <2> QED
    BY <1>0, <2>1
<1>7. CASE \E c \in Child : ChildEnds(p, c) \/ ChildFails(p, c)
  <2>1. PICK c \in Child : ChildEnds(p, c) \/ ChildFails(p, c)
    BY <1>7
  <2> QED
    BY <1>0, <2>1, ChildStep DEF Children
<1> QED
  BY <1>1, <1>2, <1>3, <1>4, <1>5, <1>6, <1>7 DEF Step, Main

-----------------------------------------------------------------------------
(* The invariant, and what it implies. *)

\* Before its first call a run holds nothing and has started nobody.
LEMMA InvInit ==
  ASSUME ProgramAssumption, Init
  PROVE  IInv
<1>1. TypeOK
  BY DEF Init, TypeOK, Label
<1>2. ASSUME NEW p \in Program
      PROVE  Holdings(p) /\ Naming(p) /\ Children(p) /\ Results(p)
  BY <1>2 DEF Init, ProgramAssumption, Holdings, Holds, Naming, Children, Results, Sharing,
              Released
<1> QED
  BY <1>1, <1>2 DEF IInv

\* Every step of every run keeps the invariant: of the run itself by the lemmas
\* above, of the others because the step is local.
LEMMA InvStep ==
  ASSUME ProgramAssumption, IInv, [Next]_vars
  PROVE  IInv'
<1>1. ASSUME NEW p \in Program, Step(p)
      PROVE  IInv'
  <2>1. TypeOK /\ RunInv(p)
    BY DEF IInv, RunInv
  <2>2. HeldStep(p) /\ Local(p) /\ Naming(p)' /\ Children(p)' /\ Results(p)'
    BY <1>1, <2>1, StepHolds, StepLocal, StepNaming, StepChildren, StepResults
  <2>3. TypeOK'
    BY <2>2 DEF TypeOK, HeldStep, Local
  <2>4. ASSUME NEW q \in Program \ {p}
        PROVE  Holdings(q)' /\ Naming(q)' /\ Children(q)' /\ Results(q)'
    <3>1. /\ pc'[q] = pc[q] /\ status'[q] = status[q] /\ object'[q] = object[q]
          /\ sync_initialized'[q] = sync_initialized[q] /\ child'[q] = child[q]
          /\ reaped'[q] = reaped[q] /\ refused'[q] = refused[q] /\ held'[q] = held[q]
      BY <2>2 DEF HeldStep, Local
    <3>2. name' = q => name = q
      BY <2>2 DEF Local, ProgramAssumption
    <3>3. Holdings(q) /\ Naming(q) /\ Children(q) /\ Results(q)
      BY DEF IInv
    <3>4. Holdings(q)'
      BY <3>1, <3>3 DEF Holdings, Holds
    <3>5. Naming(q)'
      BY <3>1, <3>2, <3>3 DEF Naming
    <3>6. Children(q)' /\ Results(q)'
      BY <3>1, <3>3 DEF Children, Results
    <3> QED
      BY <3>4, <3>5, <3>6
  <2> QED
    BY <2>2, <2>3, <2>4 DEF IInv, HeldStep
<1>2. CASE UNCHANGED vars
  BY <1>2 DEF IInv, vars, TypeOK, Holdings, Holds, Naming, Children, Results
<1> QED
  BY <1>1, <1>2 DEF Next, Step, Finished

\* IInv, which says what a run holds, names and waits for at each label of
\* main(), is an invariant for any number of runs that use the one name.
THEOREM Invariance == Spec => []IInv
<1>1. Init => IInv
  BY InvInit, ProgramAssumption
<1>2. IInv /\ [Next]_vars => IInv'
  BY InvStep, ProgramAssumption
<1> QED
  BY <1>1, <1>2, PTL DEF Spec

\* No mutex, semaphore, descriptor or mapping is acquired twice or given back
\* twice, whichever call fails (the fail and release labels of shared.c, main.c).
THEOREM TypeCorrect == Spec => []TypeOK
BY Invariance, PTL DEF IInv

\* A run that ends leaves only what the system refused to take back, and no child
\* that it has not waited for (main.c, shared_memory_release, processes_wait).
THEOREM NothingIsLeft == Spec => []NothingLeft
<1>1. IInv => NothingLeft
  BY Objects DEF IInv, NothingLeft, Holdings, Holds, Children, Released, At, Acquired
<1> QED
  BY <1>1, Invariance, PTL

\* While a child runs, every mutex and semaphore it may use exists: P0 destroys
\* none before it has waited, and when P0 is killed they stay.
THEOREM SyncIsKept == Spec => []SyncOutlivesChildren
<1>1. IInv => SyncOutlivesChildren
  BY DEF IInv, SyncOutlivesChildren, Children, Acquired
<1> QED
  BY <1>1, Invariance, PTL

\* Runs never play in the memory of one another: O_EXCL lets no run open an
\* object that another one has created (shared_memory_create).
THEOREM MemoryIsOwn == Spec => []OwnMemory
<1>1. IInv => OwnMemory
  BY ProgramAssumption DEF IInv, OwnMemory, Naming, ProgramAssumption
<1> QED
  BY <1>1, Invariance, PTL

\* The name never outlives the run it stands for, unless that run was killed or
\* the system refused to remove it.
THEOREM NameIsOwned == Spec => []NameHasOwner
<1>1. IInv => NameHasOwner
  BY DEF IInv, NameHasOwner, Naming, Sharing, At
<1> QED
  BY <1>1, Invariance, PTL

\* The program reports success only when every call succeeded and both children
\* were started and ended well (main.c, wait_one_child).
THEOREM SuccessIsEarned == Spec => []SuccessMeansPlayed
<1>1. IInv => SuccessMeansPlayed
  BY DEF IInv, SuccessMeansPlayed, Results, Released, At
<1> QED
  BY <1>1, Invariance, PTL
=============================================================================
