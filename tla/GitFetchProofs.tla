--------------------------- MODULE GitFetchProofs ---------------------------
(***************************************************************************)
(* Proofs that a sweep of the git fetch reconciler loses no project and    *)
(* that its verdict can be believed, for any projects, pool sizes and      *)
(* number of pushes, whatever webhook fetches run at the same time.        *)
(***************************************************************************)
EXTENDS GitFetch, FiniteSetTheorems, TLAPS

-----------------------------------------------------------------------------
(* The inductive invariant. *)

\* Where a listed project is: still in the loop, about to be launched, with a
\* worker, or counted; the first three exclude one another.
AccountInv ==
    /\ todo \subseteq usable /\ taken \subseteq usable /\ Running \subseteq usable
    /\ todo \cap taken = {} /\ (todo \cup taken) \cap Running = {}
    /\ IF pc = "go" THEN \E p \in Projects : taken = {p} ELSE taken = {}
    /\ pc = "idle" => Running = {} /\ todo = {} /\ failed = 0 /\ repaired = 0

\* What a fetch has read is never ahead of the primary and never behind what
\* an earlier fetch of its kind has read; once it has succeeded, or when it has
\* nothing to update, it is not ahead of the replica either, unless another
\* fetch has taken that back.
JobInv(j) ==
    /\ job[j] \in {"none", "started"} => found[j] = Nothing
    /\ job[j] = "fetching" =>
          /\ j[2] \in present
          /\ found[j].local <= found[j].remote
          /\ j[1] = "hook" => asked[j[2]] <= found[j].remote
    /\ job[j] \in {"fetching", "ok"} => found[j].remote <= upstream[j[2]]
    /\ job[j] = "fetching" /\ found[j].local = found[j].remote =>
          found[j].remote <= replica[j[2]] \/ j \in undone
    /\ job[j] = "ok" =>
          /\ found[j].remote <= replica[j[2]] \/ j \in undone
          /\ dryRun \/ j[2] \in present

\* The project is as the primary's was when the sweep began, or newer, unless
\* another fetch has taken back what the sweep brought.
Fresh(p) == atStart[p] <= replica[p] \/ <<"sweep", p>> \in undone

\* A fetch of the sweep has read what the primary had when the sweep began, or
\* something newer; a project that has left the loop and its worker without a
\* failure is as fresh as that.  Nothing is taken back in a project of which
\* git names the old values of the refs.
FreshInv ==
    /\ \A p \in Projects : /\ replica[p] <= upstream[p] /\ atStart[p] <= upstream[p]
                            /\ asked[p] <= upstream[p]
    /\ \A p \in Projects \ ActiveProjects : asked[p] = 0
    /\ \A j \in undone : j[2] \notin knownRefs
    /\ \A j \in Jobs : JobInv(j)
    /\ ~dryRun => \A p \in Projects :
          job[<<"sweep", p>>] \in {"fetching", "ok"} => atStart[p] <= found[<<"sweep", p>>].remote
    /\ pc # "idle" /\ ~dryRun /\ failed = 0 =>
          \A p \in usable \ (todo \cup taken \cup Running) : p \in present /\ Fresh(p)
    /\ pc = "wait" => (complete <=> todo = {})

IInv ==
    /\ TypeOK
    /\ AccountInv
    /\ EveryProjectAccounted
    /\ FreshInv
    /\ SuccessMeansFresh

-----------------------------------------------------------------------------
(* Facts about jobs and finite sets. *)

\* A job is a sweep's or a hook's, and of one project.
LEMMA JobFacts ==
    /\ \A p \in Projects : <<"sweep", p>> \in Jobs
    /\ \A p \in ActiveProjects : <<"hook", p>> \in Jobs /\ p \in Projects
    /\ \A j \in Jobs : /\ j[1] \in {"sweep", "hook"} /\ j[2] \in Projects
                       /\ j = <<j[1], j[2]>>
  <1>1. \A p \in Projects : <<"sweep", p>> \in Jobs
    BY DEF Jobs
  <1>2. \A p \in ActiveProjects : <<"hook", p>> \in Jobs /\ p \in Projects
    BY GitFetchAssumption DEF Jobs
  <1>3. ASSUME NEW j \in Jobs
        PROVE  j[1] \in {"sweep", "hook"} /\ j[2] \in Projects /\ j = <<j[1], j[2]>>
    <2>1. CASE j \in {"sweep"} \X Projects
      BY <2>1
    <2>2. CASE j \in {"hook"} \X ActiveProjects
      <3>1. j[1] = "hook" /\ j[2] \in ActiveProjects /\ j = <<j[1], j[2]>>
        BY <2>2
      <3> QED
        BY <3>1, GitFetchAssumption
    <2> QED
      BY <2>1, <2>2 DEF Jobs
  <1> QED
    BY <1>1, <1>2, <1>3

\* Sets of projects are finite, and so are their sizes.
LEMMA ProjectSets ==
    \A S \in SUBSET Projects : IsFiniteSet(S) /\ Cardinality(S) \in Nat
  BY FS_Subset, FS_CardinalityType, GitFetchAssumption

-----------------------------------------------------------------------------
(* Types *)

\* The steps of fetchOne and its callers set a job's step and what it has
\* found to values of their type.
LEMMA FetchType ==
    ASSUME TypeOK, NEW j \in Jobs, Fetch(j)
    PROVE  TypeOK'
  <1>1. j[2] \in Projects
    BY JobFacts
  <1>2. /\ UNCHANGED <<usable, present, knownRefs, sshHost, dryRun, maxParallel, upstream, reachable, cancelled,
                       pc, todo, taken, failed, repaired, result, atStart, complete, asked>>
        /\ \E v \in {"fetching", "ok", "error"} : job' = [job EXCEPT ![j] = v]
    BY DEF Fetch, FetchBegin, FetchEnd, setting, world, sweep, hist
  <1>3. replica' \in [Projects -> Versions]
    BY <1>1 DEF TypeOK, Fetch, FetchBegin, FetchEnd, UpdateRefs, setting, world
  <1>4. found' \in [Jobs -> [remote : Versions, local : Versions]]
    BY <1>1 DEF TypeOK, Fetch, FetchBegin, FetchEnd
  <1>5. undone' \in SUBSET Jobs
    BY DEF TypeOK, Fetch, FetchBegin, FetchEnd, UpdateRefs, hist
  <1> QED
    BY <1>2, <1>3, <1>4, <1>5 DEF TypeOK

LEMMA WorkerDoneType ==
    ASSUME TypeOK, NEW p \in Projects, WorkerDone(p)
    PROVE  TypeOK'
  <1>1. Nothing \in [remote : Versions, local : Versions]
    BY GitFetchAssumption DEF Nothing, Versions
  <1>2. /\ job' = [job EXCEPT ![<<"sweep", p>>] = "none"]
        /\ found' = [found EXCEPT ![<<"sweep", p>>] = Nothing]
        /\ failed' \in Nat /\ repaired' \in Nat
        /\ UNCHANGED <<usable, present, knownRefs, sshHost, dryRun, maxParallel, upstream, replica, reachable,
                       cancelled, pc, todo, taken, result, atStart, complete, asked, undone>>
    BY DEF TypeOK, WorkerDone, setting, world, hist
  <1> QED
    BY <1>1, <1>2 DEF TypeOK

LEMMA HookType ==
    ASSUME TypeOK, NEW p \in ActiveProjects, HookStart(p) \/ HookDone(p)
    PROVE  TypeOK'
  <1>1. Nothing \in [remote : Versions, local : Versions]
    BY GitFetchAssumption DEF Nothing, Versions
  <1>2. <<"hook", p>> \in Jobs /\ p \in Projects
    BY JobFacts
  <1>3. asked' \in [Projects -> Versions]
    BY <1>2, GitFetchAssumption DEF TypeOK, HookStart, HookDone, hist, Versions
  <1>4. /\ \E v \in {"none", "started"} : job' = [job EXCEPT ![<<"hook", p>>] = v]
        /\ found' \in {found, [found EXCEPT ![<<"hook", p>>] = Nothing]}
        /\ UNCHANGED <<usable, present, knownRefs, sshHost, dryRun, maxParallel, upstream, replica, reachable,
                       cancelled, pc, todo, taken, failed, repaired, result, atStart, complete,
                       undone>>
    BY DEF HookStart, HookDone, setting, world, sweep, hist
  <1> QED
    BY <1>1, <1>2, <1>3, <1>4 DEF TypeOK

LEMMA ReconcileType ==
    ASSUME TypeOK, \/ ListFails \/ ListProjects \/ NextProject \/ Launch \/ SweepEnd
    PROVE  TypeOK'
  <1>1. UNCHANGED <<usable, present, knownRefs, sshHost, dryRun, maxParallel, upstream, replica, reachable,
                    cancelled, found, asked, undone>>
    BY DEF ListFails, ListProjects, NextProject, Launch, SweepEnd, setting, world, hist
  <1>2. /\ pc' \in {"idle", "loop", "go", "wait"}
        /\ todo' \in SUBSET Projects /\ taken' \in SUBSET Projects
        /\ failed' \in Nat /\ repaired' \in Nat
    BY DEF TypeOK, ListFails, ListProjects, NextProject, Launch, SweepEnd
  <1>3. atStart' \in [Projects -> Versions]
    BY DEF TypeOK, ListFails, ListProjects, NextProject, Launch, SweepEnd, hist
  <1>4. complete' \in BOOLEAN
    BY DEF TypeOK, ListFails, ListProjects, NextProject, Launch, SweepEnd, hist
  <1>5. result' \in Result
    <2>1. CASE SweepEnd
      <3>1. (failed = 0) \in BOOLEAN
        OBVIOUS
      <3>2. result' = [ok |-> failed = 0, remaining |-> failed]
        BY <2>1 DEF SweepEnd, Return
      <3> QED
        BY <3>1, <3>2 DEF TypeOK, Result
    <2>2. CASE ListFails \/ ListProjects \/ NextProject \/ Launch
      <3>1. result' \in {result, [ok |-> FALSE, remaining |-> 1], [ok |-> TRUE, remaining |-> 0]}
        BY <2>2 DEF Return, ListFails, ListProjects, NextProject, Launch
      <3>2. [ok |-> FALSE, remaining |-> 1] \in Result /\ [ok |-> TRUE, remaining |-> 0] \in Result
        BY DEF Result
      <3>3. result \in Result
        BY DEF TypeOK
      <3> QED
        BY <3>1, <3>2, <3>3
    <2> QED
      BY <2>1, <2>2
  <1>6. \/ UNCHANGED job
        \/ \E p \in taken : job' = [job EXCEPT ![<<"sweep", p>>] = "started"]
    BY DEF ListFails, ListProjects, NextProject, Launch, SweepEnd
  <1>7. job' \in [Jobs -> {"none", "started", "fetching", "ok", "error"}]
    BY <1>6 DEF TypeOK
  <1> QED
    BY <1>1, <1>2, <1>3, <1>4, <1>5, <1>7 DEF TypeOK

LEMMA SiteType ==
    ASSUME TypeOK, \/ \E p \in ActiveProjects : Push(p)
                   \/ Reachability \/ Cancel \/ Restart
    PROVE  TypeOK'
  <1>1. /\ UNCHANGED <<usable, present, knownRefs, sshHost, dryRun, maxParallel, replica, sweep, job, found, hist>>
        /\ reachable' \in BOOLEAN /\ cancelled' \in BOOLEAN
    BY DEF TypeOK, Push, Reachability, Cancel, Restart, setting
  <1>2. upstream' \in [Projects -> Versions]
    BY GitFetchAssumption DEF TypeOK, Push, Reachability, Cancel, Restart, Versions
  <1> QED
    BY <1>1, <1>2 DEF TypeOK, sweep, hist

-----------------------------------------------------------------------------
(* Accounting *)

\* The errgroup has a size.
LEMMA ParallelType == ASSUME TypeOK PROVE Parallel \in Nat
  <1>1. Cardinality(usable) \in Nat /\ maxParallel \in Nat
    BY ProjectSets, GitFetchAssumption DEF TypeOK
  <1> QED
    BY <1>1 DEF Parallel

\* Steps of the sites, of hooks and of fetches move no project.
LEMMA SameAccount ==
    ASSUME AccountInv, EveryProjectAccounted, Running' = Running,
           UNCHANGED <<usable, maxParallel, pc, todo, taken, failed, repaired>>
    PROVE  AccountInv' /\ EveryProjectAccounted'
  BY DEF AccountInv, EveryProjectAccounted, Parallel

\* A project's fetch keeps its slot until its worker is done.
LEMMA FetchRunning ==
    ASSUME TypeOK, NEW j \in Jobs, Fetch(j)
    PROVE  Running' = Running
  <1>1. job[j] # "none" /\ \E v \in {"fetching", "ok", "error"} : job' = [job EXCEPT ![j] = v]
    BY DEF Fetch, FetchBegin, FetchEnd
  <1>2. \A p \in Projects : job'[<<"sweep", p>>] # "none" <=> job[<<"sweep", p>>] # "none"
    BY <1>1, JobFacts DEF TypeOK
  <1> QED
    BY <1>2 DEF Running

LEMMA HookRunning ==
    ASSUME TypeOK, NEW p \in ActiveProjects, HookStart(p) \/ HookDone(p)
    PROVE  Running' = Running
  <1>1. \E v \in {"none", "started"} : job' = [job EXCEPT ![<<"hook", p>>] = v]
    BY DEF HookStart, HookDone
  <1>2. \A q \in Projects : <<"sweep", q>> # <<"hook", p>>
    OBVIOUS
  <1>3. \A q \in Projects : job'[<<"sweep", q>>] = job[<<"sweep", q>>]
    BY <1>1, <1>2, JobFacts DEF TypeOK
  <1> QED
    BY <1>3 DEF Running

\* The listing puts every project into the loop.
LEMMA ListAccount ==
    ASSUME TypeOK, AccountInv, EveryProjectAccounted, ListProjects
    PROVE  AccountInv' /\ EveryProjectAccounted'
  <1>1. /\ pc = "idle" /\ Running = {} /\ todo = {} /\ taken = {} /\ failed = 0 /\ repaired = 0
        /\ UNCHANGED <<usable, maxParallel, taken, failed, repaired>> /\ Running' = Running
    BY DEF ListProjects, AccountInv, Running, world, setting
  <1>2. \/ UNCHANGED <<pc, todo>>
        \/ pc' = "loop" /\ todo' = usable
    BY DEF ListProjects
  <1>3. Cardinality({}) = 0 /\ Cardinality(usable) \in Nat
    BY FS_EmptySet, ProjectSets DEF TypeOK
  <1>4. CASE UNCHANGED <<pc, todo>>
    BY <1>1, <1>4, SameAccount
  <1>5. CASE pc' = "loop" /\ todo' = usable
    <2>1. AccountInv'
      BY <1>1, <1>5 DEF AccountInv
    <2>2. todo' \cup taken' = usable
      BY <1>1, <1>5
    <2>3. EveryProjectAccounted'
      BY <1>1, <1>3, <1>5, <2>2 DEF EveryProjectAccounted, Parallel
    <2> QED
      BY <2>1, <2>3
  <1> QED
    BY <1>2, <1>4, <1>5

\* A turn of the loop takes one project out of it.
LEMMA NextProjectAccount ==
    ASSUME TypeOK, AccountInv, EveryProjectAccounted, NextProject
    PROVE  AccountInv' /\ EveryProjectAccounted'
  <1>1. /\ pc = "loop" /\ taken = {} /\ pc' \in {"wait", "go"}
        /\ UNCHANGED <<usable, maxParallel, failed, repaired>> /\ Running' = Running
    BY DEF NextProject, AccountInv, Running, world, setting
  <1>2. \/ pc' = "wait" /\ UNCHANGED <<todo, taken>>
        \/ pc' = "go" /\ \E p \in todo : taken' = {p} /\ todo' = todo \ {p}
    BY DEF NextProject
  <1>3. todo' \cup taken' = todo \cup taken
    BY <1>1, <1>2
  <1>4. AccountInv'
    BY <1>1, <1>2 DEF AccountInv, TypeOK
  <1>5. EveryProjectAccounted'
    BY <1>1, <1>3 DEF EveryProjectAccounted, Parallel
  <1> QED
    BY <1>4, <1>5

\* The project in hand gets the free slot.
LEMMA LaunchAccount ==
    ASSUME TypeOK, AccountInv, EveryProjectAccounted, Launch
    PROVE  AccountInv' /\ EveryProjectAccounted'
  <1>1. PICK p \in taken : job' = [job EXCEPT ![<<"sweep", p>>] = "started"]
    BY DEF Launch
  <1>2. /\ pc = "go" /\ pc' = "loop" /\ taken = {p} /\ taken' = {} /\ p \in usable /\ p \in Projects
        /\ p \notin Running /\ p \notin todo /\ Cardinality(Running) < Parallel
        /\ UNCHANGED <<usable, maxParallel, todo, failed, repaired>>
    BY <1>1 DEF Launch, AccountInv, TypeOK, world, setting
  <1>3. \A q \in Projects : job'[<<"sweep", q>>] =
                               IF q = p THEN "started" ELSE job[<<"sweep", q>>]
    BY <1>1, <1>2, JobFacts DEF TypeOK
  <1>4. Running' = Running \cup {p}
    BY <1>2, <1>3 DEF Running
  <1>5. AccountInv'
    BY <1>2, <1>4 DEF AccountInv
  <1>6. /\ IsFiniteSet(Running) /\ Cardinality(Running) \in Nat
        /\ IsFiniteSet(todo) /\ Cardinality(todo) \in Nat /\ Cardinality(usable) \in Nat
    BY ProjectSets DEF TypeOK, Running
  <1>7. Cardinality(Running') = Cardinality(Running) + 1
    BY <1>2, <1>4, <1>6, FS_AddElement
  <1>8. Cardinality(todo \cup taken) = Cardinality(todo) + 1
    BY <1>2, <1>6, FS_AddElement
  <1>9. todo' \cup taken' = todo /\ Parallel' = Parallel
    BY <1>2 DEF Parallel
  <1>10. EveryProjectAccounted'
    <2>1. Parallel \in Nat /\ failed \in Nat /\ repaired \in Nat
      BY ParallelType DEF TypeOK
    <2> QED
      BY <1>2, <1>6, <1>7, <1>8, <1>9, <2>1 DEF EveryProjectAccounted
  <1> QED
    BY <1>5, <1>10

\* A worker that is done is counted once.
LEMMA WorkerDoneAccount ==
    ASSUME TypeOK, AccountInv, EveryProjectAccounted, NEW p \in Projects, WorkerDone(p)
    PROVE  AccountInv' /\ EveryProjectAccounted'
  <1>1. /\ job[<<"sweep", p>>] # "none" /\ job' = [job EXCEPT ![<<"sweep", p>>] = "none"]
        /\ \/ repaired' = repaired + 1 /\ failed' = failed
           \/ failed' = failed + 1 /\ repaired' = repaired
        /\ UNCHANGED <<usable, maxParallel, pc, todo, taken>>
    BY DEF WorkerDone, world, setting
  <1>2. \A q \in Projects : job'[<<"sweep", q>>] = IF q = p THEN "none" ELSE job[<<"sweep", q>>]
    BY <1>1, JobFacts DEF TypeOK
  <1>3. Running' = Running \ {p} /\ p \in Running
    BY <1>1, <1>2 DEF Running
  <1>4. pc # "idle"
    BY <1>3 DEF AccountInv
  <1>5. AccountInv'
    BY <1>1, <1>3, <1>4 DEF AccountInv
  <1>6. /\ IsFiniteSet(Running) /\ Cardinality(Running) \in Nat
        /\ Cardinality(todo \cup taken) \in Nat /\ Cardinality(usable) \in Nat
    BY ProjectSets DEF TypeOK, Running
  <1>7. Cardinality(Running') = Cardinality(Running) - 1
    BY <1>3, <1>6, FS_RemoveElement
  <1>8. Parallel' = Parallel
    BY <1>1 DEF Parallel
  <1>9. EveryProjectAccounted'
    <2>1. Parallel \in Nat /\ failed \in Nat /\ repaired \in Nat
      BY ParallelType DEF TypeOK
    <2>2. todo' \cup taken' = todo \cup taken
      BY <1>1
    <2> QED
      BY <1>1, <1>6, <1>7, <1>8, <2>1, <2>2 DEF EveryProjectAccounted
  <1> QED
    BY <1>5, <1>9

\* The verdict is given when no worker is left.
LEMMA SweepEndAccount ==
    ASSUME TypeOK, AccountInv, EveryProjectAccounted, SweepEnd
    PROVE  AccountInv' /\ EveryProjectAccounted'
  <1>1. /\ pc = "wait" /\ pc' = "idle" /\ Running = {} /\ todo' = {} /\ failed' = 0 /\ repaired' = 0
        /\ UNCHANGED <<usable, maxParallel, taken>> /\ Running' = Running
    BY DEF SweepEnd, Running, world, setting
  <1> QED
    BY <1>1 DEF AccountInv, EveryProjectAccounted, Parallel

-----------------------------------------------------------------------------
(* Freshness *)

\* Versions are numbers.
LEMMA VersionTypes ==
    ASSUME TypeOK
    PROVE  /\ \A p \in Projects : /\ upstream[p] \in Nat /\ replica[p] \in Nat
                                  /\ atStart[p] \in Nat /\ asked[p] \in Nat
           /\ \A j \in Jobs : found[j].remote \in Nat /\ found[j].local \in Nat
  <1>1. Versions \subseteq Nat
    BY GitFetchAssumption DEF Versions
  <1> QED
    BY <1>1 DEF TypeOK

\* A push makes the primary's version larger; nobody has read it yet.
LEMMA SiteFresh ==
    ASSUME IInv, \/ \E p \in ActiveProjects : Push(p)
                 \/ Reachability \/ Cancel \/ Restart
    PROVE  IInv'
  <1>1. /\ UNCHANGED <<usable, present, knownRefs, dryRun, maxParallel, replica, pc, todo, taken, failed, repaired,
                       result, job, found, atStart, complete, asked, undone>>
        /\ Running' = Running
    BY DEF Push, Reachability, Cancel, Restart, setting, sweep, hist, Running
  <1>2. TypeOK'
    BY SiteType DEF IInv
  <1>3. AccountInv' /\ EveryProjectAccounted'
    BY <1>1, SameAccount DEF IInv
  <1>4. \A p \in Projects : upstream[p] <= upstream'[p]
    <2>1. \A p \in Projects : upstream[p] \in Nat
      BY VersionTypes DEF IInv
    <2> QED
      BY <2>1 DEF IInv, TypeOK, Push, Reachability, Cancel, Restart
  <1>5. \A p \in Projects : upstream[p] \in Nat /\ upstream'[p] \in Nat
                            /\ replica[p] \in Nat /\ atStart[p] \in Nat /\ asked[p] \in Nat
    <2>1. \A p \in Projects : upstream'[p] \in Nat
      BY <1>2, GitFetchAssumption DEF TypeOK, Versions
    <2> QED
      BY <2>1, VersionTypes DEF IInv
  <1>6. \A p \in Projects : /\ replica'[p] <= upstream'[p] /\ atStart'[p] <= upstream'[p]
                            /\ asked'[p] <= upstream'[p]
    BY <1>1, <1>4, <1>5 DEF IInv, FreshInv, Fresh
  <1>7. \A j \in Jobs : JobInv(j)'
    <2>1. \A j \in Jobs : found[j].remote \in Nat /\ j[2] \in Projects
      BY VersionTypes, JobFacts DEF IInv
    <2> QED
      BY <1>1, <1>4, <1>5, <2>1 DEF IInv, FreshInv, JobInv, Fresh
  <1>8. FreshInv'
    BY <1>1, <1>6, <1>7 DEF IInv, FreshInv, Fresh
  <1>9. SuccessMeansFresh'
    BY <1>1 DEF IInv, SuccessMeansFresh
  <1> QED
    BY <1>2, <1>3, <1>8, <1>9 DEF IInv

\* The verdict of an error.
LEMMA ListFailsFresh ==
    ASSUME IInv, ListFails
    PROVE  IInv'
  <1>1. /\ UNCHANGED <<usable, present, knownRefs, dryRun, maxParallel, upstream, replica, pc, todo, taken, failed,
                       repaired, job, found, atStart, complete, asked, undone>>
        /\ Running' = Running /\ result' = [ok |-> FALSE, remaining |-> 1]
    BY DEF ListFails, Return, setting, world, hist, Running
  <1>2. TypeOK'
    BY ReconcileType DEF IInv
  <1>3. AccountInv' /\ EveryProjectAccounted'
    BY <1>1, SameAccount DEF IInv
  <1>4. FreshInv'
    BY <1>1 DEF IInv, FreshInv, JobInv, Fresh
  <1>5. SuccessMeansFresh'
    BY <1>1 DEF IInv, SuccessMeansFresh
  <1> QED
    BY <1>2, <1>3, <1>4, <1>5 DEF IInv

\* A sweep begins: no project has left the loop yet.
LEMMA ListProjectsFresh ==
    ASSUME IInv, ListProjects
    PROVE  IInv'
  <1>1. /\ UNCHANGED <<usable, present, knownRefs, dryRun, upstream, replica, taken, failed, job, found, asked, undone>>
        /\ pc = "idle" /\ atStart' = upstream /\ Running' = Running
        /\ \/ usable = {} /\ UNCHANGED pc
           \/ pc' = "loop" /\ todo' = usable
    BY DEF ListProjects, setting, world, Running
  <1>2. TypeOK' /\ AccountInv' /\ EveryProjectAccounted'
    BY ReconcileType, ListAccount DEF IInv
  <1>3. \A p \in Projects : job[<<"sweep", p>>] = "none"
    BY <1>1 DEF IInv, AccountInv, Running
  <1>4. \A j \in Jobs : JobInv(j)'
    BY <1>1 DEF IInv, FreshInv, JobInv, Fresh
  <1>5. \A p \in Projects : /\ replica'[p] <= upstream'[p] /\ atStart'[p] <= upstream'[p]
                            /\ asked'[p] <= upstream'[p]
    <2>1. \A p \in Projects : upstream[p] \in Nat
      BY VersionTypes DEF IInv
    <2> QED
      BY <1>1, <2>1 DEF IInv, FreshInv, Fresh
  <1>6. FreshInv'
    BY <1>1, <1>3, <1>4, <1>5 DEF IInv, FreshInv, AccountInv
  <1>7. SuccessMeansFresh'
    BY <1>1 DEF IInv, SuccessMeansFresh
  <1> QED
    BY <1>2, <1>6, <1>7 DEF IInv

LEMMA NextProjectFresh ==
    ASSUME IInv, NextProject
    PROVE  IInv'
  <1>1. /\ UNCHANGED <<usable, present, knownRefs, dryRun, upstream, replica, failed, job, found, result, atStart, asked, undone>>
        /\ pc = "loop" /\ pc' \in {"wait", "go"} /\ Running' = Running /\ taken = {}
        /\ \/ pc' = "wait" /\ complete' = (todo = {}) /\ UNCHANGED <<todo, taken>>
           \/ pc' = "go" /\ \E p \in todo : taken' = {p} /\ todo' = todo \ {p}
    BY DEF IInv, AccountInv, NextProject, setting, world, Running
  <1>2. TypeOK' /\ AccountInv' /\ EveryProjectAccounted'
    BY ReconcileType, NextProjectAccount DEF IInv
  <1>3. \A j \in Jobs : JobInv(j)'
    BY <1>1 DEF IInv, FreshInv, JobInv, Fresh
  <1>4. todo' \cup taken' \cup Running' = todo \cup taken \cup Running
    BY <1>1
  <1>5. pc' = "wait" => (complete' <=> todo' = {})
    BY <1>1
  <1>6. FreshInv'
    BY <1>1, <1>3, <1>4, <1>5 DEF IInv, FreshInv, Fresh
  <1>7. SuccessMeansFresh'
    BY <1>1 DEF IInv, SuccessMeansFresh
  <1> QED
    BY <1>2, <1>6, <1>7 DEF IInv

LEMMA LaunchFresh ==
    ASSUME IInv, Launch
    PROVE  IInv'
  <1>1. PICK p \in taken : job' = [job EXCEPT ![<<"sweep", p>>] = "started"]
    BY DEF Launch
  <1>2. /\ UNCHANGED <<usable, present, knownRefs, dryRun, upstream, replica, todo, failed, found, result,
                       atStart, complete, asked, undone>>
        /\ pc = "go" /\ pc' = "loop" /\ taken = {p} /\ taken' = {} /\ p \in Projects
        /\ p \notin Running
    BY <1>1 DEF IInv, AccountInv, TypeOK, Launch, setting, world, hist
  <1>3. TypeOK' /\ AccountInv' /\ EveryProjectAccounted'
    BY ReconcileType, LaunchAccount DEF IInv
  <1>4. job[<<"sweep", p>>] = "none" /\ <<"sweep", p>> \in Jobs
    BY <1>2, JobFacts DEF Running
  <1>5. \A j \in Jobs : job'[j] = IF j = <<"sweep", p>> THEN "started" ELSE job[j]
    BY <1>1 DEF IInv, TypeOK
  <1>6. \A q \in Projects : job'[<<"sweep", q>>] \in {"fetching", "ok"} =>
                               job[<<"sweep", q>>] \in {"fetching", "ok"}
    BY <1>5, JobFacts
  <1>7. \A j \in Jobs : JobInv(j)'
    BY <1>2, <1>4, <1>5 DEF IInv, FreshInv, JobInv, Fresh
  <1>8. todo \cup taken \cup Running \subseteq todo' \cup taken' \cup Running'
    <2>1. \A q \in Running \cup {p} : q \in Running'
      BY <1>2, <1>5, JobFacts DEF Running
    <2> QED
      BY <1>2, <2>1
  <1>9. FreshInv'
    BY <1>2, <1>6, <1>7, <1>8 DEF IInv, FreshInv, Fresh
  <1>10. SuccessMeansFresh'
    BY <1>2 DEF IInv, SuccessMeansFresh
  <1> QED
    BY <1>3, <1>9, <1>10 DEF IInv

\* A worker whose fetch succeeded leaves its project fresh behind.
LEMMA WorkerDoneFresh ==
    ASSUME IInv, NEW p \in Projects, WorkerDone(p)
    PROVE  IInv'
  <1> DEFINE j == <<"sweep", p>>
  <1>1. /\ UNCHANGED <<usable, present, knownRefs, dryRun, upstream, replica, pc, todo, taken, result,
                       atStart, complete, asked, undone>>
        /\ job' = [job EXCEPT ![j] = "none"] /\ found' = [found EXCEPT ![j] = Nothing]
        /\ job[j] \in {"ok", "error"}
        /\ job[j] = "ok" => failed' = failed
        /\ job[j] = "error" => failed' = failed + 1
    BY DEF WorkerDone, setting, world, hist
  <1>2. TypeOK' /\ AccountInv' /\ EveryProjectAccounted'
    BY WorkerDoneType, WorkerDoneAccount DEF IInv
  <1>3. j \in Jobs /\ j[2] = p
    BY JobFacts
  <1>4. \A k \in Jobs : /\ job'[k] = IF k = j THEN "none" ELSE job[k]
                        /\ found'[k] = IF k = j THEN Nothing ELSE found[k]
    BY <1>1 DEF IInv, TypeOK
  <1>5. \A k \in Jobs : JobInv(k)'
    BY <1>1, <1>4 DEF IInv, FreshInv, JobInv, Fresh
  <1>6. \A q \in Projects : job'[<<"sweep", q>>] \in {"fetching", "ok"} =>
           /\ job[<<"sweep", q>>] \in {"fetching", "ok"}
           /\ found'[<<"sweep", q>>] = found[<<"sweep", q>>]
    BY <1>4, JobFacts
  <1>7. \A q \in Running \ {p} : q \in Running'
    BY <1>4, JobFacts DEF Running
  <1>8. ~dryRun /\ failed' = 0 => failed = 0 /\ p \in present /\ Fresh(p)
    <2>1. SUFFICES ASSUME ~dryRun, failed' = 0
                   PROVE  failed = 0 /\ p \in present /\ Fresh(p)
      OBVIOUS
    <2>2. failed \in Nat /\ failed' = failed /\ job[j] = "ok"
      BY <1>1, <2>1 DEF IInv, TypeOK
    <2>3. /\ atStart[p] <= found[j].remote /\ p \in present
          /\ found[j].remote <= replica[p] \/ j \in undone
      BY <1>3, <2>1, <2>2 DEF IInv, FreshInv, JobInv, Fresh
    <2>4. atStart[p] \in Nat /\ found[j].remote \in Nat /\ replica[p] \in Nat
      BY <1>3, VersionTypes DEF IInv
    <2> QED
      BY <2>1, <2>2, <2>3, <2>4 DEF Fresh
  <1>9. FreshInv'
    BY <1>1, <1>5, <1>6, <1>7, <1>8 DEF IInv, FreshInv, Fresh
  <1>10. SuccessMeansFresh'
    BY <1>1 DEF IInv, SuccessMeansFresh
  <1> QED
    BY <1>2, <1>9, <1>10 DEF IInv

\* The verdict: without a failure, and with nothing left in the loop, every
\* listed project is fresh.
LEMMA SweepEndFresh ==
    ASSUME IInv, SweepEnd
    PROVE  IInv'
  <1>1. /\ UNCHANGED <<usable, present, knownRefs, dryRun, upstream, replica, taken, job, found,
                       atStart, complete, asked, undone>>
        /\ pc = "wait" /\ pc' = "idle" /\ Running = {} /\ Running' = Running
        /\ result' = [ok |-> failed = 0, remaining |-> failed]
    BY DEF SweepEnd, Return, setting, world, hist, Running
  <1>2. TypeOK' /\ AccountInv' /\ EveryProjectAccounted'
    BY ReconcileType, SweepEndAccount DEF IInv
  <1>3. \A j \in Jobs : JobInv(j)'
    BY <1>1 DEF IInv, FreshInv, JobInv, Fresh
  <1>4. FreshInv'
    BY <1>1, <1>3 DEF IInv, FreshInv, Fresh
  <1>5. result'.ok /\ complete' /\ ~dryRun' => \A p \in usable : p \in present /\ Fresh(p)
    BY <1>1 DEF IInv, FreshInv, AccountInv
  <1>6. \A p \in usable : atStart[p] \in Nat /\ replica[p] \in Nat
    BY VersionTypes DEF IInv, TypeOK
  <1>7. \A p \in usable : <<"sweep", p>> \in undone => p \notin knownRefs
    <2>1. \A p \in usable : <<"sweep", p>>[2] = p
      OBVIOUS
    <2> QED
      BY <2>1 DEF IInv, FreshInv
  <1>8. SuccessMeansFresh'
    BY <1>1, <1>5, <1>6, <1>7 DEF IInv, SuccessMeansFresh, Fresh
  <1> QED
    BY <1>2, <1>4, <1>8 DEF IInv

LEMMA HookFresh ==
    ASSUME IInv, NEW p \in ActiveProjects, HookStart(p) \/ HookDone(p)
    PROVE  IInv'
  <1> DEFINE j == <<"hook", p>>
  <1>1. /\ UNCHANGED <<usable, present, knownRefs, dryRun, maxParallel, upstream, replica, pc,
                       todo, taken, failed, repaired, result, atStart, complete, undone>>
        /\ \/ /\ job[j] = "none" /\ job' = [job EXCEPT ![j] = "started"]
              /\ UNCHANGED <<found, asked>>
           \/ /\ job' = [job EXCEPT ![j] = "none"] /\ found' = [found EXCEPT ![j] = Nothing]
              /\ asked' = [asked EXCEPT ![p] = IF job[j] = "ok" THEN found[j].remote ELSE 0]
    BY DEF HookStart, HookDone, setting, world, sweep, hist
  <1>2. TypeOK' /\ Running' = Running
    BY HookType, HookRunning DEF IInv
  <1>3. AccountInv' /\ EveryProjectAccounted'
    BY <1>1, <1>2, SameAccount DEF IInv
  <1>4. j \in Jobs /\ j[1] = "hook" /\ j[2] = p /\ p \in Projects
    BY JobFacts
  <1>5. \A k \in Jobs : IF k = j THEN job'[k] \in {"none", "started"} /\ found'[k] = Nothing
                        ELSE job'[k] = job[k] /\ found'[k] = found[k]
    BY <1>1, <1>4 DEF IInv, TypeOK, FreshInv, JobInv
  <1>6. \A q \in Projects : \/ asked'[q] = asked[q]
                            \/ q = p /\ asked'[q] = 0
                            \/ q = p /\ job[j] = "ok" /\ asked'[q] = found[j].remote
    BY <1>1 DEF IInv, TypeOK
  <1>7. \A k \in Jobs : JobInv(k)'
    <2>1. SUFFICES ASSUME NEW k \in Jobs PROVE JobInv(k)'
      OBVIOUS
    <2>2. CASE k = j
      BY <1>5, <2>2 DEF JobInv
    <2>3. CASE k # j
      <3>1. k[2] \in Projects /\ k[1] \in {"sweep", "hook"} /\ k = <<k[1], k[2]>>
        BY JobFacts
      <3>2. k[1] = "hook" => asked'[k[2]] = asked[k[2]]
        BY <1>6, <2>3, <3>1
      <3>3. job'[k] = job[k] /\ found'[k] = found[k] /\ JobInv(k)
        BY <1>5, <2>3 DEF IInv, FreshInv
      <3> QED
        BY <1>1, <3>2, <3>3 DEF JobInv
    <2> QED
      BY <2>2, <2>3
  <1>8. \A q \in Projects : /\ job'[<<"sweep", q>>] = job[<<"sweep", q>>]
                            /\ found'[<<"sweep", q>>] = found[<<"sweep", q>>]
    <2>1. \A q \in Projects : <<"sweep", q>> # j
      OBVIOUS
    <2> QED
      BY <1>5, <2>1, JobFacts
  <1>9. /\ \A q \in Projects : asked'[q] <= upstream[q]
        /\ \A q \in Projects \ ActiveProjects : asked'[q] = 0
    <2>1. job[j] = "ok" => found[j].remote <= upstream[p]
      BY <1>4 DEF IInv, FreshInv, JobInv
    <2>2. \A q \in Projects : upstream[q] \in Nat
      BY VersionTypes DEF IInv
    <2> QED
      BY <1>6, <2>1, <2>2 DEF IInv, FreshInv
  <1>10. FreshInv'
    BY <1>1, <1>2, <1>7, <1>8, <1>9 DEF IInv, FreshInv, Fresh
  <1>11. \A q \in Projects : \/ replica[q] >= asked'[q]
                             \/ q \notin knownRefs /\ <<"hook", q>> \in undone
    <2>1. \A q \in Projects : /\ replica[q] \in Nat
                              /\ \/ replica[q] >= asked[q]
                                 \/ q \notin knownRefs /\ <<"hook", q>> \in undone
      BY VersionTypes DEF IInv, SuccessMeansFresh
    <2>2. job[j] = "ok" => /\ found[j].remote \in Nat
                           /\ found[j].remote <= replica[p] \/ j \in undone
      BY <1>4, VersionTypes DEF IInv, FreshInv, JobInv
    <2>3. j \in undone => p \notin knownRefs
      BY <1>4 DEF IInv, FreshInv
    <2>4. SUFFICES ASSUME NEW q \in Projects
                   PROVE  \/ replica[q] >= asked'[q]
                          \/ q \notin knownRefs /\ <<"hook", q>> \in undone
      OBVIOUS
    <2>5. CASE asked'[q] = asked[q] \/ (q = p /\ asked'[q] = 0)
      BY <2>1, <2>5
    <2>6. CASE q = p /\ job[j] = "ok" /\ asked'[q] = found[j].remote
      <3>1. j = <<"hook", q>> /\ replica[q] \in Nat
        BY <2>1, <2>6
      <3> QED
        BY <2>2, <2>3, <2>6, <3>1
    <2> QED
      BY <1>6, <2>5, <2>6
  <1>12. SuccessMeansFresh'
    BY <1>1, <1>11 DEF IInv, SuccessMeansFresh
  <1> QED
    BY <1>2, <1>3, <1>10, <1>12 DEF IInv

\* git reads the refs of both sides: what the primary has now is no older than
\* what it had when the sweep began.
LEMMA FetchBeginFresh ==
    ASSUME IInv, NEW j \in Jobs, FetchBegin(j)
    PROVE  IInv'
  <1>1. /\ UNCHANGED <<usable, present, knownRefs, dryRun, maxParallel, upstream, replica, pc, todo, taken, failed,
                       repaired, result, atStart, complete, asked, undone>>
        /\ job[j] = "started"
        /\ \/ dryRun /\ job' = [job EXCEPT ![j] = "ok"] /\ UNCHANGED found
           \/ /\ job' = [job EXCEPT ![j] = "fetching"] /\ j[2] \in present
              /\ found' = [found EXCEPT ![j] = [remote |-> upstream[j[2]], local |-> replica[j[2]]]]
           \/ job' = [job EXCEPT ![j] = "error"] /\ UNCHANGED found
    BY DEF FetchBegin, setting, world, sweep, hist
  <1>2. TypeOK' /\ Running' = Running
    BY FetchType, FetchRunning DEF IInv, Fetch
  <1>3. AccountInv' /\ EveryProjectAccounted'
    BY <1>1, <1>2, SameAccount DEF IInv
  <1>4. j[2] \in Projects
    BY JobFacts
  <1>5. \A k \in Jobs \ {j} : job'[k] = job[k] /\ found'[k] = found[k]
    BY <1>1 DEF IInv, TypeOK
  <1>6. \/ dryRun /\ job'[j] = "ok" /\ found'[j] = Nothing
        \/ /\ job'[j] = "fetching" /\ j[2] \in present
           /\ found'[j] = [remote |-> upstream[j[2]], local |-> replica[j[2]]]
        \/ job'[j] = "error"
    BY <1>1 DEF IInv, TypeOK, FreshInv, JobInv
  <1>7. /\ replica[j[2]] \in Nat /\ upstream[j[2]] \in Nat /\ atStart[j[2]] \in Nat
        /\ replica[j[2]] <= upstream[j[2]] /\ atStart[j[2]] <= upstream[j[2]]
        /\ asked[j[2]] <= upstream[j[2]]
    BY <1>4, VersionTypes DEF IInv, FreshInv, Fresh
  <1>8. JobInv(j)'
    BY <1>1, <1>6, <1>7 DEF JobInv, Nothing
  <1>9. \A k \in Jobs : JobInv(k)'
    BY <1>1, <1>5, <1>8 DEF IInv, FreshInv, JobInv, Fresh
  <1>10. ~dryRun => \A p \in Projects : job'[<<"sweep", p>>] \in {"fetching", "ok"} =>
            atStart[p] <= found'[<<"sweep", p>>].remote
    <2> SUFFICES ASSUME ~dryRun, NEW p \in Projects, job'[<<"sweep", p>>] \in {"fetching", "ok"}
                 PROVE  atStart[p] <= found'[<<"sweep", p>>].remote
      OBVIOUS
    <2>1. CASE <<"sweep", p>> = j
      <3>1. p = j[2]
        BY <2>1
      <3> QED
        BY <1>6, <1>7, <2>1, <3>1
    <2>2. CASE <<"sweep", p>> # j
      BY <1>5, <2>2, JobFacts DEF IInv, FreshInv, Fresh
    <2> QED
      BY <2>1, <2>2
  <1>11. FreshInv'
    BY <1>1, <1>2, <1>9, <1>10 DEF IInv, FreshInv, Fresh
  <1>12. SuccessMeansFresh'
    BY <1>1 DEF IInv, SuccessMeansFresh
  <1> QED
    BY <1>2, <1>3, <1>11, <1>12 DEF IInv

\* git updates the refs.  Where it names their old values the replica never
\* goes back, whatever the other fetch of the project has done meanwhile; else
\* the other fetch is marked as undone if it does.
LEMMA FetchEndFresh ==
    ASSUME IInv, NEW j \in Jobs, FetchEnd(j)
    PROVE  IInv'
  <1> DEFINE p == j[2]
             Wrote == /\ found[j].remote # found[j].local /\ ~InTheWay(j)
                      /\ replica' = [replica EXCEPT ![p] = found[j].remote]
                      /\ undone' = (undone \ {j}) \cup
                            {k \in Jobs \ {j} : k[2] = p /\ found[j].remote < replica[p]}
  <1>1. /\ UNCHANGED <<usable, present, knownRefs, dryRun, maxParallel, upstream, pc, todo, taken,
                       failed, repaired, result, atStart, complete, asked, found>>
        /\ job[j] = "fetching"
        /\ \/ job' = [job EXCEPT ![j] = "ok"] /\ UpdateRefs(j)
           \/ /\ job' = [job EXCEPT ![j] = "error"]
              /\ UpdateRefs(j) \/ UNCHANGED <<replica, undone>>
    BY DEF FetchEnd, setting, sweep, hist
  <1>2. TypeOK' /\ Running' = Running
    BY FetchType, FetchRunning DEF IInv, Fetch
  <1>3. AccountInv' /\ EveryProjectAccounted'
    BY <1>1, <1>2, SameAccount DEF IInv
  <1>4. p \in Projects /\ \A k \in Jobs : k[2] \in Projects
    BY JobFacts
  <1>5. \A q \in Projects : /\ replica[q] \in Nat /\ replica'[q] \in Nat
                            /\ upstream[q] \in Nat /\ atStart[q] \in Nat /\ asked[q] \in Nat
    <2>1. \A q \in Projects : replica'[q] \in Nat
      BY <1>2, GitFetchAssumption DEF TypeOK, Versions
    <2> QED
      BY <2>1, VersionTypes DEF IInv
  <1>6. /\ found[j].local <= found[j].remote /\ found[j].remote <= upstream[p]
        /\ p \in present /\ (j[1] = "hook" => asked[p] <= found[j].remote)
        /\ found[j].local \in Nat /\ found[j].remote \in Nat
        /\ found[j].local = found[j].remote => found[j].remote <= replica[p] \/ j \in undone
    BY <1>1, VersionTypes DEF IInv, FreshInv, JobInv
  <1>7. \/ Wrote
        \/ /\ UNCHANGED <<replica, undone>>
           /\ job' = [job EXCEPT ![j] = "ok"] => found[j].remote = found[j].local
    <2>1. job' = [job EXCEPT ![j] = "error"] => job' # [job EXCEPT ![j] = "ok"]
      <3>1. [job EXCEPT ![j] = "error"][j] = "error" /\ [job EXCEPT ![j] = "ok"][j] = "ok"
        BY DEF IInv, TypeOK
      <3> QED
        BY <3>1
    <2> QED
      BY <1>1, <2>1 DEF UpdateRefs
  <1>8. Wrote => /\ replica'[p] = found[j].remote
                 /\ \A q \in Projects \ {p} : replica'[q] = replica[q]
                 /\ p \in knownRefs => replica[p] <= replica'[p]
    BY <1>4, <1>6 DEF InTheWay, IInv, TypeOK
  <1>9. \A q \in Projects : replica'[q] <= upstream[q]
    BY <1>4, <1>6, <1>7, <1>8 DEF IInv, FreshInv
  <1>10. \A k \in Jobs \ {j} : /\ k \in undone => k \in undone'
                               /\ replica[k[2]] <= replica'[k[2]] \/ k \in undone'
    <2>1. CASE UNCHANGED <<replica, undone>>
      BY <1>4, <1>5, <2>1
    <2>2. CASE Wrote
      <3>1. SUFFICES ASSUME NEW k \in Jobs \ {j}, ~(replica[k[2]] <= replica'[k[2]])
                     PROVE  k \in undone'
        BY <2>2
      <3>2. k[2] = p /\ found[j].remote < replica[p]
        BY <1>4, <1>5, <1>8, <2>2, <3>1
      <3> QED
        BY <2>2, <3>2
    <2> QED
      BY <1>7, <2>1, <2>2
  <1>11. \A k \in undone' : k[2] \notin knownRefs
    <2>1. Wrote /\ p \in knownRefs => ~(found[j].remote < replica[p])
      BY <1>4, <1>5, <1>6, <1>8
    <2> QED
      BY <1>7, <2>1 DEF IInv, FreshInv
  <1>12. \A k \in Jobs : job'[k] = IF k = j THEN job'[j] ELSE job[k]
    BY <1>1 DEF IInv, TypeOK
  <1>13. job'[j] = "error" \/ (job'[j] = "ok" /\ job' = [job EXCEPT ![j] = "ok"])
    BY <1>1 DEF IInv, TypeOK
  <1>14. JobInv(j)'
    <2>1. job'[j] = "ok" => found[j].remote <= replica'[p] \/ j \in undone'
      BY <1>5, <1>6, <1>7, <1>8, <1>13
    <2> QED
      BY <1>1, <1>6, <1>13, <2>1 DEF JobInv
  <1>15. ASSUME NEW k \in Jobs, k # j PROVE JobInv(k)'
    <2>1. k[2] \in Projects /\ found[k].remote \in Nat
      BY <1>4, VersionTypes DEF IInv
    <2>2. job'[k] = job[k] /\ found'[k] = found[k] /\ JobInv(k)
      BY <1>1, <1>12, <1>15 DEF IInv, FreshInv
    <2>3. found[k].remote <= replica[k[2]] \/ k \in undone =>
             found[k].remote <= replica'[k[2]] \/ k \in undone'
      BY <1>5, <1>10, <1>15, <2>1
    <2> QED
      BY <1>1, <2>2, <2>3 DEF JobInv
  <1>16. ~dryRun => \A q \in Projects : job'[<<"sweep", q>>] \in {"fetching", "ok"} =>
            atStart[q] <= found'[<<"sweep", q>>].remote
    BY <1>1, <1>12, JobFacts DEF IInv, FreshInv
  <1>17. \A q \in Projects \ Running : Fresh(q) => Fresh(q)'
    <2>1. SUFFICES ASSUME NEW q \in Projects \ Running, Fresh(q) PROVE Fresh(q)'
      OBVIOUS
    <2>2. <<"sweep", q>> \in Jobs \ {j} /\ <<"sweep", q>>[2] = q
      BY <1>1, JobFacts DEF Running
    <2>3. \/ <<"sweep", q>> \in undone'
          \/ <<"sweep", q>> \notin undone /\ replica[q] <= replica'[q]
      BY <1>10, <2>2
    <2> QED
      BY <1>1, <1>5, <2>1, <2>3 DEF Fresh
  <1>18. usable \subseteq Projects
    BY DEF IInv, TypeOK
  <1>19. FreshInv'
    BY <1>1, <1>2, <1>9, <1>11, <1>14, <1>15, <1>16, <1>17, <1>18 DEF IInv, FreshInv
  <1>20. ASSUME pc = "idle", result.ok, complete, ~dryRun, NEW q \in usable
         PROVE  /\ q \in present
                /\ \/ replica'[q] >= atStart[q]
                   \/ q \notin knownRefs /\ <<"sweep", q>> \in undone'
    <2>1. q \in present /\ Fresh(q)
      BY <1>5, <1>18, <1>20 DEF IInv, SuccessMeansFresh, Fresh
    <2>2. Fresh(q)'
      BY <1>17, <1>18, <1>20, <2>1 DEF IInv, AccountInv
    <2>3. <<"sweep", q>> \in undone' => q \notin knownRefs
      <3>1. <<"sweep", q>>[2] = q
        OBVIOUS
      <3> QED
        BY <1>11, <3>1
    <2> QED
      BY <1>1, <1>5, <1>18, <2>1, <2>2, <2>3 DEF Fresh
  <1>21. ASSUME NEW q \in Projects
         PROVE  \/ replica'[q] >= asked[q]
                \/ q \notin knownRefs /\ <<"hook", q>> \in undone'
    <2> DEFINE k == <<"hook", q>>
    <2>1. k[1] = "hook" /\ k[2] = q /\ (k \in Jobs <=> q \in ActiveProjects)
      BY DEF Jobs
    <2>2. k \in undone' => q \notin knownRefs
      BY <1>11, <2>1
    <2>3. replica[q] >= asked[q] \/ k \in undone
      BY DEF IInv, SuccessMeansFresh
    <2>4. CASE q \notin ActiveProjects
      BY <1>5, <2>4 DEF IInv, FreshInv
    <2>5. CASE q \in ActiveProjects /\ k # j
      BY <1>5, <1>10, <2>1, <2>2, <2>3, <2>5
    <2>6. CASE k = j
      BY <1>5, <1>6, <1>7, <1>8, <2>1, <2>2, <2>3, <2>6
    <2> QED
      BY <2>4, <2>5, <2>6
  <1>22. SuccessMeansFresh'
    BY <1>1, <1>20, <1>21 DEF SuccessMeansFresh
  <1> QED
    BY <1>2, <1>3, <1>19, <1>22 DEF IInv

-----------------------------------------------------------------------------
\* Before the first sweep nothing is promised and nothing is held.
LEMMA InitInv == Init => IInv
  <1> SUFFICES ASSUME Init PROVE IInv
    OBVIOUS
  <1>1. TypeOK
    <2>1. 0 \in Versions /\ Nothing \in [remote : Versions, local : Versions]
      BY GitFetchAssumption DEF Versions, Nothing
    <2>2. [ok |-> FALSE, remaining |-> 0] \in Result
      BY DEF Result
    <2>3. /\ usable \in SUBSET Projects /\ present \in SUBSET Projects
          /\ knownRefs \in SUBSET ActiveProjects /\ sshHost \in BOOLEAN
          /\ dryRun \in BOOLEAN /\ maxParallel \in Nat
      BY GitFetchAssumption DEF Init
    <2> QED
      BY <2>1, <2>2, <2>3 DEF Init, TypeOK
  <1>2. Running = {}
    BY JobFacts DEF Init, Running
  <1>3. AccountInv
    BY <1>2 DEF Init, AccountInv
  <1>4. EveryProjectAccounted
    <2>1. Cardinality(Running) = 0 /\ Parallel \in Nat
      BY <1>1, <1>2, FS_EmptySet, ParallelType
    <2> QED
      BY <2>1 DEF Init, EveryProjectAccounted
  <1>5. FreshInv /\ SuccessMeansFresh
    BY JobFacts DEF Init, FreshInv, JobInv, Nothing, SuccessMeansFresh
  <1> QED
    BY <1>1, <1>3, <1>4, <1>5 DEF IInv

\* Every step preserves the invariant.
LEMMA NextInv == IInv /\ [Next]_vars => IInv'
  <1> SUFFICES ASSUME IInv, [Next]_vars PROVE IInv'
    OBVIOUS
  <1>1. CASE \E p \in Projects : WorkerDone(p)
    BY <1>1, WorkerDoneFresh
  <1>2. CASE \/ \E p \in ActiveProjects : Push(p)
             \/ Reachability \/ Cancel \/ Restart
    BY <1>2, SiteFresh
  <1>3. CASE \E p \in ActiveProjects : HookStart(p) \/ HookDone(p)
    BY <1>3, HookFresh
  <1>4. CASE \E j \in Jobs : Fetch(j)
    BY <1>4, FetchBeginFresh, FetchEndFresh DEF Fetch
  <1>5. CASE ListFails \/ ListProjects \/ NextProject \/ Launch \/ SweepEnd
    BY <1>5, ListFailsFresh, ListProjectsFresh, NextProjectFresh, LaunchFresh, SweepEndFresh
  <1>6. CASE UNCHANGED vars
    <2>1. /\ UNCHANGED <<usable, present, knownRefs, sshHost, dryRun, maxParallel, upstream, replica, reachable,
                         cancelled, pc, todo, taken, job, found, failed, repaired, result,
                         atStart, complete, asked, undone>>
          /\ Running' = Running
      BY <1>6 DEF vars, world, setting, sweep, hist, Running
    <2>2. TypeOK'
      BY <2>1 DEF IInv, TypeOK
    <2>3. AccountInv' /\ EveryProjectAccounted'
      BY <2>1, SameAccount DEF IInv
    <2>4. FreshInv' /\ SuccessMeansFresh'
      BY <2>1 DEF IInv, FreshInv, JobInv, Fresh, SuccessMeansFresh
    <2> QED
      BY <2>2, <2>3, <2>4 DEF IInv
  <1> QED
    BY <1>1, <1>2, <1>3, <1>4, <1>5, <1>6 DEF Next

\* The invariant holds in every state of every behaviour.
LEMMA Invariance == Spec => []IInv
  BY InitInv, NextInv, PTL DEF Spec

\* Every variable of the reconciler keeps its type. (Reconciler, Reconcile)
THEOREM TypeCorrect == Spec => []TypeOK
  <1>1. IInv => TypeOK
    BY DEF IInv
  <1> QED
    BY <1>1, Invariance, PTL

\* The errgroup never runs more than its limit, and no project is lost between
\* the loop, the workers and the counters, for any list of projects and any
\* configured parallelism. (the loop, errgroup and counters of Reconcile)
THEOREM AccountTheorem == Spec => []EveryProjectAccounted
  <1>1. IInv => EveryProjectAccounted
    BY DEF IInv
  <1> QED
    BY <1>1, Invariance, PTL

\* A sweep that reports OK after having launched every project, and a webhook
\* fetch that succeeds, have brought in what they promise; no other fetch of
\* the same repository undoes it where git names the old values of the refs,
\* and elsewhere only an overlapping one does. (Reconcile, FetchProject,
\* fetchOne)
THEOREM FreshTheorem == Spec => []SuccessMeansFresh
  <1>1. IInv => SuccessMeansFresh
    BY DEF IInv
  <1> QED
    BY <1>1, Invariance, PTL

=============================================================================
