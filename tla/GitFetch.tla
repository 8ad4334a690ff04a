------------------------------ MODULE GitFetch ------------------------------
(***************************************************************************)
(* The git fetch reconciler (internal/reconciler/gitfetch).                *)
(*                                                                         *)
(* A sweep lists the projects and fetches them through an errgroup of      *)
(* bounded size.  The webhook trigger calls FetchProject on the same       *)
(* reconciler, from another goroutine and without a lock between the two,  *)
(* so a repository may be fetched twice at the same time.  A repository is *)
(* abstracted to the version of its refs: pushes make the primary's larger *)
(* and a fetch brings the replica to the version it found on the primary.  *)
(***************************************************************************)
EXTENDS Naturals, FiniteSets

CONSTANTS
    Projects,      \* project IDs, a set of numbers: listProjects orders by ID
    ActiveProjects, \* bound: those that pushes and webhook deliveries are about
    Settings,      \* bound: configurations and repositories considered
    MaxVersion     \* bound: pushes to one project

ASSUME GitFetchAssumption ==
    /\ Projects \subseteq Nat /\ IsFiniteSet(Projects)
    /\ ActiveProjects \subseteq Projects
    /\ MaxVersion \in Nat
    /\ Settings \subseteq [usable : SUBSET Projects, present : SUBSET Projects,
                           knownRefs : SUBSET ActiveProjects, sshHost : BOOLEAN,
                           dryRun : BOOLEAN, maxParallel : Nat]

VARIABLES
    usable,      \* projects whose row repoDiskPath can map to a path
    present,     \* those of which there is a repository at that path: nothing
                 \* in syncctl creates one
    knownRefs,   \* active projects in which pushes only move branches that
                 \* both sides have; in the others they create or delete
                 \* refs, or move tags
    sshHost,     \* primary.ssh_host can be parsed into an endpoint
    dryRun, maxParallel,
    upstream,    \* [Projects -> version on the primary]
    replica,     \* [Projects -> version on the secondary]
    reachable,   \* git fetch from the primary works
    cancelled,   \* the context of serve or sync is done
    pc,          \* where Reconcile is
    todo,        \* projects the loop has still to launch
    taken,       \* the project the loop is about to hand to g.Go, as a set
    job,         \* [Jobs -> step of the goroutine]
    found,       \* [Jobs -> versions a running fetch has read]
    failed, repaired,
    result,      \* the Result of the last Reconcile
    \* History, read by no action:
    atStart,     \* upstream when the last sweep began
    complete,    \* the last sweep launched every project it listed
    asked,       \* [Projects -> version the last FetchProject found if it
                 \*              succeeded, or 0]
    undone       \* jobs whose last update another fetch has taken back since

Jobs == ({"sweep"} \X Projects) \cup ({"hook"} \X ActiveProjects)
Nothing == [remote |-> 0, local |-> 0]
Versions == 0..MaxVersion
Result == [ok : BOOLEAN, remaining : Nat]

setting == <<usable, present, knownRefs, sshHost, dryRun, maxParallel>>
world == <<setting, upstream, replica, reachable, cancelled>>
sweep == <<pc, todo, taken, failed, repaired, result>>
hist == <<atStart, complete, asked, undone>>
vars == <<world, sweep, job, found, hist>>

TypeOK ==
    /\ usable \in SUBSET Projects /\ present \in SUBSET Projects
    /\ knownRefs \in SUBSET ActiveProjects
    /\ sshHost \in BOOLEAN
    /\ dryRun \in BOOLEAN
    /\ maxParallel \in Nat
    /\ upstream \in [Projects -> Versions]
    /\ replica \in [Projects -> Versions]
    /\ reachable \in BOOLEAN
    /\ cancelled \in BOOLEAN
    /\ pc \in {"idle", "loop", "go", "wait"}
    /\ todo \in SUBSET Projects
    /\ taken \in SUBSET Projects
    /\ job \in [Jobs -> {"none", "started", "fetching", "ok", "error"}]
    /\ found \in [Jobs -> [remote : Versions, local : Versions]]
    /\ failed \in Nat /\ repaired \in Nat
    /\ result \in Result
    /\ atStart \in [Projects -> Versions]
    /\ complete \in BOOLEAN
    /\ asked \in [Projects -> Versions]
    /\ undone \in SUBSET Jobs

Init ==
    /\ \E s \in Settings :
          /\ usable = s.usable /\ present = s.present /\ knownRefs = s.knownRefs
          /\ sshHost = s.sshHost /\ dryRun = s.dryRun
          /\ maxParallel = s.maxParallel
    /\ upstream = [p \in Projects |-> 0]
    /\ replica = [p \in Projects |-> 0]
    /\ reachable = TRUE
    /\ cancelled = FALSE
    /\ pc = "idle"
    /\ todo = {} /\ taken = {}
    /\ job = [j \in Jobs |-> "none"]
    /\ found = [j \in Jobs |-> Nothing]
    /\ failed = 0 /\ repaired = 0
    /\ result = [ok |-> FALSE, remaining |-> 0]
    /\ atStart = [p \in Projects |-> 0]
    /\ complete = FALSE
    /\ asked = [p \in Projects |-> 0]
    /\ undone = {}

-----------------------------------------------------------------------------
(* The sites. *)

Push(p) ==
    /\ upstream[p] < MaxVersion
    /\ upstream' = [upstream EXCEPT ![p] = @ + 1]
    /\ UNCHANGED <<setting, replica, reachable, cancelled, sweep, job, found, hist>>

Reachability ==
    /\ reachable' = ~reachable
    /\ UNCHANGED <<setting, upstream, replica, cancelled, sweep, job, found, hist>>

-----------------------------------------------------------------------------
(* Reconcile *)

Return(r) == result' = r

\* listProjects fails: an error of the query or of a row ends the sweep.
ListFails ==
    /\ pc = "idle"
    /\ Return([ok |-> FALSE, remaining |-> 1])
    /\ UNCHANGED <<world, pc, todo, taken, failed, repaired, job, found, hist>>

\* listProjects skips the rows that repoDiskPath cannot map.
ListProjects ==
    /\ pc = "idle" /\ ~cancelled
    /\ IF usable = {}
       THEN /\ Return([ok |-> TRUE, remaining |-> 0])
            /\ UNCHANGED <<pc, todo>>
       ELSE pc' = "loop" /\ todo' = usable /\ UNCHANGED result
    /\ atStart' = upstream
    /\ complete' = (usable = {})
    /\ UNCHANGED <<world, taken, failed, repaired, job, found, asked, undone>>

Running == {p \in Projects : job[<<"sweep", p>>] # "none"}

\* The size of the errgroup: maxParallel, at least 1, at most one slot per
\* project listed.
Parallel ==
    LET n == Cardinality(usable)
        m == IF maxParallel < 1 THEN 1 ELSE maxParallel
    IN  IF m > n THEN n ELSE m

\* Mutant: the last project of the list is left out.
NextProjectOffByOne ==
    /\ pc = "loop"
    /\ IF cancelled \/ Cardinality(todo) <= 1
       THEN pc' = "wait" /\ complete' = (todo = {}) /\ UNCHANGED <<todo, taken>>
       ELSE \E p \in todo :
              /\ \A q \in todo : p <= q
              /\ taken' = {p} /\ todo' = todo \ {p} /\ pc' = "go"
              /\ UNCHANGED complete
    /\ UNCHANGED <<world, job, found, failed, repaired, result, atStart, asked, undone>>

\* One turn of the loop looks at the context, without blocking...
NextProject ==
    /\ pc = "loop"
    /\ IF cancelled \/ todo = {}
       THEN pc' = "wait" /\ complete' = (todo = {}) /\ UNCHANGED <<todo, taken>>
       ELSE \E p \in todo :
              /\ \A q \in todo : p <= q
              /\ taken' = {p} /\ todo' = todo \ {p} /\ pc' = "go"
              /\ UNCHANGED complete
    /\ UNCHANGED <<world, job, found, failed, repaired, result, atStart, asked, undone>>

\* Mutant: no limit on the errgroup.
LaunchUnlimited ==
    /\ pc = "go"
    /\ \E p \in taken : job' = [job EXCEPT ![<<"sweep", p>>] = "started"]
    /\ taken' = {} /\ pc' = "loop"
    /\ UNCHANGED <<world, found, todo, failed, repaired, result, hist>>

\* ... and then waits in g.Go for a free slot.
Launch ==
    /\ pc = "go"
    /\ Cardinality(Running) < Parallel
    /\ \E p \in taken : job' = [job EXCEPT ![<<"sweep", p>>] = "started"]
    /\ taken' = {} /\ pc' = "loop"
    /\ UNCHANGED <<world, found, todo, failed, repaired, result, hist>>

\* Mutant: a goroutine whose fetch failed never ends.
WorkerDoneOnlyOK(p) ==
    LET j == <<"sweep", p>>
    IN  /\ job[j] = "ok"
        /\ repaired' = repaired + 1
        /\ job' = [job EXCEPT ![j] = "none"]
        /\ found' = [found EXCEPT ![j] = Nothing]
        /\ UNCHANGED <<world, pc, todo, taken, failed, result, hist>>

\* The goroutine counts the outcome of fetchOne and gives its slot back.
WorkerDone(p) ==
    LET j == <<"sweep", p>>
    IN  /\ job[j] \in {"ok", "error"}
        /\ IF job[j] = "ok"
           THEN repaired' = repaired + 1 /\ UNCHANGED failed
           ELSE failed' = failed + 1 /\ UNCHANGED repaired
        /\ job' = [job EXCEPT ![j] = "none"]
        /\ found' = [found EXCEPT ![j] = Nothing]
        /\ UNCHANGED <<world, pc, todo, taken, result, hist>>

\* Mutant: what was repaired is taken off what failed.
SweepEndSubtracts ==
    /\ pc = "wait" /\ Running = {}
    /\ pc' = "idle"
    /\ Return([ok |-> failed = 0, remaining |-> failed - repaired])
    /\ todo' = {} /\ failed' = 0 /\ repaired' = 0
    /\ UNCHANGED <<world, taken, job, found, hist>>

\* Mutant: one fetched project makes the sweep OK.
SweepEndAnyRepaired ==
    /\ pc = "wait" /\ Running = {}
    /\ pc' = "idle"
    /\ Return([ok |-> repaired > 0, remaining |-> failed])
    /\ todo' = {} /\ failed' = 0 /\ repaired' = 0
    /\ UNCHANGED <<world, taken, job, found, hist>>

\* g.Wait and the verdict.
SweepEnd ==
    /\ pc = "wait" /\ Running = {}
    /\ pc' = "idle"
    /\ Return([ok |-> failed = 0, remaining |-> failed])
    /\ todo' = {} /\ failed' = 0 /\ repaired' = 0
    /\ UNCHANGED <<world, taken, job, found, hist>>

-----------------------------------------------------------------------------
(* FetchProject, called by the webhook trigger for a valid project path.   *)

\* resolveProject fails (the query, no such row, no path for it), or its
\* fetchOne is started.
HookStart(p) ==
    /\ job[<<"hook", p>>] = "none"
    /\ p \in usable
    /\ job' = [job EXCEPT ![<<"hook", p>>] = "started"]
    /\ UNCHANGED <<world, sweep, found, hist>>

HookDone(p) ==
    LET j == <<"hook", p>>
    IN  /\ job[j] \in {"ok", "error"}
        /\ job' = [job EXCEPT ![j] = "none"]
        /\ asked' = [asked EXCEPT ![p] =
              IF job[j] = "ok" THEN found[j].remote ELSE 0]
        /\ found' = [found EXCEPT ![j] = Nothing]
        /\ UNCHANGED <<world, sweep, atStart, complete, undone>>

-----------------------------------------------------------------------------
(* fetchOne, the same for both. *)

\* The context of the goroutine may be done: that of the sweep is serve's or
\* sync's, that of a hook ends too when a newer delivery pre-empts the trigger
\* or after the trigger's five minutes.
MayBeDone(j) == cancelled \/ j[1] = "hook"

\* git reads the refs of both sides.  Without a usable ssh_host fetchOne
\* fails, and only after that a dry run returns; a primary out of reach, a
\* context that is done and a repository that is not there make git fail.
FetchBegin(j) ==
    /\ job[j] = "started"
    /\ \/ /\ sshHost /\ dryRun
          /\ job' = [job EXCEPT ![j] = "ok"]
          /\ UNCHANGED found
       \/ /\ sshHost /\ ~dryRun /\ ~cancelled /\ reachable /\ j[2] \in present
          /\ job' = [job EXCEPT ![j] = "fetching"]
          /\ found' = [found EXCEPT ![j] = [remote |-> upstream[j[2]],
                                            local |-> replica[j[2]]]]
       \/ /\ \/ ~sshHost
             \/ ~dryRun /\ (MayBeDone(j) \/ ~reachable \/ j[2] \notin present)
          /\ job' = [job EXCEPT ![j] = "error"]
          /\ UNCHANGED found
    /\ UNCHANGED <<world, sweep, hist>>

\* git updates the refs that differed when it read them.  It names the old
\* value of a branch that both sides have, so that the update fails if another
\* fetch has been there; a ref that is new, a tag and a ref to be pruned are
\* written whatever is there by now.
InTheWay(j) ==
    /\ j[2] \in knownRefs
    /\ found[j].remote # found[j].local /\ replica[j[2]] # found[j].local

UpdateRefs(j) ==
    LET p == j[2]
    IN  IF found[j].remote = found[j].local
        THEN UNCHANGED <<replica, undone>>
        ELSE /\ ~InTheWay(j)
             /\ replica' = [replica EXCEPT ![p] = found[j].remote]
             /\ undone' = (undone \ {j}) \cup
                   {k \in Jobs \ {j} : k[2] = p /\ found[j].remote < replica[p]}

\* The command exits 0, is killed (by the ten minutes or the context) or
\* loses the connection before it has updated the refs or after, or finds a
\* branch changed.
FetchEnd(j) ==
    /\ job[j] = "fetching"
    /\ \/ UpdateRefs(j) /\ job' = [job EXCEPT ![j] = "ok"]
       \/ /\ MayBeDone(j) \/ ~reachable
          /\ UpdateRefs(j) \/ UNCHANGED <<replica, undone>>
          /\ job' = [job EXCEPT ![j] = "error"]
       \/ /\ InTheWay(j)
          /\ job' = [job EXCEPT ![j] = "error"]
          /\ UNCHANGED <<replica, undone>>
    /\ UNCHANGED <<setting, upstream, reachable, cancelled, sweep, found,
                   atStart, complete, asked>>

-----------------------------------------------------------------------------
\* SIGTERM, or the five minutes of sync.
Cancel ==
    /\ ~cancelled
    /\ cancelled' = TRUE
    /\ UNCHANGED <<setting, upstream, replica, reachable, sweep, job, found, hist>>

\* The runner of serve sees the context done, the command returns and the
\* process ends; it is started again.
Restart ==
    /\ pc = "idle" /\ cancelled /\ \A j \in Jobs : job[j] = "none"
    /\ cancelled' = FALSE
    /\ UNCHANGED <<setting, upstream, replica, reachable, sweep, job, found, hist>>

Fetch(j) == FetchBegin(j) \/ FetchEnd(j)

Next ==
    \/ \E p \in Projects : WorkerDone(p)
    \/ \E p \in ActiveProjects : Push(p) \/ HookStart(p) \/ HookDone(p)
    \/ \E j \in Jobs : Fetch(j)
    \/ ListFails \/ ListProjects \/ NextProject \/ Launch \/ SweepEnd
    \/ Reachability \/ Cancel \/ Restart

Spec == Init /\ [][Next]_vars

\* Goroutines that can go on do, and the ticker of the runner starts the next
\* sweep, whose listing query does not fail for ever.  Nothing is assumed of
\* the end of a fetch: git is killed after ten minutes, but the call returns
\* only when no child of git holds its output open.
Fairness ==
    /\ WF_vars(NextProject) /\ WF_vars(Launch) /\ WF_vars(SweepEnd)
    /\ WF_vars(ListProjects)
    /\ \A j \in Jobs : WF_vars(FetchBegin(j))
    /\ \A p \in Projects : WF_vars(WorkerDone(p))
    /\ \A p \in ActiveProjects : WF_vars(HookDone(p))

FairSpec == Spec /\ Fairness

-----------------------------------------------------------------------------
(* Properties *)

\* Whatever order the goroutines end in, no more than Parallel of them run at
\* a time and no project is lost between the loop, the workers and the
\* counters, also when the loop is broken off.
\* (the loop, errgroup and counters of Reconcile)
EveryProjectAccounted ==
    /\ Cardinality(Running) <= Parallel
    /\ pc \in {"loop", "go", "wait"} =>
          failed + repaired + Cardinality(Running) + Cardinality(todo \cup taken)
              = Cardinality(usable)

\* A sweep that reports OK after having launched every project has found each
\* of their repositories and brought in at least what the primary had when the
\* sweep began; a FetchProject that succeeds has brought in what it found.
\* An overlapping fetch takes that back only in a project whose pushes create
\* or delete refs or move tags, and only by its own, older, update.
SuccessMeansFresh ==
    /\ pc = "idle" /\ result.ok /\ complete /\ ~dryRun =>
          \A p \in usable :
              /\ p \in present
              /\ \/ replica[p] >= atStart[p]
                 \/ p \notin knownRefs /\ <<"sweep", p>> \in undone
    /\ \A p \in Projects :
          \/ replica[p] >= asked[p]
          \/ p \notin knownRefs /\ <<"hook", p>> \in undone

\* Premise of the liveness properties: no call of git hangs for ever.
FetchesReturn == \A j \in Jobs : []<>(job[j] # "fetching")

\* A sweep returns, whatever fails and whenever it is cancelled, if its git
\* processes do.
SweepReturns == FetchesReturn => (pc = "loop" ~> pc = "idle")

\* The replica catches up: once pushes have stopped and the primary stays
\* reachable, with a usable ssh_host, every usable project whose repository is
\* there becomes and stays equal to the primary's, whatever webhook fetches do
\* at the same time and whatever they have taken back before.
CatchesUp ==
    FetchesReturn /\ <>[](reachable /\ ~cancelled /\ ~dryRun /\ sshHost)
        => <>[](\A p \in usable \cap present : replica[p] = upstream[p])

\* What the field Result.OK promises ("true if the component is fully in
\* sync"): no project that was listed has been left out.
OKMeansEveryProjectFetched ==
    pc = "idle" /\ result.ok => complete

=============================================================================
