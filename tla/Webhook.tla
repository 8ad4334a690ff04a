------------------------------ MODULE Webhook ------------------------------
(***************************************************************************)
(* The webhook receiver (internal/webhook): the HTTP handler, its          *)
(* concurrency cap, and the TriggerManager that debounces the deliveries   *)
(* for one project so that only the newest of a burst fetches.             *)
(*                                                                         *)
(* A delivery r is a request of GitLab.  A push delivery was sent after    *)
(* its push, so a fetch that begins once r has arrived brings in r's push. *)
(* Each accepted delivery runs in a goroutine of its own, which takes the  *)
(* steps below; the manager's lock makes Install and Unregister atomic.    *)
(***************************************************************************)
EXTENDS Naturals, FiniteSets

CONSTANTS
    Deliveries,   \* the requests that arrive
    Projects,
    NoDelivery,   \* no entry in the pending map
    SemCap        \* capacity of Server.sem (8 in the code)

ASSUME WebhookAssumption ==
    /\ IsFiniteSet(Deliveries)
    /\ NoDelivery \notin Deliveries
    /\ SemCap \in Nat \ {0}

VARIABLES
    mode,       \* what the trigger function does: "fetch" with a git fetch
                \* reconciler, "dry" with one of a dry run, "rsync" without one
    state,      \* [Deliveries -> step of the goroutine]
    project,    \* [Deliveries -> project of the payload]
    done,       \* [Deliveries -> BOOLEAN], the trigger's context is done
    pending,    \* TriggerManager.pending
    sem,        \* occupied slots of Server.sem
    shutdown,   \* the server's context is done
    \* History, read by no action:
    covers,     \* [Deliveries -> deliveries whose push r's fetch will bring]
    synced,     \* deliveries whose push has reached the secondary
    failed      \* projects of which a trigger failed or ran out of time

vars == <<mode, state, project, done, pending, sem, shutdown, covers, synced, failed>>

\* Before the manager's lock, debouncing, fetching, before the deferred
\* cleanup, before the slot is given back.
Busy == {"spawned", "debounce", "fetch", "unregister", "release"}
Registered == {"debounce", "fetch", "unregister"}

TypeOK ==
    /\ mode \in {"fetch", "dry", "rsync"}
    /\ state \in [Deliveries -> {"new", "rejected", "dropped", "ended"} \cup Busy]
    /\ project \in [Deliveries -> Projects]
    /\ done \in [Deliveries -> BOOLEAN]
    /\ pending \in [Projects -> Deliveries \cup {NoDelivery}]
    /\ sem \in Nat
    /\ shutdown \in BOOLEAN
    /\ covers \in [Deliveries -> SUBSET Deliveries]
    /\ synced \in SUBSET Deliveries
    /\ failed \in SUBSET Projects

Init ==
    /\ mode \in {"fetch", "dry", "rsync"}
    /\ state = [r \in Deliveries |-> "new"]
    /\ project \in [Deliveries -> Projects]
    /\ done = [r \in Deliveries |-> FALSE]
    /\ pending = [p \in Projects |-> NoDelivery]
    /\ sem = 0
    /\ shutdown = FALSE
    /\ covers = [r \in Deliveries |-> {}]
    /\ synced = {}
    /\ failed = {}

-----------------------------------------------------------------------------
(* handleWebhook *)

Answer(r, l) ==
    /\ state[r] = "new"
    /\ state' = [state EXCEPT ![r] = l]
    /\ UNCHANGED <<mode, project, done, pending, shutdown, covers, synced, failed>>

\* 405 wrong method, 401 wrong token, 400 unreadable body; 200 but no trigger
\* for a payload without a project path or with an invalid one.
Reject(r) == Answer(r, "rejected") /\ UNCHANGED sem

\* The select on sem: with all slots taken the delivery is dropped with 503.
Drop(r) == sem >= SemCap /\ Answer(r, "dropped") /\ UNCHANGED sem

\* Mutant: the goroutine is started without a slot.
AcceptWithoutSlot(r) == sem < SemCap /\ Answer(r, "spawned") /\ UNCHANGED sem

\* A slot is taken, the goroutine is started and GitLab gets its 200.
Accept(r) == sem < SemCap /\ Answer(r, "spawned") /\ sem' = sem + 1

-----------------------------------------------------------------------------
(* TriggerManager.Trigger *)

Cancelled(r) == done[r] \/ shutdown

\* Mutant: a trigger that finds an entry leaves the work to it.
InstallYields(r) ==
    LET p == project[r]
    IN  /\ state[r] = "spawned"
        /\ IF pending[p] # NoDelivery
           THEN state' = [state EXCEPT ![r] = "unregister"] /\ UNCHANGED pending
           ELSE state' = [state EXCEPT ![r] = "debounce"]
                /\ pending' = [pending EXCEPT ![p] = r]
        /\ UNCHANGED <<mode, project, done, sem, shutdown, covers, synced, failed>>

\* Mutant: the trigger that holds the entry is not cancelled.
InstallNoPreempt(r) ==
    /\ state[r] = "spawned"
    /\ pending' = [pending EXCEPT ![project[r]] = r]
    /\ state' = [state EXCEPT ![r] = "debounce"]
    /\ UNCHANGED <<mode, project, done, sem, shutdown, covers, synced, failed>>

\* Under the lock: pre-empt the trigger that holds the entry, take its place.
Install(r) ==
    LET p == project[r]
    IN  /\ state[r] = "spawned"
        /\ done' = IF pending[p] # NoDelivery
                   THEN [done EXCEPT ![pending[p]] = TRUE] ELSE done
        /\ pending' = [pending EXCEPT ![p] = r]
        /\ state' = [state EXCEPT ![r] = "debounce"]
        /\ UNCHANGED <<mode, project, sem, shutdown, covers, synced, failed>>

\* The two branches of the debounce select.  When both are ready either may
\* be taken, so a cancelled trigger may still call its function.
Preempted(r) ==
    /\ state[r] = "debounce" /\ Cancelled(r)
    /\ state' = [state EXCEPT ![r] = "unregister"]
    /\ UNCHANGED <<mode, project, done, pending, sem, shutdown, covers, synced, failed>>

DebounceOver(r) ==
    /\ state[r] = "debounce"
    /\ state' = [state EXCEPT ![r] = "fetch"]
    /\ covers' = [covers EXCEPT ![r] =
          IF Cancelled(r) THEN {}
          ELSE {q \in Deliveries : project[q] = project[r] /\ state[q] # "new"}]
    /\ UNCHANGED <<mode, project, done, pending, sem, shutdown, synced, failed>>

\* The trigger function returns nil.  Without a git fetch reconciler it only
\* logs that the next sweep will sync, and a dry run fetches nothing either.
\* FetchProject with a context that was done from the start fails; one that is
\* cancelled on the way may still have fetched.
FetchSucceeds(r) ==
    /\ state[r] = "fetch" /\ (mode = "rsync" \/ covers[r] # {})
    /\ synced' = IF mode = "fetch" THEN synced \cup covers[r] ELSE synced
    /\ state' = [state EXCEPT ![r] = "unregister"]
    /\ UNCHANGED <<mode, project, done, pending, sem, shutdown, covers, failed>>

FetchFails(r) ==
    /\ state[r] = "fetch" /\ mode # "rsync"
    /\ failed' = IF Cancelled(r) THEN failed ELSE failed \cup {project[r]}
    /\ state' = [state EXCEPT ![r] = "unregister"]
    /\ UNCHANGED <<mode, project, done, pending, sem, shutdown, covers, synced>>

\* Mutant: whatever entry is there is removed.
RemoveAny(r) == [pending EXCEPT ![project[r]] = NoDelivery]

\* The deferred cleanup: only an entry of one's own is removed.
RemoveOwn(r) ==
    IF pending[project[r]] = r
    THEN [pending EXCEPT ![project[r]] = NoDelivery] ELSE pending

Unregister(r) ==
    /\ state[r] = "unregister"
    /\ pending' = RemoveOwn(r)
    /\ done' = [done EXCEPT ![r] = TRUE]
    /\ state' = [state EXCEPT ![r] = "release"]
    /\ UNCHANGED <<mode, project, sem, shutdown, covers, synced, failed>>

\* Mutant: the slot is not given back.
ReleaseKeepsSlot(r) ==
    /\ state[r] = "release"
    /\ state' = [state EXCEPT ![r] = "ended"]
    /\ UNCHANGED <<mode, project, done, pending, sem, shutdown, covers, synced, failed>>

\* The goroutine of the handler ends.
Release(r) ==
    /\ state[r] = "release"
    /\ sem' = sem - 1
    /\ state' = [state EXCEPT ![r] = "ended"]
    /\ UNCHANGED <<mode, project, done, pending, shutdown, covers, synced, failed>>

-----------------------------------------------------------------------------
\* The five minutes of a trigger are over.
Timeout(r) ==
    /\ state[r] \in {"spawned", "debounce", "fetch"} /\ ~done[r]
    /\ done' = [done EXCEPT ![r] = TRUE]
    /\ failed' = failed \cup {project[r]}
    /\ UNCHANGED <<mode, state, project, pending, sem, shutdown, covers, synced>>

\* SIGTERM: every trigger's context is done; requests that are being handled
\* while Start shuts the server down are still answered.
Shutdown ==
    /\ ~shutdown
    /\ shutdown' = TRUE
    /\ UNCHANGED <<mode, state, project, done, pending, sem, covers, synced, failed>>

Step(r) ==
    \/ Install(r) \/ Preempted(r) \/ DebounceOver(r)
    \/ Unregister(r) \/ Release(r)

FetchReturns(r) == FetchSucceeds(r) \/ FetchFails(r)

Next ==
    \/ \E r \in Deliveries :
          \/ Reject(r) \/ Drop(r) \/ Accept(r) \/ Timeout(r)
          \/ Step(r) \/ FetchReturns(r)
    \/ Shutdown

Spec == Init /\ [][Next]_vars

\* A goroutine that can go on does.  Nothing is assumed of a fetch: git is
\* killed after the trigger's five minutes, but the call returns only when no
\* child of git holds its output open (localcmd sets no WaitDelay).
\* Deliveries, timeouts and the shutdown need not happen.
Fairness == \A r \in Deliveries : WF_vars(Step(r))

FairSpec == Spec /\ Fairness

-----------------------------------------------------------------------------
(* Properties *)

\* Premise of the liveness properties: no call of git hangs for ever.
FetchesReturn == \A r \in Deliveries : []<>(state[r] # "fetch")

\* Debouncing: of the triggers of one project at most one is not cancelled,
\* and it is the one in the pending map, so that the next delivery will find
\* it there; an entry of the map is the trigger of that project and has not
\* ended.  (Trigger: pre-empt under the lock, remove only one's own entry)
NewestOwnsEntry ==
    /\ \A r \in Deliveries :
          state[r] \in Registered /\ ~done[r] => pending[project[r]] = r
    /\ \A p \in Projects : pending[p] # NoDelivery =>
          project[pending[p]] = p /\ state[pending[p]] \in Registered

\* No two fetches of a project run at the same time unless all but one of
\* them have been told to stop.
OneLiveFetch ==
    \A q, r \in Deliveries :
        /\ q # r /\ project[q] = project[r]
        /\ state[q] = "fetch" /\ state[r] = "fetch"
        => done[q] \/ done[r]

\* sem counts the goroutines that are alive, never more than its capacity.
SlotsAccounted ==
    /\ sem = Cardinality({r \in Deliveries : state[r] \in Busy})
    /\ sem <= SemCap

\* Where a git fetch reconciler is there to be triggered, a push whose delivery
\* was accepted reaches the secondary, by the fetch of this delivery or of a
\* later one that pre-empted it, unless a trigger of the project failed or ran
\* out of time, or syncctl is shut down.  (buildWebhookServer, Trigger)
AcceptedIsSynced ==
    FetchesReturn => \A r \in Deliveries :
        state[r] = "spawned" /\ mode = "fetch"
            ~> r \in synced \/ project[r] \in failed \/ shutdown

\* Every slot is given back, and the pending map is left empty.
SlotsReturned ==
    FetchesReturn => <>[](sem = 0 /\ \A p \in Projects : pending[p] = NoDelivery)

=============================================================================
