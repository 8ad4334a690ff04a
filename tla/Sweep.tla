------------------------------- MODULE Sweep -------------------------------
(***************************************************************************)
(* The reconciler runner (internal/reconciler), the reconcilers it drives  *)
(* and the two commands that do: serve, which sweeps on every tick, and    *)
(* sync, which sweeps once with a deadline.                                *)
(*                                                                         *)
(* Every reconciler goes through its items one by one.  postgres, s3,      *)
(* registry, consistency and apivalidator compare what they read on the    *)
(* two sites, one read after the other, while the sites keep changing;     *)
(* gitrsync, gitfetch and fsstorage copy.  All of them keep the same two   *)
(* tallies: what makes the verdict not OK, and what Remaining will say.    *)
(* The worker pool of gitfetch is the subject of module GitFetch.          *)
(***************************************************************************)
EXTENDS Integers, Sequences, FiniteSets, FiniteSetsExt

CONSTANTS
    SiteList,      \* the configured secondaries, in file order
    Configs,       \* the configurations considered, see ConfigType
    Things,        \* [Kinds \cup {"fsck"} -> names of the items of that kind]
    CatalogCap,    \* repositories one request for the catalog returns, 1000 in the code
    Counts,        \* [tables and endpoints -> row estimates or totals considered];
                   \* -1: the table was not analyzed
    SamplePct,     \* sync.consistency_sample_pct, in percent
    MaxChanges     \* bound: changes of the sites' contents

CopyKinds == {"gitrsync", "gitfetch", "fs"}
Kinds == {"postgres", "s3", "registry", "consistency", "apivalidator"} \cup CopyKinds
ConfigType == [cmd : {"serve", "sync"}, git : {"rsync", "fetch"}, backend : {"s3", "fs"},
               registry : {"none", "url", "nourl"}, api : BOOLEAN]

ASSUME SweepAssumption ==
    /\ Configs \subseteq ConfigType
    /\ \A k \in {"consistency", "apivalidator", "registry", "fs", "gitfetch", "fsck"} :
          IsFiniteSet(Things[k])
    /\ SiteList \in Seq(STRING)
    /\ Things["registry"] \subseteq Nat /\ CatalogCap \in Nat
    /\ \A x \in Things["consistency"] \cup Things["apivalidator"] :
          Counts[x] \subseteq Int /\ Counts[x] \cap Nat # {}
    /\ SamplePct \in 0..100 /\ MaxChanges \in Nat

-----------------------------------------------------------------------------
(* buildReconcilers and buildSiteReconcilers *)

When(b, kind) == IF b THEN <<kind>> ELSE <<>>

\* The kinds of reconciler that a secondary gets, the same for each of them.
BuildSiteReconcilers(c) ==
    When(c.git = "rsync", "gitrsync") \o When(c.git = "fetch", "gitfetch")
    \o When(c.backend = "s3", "s3") \o When(c.backend = "fs", "fs")
    \o When(c.registry = "url", "registry")
    \o <<"consistency">>
    \o When(c.api, "apivalidator")

\* postgres for all, then the reconcilers of one secondary after the other.
BuildReconcilers(c) ==
    LET kinds == BuildSiteReconcilers(c)
        n == Len(kinds)
    IN  [k \in 1..(1 + n * Len(SiteList)) |->
            IF k = 1 THEN [kind |-> "postgres", site |-> "*"]
            ELSE [kind |-> kinds[1 + ((k - 2) % n)], site |-> SiteList[1 + ((k - 2) \div n)]]]

\* The items a reconciler begins with.  registry goes on with the images of
\* the catalog, consistency with the repositories it samples for git fsck.
Items(rec) ==
    CASE rec.kind = "postgres" -> {<<"postgres", SiteList[i], "wal">> : i \in 1..Len(SiteList)}
      [] rec.kind \in {"gitrsync", "s3"} -> {<<rec.kind, rec.site, "all">>}
      [] rec.kind = "registry" -> {<<"registry", rec.site, "catalog">>}
      [] OTHER -> {<<rec.kind, rec.site, x>> : x \in Things[rec.kind]}

Images(rec, catalog) == {<<"tags", rec.site, x>> : x \in catalog}
Repos(rec) == {<<"fsck", rec.site, x>> : x \in Things["fsck"]}

AllItems(recs) ==
    (UNION {Items(recs[i]) : i \in 1..Len(recs)})
    \cup (UNION {Images(recs[i], Things["registry"]) :
                  i \in {j \in 1..Len(recs) : recs[j].kind = "registry"}})
    \cup (UNION {Repos(recs[i]) : i \in {j \in 1..Len(recs) : recs[j].kind = "consistency"}})

-----------------------------------------------------------------------------
(* What a site may hold of an item that is compared. *)

Buckets == {[count |-> 1, size |-> 1], [count |-> 1, size |-> 2], [count |-> 2, size |-> 2]}

\* The tags of an image, and the manifests they stand for.
TagLists == {[names |-> {"t1"}, digest |-> 1], [names |-> {"t1"}, digest |-> 2],
             [names |-> {"t1", "t2"}, digest |-> 1]}

Contents(side, item) ==
    CASE item[1] = "postgres" -> IF side = "p" THEN {"row", "none"} ELSE {"standby", "promoted"}
      [] item[1] = "s3" -> Buckets
      [] item[1] = "registry" -> SUBSET Things["registry"]
      [] item[1] = "tags" -> TagLists
      [] item[1] = "fsck" -> {"sound", "corrupt"}
      [] item[1] = "consistency" -> Counts[item[3]]
      [] item[1] = "apivalidator" -> Counts[item[3]] \cap Nat
      [] OTHER -> {"data"}

Synced(side, item) ==
    CASE item[1] = "postgres" -> IF side = "p" THEN "row" ELSE "standby"
      [] item[1] = "s3" -> [count |-> 1, size |-> 1]
      [] item[1] = "registry" -> Things["registry"]
      [] item[1] = "tags" -> [names |-> {"t1"}, digest |-> 1]
      [] item[1] = "fsck" -> "sound"
      [] item[1] \in {"consistency", "apivalidator"} ->
            CHOOSE n \in Counts[item[3]] \cap Nat : TRUE
      [] OTHER -> "data"

\* What reading an item that holds v brings: of the catalog its first page
\* (in the order of the names, which are numbers here), of an image's tags
\* their names and not their digests.
Listed(catalog) == {x \in catalog : Cardinality({y \in catalog : y < x}) < CatalogCap}
ReadOf(item, v) ==
    CASE item[1] = "registry" -> Listed(v)
      [] item[1] = "tags" -> v.names
      [] OTHER -> v

\* Mutant: a difference as large as the tolerance is drift.
IsApproxEqualStrict(a, b) ==
    LET tolerance == (IF b > a THEN b ELSE a) \div 10
        diff == IF a < b THEN b - a ELSE a - b
    IN  diff < IF tolerance < 5 THEN 5 ELSE tolerance

\* isApproxEqual: within 10% of the larger estimate, or 5 rows.
IsApproxEqual(a, b) ==
    LET tolerance == (IF b > a THEN b ELSE a) \div 10
        diff == IF a < b THEN b - a ELSE a - b
    IN  diff <= IF tolerance < 5 THEN 5 ELSE tolerance

\* Whether two values read for an item pass as equal.
Matches(item, p, s) == IF item[1] = "consistency" THEN IsApproxEqual(p, s) ELSE p = s

-----------------------------------------------------------------------------
VARIABLES
    cfg, recs,      \* the configuration and the reconcilers built from it
    val,            \* [{"p", "s"} -> [items -> contents]]
    changes,        \* number of changes so far
    outage,         \* sides that may fail to answer
    cancelled,
    pc, cur,        \* where the sweep is, and at which reconciler
    queue,          \* items of this reconciler still to visit
    item, seen,     \* the item being compared and what was read first, if any
    attempt,        \* of reconciler.Retry
    bad, remaining, \* tallies
    fsckDone,       \* consistency has drawn its sample
    \* History, read by no action:
    outcome,        \* [visited items of this Reconcile -> what was found]
    fails,          \* failed tries of the listing of a bucket at hand
    listed,         \* the primary's catalog as it was listed, {} before
    watched, last   \* any one reconciler, and its last verdict

world == <<cfg, recs, val, changes, outage, cancelled>>
loop == <<queue, item, seen, attempt, bad, remaining, fsckDone, outcome>>
note == <<fails, listed>>
watch == <<watched, last>>
vars == <<world, pc, cur, loop, note, watch>>

NoItem == <<"none", "none", "none">>
NoOutcome == [i \in {} |-> ""]
MaxAttempts == 3
Rec == recs[cur]

TypeOK ==
    /\ cfg \in Configs
    /\ recs = BuildReconcilers(cfg)
    /\ \A side \in {"p", "s"}, i \in AllItems(recs) : val[side][i] \in Contents(side, i)
    /\ changes \in 0..MaxChanges
    /\ outage \in {{}, {"p"}, {"s"}}
    /\ cancelled \in BOOLEAN
    /\ pc \in {"idle", "next", "visit", "second", "hung", "held", "finish", "stopped"}
    /\ cur \in 1..Len(recs)
    /\ queue \in SUBSET AllItems(recs)
    /\ item \in AllItems(recs) \cup {NoItem} /\ Len(seen) <= 1
    /\ attempt \in 1..MaxAttempts
    /\ bad \in Nat /\ remaining \in Nat
    /\ fsckDone \in BOOLEAN
    /\ DOMAIN outcome \subseteq AllItems(recs)
    /\ fails \in Nat /\ listed \subseteq Things["registry"]
    /\ watched \in 1..Len(recs)
    /\ last \in {"none", "ok", "drift"}

Init ==
    /\ cfg \in Configs
    /\ recs = BuildReconcilers(cfg)
    /\ val = [side \in {"p", "s"} |-> [i \in AllItems(recs) |-> Synced(side, i)]]
    /\ changes = 0
    /\ outage = {}
    /\ cancelled = FALSE
    /\ pc = "idle" /\ cur = 1
    /\ queue = {} /\ item = NoItem /\ seen = <<>> /\ attempt = 1
    /\ bad = 0 /\ remaining = 0 /\ fsckDone = FALSE
    /\ outcome = NoOutcome /\ fails = 0 /\ listed = {}
    /\ watched \in 1..Len(recs) /\ last = "none"

-----------------------------------------------------------------------------
(* The sites. *)

Change(side, i) ==
    /\ changes < MaxChanges
    /\ \E v \in Contents(side, i) \ {val[side][i]} : val' = [val EXCEPT ![side][i] = v]
    /\ changes' = changes + 1
    /\ UNCHANGED <<cfg, recs, outage, cancelled, pc, cur, loop, note, watch>>

\* Native replication brings the secondary up to date.
Replicate(i) ==
    /\ i[1] \in {"s3", "registry", "tags", "consistency", "apivalidator"}
    /\ val' = [val EXCEPT !["s"][i] = val["p"][i]]
    /\ UNCHANGED <<cfg, recs, changes, outage, cancelled, pc, cur, loop, note, watch>>

Outage ==
    /\ outage' \in {{}, {"p"}, {"s"}} \ {outage}
    /\ UNCHANGED <<cfg, recs, val, changes, cancelled, pc, cur, loop, note, watch>>

MayFail(side) == cancelled \/ side \in outage
MayAnswer == ~cancelled

-----------------------------------------------------------------------------
(* Runner.Run and sweep; the loop of sync. *)

\* A sweep begins: Run's first one, or the ticker; the one of sync, which
\* does not look at its context.
Tick ==
    /\ pc = "idle" /\ (cfg.cmd = "serve" => ~cancelled)
    /\ pc' = "next" /\ cur' = 1
    /\ UNCHANGED <<world, loop, note, watch>>

\* sweep looks at the context before each reconciler, sync does not.
Begin ==
    /\ pc = "next"
    /\ IF cfg.cmd = "serve" /\ cancelled
       THEN pc' = "idle" /\ UNCHANGED queue
       ELSE pc' = "visit" /\ queue' = Items(Rec)
    /\ UNCHANGED <<world, cur, item, seen, attempt, bad, remaining, fsckDone, outcome, note, watch>>

\* Mutant: a failing reconciler ends the sweep.
FinishAborts ==
    /\ pc = "finish"
    /\ IF cur < Len(recs) /\ bad = 0
       THEN pc' = "next" /\ cur' = cur + 1
       ELSE /\ pc' = IF cfg.cmd = "sync" THEN "stopped" ELSE "idle"
            /\ cur' = 1
    /\ bad' = 0 /\ remaining' = 0 /\ fsckDone' = FALSE
    /\ outcome' = NoOutcome /\ fails' = 0 /\ listed' = {}
    /\ last' = IF cur # watched THEN last ELSE IF bad = 0 THEN "ok" ELSE "drift"
    /\ UNCHANGED <<world, queue, item, seen, attempt, watched>>

\* Reconcile returns [OK |-> bad = 0, Remaining |-> remaining]; the next
\* reconciler, or the end of the sweep.
Finish ==
    /\ pc = "finish"
    /\ IF cur < Len(recs)
       THEN pc' = "next" /\ cur' = cur + 1
       ELSE /\ pc' = IF cfg.cmd = "sync" THEN "stopped" ELSE "idle"
            /\ cur' = 1
    /\ bad' = 0 /\ remaining' = 0 /\ fsckDone' = FALSE
    /\ outcome' = NoOutcome /\ fails' = 0 /\ listed' = {}
    /\ last' = IF cur # watched THEN last ELSE IF bad = 0 THEN "ok" ELSE "drift"
    /\ UNCHANGED <<world, queue, item, seen, attempt, watched>>

\* Run returns when its context is done.  (That of sync may already be done
\* when it builds the reconcilers, which then fails.)
Stop ==
    /\ pc = "idle" /\ cancelled
    /\ pc' = "stopped"
    /\ UNCHANGED <<world, cur, loop, note, watch>>

Cancel ==
    /\ ~cancelled /\ pc # "stopped"
    /\ cancelled' = TRUE
    /\ UNCHANGED <<cfg, recs, val, changes, outage, pc, cur, loop, note, watch>>

\* Mutant: no deadline.
DeadlineNone == FALSE

\* The five minutes that sync gives itself; serve has no such limit.
Deadline == cfg.cmd = "sync" /\ Cancel

-----------------------------------------------------------------------------
(* The item loop. *)

\* Item i is dealt with: b more reasons not to be OK, r more remaining.
Visited(i, what, b, r, rest) ==
    /\ outcome' = [j \in DOMAIN outcome \cup {i} |-> IF j = i THEN what ELSE outcome[j]]
    /\ bad' = bad + b /\ remaining' = remaining + r
    /\ queue' = rest
    /\ item' = NoItem /\ seen' = <<>> /\ attempt' = 1
    /\ pc' = "visit"
    /\ UNCHANGED fsckDone

\* consistency, when its tables are done: a sample of the repositories, at
\* least one of them, drawn without replacement.
SampleSize ==
    LET total == Cardinality(Things["fsck"])
        n == (total * SamplePct) \div 100
    IN  IF SamplePct = 0 \/ total = 0 THEN 0 ELSE IF n < 1 THEN 1 ELSE n

SampleGitFsck ==
    /\ pc = "visit" /\ queue = {} /\ Rec.kind = "consistency" /\ ~fsckDone
    /\ \E S \in SUBSET Repos(Rec) :
          Cardinality(S) = SampleSize /\ queue' = S
    /\ fsckDone' = TRUE
    /\ UNCHANGED <<world, pc, cur, item, seen, attempt, bad, remaining, outcome, note, watch>>

Verdict ==
    /\ pc = "visit" /\ queue = {} /\ (Rec.kind = "consistency" => fsckDone)
    /\ pc' = "finish"
    /\ UNCHANGED <<world, cur, loop, note, watch>>

(* gitrsync, gitfetch, fsstorage: one command per item. *)

\* fsstorage returns when the context is done, with every path remaining;
\* the loop of gitfetch breaks; gitrsync has no loop.
CopyBrokenOff ==
    /\ pc = "visit" /\ queue # {} /\ cancelled
    /\ Rec.kind \in {"gitfetch", "fs"}
    /\ pc' = "finish" /\ queue' = {}
    /\ IF Rec.kind = "fs"
       THEN bad' = 1 /\ remaining' = Cardinality(Items(Rec))
       ELSE UNCHANGED <<bad, remaining>>
    /\ UNCHANGED <<world, cur, item, seen, attempt, fsckDone, outcome, note, watch>>

\* A path is skipped by fsstorage as not existing on the primary whenever the
\* words "No such file or directory" or "change_dir" are in what the failed
\* rsync printed, be it about the primary's path, the parent of the local one
\* or the key file, and be rsync killed or not.  The context may be done after
\* the loop has looked at it.
Copy(i) ==
    /\ pc = "visit" /\ i \in queue /\ Rec.kind \in CopyKinds
    /\ LET rest == queue \ {i}
       IN  \/ MayAnswer /\ Visited(i, "same", 0, 0, rest)
           \/ Rec.kind = "fs" /\ Visited(i, "missing", 0, 0, rest)
           \/ MayFail("p") /\ Visited(i, "unread", 1, 1, rest)
    /\ UNCHANGED <<world, cur, note, watch>>

\* With the connection stalled a copy hangs until the connection breaks, or
\* longer: rsync has no time limit of its own.
Hang(i) ==
    /\ pc = "visit" /\ i \in queue /\ Rec.kind \in CopyKinds
    /\ MayFail("p") /\ ~cancelled
    /\ pc' = "hung" /\ item' = i
    /\ UNCHANGED <<world, cur, queue, seen, attempt, bad, remaining, fsckDone, outcome, note, watch>>

\* The context is done, for git fetch after ten minutes at the latest, and the
\* command is killed.  CombinedOutput goes on waiting as long as the ssh that
\* the command has started holds the pipe: there is no WaitDelay.
Killed ==
    /\ pc = "hung" /\ (cancelled \/ Rec.kind = "gitfetch")
    /\ pc' = "held"
    /\ UNCHANGED <<world, cur, loop, note, watch>>

HangBreaks ==
    /\ pc \in {"hung", "held"}
    /\ Visited(item, "unread", 1, 1, queue \ {item})
    /\ UNCHANGED <<world, cur, note, watch>>

(* postgres, s3, registry, consistency, apivalidator: two reads per item.  *)

FirstSide == IF Rec.kind = "postgres" THEN "s" ELSE "p"
SecondSide == IF FirstSide = "p" THEN "s" ELSE "p"

\* Mutant: an image whose tags cannot be listed is passed over.
ReadErrorForgiving(i) ==
    CASE i[1] \in {"consistency", "apivalidator"} -> Visited(i, "unread", 0, 1, queue \ {i})
      [] i[1] \in {"s3", "registry"} -> Visited(i, "unread", 1, 1, {})
      [] i[1] = "fsck" -> Visited(i, "differs", 1, 0, queue \ {i})
      [] OTHER -> Visited(i, "unread", 0, 0, queue \ {i})

\* A read fails for good.  postgres and the tags of registry count an error
\* as drift; consistency and apivalidator only let it remain; without a
\* listing s3 and registry return.
ReadError(i) ==
    CASE i[1] \in {"consistency", "apivalidator"} -> Visited(i, "unread", 0, 1, queue \ {i})
      [] i[1] \in {"s3", "registry"} -> Visited(i, "unread", 1, 1, {})
      [] i[1] = "fsck" -> Visited(i, "differs", 1, 0, queue \ {i})
      [] OTHER -> Visited(i, "unread", 1, 1, queue \ {i})

\* Mutant: one attempt too many.
RetryOrErrorOffByOne(i) ==
    /\ fails' = IF i[1] = "s3" THEN fails + 1 ELSE fails
    /\ UNCHANGED listed
    /\ \/ /\ i[1] = "s3" /\ attempt <= MaxAttempts /\ ~cancelled
          /\ attempt' = attempt + 1
          /\ UNCHANGED <<pc, queue, item, seen, bad, remaining, fsckDone, outcome>>
       \/ /\ i[1] = "s3" => attempt > MaxAttempts \/ cancelled
          /\ ReadError(i)

\* One try fails.  reconciler.Retry, around the two listings of s3 only,
\* tries again after a delay, unless the context is done before it is over.
RetryOrError(i) ==
    /\ fails' = IF i[1] = "s3" THEN fails + 1 ELSE fails
    /\ UNCHANGED listed
    /\ \/ /\ i[1] = "s3" /\ attempt < MaxAttempts /\ ~cancelled
          /\ attempt' = attempt + 1
          /\ UNCHANGED <<pc, queue, item, seen, bad, remaining, fsckDone, outcome>>
       \/ /\ i[1] = "s3" => attempt = MaxAttempts \/ cancelled
          /\ ReadError(i)

\* Mutant: the two listings share their attempts.
FirstIsReadKeepsAttempt(i, v) ==
    /\ item' = i /\ seen' = <<v>> /\ pc' = "second"
    /\ fails' = 0 /\ listed' = IF i[1] = "registry" THEN v ELSE listed
    /\ UNCHANGED <<queue, attempt, bad, remaining, fsckDone, outcome>>

\* The first read brought v; the second one has its own attempts.
FirstIsRead(i, v) ==
    /\ item' = i /\ seen' = <<v>> /\ pc' = "second" /\ attempt' = 1
    /\ fails' = 0 /\ listed' = IF i[1] = "registry" THEN v ELSE listed
    /\ UNCHANGED <<queue, bad, remaining, fsckDone, outcome>>

ReadFirst(i) ==
    LET v == ReadOf(i, val[FirstSide][i])
    IN  /\ pc = "visit" /\ i \in queue /\ Rec.kind \notin CopyKinds /\ i[1] # "fsck"
        /\ \/ /\ MayAnswer
              /\ CASE i[1] = "consistency" /\ v = -1 ->
                         Visited(i, "unknown", 0, 0, queue \ {i}) /\ UNCHANGED note
                   [] i[1] = "postgres" /\ v = "promoted" ->
                         Visited(i, "differs", 1, 1, queue \ {i}) /\ UNCHANGED note
                   [] OTHER -> FirstIsRead(i, v)
           \/ MayFail(FirstSide) /\ RetryOrError(i)
        /\ UNCHANGED <<world, cur, watch>>

Abs(n) == IF n < 0 THEN -n ELSE n

\* Both values are known.
Compare(i, v) ==
    CASE i[1] = "consistency" /\ v = -1 -> Visited(i, "unknown", 0, 0, queue \ {i})
      [] i[1] = "postgres" ->
            IF v = "row" THEN Visited(i, "same", 0, 0, queue \ {i})
                         ELSE Visited(i, "differs", 1, 1, queue \ {i})
      [] i[1] = "s3" ->
            IF seen[1] = v THEN Visited(i, "same", 0, 0, {})
                        ELSE Visited(i, "differs", 1, Abs(seen[1].count - v.count), {})
      [] i[1] = "registry" ->
            IF seen[1] = v THEN Visited(i, "same", 0, 0, Images(Rec, v))
                        ELSE Visited(i, "differs", 1, Cardinality(SymDiff(seen[1], v)), {})
      [] OTHER ->
            IF Matches(i, seen[1], v) THEN Visited(i, "same", 0, 0, queue \ {i})
                                   ELSE Visited(i, "differs", 1, 1, queue \ {i})

ReadSecond ==
    /\ pc = "second"
    /\ \/ MayAnswer /\ Compare(item, ReadOf(item, val[SecondSide][item])) /\ UNCHANGED note
       \/ MayFail(SecondSide) /\ RetryOrError(item)
    /\ UNCHANGED <<world, cur, watch>>

\* git fsck runs where syncctl does; cancelled, it counts as a failed one.
GitFsck(i) ==
    /\ pc = "visit" /\ i \in queue /\ i[1] = "fsck"
    /\ IF cancelled THEN ReadError(i)
       ELSE IF val["s"][i] = "sound" THEN Visited(i, "same", 0, 0, queue \ {i})
                                     ELSE Visited(i, "differs", 1, 0, queue \ {i})
    /\ UNCHANGED <<world, cur, note, watch>>

-----------------------------------------------------------------------------
Work ==
    \/ Begin \/ SampleGitFsck \/ Verdict \/ Finish \/ CopyBrokenOff \/ ReadSecond
    \/ Killed
    \/ \E i \in queue : Copy(i) \/ ReadFirst(i) \/ GitFsck(i)

Next ==
    \/ \E side \in {"p", "s"}, i \in AllItems(recs) : Change(side, i)
    \/ \E i \in AllItems(recs) : Replicate(i)
    \/ \E i \in queue : Hang(i)
    \/ HangBreaks \/ Outage \/ Cancel \/ Deadline \/ Tick \/ Stop \/ Work

Spec == Init /\ [][Next]_vars

\* Every read and every command returns (the HTTP clients have a timeout, the
\* queries are assumed not to hang) except a copy that hangs: it is killed once
\* its context is done, but nothing makes it return; the ticker ticks, Run
\* sees that the context is done, and the deadline of sync comes.
Fairness == WF_vars(Work) /\ WF_vars(Tick) /\ WF_vars(Stop) /\ WF_vars(Deadline)

FairSpec == Spec /\ Fairness

-----------------------------------------------------------------------------
(* Properties *)

\* The reconcilers whose every error counts against OK.
Strict == {"postgres", "gitrsync", "fs", "s3", "registry"}

\* An OK is earned: a reconciler of these has read on both sites, in this
\* very sweep, everything it set out to compare, down to the tags of every
\* image that the catalog has listed, and found nothing that differs; fsstorage
\* may have skipped a path it took for missing.  consistency and apivalidator are OK only if
\* nothing they could read differs.  Errors, retries, early returns and a
\* cancellation on the way notwithstanding.
OKIsEarned ==
    pc = "finish" /\ bad = 0 =>
        /\ Rec.kind \in Strict =>
              /\ Items(Rec) \subseteq DOMAIN outcome
              /\ Rec.kind = "registry" => Images(Rec, listed) \subseteq DOMAIN outcome
              /\ \A i \in DOMAIN outcome : outcome[i] \in {"same", "missing"}
        /\ \A i \in DOMAIN outcome : outcome[i] # "differs"

\* Each of the two listings of a bucket is tried three times of its own, no
\* more: the try that makes the reconciler give up is the third one of that
\* listing to fail, or one during which, or in the delay after which, the
\* context is done; it gives up then at once. (reconciler.Retry)
ThreeTriesPerListing ==
    [][fails' > fails =>
          /\ fails' <= MaxAttempts
          /\ DOMAIN outcome' # DOMAIN outcome <=> (fails' = MaxAttempts \/ cancelled)]_vars

\* One failing reconciler does not keep the others from running: while serve
\* goes on and no copy hangs, each of them returns a verdict again and again.
\* (Runner.sweep)
EveryReconcilerRuns ==
    []<>(cancelled \/ cfg.cmd = "sync" \/ pc \in {"hung", "held"} \/ (pc = "finish" /\ cur = watched))

\* sync returns, whatever hangs, fails or changes meanwhile, unless a killed
\* command leaves a child behind that holds its pipe for ever: its deadline
\* ends every other wait. (context.WithTimeout, and exec.CommandContext)
SyncReturns == []<>(pc # "held") => (cfg.cmd = "sync" ~> pc = "stopped")

\* Two estimates of the rows of a table are further apart than five rows and
\* than a tenth of the larger one.
FarApart(a, b) == \E lo, hi \in {a, b} : hi - lo > 5 /\ 10 * (hi - lo) > hi

\* What reconciler k compares differs now.  Not compared are a table that was
\* never analyzed, images past the first page of the catalog, and the digests
\* behind the tags of an image, although the comments of the registry
\* reconciler speak of manifest digests.
DiffersNow(k) ==
    LET p(i) == val["p"][i]
        s(i) == val["s"][i]
        rec == recs[k]
    IN  \E i \in Items(rec) :
          CASE i[1] = "postgres" -> p(i) = "none" \/ s(i) = "promoted"
            [] i[1] = "consistency" -> -1 \notin {p(i), s(i)} /\ FarApart(p(i), s(i))
            [] i[1] = "registry" -> \/ Listed(p(i)) # Listed(s(i))
                                    \/ \E j \in Images(rec, Listed(p(i))) : p(j).names # s(j).names
            [] OTHER -> p(i) # s(i)
CorruptNow(k) == recs[k].kind = "consistency" /\ \E i \in Repos(recs[k]) : val["s"][i] = "corrupt"

\* The verdict of a reconciler follows the sites while serve goes on and
\* both answer: a difference of what it compares that stays is reported by
\* every sweep from some time on, and one that is gone is not reported for ever.
Steady == outage = {} /\ ~cancelled /\ cfg.cmd = "serve" /\ pc \notin {"hung", "held"}
VerdictFollowsSites ==
    /\ <>[](Steady /\ DiffersNow(watched)) => <>[](last = "drift")
    /\ <>[](Steady /\ ~DiffersNow(watched) /\ ~CorruptNow(watched)) => <>[](last = "ok")

=============================================================================
