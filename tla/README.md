# A TLA+ model of syncctl

syncctl keeps one or more GitLab sites (secondaries) in step with a primary,
watches the primary's health, and promotes a secondary when the primary is
lost. It keeps no state on disk: what it knows is in the memory of one process,
and what it does is done by commands sent over ssh and by `git` and `rsync`
children. The difficulty lies in the order in which those commands take effect
while processes overlap, fail half-way, are cancelled or are killed, and in
whether a verdict ("OK", "primary down", "failover complete") still says the
truth when it is used. This project models that.

## 1. The system

| Part (source) | State it keeps | Operations | Talks to |
|---|---|---|---|
| failover controller (`internal/failover`) | `consecutiveFails`, `primaryDown`; per invocation: target, flags | `Run`/`check`, `Promote`, `AdoptAsSecondary`, `ResolveNewPrimary` | health URLs over HTTP, sites over ssh, `readonly`, `dbkey` |
| read-only switch (`internal/readonly`) | none; changes the site | `Enable`, `Disable`: three commands each | ssh |
| db_key_base check (`internal/dbkey`) | none | read both keys, compare | ssh |
| commands (`cmd/syncctl`) | flags, context with signal and deadline | `serve`, `failover`, `adopt-as-secondary`, `sync`, reporting commands | all of the others |
| webhook receiver (`internal/webhook`) | `sem` (8 slots), `TriggerManager.pending` | `handleWebhook`, `Trigger`, `Start` | `gitfetch.FetchProject` in a goroutine per delivery |
| runner (`internal/reconciler`) | none between sweeps | `Run`, `sweep`, `Retry` | the reconcilers, one after the other |
| git fetch reconciler | counters of the running sweep | `Reconcile` (bounded pool), `FetchProject` | PostgreSQL (list of projects), `git fetch` |
| git rsync, fs storage | none | one `rsync` per item | `rsync --delete` |
| postgres, object storage, registry, consistency, API validator | tallies of the running `Reconcile` | read both sites, compare | SQL, S3, HTTP, `git fsck` |
| registry authenticator | tokens cached per scope | `token`, `invalidate`, `checkRealm` | realm named by the registry |
| configuration (`internal/config`) | immutable after loading | `Load`: decode, insist that secrets are references, expand variables, `validate` | every command, before anything else |
| `init` (`internal/initcmd`) | the file it writes | dialogue, `GenerateYAML` | the file system |
| `pg setup` (`internal/pgsetup`) | the data directory, the slot on the primary | `checkDataDir`, `pg_basebackup`, edit of `postgresql.auto.conf` | PostgreSQL |
| `doctor` (`internal/doctor`) | the results of one run | a fixed list of checks, summary, exit status | ssh, SQL |
| runbook, sla, helpers, metrics, logging | none that other parts read | print | – |

What is hard in it:

* **Processes overlap.** `serve` may promote a secondary by itself while an
  operator runs `failover` or `adopt-as-secondary`. There is no lock. Inside
  `serve`, webhook goroutines and the sweep fetch the same repositories.
* **Steps fail in the middle.** When an ssh fails or is killed, the command it
  had sent may go on at the site and take effect later, even after the process
  is gone. Signals and deadlines arrive between any two steps; a kill runs no
  deferred function.
* **Cancellation looks like failure.** A done context fails every health poll
  and every read, so it must not be mistaken for a dead primary, nor for
  parity.
* **The roles in the file do not change.** A promotion changes the sites, not
  the configuration that the other parts of `serve` were built from.
* **Verdicts age.** `primaryDown`, cached tokens, the first of two reads, the
  entry of the pending map: each is read at one time and used at another.

What makes the parts correct: promotions happen on evidence, with permission
and in order; the password of a role swap does not stay behind; debouncing
loses neither the newest trigger nor a slot nor an accepted push; `pg setup`
fills only empty directories, and a base backup reported done is there; an OK was
earned in this very sweep; verdicts catch up with the sites; and commands,
sweeps and goroutines end. `PROJECT.json` lists the hazards line by line with
the properties that address them.

## 2. Modules

| Module | Models | Source |
|---|---|---|
| `GitLabSite` | a site, and what each remote command of the failover flow does to it | commands in `failover.go`, `readonly.go` |
| `Failover` | `serve` (read-only mode, health loop, automatic promotion), `failover`, `adopt-as-secondary`, as concurrent processes | `failover.go`, `readonly.go`, `dbkey.go`, `main.go`, `sshexec.go` |
| `Promotion` | abstract: what a promotion promises | – |
| `MCFailover` | instances of Failover | |
| `FailoverProofs`, `PromotionProofs` | theorems about Failover; that it implements Promotion | |
| `AdoptProofs` | theorems about `adopt-as-secondary`, and that Mirror implements Failover | |
| `Mirror`, `MCMirror` | Failover composed with the git mirror of `serve` and with users of the sites | `gitrsync/reconciler.go`, `main.go` |
| `Webhook`, `WebhookProofs` | HTTP handler, `sem`, `TriggerManager` | `webhook.go`, `main.go` |
| `GitFetch`, `MCGitFetch`, `GitFetchProofs` | worker pool of the sweep, `FetchProject`, `git fetch` | `gitfetch/reconciler.go` |
| `Sweep`, `MCSweep`, `SweepProofs` | runner, `sync`, and all eight reconcilers | `runner.go`, `retry.go`, `*/reconciler.go`, `main.go` |
| `RegistryAuth`, `RegistryAuthProofs` | authenticated `get` with token exchange | `registry/auth.go`, `registry/reconciler.go` |
| `Config` | the configuration file: `Load`, `ParseEndpoint`, the file of the wizard | `config.go`, `sshexec.go`, `initcmd.go` |
| `Bringup`, `MCBringup`, `BringupProofs` | `init`, `pg setup` and `doctor` on top of it | `pgsetup.go`, `doctor.go`, `initcmd.go`, `main.go` |

### How state and actions correspond to the code

**Failover.** A process is at a step `pc[p]`; every step is one remote command
(or one local decision), in the order of `promotionSteps` and of the step list
of `AdoptAsSecondary`. `Remote` is that command: `Succeed` applies its effect
(`Effects`) and goes on; `Fail` changes nothing by itself and goes where the
error return leads (`OnError`). But the ssh that is gone may leave its command
behind (`Loose`): `late[p]` holds the step, the site and the arguments, and
`Late` carries it out at any later time, or never. The same happens when
`Cancel` kills the ssh under way and when the process dies (`Crash`). After
`Cancel` no command is started any more (`exec.CommandContext`), except the
deferred removal of the passfile, which runs on `context.WithoutCancel`. `Check`
is one tick of the health loop; `HealthFailures` is how many URLs may be found
failing: all of them when the primary is down, none when it is up, any number
when it is changing or the context is done. The counter `consecutiveFails` stops
at three because the code only asks whether it is at least three. The variables
`rounds`, `probe`, `parity`, `touched`, `completed`, `rmLost` and `wiped` are
history: no action reads them, the properties do. `rounds` and `probe` record
what the configuration asks for (`Witnessed`) and not what `New` makes of it
(`Quorum`), so that a quorum mishandled there is caught. `adopt-as-secondary`
is taken to work on the configured primary: the flag `--old-primary-ssh` accepts
any host, and that the operator names the old primary is an assumption.

**Promotion** is the specification without the commands: an attempt begins,
is cleared, promotes, announces, and may be abandoned anywhere; it may lose hold
of its promotion (`Loose`), which then lands later or never (`Land`); several
attempts may be under way for one secondary. Failover maps to it by `Role` (the
state of each secondary's PostgreSQL), `Phase` (how far the `pc` of a process has
come in `promotionSteps`: before the parity check it is checking, after it
cleared), `Target` (its host) and `Pending` (the site of a `pg_ctl promote` in
`late`).

**Mirror.** `Here` is the secondary on whose host `serve` runs: rsync reads the
configured primary over ssh and writes a local path, so it is that site whose
`content` a sweep makes an exact copy of the primary's. The reconcilers run from
the end of the read-only switch to the end of `serve`, beside the failover
controller. `MirrorStart` is the rsync that reads the primary, `pulling` what it
is about to make of the copy, `MirrorGit` and `MirrorGitFails` its end; in between
it may hang for ever, and then no other sweep begins. A transfer that fails has
dealt with some of the repositories. `Scenarios` bounds which commands are used
in one behaviour and under which configuration; they run one at a time there,
since `failover_promotion` has the interleavings.

**Webhook.** A delivery is a goroutine. `Accept` takes a slot of `sem`;
`Install` and `Unregister` are the two critical sections of `Trigger`;
`Preempted` and `DebounceOver` are the branches of its select, both enabled
when both are ready. `covers[r]` records which deliveries had arrived when r's
fetch began: those pushes are what it brings. `mode` is what the trigger function
of `serve` does: fetch, return at once in a dry run, or, with `git.mode: rsync`,
log that the next sweep will sync and return nil.

**GitFetch.** `NextProject` is the non-blocking look at the context, `Launch`
the blocking `g.Go`, so a cancellation can fall between the two. `FetchBegin`
and `FetchEnd` split a `git fetch` where it reads the refs and where it writes
them; another fetch of the same repository may come in between. git names the
old value only of a branch that both sides had, so only there does an update
fail when another fetch was quicker (`InTheWay`); a ref that is new, a tag and a
ref to be pruned are written whatever is there by now. `knownRefs` are the
projects whose pushes only move such branches. `present` are the repositories
that exist on the secondary: `git -C` fails for the others, and nothing in
syncctl creates one.

**Sweep.** All reconcilers visit items and keep two tallies: what makes the
verdict not OK, and what remains. The comparing ones read one site, then the
other, in two steps, with changes, outages and cancellation possible between
them. `Visited` is the bookkeeping they share; `ReadError` holds the ways in
which they differ when a read fails. `Retry` surrounds the bucket listings
only, as in the code, once for each. An rsync may hang (`Hang`): it has no time
limit. The end of its context kills it (`Killed`), but `CombinedOutput` goes on
waiting while a child of it holds the pipe (`held`), and nothing bounds that. Of
the registry, `Listed` is the one page of the catalog that the code asks for
and `ReadOf` the names of the tags, which is all it compares: a tag list of the
model has digests too, which no action sees. `IsApproxEqual` is the integer
arithmetic of the code; the property has a definition of its own (`FarApart`).

**RegistryAuth.** One `get` at a time per authenticator: bare request,
challenge, token (configured, cached or exchanged), second request. A token may
expire at any moment.

**Config.** A file holds, field by field, what the code looks at: of a secret
whether it is empty, one reference, a reference with text around it, or
written out; of an `ssh_host` the kind of its three parts; of the variables
which are referenced before, in and after `dns_config`, the only map. A part
that can be left out is a set with at most one element. `Load` gives the set of
what may come of a file: `ok`, `error` or `panic`, the latter two in one set when
they depend on the order in which a map is visited.

**Bringup.** The operator edits the file, changes the environment, cleans up
and runs one command at a time. `InitCreate` truncates the file and `InitWrite`
fills it, so a kill in between leaves an empty one. `SetupStart` is `Run` up to
`pg_basebackup`, `RunBasebackup` its end, good or bad, `AppendConnInfoAppname`
the edit afterwards. `DoctorCheck` makes one check, the `nth` at the position
`site` (0 is the primary, then the secondaries, last the object storage), and
moves on, so what it looks for can break or be repaired between two, and the
context can end.

### External behaviour that is assumed

Taken from how the code uses it: `gitlab-ctl stop` stops GitLab and `pg_ctl
promote` is still possible afterwards (the code relies on it); `pg_ctl promote`
succeeds only on a standby; `pg_basebackup` needs an empty data directory; a
remote command whose ssh is gone takes effect as a whole, later, or not at all;
git updates the refs of a repository in one step, with the old value named only
for branches both sides had; `pg_basebackup --create-slot` fails if the slot
exists, removes its files when it fails but not when it is killed, and may leave
the slot in both cases; PostgreSQL does not drop a slot that a standby is using.

## 3. Runs

| Run | Module | Shows |
|---|---|---|
| `failover_promotion` | `MCFailover` | `serve` and a manual `failover` against one secondary, in every interleaving with failures, signals, crashes and commands that land late. `PromotionNeedsEvidence`, `MismatchNeverPromoted`, `OnlyAllowedChanges`, `WritableOnlyAfterPromotion`, `CancelStopsChanges`, and `ImplementsPromotion`, the refinement |
| `mirror` | `MCMirror` | `serve` with its mirror under eight configurations with two secondaries, `failover` and `adopt-as-secondary` by themselves. `PassfileRemoved`, `AdoptedIsReadOnlyStandby`, and, as liveness, `HealthIsFollowed`, `CommandsReturn`, `ReplicaFollows` |
| `webhook` | `Webhook` | three deliveries, two projects, two slots, the three modes of the trigger. `NewestOwnsEntry`, `OneLiveFetch`, `SlotsAccounted`, `AcceptedIsSynced`, `SlotsReturned` (the last two are liveness) |
| `git_fetch` | `MCGitFetch` | sweep with its worker pool and webhook on the same repository, pushes, outages, cancellation, restarts, new refs, a missing repository. `EveryProjectAccounted`, `SuccessMeansFresh`, `SweepReturns`, `CatchesUp` (the last two are liveness) |
| `sweep` | `MCSweep` | `serve` and `sync` with configurations that build all eight reconcilers. `OKIsEarned`, `ThreeTriesPerListing`, `EveryReconcilerRuns`, `SyncReturns`, `VerdictFollowsSites` (the last three are liveness) |
| `registry_auth` | `RegistryAuth` | two scopes, expiring tokens, foreign realms, redirects. `RejectedTokenIsDropped`, `OnlyAllowedHostsAsked`, `RecoversFromExpiry` (liveness) |
| `bringup` | `MCBringup` | `init`, `pg setup` and `doctor` with good and broken files. `SetupFillsOnlyEmpty`, `WizardFileLoads`, `SetupReportsTruth`, `ReadyMeansNoFault` |

Five runs end in a counterexample, because the code does not do what the
repository says of it:

| Run | Statement in the repository | What happens |
|---|---|---|
| `auto_repromotes` | `failover.go:244` "failover complete — secondary is now primary", `docs/testing-guide.md:232` | the loop promotes the same site again on its next tick, stops its GitLab, fails at `pg_ctl promote` and leaves it stopped |
| `adopt_unpromoted` | `failover.go:170` "picks the secondary that is now serving as primary" | nothing checks that it was promoted; `--wipe-pgdata` then deletes the only primary |
| `git_fetch_cancelled` | `runner.go:15` "true if the component is fully in sync" | a sweep cancelled between two launches reports OK with projects never fetched |
| `promoted_overwritten` | `docs/testing-guide.md:231` "the secondary is now the primary ... You can create projects/issues" | `serve` goes on mirroring the configured primary onto the site it promoted; once the old primary answers again, `rsync --delete` removes what was created there |
| `config_map` | `config.go:423` "expands ${VAR} references in every string field", `deploy/config.example.yaml:155` | a file with a `dns_config` entry panics while it is loaded: the value of a map element cannot be set |

Every property of a passing run is paired in `PROJECT.json` with a mutant: a
definition of the model changed the way a plausible bug would change the code.
The mutated definitions stand next to the ones they replace, marked "Mutant".

Deadlock is checked in `bringup`. The other passing runs set
`CHECK_DEADLOCK FALSE`: no command has to be issued, and the bounds end pushes,
deliveries and tokens, so a state without a successor is legitimate.

### Bounds, and why they are enough

* `failover_promotion` has one secondary: two processes then always work on the
  same site, where they can hurt each other. `mirror` has two, because choosing
  a target needs a choice, and one of them not to be the host of `serve`; a
  repository per site tells copies from originals. `NumURLs = 2` tells a quorum
  that is met from one that is not; a quorum of three is the unreachable one, and
  0 the one that is not set. `Lingering` allows one late command at a time, of
  either process: the next attempt, restart or other command then meets it. In
  `mirror`, `failover` runs under one configuration and `adopt-as-secondary` under
  two (`Alone`), the ones that make a difference to whether they return and to
  what they leave behind.
* `Webhook`: three deliveries are the smallest number in which a second one
  pre-empts the first, the first's cleanup runs late, and a third depends on
  the entry; `SemCap = 2` (8 in the code) lets the cap bite.
* `GitFetch`: two projects and a pool of one (`maxParallel` 0) make the loop
  block in `g.Go`, a pool of two does not; `MaxVersion = 2` (two pushes) lets
  one fetch store the second while another still holds the first. `MCSettings`
  has pushes that move known branches and pushes that create refs, the active
  and the other repository missing, a dry run and an unusable `ssh_host`. Pushes and deliveries
  concern one project (`ActiveProjects`); the other is there to be launched,
  skipped or left out.
* `Sweep`: `MaxChanges = 1` is one drift at any moment, in any item on either
  side, and replication may repair it. The counts of the small table, -1, 0, 5
  and 6, are: not analyzed, a pair at the edge of the five rows and one just
  beyond it; those of the large one, 60, 66 and 67, are the same for a tenth.
  `CatalogCap = 1` (1000 in the code) of two images lets the cut bite.
* `RegistryAuth`: `MaxTokens = 3` allows issue, rejection, re-issue and
  another. `RecoversFromExpiry` is stated for as long as tokens are left.
* `Bringup`: two secondaries that may share the one slot name; nineteen files
  that depart from a good one in one respect each, since the checks of
  `validate` are independent of each other; one prerequisite missing at a time
  and one change during a `doctor`, which is enough for a check to see another
  state than the one before it.

### Fairness

Weak fairness on the steps of goroutines and commands that can go on, where the
Go scheduler or a timeout in the code justifies it: tickers tick, health polls
end after 5 s and HTTP requests after 30 s, `sync` has five minutes, `failover`
ten and `adopt-as-secondary` thirty, and a context that is done kills the ssh that
a one-shot command waits for. SQL queries are assumed to return; that is an
assumption about the sites. Not assumed fair, because nothing in the code makes
them happen: the end of an rsync or a `git fetch` (killed, it may leave a child that
holds the pipe), the ssh commands of `serve`'s own promotions, and the deferred
removal of the passfile (`context.WithoutCancel`, no timeout). A liveness property
that needs one of these says so in its premise:

* `AcceptedIsSynced`, `SlotsReturned`, `SweepReturns`, `CatchesUp`: no fetch
  hangs for ever (`FetchesReturn`);
* `SyncReturns`: no killed command is held for ever (`[]<>(pc # "held")`);
  `EveryReconcilerRuns` and `VerdictFollowsSites` except hung and held copies;
* `CommandsReturn`: the removal of the passfile returns (`[]<>(pc[p] # "cleanup")`);
* `HealthIsFollowed`, of a primary that is up: the promotions of `serve` return to
  its loop;
* `ReplicaFollows`: an rsync succeeds again and again (`[]<><<MirrorGit>>`). What is
  left to show is that such a success lasts: that no outdated listing, broken
  transfer, restart or failed promotion spoils the copy for good.

No fairness is assumed of pushes, deliveries, operators, signals, crashes,
outages, recoveries or late commands.

## 4. Proofs

`FailoverProofs` proves, for every list of secondaries, number of URLs, set of
configurations and subset of the three commands running at once:
`TypeCorrect`, `EvidenceTheorem`, `MismatchTheorem`, `PermissionTheorem` and
`PromotionOrderTheorem`. They rest on `SitesAssumption` (at least one
secondary, no name twice, the primary is none of them) and `ParamAssumption`.
`validate` enforces the first two (`config.go:528-547`); it compares the
secondaries with each other only, so that the primary is none of them is an
assumption about the file. The inductive invariant `IInv` adds two parts to the
properties:

* `WorkInv`: which process may be at which step, on what kind of site, with
  which permission. Without it, "a step of Promote is only taken with
  `failover_enabled`" is not inductive.
* `EvidenceInv`: a counter of i implies that the i latest rounds failed, and a
  process that is promoting holds the flag that was set on that evidence. This
  is what turns "three failures in a row" from a fact about one step into one
  about a history.

Beside it stands `LateInv`: a command left behind by `adopt-as-secondary` is one
of its own steps and aims at the old primary, one left behind by the others is
none of those and aims at a secondary. `Invariance` proves both together, and
`LateLands` is the only place where they meet.

`PromotionOrderTheorem` is the one that needs all processes at once: a
promotion past `pg_ctl promote` relies on its site remaining a primary, which
holds because no command sent to a secondary, in time or late, demotes it
(`EffectsRole`) and the role swap works only on the old primary.

`PromotionProofs` proves `PromotionTheorem`: Failover implements Promotion, with
the same generality. The initial states correspond by `SitesAssumption`. For a
step, `IInv` says where each process is, and a lemma per kind of step says
which abstract action it is: `EntryMaps`, `ClearMaps`, `AdvanceMaps` (a command
that changes no role), `AbandonMaps`, `LooseMaps` and `LateMaps` (a promotion let
loose, and its landing), `GoneMaps`, and in `PromoteStepMaps` the two steps that
matter, `pg_ctl promote` as `Promote` and the last `gitlab-ctl start` as
`Announce`. The latter needs `WritableOnlyAfterPromotion`: nothing in the step
itself says that the site is a primary by then. Read-only mode, the role swap and
everything else map to stuttering.

`BringupProofs` proves, for any files, answers, environments, names and slots,
`WizardTheorem` (by `FileInv`: a file of the wizard is `GenerateYAML` of some
answers, until it is edited), `FillsOnlyEmptyTheorem` (by `WholeInv`: while `pg
setup` runs, the file it has loaded is one that was written to its end) and
`SetupTheorem`. The last needs `Running`: while a base backup runs, its directory is empty and no report of
success stands for it; between its end and the edit, the slot is there.

`WebhookProofs` proves `TypeCorrect`, `NewestOwnsEntryTheorem`,
`OneLiveFetchTheorem` and `SlotsAccountedTheorem` for any finite set of
deliveries, any projects and any capacity. The invariant is their conjunction;
that sem never goes below zero needs `SlotsAccounted`, because a goroutine that
is about to give its slot back is itself counted.

`AdoptProofs` proves `PassfileTheorem`, `AdoptedTheorem` and `CancelTheorem`
with the generality of `FailoverProofs`, on top of its `IInv`. `PassfileInv`
says that the password is there only while the deferred removal is still to
run or was lost, and `StandbyInv` what each step of the role swap has made of the
old primary so far, unless the late `rm -rf` of an earlier invocation has emptied
it since (`wiped`). Both are about one site, so the core of the proof is
`OthersKeepPrimary`: whatever `serve` and `failover` change, they change on a
secondary; `LateKeeps` treats what adopt itself has left behind. `CancelTheorem`
speaks of the sites and of `late` themselves: `StepFrame` says of every step of a
cancelled process which sites it leaves as they are. `MirrorTheorem` proves `MirrorSpec => Spec`, so that everything
proved of the commands holds beside the mirror and the users too.

`GitFetchProofs` proves `TypeCorrect`, `AccountTheorem` and `FreshTheorem` for
any finite set of projects, any pool size and any number of pushes. `AccountInv`
says where a listed project can be (in the loop, about to be launched, with a
worker, counted) and that these exclude one another; cardinalities do the rest.
`FreshInv` bounds what a running fetch has read: at least what the primary had
when the sweep began, at most what it has now; and of a fetch that succeeded, at
most what the replica has, unless its project has other than known refs and an
older update has been written over it (`undone`). The last part is where a
webhook's fetch of the same repository comes in: for a known branch the slower
fetch fails and is counted, or finds something as new; elsewhere the theorem
says exactly what it can take back. That the next sweep repairs it is
`CatchesUp`, model-checked.

`SweepProofs` proves `TypeCorrect`, `EarnedTheorem` and `RetryTheorem` for any
list of secondaries, configurations and finite sets of items. `LoopInv` says
that the queue, the item in hand and what was read of it belong to the current
reconciler; `EarnedInv` that, while nothing counts against OK, nothing visited
differs and, for the strict reconcilers, everything they began with, and for the
registry the images of the catalog it has listed, is either still queued or was
found the same. `VisitedInv` is the one lemma about the bookkeeping they share:
the ways to deal with an item differ only in whether they may add no reason
against OK. `RetryTheorem` rests on `RetryInv`: while a bucket is to be listed,
the tries that have failed are the attempts before this one, and nothing has
been reported yet.

`RegistryAuthProofs` proves `TypeCorrect`, `RejectedTheorem` and
`AllowedHostsTheorem` for any scopes, hosts and number of tokens. `invalidate`
drops one cache entry; that this is enough needs `CacheInv` (a token is cached
under one scope at most, and the token about to be sent under none but the
scope of the request) and `IssuedInv` (a token issued now is new).

Of `BringupProofs`, `TypeCorrect` rests on `FileShape` (the file is always one:
the wizard's, the truncated one, or one written by hand) and `SlotKnown`; and
`ReadyTheorem` on `DoctorInv`: what has been missing since the start is the
subject of a check that cannot pass while it is missing, and as long as only
PASS was said, every check made so far still holds. `OnToNext` shows that no
check is skipped on the way from one site to the next, for which every site
must have one (`SiteChecksFacts`).

What the assumptions on constants ask for is what the code gives: finite sets
of items and projects, numbers as bounds, at least one answer, scope and host,
slots of the files among `Slots`, and, for `ReadyTheorem`, that the faults
considered are subjects of checks that ask someone (the check of the buckets
only reads the file).

Model-checked only: the liveness properties `HealthIsFollowed`,
`CommandsReturn`, `ReplicaFollows`, `AcceptedIsSynced`, `SlotsReturned`,
`SweepReturns`, `CatchesUp`, `EveryReconcilerRuns`, `SyncReturns`,
`VerdictFollowsSites` and `RecoversFromExpiry`, since the prover does not do
fairness. Every invariant and action property of a passing run is also a
theorem.

## 5. Not modelled

* Text: command lines, quoting, log lines, connection strings, the edit of
  `postgresql.auto.conf`, parsing of challenges and payloads, project paths.
* `runbook` (a template filled in from the configuration), `sla` (maxima and
  sums over one scrape), `pg status`, metrics and logging: they print, and
  nothing reads their output back.
* Warnings and defaults of `config.Load`.
* Replication lag as a quantity, and time in general: a timeout is an action
  that may happen.
* An rsync that outlives a `serve` that was killed: `Mirror` ends it with `serve`.
* The setting of the rails runner (`repository_storages`): no step of the code
  depends on it or finds out whether it was made.

Noticed on the way, where no property states it:

* `consistency` (`reconciler.go:119`) and `apivalidator` (`reconciler.go:90`)
  can return OK with `Remaining` above 0 after failed reads, where
  `runner.go:19` says "0 when OK".
* `ReplicationConnInfo` already contains `application_name=syncctl`, so
  `appendConnInfoAppname` never sets the name of the site, and the postgres
  reconciler, which looks for that name (127-152), finds no row.
* `runbook.go:46` says that the automatic failover promotes the first
  secondary; the code refuses to choose among several. Step 4 of the printed
  post-failover runbook (`failover.go:249`) suggests a flag `--secondary` that
  `adopt-as-secondary` does not have; its flag is `--new-primary`.
* `promote_secondary` is not required at load time when there are several
  secondaries, and intervals below zero are not rejected (`NewTicker` panics).
* The wizard puts `slot_name` under the primary, while `pg setup` reads the
  secondary's, and writes an S3 endpoint for the primary only.
* A killed rsync or git may leave its ssh child holding the pipe: no `WaitDelay`
  is set (`localcmd.go:22-31`), so neither the deadline of `sync` nor the ten
  minutes of a fetch bound the wait. The removal of the passfile has no timeout
  at all (`failover.go:301`). The properties except both.
* The registry reconciler says that it compares manifest digests
  (`registry/reconciler.go:2`, `7`, `129-130`, `153`). It compares names of tags
  (`257-279`), and only of the images in the first 1000 of the catalog (`239`):
  a tag moved to another image, or a difference past the first page, passes as
  parity. `Sweep` models what is read, and `DiffersNow` says what is not.
* `doctor.go:382` says of a missing path that it "will be created on first sync";
  `git fetch` mode never clones or initialises a repository, so a project created
  after the seeding fails in every sweep. `CatchesUp` leaves it out.
* With `git.mode: rsync` the webhook trigger fetches nothing and returns success
  (`main.go:355-361`); in a dry run too (`gitfetch/reconciler.go:313`).
* `fsstorage` skips a path as missing on the primary by the words of the output
  (`166-180`), so a missing local parent or key file is skipped as well, and OK.
* `checkRemotePGDataEmpty` loses the status of `ls` in a pipe: a directory it
  cannot read passes as empty. `pg_basebackup` then refuses it.
* `failover` without `--secondary` takes the first secondary configured, where the
  automatic promotion refuses to choose (`main.go:545`).
* With several secondaries only the one `serve` runs on is mirrored.
* `doctor`, the parity check and `readonly.Enable` use the default ssh options
  and not those of the configuration.

## 6. Plan

Done, in this order: Failover with GitLabSite; Webhook; GitFetch; Sweep;
RegistryAuth; proofs of Failover and Webhook; Promotion and the refinement, with
its proof; Mirror; hung transfers in Sweep; Config and Bringup with their
proofs; proofs of `adopt-as-secondary`, of Mirror over Failover, of GitFetch,
Sweep and RegistryAuth and of `doctor`.

Next, to model: the trigger manager as a set of projects that owe a fetch, which
Webhook implements; Webhook and GitFetch composed through `FetchProject`.
