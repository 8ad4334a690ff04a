------------------------------ MODULE Failover ------------------------------
(***************************************************************************)
(* The failover controller (internal/failover), the read-only switch it    *)
(* uses (internal/readonly), the db_key_base check (internal/dbkey) and    *)
(* the three commands of cmd/syncctl that run them:                        *)
(*                                                                         *)
(*   "serve"     enables read-only mode on every secondary, then runs the  *)
(*               health-check loop, which may promote a secondary;         *)
(*   "failover"  promotes a secondary once, by hand;                       *)
(*   "adopt"     re-bases the old primary on the new one.                  *)
(*                                                                         *)
(* Each is a process of its own, with its own Controller; nothing keeps    *)
(* them from running at the same time against the same sites.  A process   *)
(* performs one remote command per step.  A process may be cancelled       *)
(* (SIGTERM, or the deadline of the command) or killed at any step.  All   *)
(* that ends then, and when a connection is lost, is the ssh on this side: *)
(* the command on the site may never have run, or may go on and take       *)
(* effect at any later time.                                               *)
(***************************************************************************)
EXTENDS Naturals, Sequences, GitLabSite

CONSTANTS
    Primary,         \* the site the configuration calls primary
    SecondaryList,   \* the configured secondaries, in file order
    NoName,          \* an unset name (empty string)
    NumURLs,         \* 1 + number of failover.health_check_urls
    Configs,         \* the configuration files considered
    Procs,           \* the commands considered
    Lingering        \* bound: which commands may each leave one late command to
                     \* a site at the same time

Secondaries == {SecondaryList[i] : i \in 1..Len(SecondaryList)}
Sites == {Primary} \cup Secondaries
DownThreshold == 3

ConfigType ==
    [failoverEnabled   : BOOLEAN,                  \* sync.failover_enabled
     failoverSection   : BOOLEAN,                  \* failover: is present
     autoFailover      : BOOLEAN,                  \* failover.auto_failover
     promoteSecondary  : Secondaries \cup {NoName},
     quorum            : Nat,                      \* failover.quorum_required
     readOnlySecondary : BOOLEAN,                  \* sync.read_only_secondary
     password          : BOOLEAN,                  \* replication password set
     ssh               : SUBSET Sites,             \* sites with an ssh_host
     keyMatch          : SUBSET Secondaries]       \* same db_key_base as primary

ASSUME SitesAssumption ==
    /\ SecondaryList \in Seq(Secondaries)
    /\ Len(SecondaryList) >= 1
    /\ \A i, j \in 1..Len(SecondaryList) :
          SecondaryList[i] = SecondaryList[j] => i = j
    /\ Primary \notin Secondaries
    /\ NoName \notin Sites
ASSUME ParamAssumption ==
    /\ NumURLs \in Nat \ {0}
    /\ Configs \subseteq ConfigType
    /\ Procs \subseteq {"serve", "failover", "adopt"}
    /\ Lingering \subseteq SUBSET Procs

VARIABLES
    cfg,         \* the loaded configuration
    site,        \* [Sites -> SiteState]
    late,        \* [Procs -> the command of an ssh that is gone which the site
                 \* may still carry out, or NoCommand]
    health,      \* what the health URLs answer
    pc,          \* [Procs -> step], see below
    host,        \* [Procs -> site the process is working on]
    newPrimary,  \* adopt: the secondary ResolveNewPrimary picked
    opt,         \* [Procs -> flags of the invocation]
    cancelled,   \* [Procs -> BOOLEAN], the context is done
    consecutiveFails,  \* serve's counter, kept at DownThreshold once there
    primaryDown, \* [Procs -> BOOLEAN], Controller.primaryDown
    \* History, read by no action:
    rounds,      \* outcome of the last DownThreshold checks of this serve
    probe,       \* outcome of verifyPrimaryDown's own probe
    parity,      \* [Procs -> what verifyDBKeyParity found]
    touched,     \* [Procs -> BOOLEAN], this invocation changed a site
    completed,   \* secondaries whose promotion was reported complete
    rmLost,      \* adopt: the last removal of the passfile failed, was never
                 \* sent, or was overtaken by a late staging
    wiped        \* a late rm -rf has emptied the data directory since adopt began

ctl == <<pc, host, newPrimary, opt, cancelled, consecutiveFails, primaryDown>>
hist == <<rounds, probe, parity, touched, completed, rmLost, wiped>>
vars == <<cfg, site, late, health, ctl, hist>>

(* Steps of a process. *)
PromotePCs == {"verifyDown", "verifyKey", "stop", "promote",
               "disRegistry", "disSidekiq", "disStorages", "start"}
EnablePCs == {"enRegistry", "enSidekiq", "enStorages"}
AdoptPCs == {"adoptStop", "clear", "stage", "basebackup", "adoptStart", "cleanup"}
\* The steps that send a command which changes a site; the removal of the
\* passfile is treated by itself, see Cleanup.
CommandPCs ==
    (PromotePCs \cup EnablePCs \cup AdoptPCs)
        \ {"verifyDown", "verifyKey", "enStorages", "disStorages", "cleanup"}
\* "off": not running; "done": returned, the process is about to exit;
\* "wait": the ticker loop of Controller.Run; "serving": serve without a
\* failover controller.
PCs == {"off", "done", "wait", "serving"} \cup PromotePCs \cup EnablePCs \cup AdoptPCs

Options == [dry : BOOLEAN, force : BOOLEAN, wipe : BOOLEAN]
Flags(d, f, w) == [dry |-> d, force |-> f, wipe |-> w]
NoOptions == Flags(FALSE, FALSE, FALSE)

\* A remote command: the step that sent it, the site it was sent to, and the
\* arguments in its text.
Commands == [step : CommandPCs \cup {"off"}, on : Sites, wipe : BOOLEAN, source : Secondaries]
NoCommand == [step |-> "off", on |-> Primary, wipe |-> FALSE, source |-> SecondaryList[1]]

TypeOK ==
    /\ cfg \in Configs
    /\ site \in [Sites -> SiteState]
    /\ late \in [Procs -> Commands]
    /\ health \in {"up", "flaky", "down"}
    /\ pc \in [Procs -> PCs]
    /\ host \in [Procs -> Sites]
    /\ newPrimary \in Secondaries
    /\ opt \in [Procs -> Options]
    /\ cancelled \in [Procs -> BOOLEAN]
    /\ consecutiveFails \in 0..DownThreshold
    /\ primaryDown \in [Procs -> BOOLEAN]
    /\ rounds \in [1..DownThreshold -> BOOLEAN]
    /\ probe \in {"none", "failed"}
    /\ parity \in [Procs -> {"none", "match", "mismatch", "unverified"}]
    /\ touched \in [Procs -> BOOLEAN]
    /\ completed \in SUBSET Sites
    /\ rmLost \in BOOLEAN
    /\ wiped \in BOOLEAN

-----------------------------------------------------------------------------
(* The configuration as the Controller sees it. *)

\* New: without a failover section one failing URL, the primary's own, is enough.
URLCount == IF cfg.failoverSection THEN NumURLs ELSE 1
\* Mutant: a quorum that is not set is taken as it is.
QuorumUnset == IF cfg.failoverSection THEN cfg.quorum ELSE 1

Quorum == IF cfg.failoverSection /\ cfg.quorum >= 1 THEN cfg.quorum ELSE 1
AutoFailover == cfg.failoverSection /\ cfg.autoFailover

\* autoFailoverTarget: NoName stands for the error.
AutoFailoverTarget ==
    IF cfg.failoverSection /\ cfg.promoteSecondary # NoName
    THEN cfg.promoteSecondary
    ELSE IF Len(SecondaryList) = 1 THEN SecondaryList[1] ELSE NoName

\* ResolveNewPrimary: NoName stands for the error.
ResolveNewPrimary(name) ==
    IF name # NoName
    THEN IF name \in Secondaries THEN name ELSE NoName
    ELSE IF Len(SecondaryList) = 1 THEN SecondaryList[1] ELSE NoName

\* countHealthFailures: how many URLs may be found failing.  The URLs are
\* polled one after the other and a done context fails every request from
\* then on; a primary that comes or goes, or answers only some of the URLs,
\* yields any number.
HealthFailures(p) ==
    IF health = "down" THEN {URLCount}
    ELSE IF health = "up" /\ ~cancelled[p] THEN {0} ELSE 0..URLCount

\* Whether f failing URLs are a witness against the primary: as many as the
\* configuration asks for, and one at the least.  Read by the history variables only.
Witnessed(f) == f >= 1 /\ (cfg.failoverSection => f >= cfg.quorum)

\* Where a process is once its promotion has returned: Run's loop, or its end.
Idle(p) == IF p = "serve" THEN "wait" ELSE "done"

\* Mutant: sync.failover_enabled is not looked at.
PromoteEntryUngated(p, name, dry) ==
    IF name \notin Secondaries \/ dry THEN Idle(p) ELSE "verifyDown"

\* Mutant: --force skips the comparison of the keys as well.
PromoteEntryUnchecked(p, name, dry) ==
    IF name \notin Secondaries \/ dry \/ ~cfg.failoverEnabled
    THEN Idle(p) ELSE IF opt'[p].force THEN "stop" ELSE "verifyDown"

\* Promote up to its first step: an unknown secondary and a failover that is
\* disabled are errors, a dry run prints the steps and returns.
PromoteEntry(p, name, dry) ==
    IF \/ name \notin Secondaries
       \/ ~dry /\ ~cfg.failoverEnabled
       \/ dry
    THEN Idle(p) ELSE "verifyDown"

-----------------------------------------------------------------------------
Init ==
    /\ cfg \in Configs
    /\ \E ro \in BOOLEAN :
         site = [s \in Sites |->
                   [gitlab |-> "running",
                    pg |-> IF s = Primary THEN "primary" ELSE "standby",
                    registryRO |-> ro /\ s # Primary,
                    sidekiqPaused |-> ro /\ s # Primary,
                    passfile |-> FALSE]]
    /\ late = [p \in Procs |-> NoCommand]
    /\ health = "up"
    /\ pc = [p \in Procs |-> "off"]
    /\ host = [p \in Procs |-> Primary]
    /\ newPrimary = SecondaryList[1]
    /\ opt = [p \in Procs |-> NoOptions]
    /\ cancelled = [p \in Procs |-> FALSE]
    /\ consecutiveFails = 0
    /\ primaryDown = [p \in Procs |-> FALSE]
    /\ rounds = [i \in 1..DownThreshold |-> FALSE]
    /\ probe = "none"
    /\ parity = [p \in Procs |-> "none"]
    /\ touched = [p \in Procs |-> FALSE]
    /\ completed = {}
    /\ rmLost = FALSE
    /\ wiped = FALSE

(* The primary's health URLs, as seen from where syncctl runs. *)
HealthChange ==
    /\ health' \in {"up", "flaky", "down"} \ {health}
    /\ UNCHANGED <<cfg, site, late, ctl, hist>>

-----------------------------------------------------------------------------
(* One remote command. *)

Goto(p, l) == pc' = [pc EXCEPT ![p] = l]

\* Mutant: a failed step is tried again, for ever.
OnErrorRetries(p) == pc[p]

\* Where the error return of the current step leads: Promote logs it or
\* returns it, AdoptAsSecondary runs its deferred removal, serve exits.
OnError(p) ==
    IF pc[p] \in PromotePCs THEN Idle(p)
    ELSE IF p = "adopt" THEN "cleanup" ELSE "done"

\* runSSH / sshSecondary: CheckHost refuses an unset ssh_host; adopt's host
\* comes from a flag or from a configured ssh_host and is never unset.
HostSet(p) == p = "adopt" \/ host[p] \in cfg.ssh

\* The command that the current step of p sends.
Command(p) ==
    [step |-> pc[p], on |-> host[p], wipe |-> pc[p] = "clear" /\ opt[p].wipe,
     source |-> IF pc[p] = "basebackup" THEN newPrimary ELSE SecondaryList[1]]

\* The states in which command c may leave the site it was sent to.
Effects(c) ==
    LET r == site[c.on]
    IN  CASE c.step \in {"stop", "adoptStop"} -> GitlabStop(r)
          [] c.step \in {"start", "adoptStart"} -> GitlabStart(r)
          [] c.step = "promote" -> PgPromote(r)
          [] c.step = "clear" -> ClearPGData(r, c.wipe)
          [] c.step = "stage" -> StagePassfile(r, cfg.password)
          [] c.step = "basebackup" -> PgBasebackup(r, site[c.source])
          [] c.step \in {"enRegistry", "disRegistry"} -> RegistryReadonly(r, c.step = "enRegistry")
          [] c.step \in {"enSidekiq", "disSidekiq"} -> SidekiqPause(r, c.step = "enSidekiq")
          [] c.step \in {"enStorages", "disStorages"} -> ClearStorages(r)

SetSite(p, r) ==
    /\ site' = [site EXCEPT ![host[p]] = r]
    /\ touched' = [touched EXCEPT ![p] = @ \/ r # site[host[p]]]

\* Mutant: commands are started without the context.
SucceedAfterCancel(p, l, n) ==
    /\ pc[p] = l
    /\ HostSet(p)
    /\ IF opt[p].dry
       THEN UNCHANGED <<site, touched>>
       ELSE \E r \in Effects(Command(p)) : SetSite(p, r)
    /\ Goto(p, n)
    /\ UNCHANGED <<cfg, late, health, newPrimary, opt, cancelled, consecutiveFails,
                   primaryDown, rounds, probe, parity, rmLost, wiped>>

\* The command of step l exits 0, and the process goes on to step n.  Once
\* the context is done exec.CommandContext starts nothing; a dry run prints
\* the command instead.
Succeed(p, l, n) ==
    /\ pc[p] = l
    /\ HostSet(p)
    /\ IF opt[p].dry
       THEN UNCHANGED <<site, touched>>
       ELSE ~cancelled[p] /\ \E r \in Effects(Command(p)) : SetSite(p, r)
    /\ Goto(p, n)
    /\ UNCHANGED <<cfg, late, health, newPrimary, opt, cancelled, consecutiveFails,
                   primaryDown, rounds, probe, parity, rmLost, wiped>>

\* The ssh of p is gone.  A command that it had sent may go on at the site; one
\* whose context was done before it began was never sent.
Loose(p) ==
    \/ UNCHANGED late
    \/ /\ pc[p] \in CommandPCs /\ HostSet(p) /\ ~opt[p].dry /\ ~cancelled[p]
       /\ late[p] = NoCommand
       /\ {p} \cup {q \in Procs : late[q] # NoCommand} \in Lingering
       /\ late' = [late EXCEPT ![p] = Command(p)]

\* The command of step l fails: it has done nothing so far.
Fail(p, l) ==
    /\ pc[p] = l
    /\ ~(HostSet(p) /\ opt[p].dry)
    /\ Loose(p)
    /\ touched' = [touched EXCEPT ![p] = @ \/ late' # late]
    /\ Goto(p, OnError(p))
    /\ UNCHANGED <<cfg, site, health, newPrimary, opt, cancelled, consecutiveFails,
                   primaryDown, rounds, probe, parity, rmLost, wiped>>

Remote(p, l, n) == Succeed(p, l, n) \/ Fail(p, l)

\* A site carries out what was left to it, or never will.
Late(p) ==
    /\ late[p] # NoCommand
    /\ \/ /\ \E r \in Effects(late[p]) : site' = [site EXCEPT ![late[p].on] = r]
          /\ rmLost' = (rmLost \/ late[p].step = "stage")
          /\ wiped' = (wiped \/ (late[p].step = "clear" /\ late[p].wipe))
       \/ UNCHANGED <<site, rmLost, wiped>>
    /\ late' = [late EXCEPT ![p] = NoCommand]
    /\ UNCHANGED <<cfg, health, ctl, rounds, probe, parity, touched, completed>>

-----------------------------------------------------------------------------
(* Promote: the steps of promotionSteps, in order. *)

\* verifyPrimaryDown
VerifyPrimaryDown(p) ==
    /\ pc[p] = "verifyDown"
    /\ \/ /\ opt[p].force \/ primaryDown[p]
          /\ Goto(p, "verifyKey")
          /\ UNCHANGED <<primaryDown, probe>>
       \/ /\ ~opt[p].force /\ ~primaryDown[p]
          /\ \E f \in HealthFailures(p) :
                \/ /\ f >= Quorum
                   /\ primaryDown' = [primaryDown EXCEPT ![p] = TRUE]
                   /\ probe' = IF Witnessed(f) THEN "failed" ELSE probe
                   /\ Goto(p, "verifyKey")
                \/ /\ f < Quorum
                   /\ Goto(p, OnError(p))
                   /\ UNCHANGED <<primaryDown, probe>>
    /\ UNCHANGED <<cfg, site, late, health, host, newPrimary, opt, cancelled,
                   consecutiveFails, rounds, parity, touched, completed, rmLost, wiped>>

\* What dbkey.CheckWithRunner may find: with both keys read, whether they
\* are equal; a key that cannot be read, or a site without ssh_host, leaves
\* parity unverified.
ParityOutcomes(p) ==
    {"unverified"} \cup
        IF Primary \in cfg.ssh /\ host[p] \in cfg.ssh /\ ~cancelled[p]
        THEN {IF host[p] \in cfg.keyMatch THEN "match" ELSE "mismatch"}
        ELSE {}

\* Mutant: a mismatch is only logged.
VerifyDBKeyParityWarns(p) ==
    /\ pc[p] = "verifyKey"
    /\ \E o \in ParityOutcomes(p) : parity' = [parity EXCEPT ![p] = o]
    /\ Goto(p, "stop")
    /\ UNCHANGED <<cfg, site, late, health, host, newPrimary, opt, cancelled,
                   consecutiveFails, primaryDown, rounds, probe, touched,
                   completed, rmLost, wiped>>

\* verifyDBKeyParity: only a definite mismatch is an error.
VerifyDBKeyParity(p) ==
    /\ pc[p] = "verifyKey"
    /\ \E o \in ParityOutcomes(p) :
          /\ parity' = [parity EXCEPT ![p] = o]
          /\ Goto(p, IF o = "mismatch" THEN OnError(p) ELSE "stop")
    /\ UNCHANGED <<cfg, site, late, health, host, newPrimary, opt, cancelled,
                   consecutiveFails, primaryDown, rounds, probe, touched,
                   completed, rmLost, wiped>>

\* Mutant: read-only mode is lifted before PostgreSQL is promoted.
PromotionCommandSwapped(p) ==
    /\ \/ Remote(p, "stop", "disRegistry")
       \/ Remote(p, "disRegistry", "disSidekiq")
       \/ Remote(p, "disSidekiq", "disStorages")
       \/ Remote(p, "disStorages", "promote")
       \/ Remote(p, "promote", "start")
    /\ UNCHANGED <<host, completed>>

\* The four remaining steps; "disable read-only mode" is three commands.
PromotionCommand(p) ==
    /\ \/ Remote(p, "stop", "promote")
       \/ Remote(p, "promote", "disRegistry")
       \/ Remote(p, "disRegistry", "disSidekiq")
       \/ Remote(p, "disSidekiq", "disStorages")
       \/ Remote(p, "disStorages", "start")
    /\ UNCHANGED <<host, completed>>

\* The last step; on success Promote reports the failover complete.
PromotionStart(p) ==
    /\ \/ Succeed(p, "start", Idle(p)) /\ completed' = completed \cup {host[p]}
       \/ Fail(p, "start") /\ UNCHANGED completed
    /\ UNCHANGED host

PromoteStep(p) ==
    \/ VerifyPrimaryDown(p)
    \/ VerifyDBKeyParity(p)
    \/ PromotionCommand(p)
    \/ PromotionStart(p)

-----------------------------------------------------------------------------
(* serve *)

\* Where serve is once read-only mode has been seen to.
ServeLoop ==
    IF cfg.failoverEnabled /\ cfg.failoverSection THEN "wait" ELSE "serving"

ServeStart ==
    /\ pc["serve"] = "off"
    /\ \E dry \in BOOLEAN :
          opt' = [opt EXCEPT !["serve"] = Flags(dry, FALSE, FALSE)]
    /\ host' = [host EXCEPT !["serve"] = SecondaryList[1]]
    /\ Goto("serve", IF cfg.readOnlySecondary THEN "enRegistry" ELSE ServeLoop)
    /\ UNCHANGED <<cfg, site, late, health, newPrimary, cancelled, consecutiveFails,
                   primaryDown, hist>>

\* readonly.Enable on each secondary in turn; an error ends serve.
Position(s) == CHOOSE i \in 1..Len(SecondaryList) : SecondaryList[i] = s

ServeEnable ==
    LET p == "serve"
        last == Position(host[p]) = Len(SecondaryList)
    IN  /\ \/ /\ \/ Remote(p, "enRegistry", "enSidekiq")
                 \/ Remote(p, "enSidekiq", "enStorages")
                 \/ Fail(p, "enStorages")
              /\ UNCHANGED host
           \/ /\ Succeed(p, "enStorages", IF last THEN ServeLoop ELSE "enRegistry")
              /\ host' = IF last THEN host
                         ELSE [host EXCEPT ![p] = SecondaryList[Position(@) + 1]]
        /\ UNCHANGED completed

\* check: one tick of the health loop.
CheckFailed ==
    LET n == IF consecutiveFails < DownThreshold
             THEN consecutiveFails + 1 ELSE DownThreshold
        down == n >= DownThreshold
        promoting == down /\ AutoFailover /\ AutoFailoverTarget # NoName
    IN  /\ consecutiveFails' = n
        /\ primaryDown' = [primaryDown EXCEPT !["serve"] = @ \/ down]
        /\ IF promoting
           THEN /\ Goto("serve", PromoteEntry("serve", AutoFailoverTarget, opt["serve"].dry))
                /\ host' = [host EXCEPT !["serve"] = AutoFailoverTarget]
           ELSE UNCHANGED <<pc, host>>

\* Mutant: the counter survives an answer.
CheckAnsweredKeepsCount ==
    /\ primaryDown' = [primaryDown EXCEPT !["serve"] = FALSE]
    /\ UNCHANGED <<consecutiveFails, pc, host>>

\* Mutant: the verdict survives an answer.
CheckAnsweredKeepsDown ==
    /\ consecutiveFails' = 0
    /\ UNCHANGED <<primaryDown, pc, host>>

CheckAnswered ==
    /\ consecutiveFails' = 0
    /\ primaryDown' = [primaryDown EXCEPT !["serve"] = FALSE]
    /\ UNCHANGED <<pc, host>>

Check ==
    /\ pc["serve"] = "wait"
    /\ \E f \in HealthFailures("serve") :
          /\ rounds' = [i \in 1..DownThreshold |->
                           IF i = 1 THEN Witnessed(f) ELSE rounds[i - 1]]
          /\ IF f >= Quorum THEN CheckFailed ELSE CheckAnswered
    /\ UNCHANGED <<cfg, site, late, health, newPrimary, opt, cancelled,
                   probe, parity, touched, completed, rmLost, wiped>>

-----------------------------------------------------------------------------
(* The one-shot commands. *)

\* Mutant: no default.
FailoverTargetNoDefault(name) == name

\* newFailoverCmd: a missing --secondary means the first one configured.
FailoverTarget(name) == IF name = NoName THEN SecondaryList[1] ELSE name

FailoverCmd ==
    /\ pc["failover"] = "off"
    /\ \E name \in Sites \cup {NoName}, yes, dry, force \in BOOLEAN :
          /\ yes \/ dry
          /\ opt' = [opt EXCEPT !["failover"] = Flags(dry, force, FALSE)]
          /\ host' = [host EXCEPT !["failover"] = FailoverTarget(name)]
          /\ Goto("failover", PromoteEntry("failover", FailoverTarget(name), dry))
    /\ UNCHANGED <<cfg, site, late, health, newPrimary, cancelled, consecutiveFails,
                   primaryDown, hist>>

\* newAdoptCmd and AdoptAsSecondary up to its first step.  A dry run prints
\* the steps and its deferred removal does nothing.  Taken for granted of the
\* operator: --old-primary-ssh names the configured primary, as its help asks.
AdoptCmd ==
    /\ pc["adopt"] = "off"
    /\ \E name \in Sites \cup {NoName}, wipe, dry \in BOOLEAN :
          LET new == ResolveNewPrimary(name)
          IN  /\ dry \/ cfg.failoverEnabled
              /\ new # NoName
              /\ newPrimary' = new
              /\ opt' = [opt EXCEPT !["adopt"] = Flags(dry, FALSE, wipe)]
              /\ Goto("adopt", IF dry THEN "cleanup" ELSE "adoptStop")
    /\ host' = [host EXCEPT !["adopt"] = Primary]
    /\ wiped' = FALSE
    /\ UNCHANGED <<cfg, site, late, health, cancelled, consecutiveFails, primaryDown,
                   rounds, probe, parity, touched, completed, rmLost>>

\* Mutant: GitLab is started without read-only mode.
AdoptCommandWritable ==
    /\ \/ Remote("adopt", "adoptStop", "clear")
       \/ Remote("adopt", "clear", "stage")
       \/ Remote("adopt", "stage", "basebackup")
       \/ Remote("adopt", "basebackup", "adoptStart")
       \/ Remote("adopt", "adoptStart", "cleanup")
    /\ UNCHANGED <<host, completed>>

AdoptCommand ==
    /\ \/ Remote("adopt", "adoptStop", "clear")
       \/ Remote("adopt", "clear", "stage")
       \/ Remote("adopt", "stage", "basebackup")
       \/ Remote("adopt", "basebackup", "enRegistry")
       \/ Remote("adopt", "enRegistry", "enSidekiq")
       \/ Remote("adopt", "enSidekiq", "enStorages")
       \/ Remote("adopt", "enStorages", "adoptStart")
       \/ Remote("adopt", "adoptStart", "cleanup")
    /\ UNCHANGED <<host, completed>>

\* Mutant: the removal uses the context of the command.
CleanupCancellable ==
    /\ pc["adopt"] = "cleanup"
    /\ IF opt["adopt"].dry \/ cancelled["adopt"]
       THEN UNCHANGED site
       ELSE \E r \in RemovePassfile(site[host["adopt"]]) :
               site' = [site EXCEPT ![host["adopt"]] = r]
    /\ Goto("adopt", "done")
    /\ UNCHANGED <<cfg, late, health, host, newPrimary, opt, cancelled, consecutiveFails,
                   primaryDown, rounds, probe, parity, touched, completed, rmLost, wiped>>

\* The deferred removeRemotePassfile: it runs on every return, on a context
\* that is never done, so that nothing bounds how long it takes.  (A removal
\* that lands late is left out: all it can do is make a later base backup
\* fail, which any step may.)
Cleanup ==
    /\ pc["adopt"] = "cleanup"
    /\ \/ /\ opt["adopt"].dry
          /\ UNCHANGED <<site, rmLost>>
       \/ /\ ~opt["adopt"].dry
          /\ \E r \in RemovePassfile(site[host["adopt"]]) :
                site' = [site EXCEPT ![host["adopt"]] = r]
          /\ rmLost' = FALSE
       \/ /\ ~opt["adopt"].dry
          /\ rmLost' = TRUE
          /\ UNCHANGED site
    /\ Goto("adopt", "done")
    /\ UNCHANGED <<cfg, late, health, host, newPrimary, opt, cancelled, consecutiveFails,
                   primaryDown, rounds, probe, parity, touched, completed, wiped>>

-----------------------------------------------------------------------------
(* Signals, deadlines and crashes. *)

\* SIGTERM or SIGINT, or the 10 (failover) or 30 (adopt) minute deadline.
\* The ssh that is running is killed.
Cancel(p) ==
    /\ pc[p] \notin {"off", "done"} /\ ~cancelled[p]
    /\ cancelled' = [cancelled EXCEPT ![p] = TRUE]
    /\ Loose(p)
    /\ touched' = [touched EXCEPT ![p] = @ \/ late' # late]
    /\ UNCHANGED <<cfg, site, health, pc, host, newPrimary, opt, consecutiveFails,
                   primaryDown, rounds, probe, parity, completed, rmLost, wiped>>

\* The process is gone, and what it held in memory with it: the next one
\* begins with a Controller made by New.
Gone(p) ==
    /\ Goto(p, "off")
    /\ host' = [host EXCEPT ![p] = Primary]
    /\ opt' = [opt EXCEPT ![p] = NoOptions]
    /\ cancelled' = [cancelled EXCEPT ![p] = FALSE]
    /\ primaryDown' = [primaryDown EXCEPT ![p] = FALSE]
    /\ parity' = [parity EXCEPT ![p] = "none"]
    /\ touched' = [touched EXCEPT ![p] = FALSE]
    /\ consecutiveFails' = IF p = "serve" THEN 0 ELSE consecutiveFails
    /\ rounds' = IF p = "serve" THEN [i \in 1..DownThreshold |-> FALSE] ELSE rounds
    /\ probe' = IF p = "failover" THEN "none" ELSE probe
    /\ newPrimary' = IF p = "adopt" THEN SecondaryList[1] ELSE newPrimary
    /\ UNCHANGED <<cfg, site, health, completed, wiped>>

\* A command that has returned exits.  serve returns from its select as soon
\* as the context is done, and the process ends whatever the goroutine of
\* the controller is at.
Exit(p) ==
    /\ \/ pc[p] = "done"
       \/ p = "serve" /\ pc[p] # "off" /\ cancelled[p]
    /\ Gone(p)
    /\ UNCHANGED <<late, rmLost>>

\* Killed, or the machine it runs on is lost: no deferred function runs.
Crash(p) ==
    /\ pc[p] \notin {"off", "done"}
    /\ Gone(p)
    /\ Loose(p)
    /\ rmLost' = (rmLost \/ p = "adopt")

-----------------------------------------------------------------------------
ServeNext == ServeStart \/ ServeEnable \/ Check \/ PromoteStep("serve")
FailoverNext == FailoverCmd \/ PromoteStep("failover")
AdoptNext == AdoptCmd \/ AdoptCommand \/ Cleanup

ProcNext(p) ==
    CASE p = "serve" -> ServeNext
      [] p = "failover" -> FailoverNext
      [] p = "adopt" -> AdoptNext

Next ==
    \/ HealthChange
    \/ \E p \in Procs : ProcNext(p) \/ Late(p) \/ Exit(p) \/ Cancel(p) \/ Crash(p)

Spec == Init /\ [][Next]_vars

\* The ticker of serve ticks and its health polls time out; a cancelled serve
\* exits, whatever its commands are at; a one-shot command meets its deadline,
\* which kills the ssh it waits for.  Nothing makes a command of serve, or the
\* removal of the passfile, ever return, and nothing forces a command to be
\* issued, a crash or a change of the primary's health.
Fairness ==
    /\ "serve" \in Procs => WF_vars(Check) /\ WF_vars(Exit("serve"))
    /\ "failover" \in Procs =>
          /\ WF_vars(Cancel("failover"))
          /\ WF_vars(cancelled["failover"] /\ PromoteStep("failover"))
          /\ WF_vars(Exit("failover"))
    /\ "adopt" \in Procs =>
          /\ WF_vars(Cancel("adopt"))
          /\ WF_vars(cancelled["adopt"] /\ AdoptCommand)
          /\ WF_vars(Exit("adopt"))

FairSpec == Spec /\ Fairness

-----------------------------------------------------------------------------
(* Properties *)

\* The steps of Promote that run after the primary has been verified down,
\* and those that run after parity has been verified.
PastVerifyDown == PromotePCs \ {"verifyDown"}
PastVerifyKey == PastVerifyDown \ {"verifyKey"}

\* A promotion gets past "verify primary down" only on evidence: the loop of
\* serve has seen the quorum fail in three checks in a row, and nothing but
\* failures in between, in this very process; a manual one has itself seen
\* the quorum fail, or was forced.  (check, verifyPrimaryDown)
PromotionNeedsEvidence ==
    \A p \in Procs : pc[p] \in PastVerifyDown =>
        \/ opt[p].force
        \/ p = "serve" /\ \A i \in 1..DownThreshold : rounds[i]
        \/ p = "failover" /\ probe = "failed"

\* No site is ever stopped, promoted or made writable by an attempt that has
\* read both db_key_base values and found them different.
\* (verifyDBKeyParity before the first destructive step)
MismatchNeverPromoted ==
    \A p \in Procs : pc[p] \in PastVerifyKey => parity[p] # "mismatch"

\* failover and adopt change a site, or leave a command behind that may, only
\* with sync.failover_enabled, serve and they never in a dry run, in any
\* interleaving of the three.
\* (the gates of Promote, AdoptAsSecondary and runSSH)
OnlyAllowedChanges ==
    \A p \in Procs : touched[p] =>
        /\ ~opt[p].dry
        /\ p # "serve" => cfg.failoverEnabled

\* Read-only mode is lifted and GitLab is started by a promotion only while
\* the target's PostgreSQL is a primary, whatever other commands do at the
\* same time; a promotion reported complete did promote PostgreSQL.
\* (order of promotionSteps, first error aborts)
WritableOnlyAfterPromotion ==
    /\ \A p \in Procs :
          pc[p] \in {"disRegistry", "disSidekiq", "disStorages", "start"} =>
              site[host[p]].pg = "primary"
    /\ \A s \in completed : site[s].pg = "primary"

\* The commands, with all they do and all that can happen to them, implement
\* the promise of a promotion: one way, cleared before the first command, and
\* announced only after the fact, by whichever attempt.  serve and failover
\* may attempt the same secondary at once.  (Promote as a whole)
Attempting(p) == pc[p] \in PromotePCs
Role == [s \in Secondaries |-> site[s].pg]
Phase == [p \in Procs |-> IF pc[p] \in PastVerifyKey THEN "cleared"
                          ELSE IF Attempting(p) THEN "checking" ELSE "idle"]
Target == [p \in Procs |-> IF Attempting(p) THEN host[p] ELSE NoName]
Pending == [p \in Procs |-> IF late[p].step = "promote" THEN late[p].on ELSE NoName]
Abstract == INSTANCE Promotion
               WITH Agents <- Procs, NoSite <- NoName, role <- Role, announced <- completed,
                    phase <- Phase, target <- Target, pending <- Pending
ImplementsPromotion == Abstract!Spec

\* Once its context is done a process takes no step that changes a site, but
\* for removing the passfile, and leaves no further command behind: a SIGTERM
\* or a deadline leaves the remaining steps undone, although it also makes
\* every health poll fail and so can declare the primary down.  What may still
\* happen is the one command that was under way.  (exec.CommandContext, pollURL)
ButPassfile(r) == [r EXCEPT !.passfile = FALSE]
CancelStopsChanges ==
    [][\A p \in Procs : cancelled[p] =>
          /\ late'[p] \in {late[p], NoCommand}
          /\ pc'[p] # pc[p] => \A s \in Sites :
                /\ ButPassfile(site'[s]) = ButPassfile(site[s])
                /\ site'[s].passfile => site[s].passfile]_vars

\* The health loop follows the primary: while serve runs, a primary that
\* stays down is declared down for good, unless the quorum asks for more
\* URLs than there are; one that stays up is not, unless a command of a
\* promotion keeps the loop waiting for ever. (check)
LoopRunning == pc["serve"] \in {"wait"} \cup PromotePCs /\ ~cancelled["serve"]
HealthIsFollowed ==
    /\ <>[](LoopRunning /\ health = "down" /\ Quorum <= URLCount)
          => <>[]primaryDown["serve"]
    /\ <>[](LoopRunning /\ health = "up") /\ []<>(pc["serve"] = "wait")
          => <>[](~primaryDown["serve"])

\* When adopt-as-secondary has returned, its replication password is not
\* left on the old primary, unless the removal itself failed, the process was
\* killed or a staging landed late: not after a failed step, a SIGTERM or the
\* deadline.
\* (deferred removeRemotePassfile with context.WithoutCancel)
PassfileRemoved ==
    "adopt" \in Procs /\ pc["adopt"] \in {"off", "done"} /\ ~rmLost => ~site[Primary].passfile

\* The old primary is brought back by adopt-as-secondary only as a read-only
\* standby, never as a second primary; only the late rm -rf of an earlier
\* invocation can have taken its data. (order of AdoptAsSecondary's steps)
AdoptedIsReadOnlyStandby ==
    "adopt" \in Procs /\ pc["adopt"] = "adoptStart" =>
        /\ site[Primary].pg = "standby" \/ (wiped /\ site[Primary].pg = "empty")
        /\ ReadOnly(site[Primary])

\* A one-shot command returns, whatever fails or hangs and whenever it is
\* cancelled, but for adopt's removal of the passfile, which has no deadline.
\* (context.WithTimeout in newFailoverCmd and newAdoptCmd)
CommandsReturn ==
    \A p \in Procs \ {"serve"} :
        []<>(pc[p] # "cleanup") => (pc[p] # "off" ~> pc[p] = "off")

\* What Promote reports ("failover complete - secondary is now primary") and
\* the testing guide says of the promoted site: it goes on serving.
PromotedKeepsServing == \A s \in completed : site[s].gitlab = "running"

\* What ResolveNewPrimary takes for granted ("the secondary that is now
\* serving as primary"): re-basing the old primary leaves one behind.
SomePrimaryRemains == \E s \in Sites : site[s].pg = "primary"

=============================================================================
