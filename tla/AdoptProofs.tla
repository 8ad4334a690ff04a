---------------------------- MODULE AdoptProofs -----------------------------
(***************************************************************************)
(* Proofs about adopt-as-secondary and about cancellation, for every set   *)
(* of sites and configurations and with any of the other commands running  *)
(* at the same time, and that the commands beside the mirror of serve are  *)
(* the commands of module Failover.                                        *)
(***************************************************************************)
EXTENDS Mirror, FailoverProofs

-----------------------------------------------------------------------------
(* The inductive invariant, on top of IInv of FailoverProofs. *)

\* The staged password is on the old primary only while adopt has still to run
\* its deferred removal, unless a late staging has come after that.
PassfileInv ==
    \/ pc["adopt"] \in {"off", "done"}
    \/ pc["adopt"] = "cleanup" /\ opt["adopt"].dry
  => rmLost \/ ~site[Primary].passfile

\* What adopt's steps so far have made of the old primary.
StandbyInv ==
    /\ pc["adopt"] \in {"enRegistry", "enSidekiq", "enStorages", "adoptStart"} =>
          site[Primary].pg = "standby" \/ (wiped /\ site[Primary].pg = "empty")
    /\ pc["adopt"] \in {"enSidekiq", "enStorages", "adoptStart"} => site[Primary].registryRO
    /\ pc["adopt"] \in {"enStorages", "adoptStart"} => site[Primary].sidekiqPaused

AdoptInv == "adopt" \in Procs => PassfileInv /\ StandbyInv

-----------------------------------------------------------------------------
(* serve, failover and the mirror leave the old primary alone. *)

\* A remote command sets the state of the site the process works on.
LEMMA RemoteSite ==
    ASSUME NEW p, NEW l, NEW n, Remote(p, l, n)
    PROVE  /\ site' = site \/ \E r : site' = [site EXCEPT ![host[p]] = r]
           /\ \E m : pc' = [pc EXCEPT ![p] = m]
           /\ pc[p] = l
           /\ UNCHANGED <<opt, rmLost, wiped>>
  BY DEF Remote, Succeed, Fail, SetSite, Goto

\* What a step of serve or failover changes, it changes on a secondary.
LEMMA OthersKeepPrimary ==
    ASSUME IInv, "adopt" \in Procs, NEW p \in Procs, p # "adopt", ProcNext(p)
    PROVE  /\ site'[Primary] = site[Primary] /\ rmLost' = rmLost /\ wiped' = wiped
           /\ pc'["adopt"] = pc["adopt"] /\ opt'["adopt"] = opt["adopt"]
  <1> DEFINE Quiet ==
               /\ site' = site \/ (host[p] \in Secondaries /\
                                     \E r : site' = [site EXCEPT ![host[p]] = r])
               /\ \E m : pc' = [pc EXCEPT ![p] = m]
               /\ \E o : opt' = [opt EXCEPT ![p] = o]
               /\ rmLost' = rmLost /\ wiped' = wiped
  <1>t. /\ site \in [Sites -> SiteState] /\ pc \in [Procs -> PCs] /\ opt \in [Procs -> Options]
        /\ opt = [opt EXCEPT ![p] = opt[p]] /\ pc = [pc EXCEPT ![p] = pc[p]]
    BY DEF IInv, TypeOK
  <1>q. SUFFICES Quiet
    <2> HIDE DEF Quiet
    <2>1. ASSUME Quiet
          PROVE  /\ site'[Primary] = site[Primary] /\ rmLost' = rmLost /\ wiped' = wiped
                 /\ pc'["adopt"] = pc["adopt"] /\ opt'["adopt"] = opt["adopt"]
      BY <1>t, <2>1, SecondariesFacts, SitesAssumption DEF Quiet
    <2> QED
      BY <2>1
  <1>1. ASSUME NEW l, NEW n, Remote(p, l, n), host[p] \in Secondaries
        PROVE  Quiet
    BY <1>1, <1>t, RemoteSite
  <1>2. ASSUME PromoteStep(p) PROVE Quiet
    <2>1. CASE VerifyPrimaryDown(p) \/ VerifyDBKeyParity(p)
      BY <1>t, <2>1 DEF VerifyPrimaryDown, VerifyDBKeyParity, Goto
    <2>2. CASE PromotionCommand(p) \/ PromotionStart(p)
      <3>1. PICK l \in PromotePCs, n \in PromotePCs \cup {Idle(p)} : Remote(p, l, n)
        BY <2>2 DEF PromotionCommand, PromotionStart, Remote, PromotePCs
      <3>2. host[p] \in Secondaries
        BY <3>1, RemoteSite DEF IInv, WorkInv
      <3> QED
        BY <1>1, <3>1, <3>2
    <2> QED
      BY <1>2, <2>1, <2>2 DEF PromoteStep
  <1>3. CASE p = "serve"
    <2>1. CASE ServeStart
      BY <1>t, <1>3, <2>1 DEF ServeStart, Goto, hist
    <2>2. CASE ServeEnable
      <3>1. PICK l \in EnablePCs, n \in {ServeLoop, "enRegistry", "enSidekiq", "enStorages"} :
               Remote(p, l, n)
        BY <1>3, <2>2 DEF ServeEnable, Remote, EnablePCs
      <3>2. host[p] \in Secondaries
        BY <1>3, <3>1, RemoteSite DEF IInv, WorkInv
      <3> QED
        BY <1>1, <3>1, <3>2
    <2>3. CASE Check
      BY <1>t, <1>3, <2>3 DEF Check, CheckFailed, CheckAnswered, Goto
    <2> QED
      BY <1>2, <1>3, <2>1, <2>2, <2>3 DEF ProcNext, ServeNext
  <1>4. CASE p = "failover"
    <2>1. CASE FailoverCmd
      BY <1>t, <1>4, <2>1 DEF FailoverCmd, Goto, hist
    <2> QED
      BY <1>2, <1>4, <2>1 DEF ProcNext, FailoverNext
  <1> QED
    BY <1>3, <1>4, ParamAssumption

-----------------------------------------------------------------------------
(* The steps of adopt-as-secondary. *)

\* A step of adopt sets up what the next one counts on, and a failed one goes
\* to the deferred removal.
LEMMA AdoptCommandKeeps ==
    ASSUME IInv, "adopt" \in Procs, PassfileInv, StandbyInv, AdoptCommand
    PROVE  (PassfileInv /\ StandbyInv)'
  <1> DEFINE p == "adopt"
             r == site[Primary]
             e == Effects(Command(p))
  <1>1. /\ site \in [Sites -> SiteState] /\ Primary \in Sites /\ r \in SiteState
        /\ pc \in [Procs -> PCs]
    BY SecondariesFacts DEF IInv, TypeOK
  <1>2. host[p] = Primary
    BY DEF IInv, WorkInv
  <1>c. Command(p).step = pc[p] /\ Command(p).on = Primary
    BY <1>2 DEF Command
  <1>3. ASSUME NEW l \in (AdoptPCs \cup EnablePCs) \ {"cleanup"}, NEW n, Remote(p, l, n)
        PROVE  /\ pc[p] = l /\ ~opt'[p].dry /\ wiped' = wiped
               /\ (pc'[p] = n /\ site'[Primary] \in e) \/ pc'[p] = "cleanup"
    <2>1. pc[p] = l /\ ~opt[p].dry /\ opt' = opt /\ wiped' = wiped
      BY <1>3, RemoteSite DEF IInv, WorkInv
    <2>2. CASE Succeed(p, l, n)
      BY <1>1, <1>2, <2>1, <2>2 DEF Succeed, SetSite, Goto
    <2>3. CASE Fail(p, l)
      <3>1. pc'[p] = OnError(p)
        BY <1>1, <2>3 DEF Fail, Goto
      <3>2. OnError(p) = "cleanup"
        BY <2>1 DEF OnError, AdoptPCs, EnablePCs, PromotePCs
      <3> QED
        BY <2>1, <3>1, <3>2
    <2> QED
      BY <1>3, <2>2, <2>3 DEF Remote
  <1>4. ASSUME pc'[p] = "cleanup", ~opt'[p].dry PROVE (PassfileInv /\ StandbyInv)'
    BY <1>4 DEF PassfileInv, StandbyInv
  <1>5. CASE \/ Remote(p, "adoptStop", "clear")
             \/ Remote(p, "clear", "stage")
             \/ Remote(p, "stage", "basebackup")
    <2>1. pc'[p] \in {"clear", "stage", "basebackup", "cleanup"} /\ ~opt'[p].dry
      BY <1>3, <1>5 DEF AdoptPCs
    <2> QED
      BY <2>1 DEF PassfileInv, StandbyInv
  <1> HIDE DEF e, r
  <1>6. CASE Remote(p, "basebackup", "enRegistry")
    <2>1. \A q \in PgBasebackup(r, site[Command(p).source]) : q.pg = "standby"
      BY <1>1 DEF PgBasebackup, SiteState
    <2>2. pc[p] = "basebackup" => e = PgBasebackup(r, site[Command(p).source])
      BY <1>c, EffectsOf DEF e, r
    <2>3. CASE pc'[p] = "enRegistry" /\ site'[Primary] \in e /\ pc[p] = "basebackup"
      BY <2>1, <2>2, <2>3 DEF PassfileInv, StandbyInv
    <2> QED
      BY <1>3, <1>4, <1>6, <2>3 DEF AdoptPCs
  <1>7. CASE Remote(p, "enRegistry", "enSidekiq")
    <2>1. \A q \in RegistryReadonly(r, TRUE) : q.registryRO /\ q.pg = r.pg
      BY <1>1 DEF RegistryReadonly, SiteState
    <2>2. pc[p] = "enRegistry" => e = RegistryReadonly(r, TRUE)
      BY <1>c, EffectsOf DEF e, r
    <2>3. CASE /\ pc'[p] = "enSidekiq" /\ site'[Primary] \in e /\ pc[p] = "enRegistry"
               /\ wiped' = wiped
      BY <2>1, <2>2, <2>3 DEF PassfileInv, StandbyInv, r
    <2> QED
      BY <1>3, <1>4, <1>7, <2>3 DEF EnablePCs
  <1>8. CASE Remote(p, "enSidekiq", "enStorages")
    <2>1. \A q \in SidekiqPause(r, TRUE) :
             q.sidekiqPaused /\ q.registryRO = r.registryRO /\ q.pg = r.pg
      BY <1>1 DEF SidekiqPause, SiteState
    <2>2. pc[p] = "enSidekiq" => e = SidekiqPause(r, TRUE)
      BY <1>c, EffectsOf DEF e, r
    <2>3. CASE /\ pc'[p] = "enStorages" /\ site'[Primary] \in e /\ pc[p] = "enSidekiq"
               /\ wiped' = wiped
      BY <2>1, <2>2, <2>3 DEF PassfileInv, StandbyInv, r
    <2> QED
      BY <1>3, <1>4, <1>8, <2>3 DEF EnablePCs
  <1>9. CASE Remote(p, "enStorages", "adoptStart")
    <2>2. pc[p] = "enStorages" => e = {r}
      BY <1>c, EffectsOf DEF e, r, ClearStorages
    <2>3. CASE /\ pc'[p] = "adoptStart" /\ site'[Primary] \in e /\ pc[p] = "enStorages"
               /\ wiped' = wiped
      BY <2>2, <2>3 DEF PassfileInv, StandbyInv, r
    <2> QED
      BY <1>3, <1>4, <1>9, <2>3 DEF EnablePCs
  <1>10. CASE Remote(p, "adoptStart", "cleanup")
    BY <1>3, <1>4, <1>10 DEF AdoptPCs
  <1> QED
    BY <1>5, <1>6, <1>7, <1>8, <1>9, <1>10 DEF AdoptCommand

\* The command begins, and ends with the removal, which a dry run leaves out:
\* it has staged nothing.
LEMMA AdoptEndsKeep ==
    ASSUME IInv, "adopt" \in Procs, PassfileInv, StandbyInv, AdoptCmd \/ Cleanup
    PROVE  (PassfileInv /\ StandbyInv)'
  <1> DEFINE p == "adopt"
  <1>1. /\ site \in [Sites -> SiteState] /\ Primary \in Sites /\ site[Primary] \in SiteState
        /\ pc \in [Procs -> PCs] /\ opt \in [Procs -> Options]
    BY SecondariesFacts DEF IInv, TypeOK
  <1>2. CASE AdoptCmd
    <2>1. /\ pc[p] = "off" /\ UNCHANGED <<site, rmLost>>
          /\ pc'[p] \in {"cleanup", "adoptStop"}
      BY <1>1, <1>2 DEF AdoptCmd, Goto
    <2> QED
      BY <2>1 DEF PassfileInv, StandbyInv
  <1>3. CASE Cleanup
    <2>1. pc[p] = "cleanup" /\ pc'[p] = "done" /\ host[p] = Primary
      BY <1>1, <1>3 DEF Cleanup, Goto, IInv, WorkInv
    <2>2. \/ opt[p].dry /\ UNCHANGED <<site, rmLost>>
          \/ site' = [site EXCEPT ![Primary] = [site[Primary] EXCEPT !.passfile = FALSE]]
          \/ rmLost'
      BY <1>3, <2>1 DEF Cleanup, RemovePassfile
    <2>3. rmLost' \/ ~site'[Primary].passfile
      <3>1. CASE opt[p].dry /\ UNCHANGED <<site, rmLost>>
        BY <2>1, <3>1 DEF PassfileInv
      <3>2. CASE site' = [site EXCEPT ![Primary] = [site[Primary] EXCEPT !.passfile = FALSE]]
        BY <1>1, <3>2 DEF SiteState
      <3> QED
        BY <2>2, <3>1, <3>2
    <2> QED
      BY <2>1, <2>3 DEF PassfileInv, StandbyInv
  <1> QED
    BY <1>2, <1>3

\* What an earlier invocation left to the old primary keeps read-only mode
\* there, and takes the data only by the rm -rf that wiped records; a late
\* staging is recorded in rmLost.
LEMMA LateKeeps ==
    ASSUME IInv, LateInv, "adopt" \in Procs, PassfileInv, StandbyInv, NEW p \in Procs, Late(p)
    PROVE  (PassfileInv /\ StandbyInv)'
  <1> DEFINE c == late[p]
             r == site[Primary]
  <1>1. /\ site \in [Sites -> SiteState] /\ Primary \in Sites /\ r \in SiteState
        /\ pc' = pc /\ opt' = opt
    BY SecondariesFacts DEF IInv, TypeOK, Late, ctl
  <1>2. CASE UNCHANGED <<site, rmLost, wiped>>
    BY <1>1, <1>2 DEF PassfileInv, StandbyInv
  <1>3. CASE p # "adopt"
    <2>1. c.on \in Secondaries /\ c.step \notin {"stage", "clear"}
      BY <1>3 DEF Late, LateInv, AdoptPCs
    <2>2. /\ site'[Primary] = r /\ rmLost' = rmLost /\ wiped' = wiped
      BY <1>1, <2>1, SitesAssumption DEF Late, IInv, TypeOK
    <2> QED
      BY <1>1, <2>2 DEF PassfileInv, StandbyInv
  <1>4. CASE /\ p = "adopt" /\ site' = [site EXCEPT ![c.on] = site'[c.on]]
             /\ site'[c.on] \in Effects(c)
             /\ rmLost' = (rmLost \/ c.step = "stage")
             /\ wiped' = (wiped \/ (c.step = "clear" /\ c.wipe))
    <2>1. /\ c.on = Primary
          /\ c.step \in {"adoptStop", "clear", "stage", "basebackup", "adoptStart",
                        "enRegistry", "enSidekiq"}
      BY <1>4 DEF Late, LateInv, CommandPCs, EnablePCs, AdoptPCs
    <2> DEFINE q == site'[Primary]
    <2>2. q \in Effects(c)
      BY <1>4, <2>1
    <2> HIDE DEF q
    <2>3. /\ r.registryRO => q.registryRO
          /\ r.sidekiqPaused => q.sidekiqPaused
          /\ c.step = "stage" \/ q.passfile = r.passfile
          /\ \/ q.pg \in {r.pg, "standby"}
             \/ c.step = "clear" /\ c.wipe /\ q.pg = "empty"
      <3>1. CASE c.step \in {"adoptStop", "adoptStart"}
        BY <1>1, <2>1, <2>2, <3>1, EffectsOf DEF GitlabStop, GitlabStart, SiteState
      <3>2. CASE c.step = "clear"
        BY <1>1, <2>1, <2>2, <3>2, EffectsOf DEF ClearPGData, SiteState
      <3>3. CASE c.step = "stage"
        BY <1>1, <2>1, <2>2, <3>3, EffectsOf DEF StagePassfile, SiteState
      <3>4. CASE c.step = "basebackup"
        BY <1>1, <2>1, <2>2, <3>4, EffectsOf DEF PgBasebackup, SiteState
      <3>5. CASE c.step = "enRegistry"
        <4>1. q \in RegistryReadonly(r, TRUE)
          BY <2>1, <2>2, <3>5, EffectsOf
        <4> QED
          BY <1>1, <4>1 DEF RegistryReadonly, SiteState
      <3>6. CASE c.step = "enSidekiq"
        <4>1. q \in SidekiqPause(r, TRUE)
          BY <2>1, <2>2, <3>6, EffectsOf
        <4> QED
          BY <1>1, <4>1 DEF SidekiqPause, SiteState
      <3> QED
        BY <2>1, <3>1, <3>2, <3>3, <3>4, <3>5, <3>6
    <2>4. PassfileInv'
      BY <1>1, <1>4, <2>3 DEF PassfileInv, q
    <2>5. StandbyInv'
      BY <1>1, <1>4, <2>3 DEF StandbyInv, q
    <2> QED
      BY <2>4, <2>5
  <1> QED
    <2>1. c.on \in Sites
      BY DEF IInv, TypeOK, Commands
    <2> QED
      BY <1>1, <1>2, <1>3, <1>4, <2>1 DEF Late

\* Every step preserves the invariant: a killed adopt never ran its removal.
LEMMA AdoptNextInv == IInv /\ LateInv /\ AdoptInv /\ [Next]_vars => AdoptInv'
  <1> SUFFICES ASSUME IInv, LateInv, "adopt" \in Procs, PassfileInv, StandbyInv, [Next]_vars
               PROVE  (PassfileInv /\ StandbyInv)'
    BY DEF AdoptInv
  <1> DEFINE Same == /\ site'[Primary] = site[Primary] /\ rmLost' = rmLost /\ wiped' = wiped
                     /\ pc'["adopt"] = pc["adopt"] /\ opt'["adopt"] = opt["adopt"]
  <1>s. ASSUME Same PROVE (PassfileInv /\ StandbyInv)'
    BY <1>s DEF PassfileInv, StandbyInv
  <1>t. pc \in [Procs -> PCs] /\ opt \in [Procs -> Options]
    BY DEF IInv, TypeOK
  <1>1. CASE HealthChange \/ UNCHANGED vars
    <2>1. Same
      BY <1>1 DEF HealthChange, vars, ctl, hist
    <2> QED
      BY <1>s, <2>1
  <1>2. ASSUME NEW p \in Procs, ProcNext(p) PROVE (PassfileInv /\ StandbyInv)'
    <2>1. CASE p = "adopt"
      BY <1>2, <2>1, AdoptCommandKeeps, AdoptEndsKeep DEF ProcNext, AdoptNext
    <2>2. CASE p # "adopt"
      BY <1>2, <1>s, <2>2, OthersKeepPrimary
    <2> QED
      BY <2>1, <2>2
  <1>3. ASSUME NEW p \in Procs, Cancel(p) PROVE (PassfileInv /\ StandbyInv)'
    <2>1. Same
      BY <1>3 DEF Cancel
    <2> QED
      BY <1>s, <2>1
  <1>4. ASSUME NEW p \in Procs, Exit(p) \/ Crash(p) PROVE (PassfileInv /\ StandbyInv)'
    <2>1. /\ site' = site /\ wiped' = wiped /\ pc' = [pc EXCEPT ![p] = "off"]
          /\ opt' = [opt EXCEPT ![p] = NoOptions]
      BY <1>4 DEF Exit, Crash, Gone, Goto
    <2>2. CASE p = "adopt"
      <3>1. pc'[p] = "off"
        BY <1>t, <2>1
      <3>2. rmLost' \/ (pc[p] = "done" /\ rmLost' = rmLost)
        BY <1>4, <2>2 DEF Exit, Crash
      <3> QED
        BY <2>1, <2>2, <3>1, <3>2 DEF PassfileInv, StandbyInv
    <2>3. CASE p # "adopt"
      <3>1. rmLost' = rmLost
        BY <1>4, <2>3 DEF Exit, Crash, IInv, TypeOK
      <3>2. Same
        BY <1>t, <2>1, <2>3, <3>1
      <3> QED
        BY <1>s, <3>2
    <2> QED
      BY <2>2, <2>3
  <1>5. ASSUME NEW p \in Procs, Late(p) PROVE (PassfileInv /\ StandbyInv)'
    BY <1>5, LateKeeps
  <1> QED
    BY <1>1, <1>2, <1>3, <1>4, <1>5 DEF Next

LEMMA AdoptInitInv == Init => AdoptInv
  BY SecondariesFacts DEF Init, AdoptInv, PassfileInv, StandbyInv

LEMMA AdoptInvariance == Spec => []AdoptInv
  BY AdoptInitInv, AdoptNextInv, Invariance, PTL DEF Spec

-----------------------------------------------------------------------------
(* The theorems *)

\* Whenever adopt-as-secondary is not running, no replication password is left
\* on the old primary, unless the last removal failed, never ran, or was
\* overtaken by a staging whose ssh was gone: for every way the command can
\* fail, be cancelled or be repeated, and whatever serve and failover do
\* meanwhile. (AdoptAsSecondary, removeRemotePassfile)
THEOREM PassfileTheorem == Spec => []PassfileRemoved
  <1>1. AdoptInv => PassfileRemoved
    BY DEF AdoptInv, PassfileInv, PassfileRemoved
  <1> QED
    BY <1>1, AdoptInvariance, PTL

\* GitLab is started on the old primary only in read-only mode and on a standby,
\* or on the empty directory a late rm -rf has left, never on a primary, although
\* serve and failover enable and lift read-only mode at the same time and
\* commands of earlier invocations land in between. (AdoptAsSecondary)
THEOREM AdoptedTheorem == Spec => []AdoptedIsReadOnlyStandby
  <1>1. AdoptInv => AdoptedIsReadOnlyStandby
    BY DEF AdoptInv, StandbyInv, AdoptedIsReadOnlyStandby, ReadOnly
  <1> QED
    BY <1>1, AdoptInvariance, PTL

\* A step of a command keeps the step of every other one and what that left
\* behind; once its own context is done it leaves every site as it is, but for
\* the deferred removal, and nothing behind.
LEMMA StepFrame ==
    ASSUME IInv, NEW q \in Procs, ProcNext(q)
    PROVE  /\ \A p \in Procs \ {q} : pc'[p] = pc[p] /\ late'[p] = late[p]
           /\ cancelled[q] => late' = late /\ (site' = site \/ (q = "adopt" /\ Cleanup))
  <1> DEFINE Quiet ==
               /\ \A p \in Procs \ {q} : pc'[p] = pc[p] /\ late'[p] = late[p]
               /\ cancelled[q] => late' = late /\ site' = site
  <1>t. TypeOK /\ pc \in [Procs -> PCs]
    BY DEF IInv, TypeOK
  <1>1. ASSUME NEW l \in SendPCs, NEW n \in PCs, Remote(q, l, n)
        PROVE  Quiet
    BY <1>1, <1>t, RemoteFrame
  <1>2. ASSUME PromoteStep(q) PROVE Quiet
    <2>1. CASE VerifyPrimaryDown(q) \/ VerifyDBKeyParity(q)
      BY <1>t, <2>1 DEF VerifyPrimaryDown, VerifyDBKeyParity, Goto
    <2>2. CASE PromotionCommand(q) \/ PromotionStart(q)
      <3>1. PICK l \in PastVerifyKey, n \in PromotePCs \cup {Idle(q)} : Remote(q, l, n)
        BY <2>2 DEF PromotionCommand, PromotionStart, Remote, PastVerifyKey, PastVerifyDown,
                    PromotePCs
      <3>2. l \in SendPCs /\ n \in PCs
        BY DEF PastVerifyKey, PastVerifyDown, PromotePCs, SendPCs, CommandPCs, PCs, Idle
      <3> QED
        BY <1>1, <3>1, <3>2
    <2> QED
      BY <1>2, <2>1, <2>2 DEF PromoteStep
  <1>3. CASE q = "serve"
    <2>1. CASE ServeStart
      BY <1>t, <1>3, <2>1 DEF ServeStart, Goto
    <2>2. CASE ServeEnable
      <3>1. PICK l \in EnablePCs, n \in {ServeLoop, "enRegistry", "enSidekiq", "enStorages"} :
               Remote(q, l, n)
        BY <1>3, <2>2 DEF ServeEnable, Remote, EnablePCs
      <3>2. l \in SendPCs /\ n \in PCs
        BY DEF EnablePCs, SendPCs, CommandPCs, PCs, ServeLoop
      <3> QED
        BY <1>1, <3>1, <3>2
    <2>3. CASE Check
      BY <1>t, <1>3, <2>3 DEF Check, CheckFailed, CheckAnswered, Goto
    <2> QED
      BY <1>2, <1>3, <2>1, <2>2, <2>3 DEF ProcNext, ServeNext
  <1>4. CASE q = "failover"
    <2>1. CASE FailoverCmd
      BY <1>t, <1>4, <2>1 DEF FailoverCmd, Goto
    <2> QED
      BY <1>2, <1>4, <2>1 DEF ProcNext, FailoverNext
  <1>5. CASE q = "adopt"
    <2>1. CASE AdoptCmd
      BY <1>t, <1>5, <2>1 DEF AdoptCmd, Goto
    <2>2. CASE AdoptCommand
      <3>1. PICK l \in (EnablePCs \cup AdoptPCs) \ {"cleanup"}, n \in EnablePCs \cup AdoptPCs :
               Remote(q, l, n)
        BY <1>5, <2>2 DEF AdoptCommand, EnablePCs, AdoptPCs
      <3>2. l \in SendPCs /\ n \in PCs
        BY DEF EnablePCs, AdoptPCs, SendPCs, CommandPCs, PCs
      <3> QED
        BY <1>1, <3>1, <3>2
    <2>3. CASE Cleanup
      BY <1>t, <1>5, <2>3 DEF Cleanup, Goto
    <2> QED
      BY <1>5, <2>1, <2>2, <2>3 DEF ProcNext, AdoptNext
  <1> QED
    BY <1>3, <1>4, <1>5, ParamAssumption

\* Once the context of a command is done, by a signal or its deadline, no step
\* of the command changes the state of any site, but for the removal of the
\* passfile, and nothing more is left to a site; only the one command that was
\* under way may still land. (exec.CommandContext in runSSH and sshSecondary)
THEOREM CancelTheorem == Spec => CancelStopsChanges
  <1> DEFINE Kept(s) == /\ ButPassfile(site'[s]) = ButPassfile(site[s])
                        /\ site'[s].passfile => site[s].passfile
             Stops(p) == cancelled[p] => /\ late'[p] \in {late[p], NoCommand}
                                         /\ pc'[p] # pc[p] => \A s \in Sites : Kept(s)
  <1>1. ASSUME IInv, Next, NEW p \in Procs PROVE Stops(p)
    <2> SUFFICES ASSUME cancelled[p] PROVE Stops(p)
      OBVIOUS
    <2>t. /\ TypeOK /\ late \in [Procs -> Commands] /\ pc \in [Procs -> PCs]
          /\ site \in [Sites -> SiteState]
      BY <1>1 DEF IInv, TypeOK
    <2>1. CASE HealthChange
      BY <2>1 DEF HealthChange, ctl
    <2>2. ASSUME NEW q \in Procs, Late(q) PROVE Stops(p)
      BY <2>2, <2>t DEF Late, ctl
    <2>3. ASSUME NEW q \in Procs, Exit(q) \/ Cancel(q) \/ Crash(q) PROVE Stops(p)
      <3>1. site' = site /\ late'[p] = late[p]
        BY <2>3, <2>t, LooseFrame DEF Exit, Crash, Cancel, Gone
      <3> QED
        BY <3>1
    <2>4. ASSUME NEW q \in Procs, ProcNext(q) PROVE Stops(p)
      <3>1. /\ q # p => pc'[p] = pc[p] /\ late'[p] = late[p]
            /\ q = p => late' = late /\ (site' = site \/ (p = "adopt" /\ Cleanup))
        BY <1>1, <2>4, StepFrame
      <3>2. CASE p = "adopt" /\ Cleanup
        <4>1. host[p] \in Sites /\ site[host[p]] \in SiteState
          BY <2>t DEF TypeOK
        <4>2. \A s \in Sites : site'[s] \in {site[s], [site[s] EXCEPT !.passfile = FALSE]}
          BY <3>2, <4>1, <2>t DEF Cleanup, RemovePassfile
        <4>3. \A r \in SiteState :
                 LET q2 == [r EXCEPT !.passfile = FALSE]
                 IN  ButPassfile(q2) = ButPassfile(r) /\ ~q2.passfile
          BY DEF SiteState, ButPassfile
        <4>4. \A s \in Sites : Kept(s)
          BY <2>t, <4>2, <4>3
        <4> QED
          BY <3>1, <3>2, <4>4 DEF Cleanup
      <3> QED
        BY <3>1, <3>2
    <2> QED
      BY <1>1, <2>1, <2>2, <2>3, <2>4 DEF Next
  <1>2. IInv /\ [Next]_vars => [\A p \in Procs : Stops(p)]_vars
    BY <1>1
  <1> QED
    BY <1>2, Invariance, PTL DEF Spec, CancelStopsChanges

\* The commands beside the mirror of serve and the users of the sites are the
\* commands alone, so that every theorem about those holds here too: mirroring
\* and editing change no state of theirs. (Runner.Run beside Controller.Run)
THEOREM MirrorTheorem == MirrorSpec => Spec
  <1>1. MirrorInit => Init
    BY DEF MirrorInit
  <1>2. [MirrorNext]_mirrorVars => [Next]_vars
    BY DEF MirrorNext, mirrorVars, Edit, MirrorStart, MirrorGit, MirrorGitFails
  <1> QED
    BY <1>1, <1>2, PTL DEF MirrorSpec, Spec

=============================================================================
