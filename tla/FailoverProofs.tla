--------------------------- MODULE FailoverProofs ---------------------------
(***************************************************************************)
(* Proofs that the safety properties of Failover hold for every set of     *)
(* sites, every set of configurations and every combination of commands    *)
(* running at the same time.                                               *)
(***************************************************************************)
EXTENDS Failover, TLAPS

-----------------------------------------------------------------------------
(* What a remote command can do to a site. *)

\* The steps that send a command.
SendPCs == CommandPCs \cup {"enStorages", "disStorages"}

\* Which command a step sends.
LEMMA EffectsOf ==
    ASSUME NEW c
    PROVE  /\ c.step \in {"stop", "adoptStop"} => Effects(c) = GitlabStop(site[c.on])
           /\ c.step \in {"start", "adoptStart"} => Effects(c) = GitlabStart(site[c.on])
           /\ c.step = "promote" => Effects(c) = PgPromote(site[c.on])
           /\ c.step = "clear" => Effects(c) = ClearPGData(site[c.on], c.wipe)
           /\ c.step = "stage" => Effects(c) = StagePassfile(site[c.on], cfg.password)
           /\ c.step = "basebackup" => Effects(c) = PgBasebackup(site[c.on], site[c.source])
           /\ c.step \in {"enRegistry", "disRegistry"} =>
                 Effects(c) = RegistryReadonly(site[c.on], c.step = "enRegistry")
           /\ c.step \in {"enSidekiq", "disSidekiq"} =>
                 Effects(c) = SidekiqPause(site[c.on], c.step = "enSidekiq")
           /\ c.step \in {"enStorages", "disStorages"} => Effects(c) = ClearStorages(site[c.on])
  BY DEF Effects

\* Every command of the failover flow leaves a site in a well-formed state.
LEMMA EffectsTyped ==
    ASSUME site \in [Sites -> SiteState],
           NEW c, c.step \in SendPCs, c.on \in Sites, c.source \in Sites
    PROVE  Effects(c) \in SUBSET SiteState
  <1> DEFINE r == site[c.on]
             q == site[c.source]
  <1>1. r \in SiteState /\ q \in SiteState
    OBVIOUS
  <1>2. /\ GitlabStop(r) \subseteq SiteState /\ GitlabStart(r) \subseteq SiteState
        /\ PgPromote(r) \subseteq SiteState /\ ClearPGData(r, c.wipe) \subseteq SiteState
        /\ StagePassfile(r, cfg.password) \subseteq SiteState
        /\ PgBasebackup(r, q) \subseteq SiteState /\ ClearStorages(r) \subseteq SiteState
    BY <1>1 DEF SiteState, GitlabStop, GitlabStart, PgPromote, ClearPGData, StagePassfile,
                PgBasebackup, ClearStorages
  <1>3. ASSUME NEW b \in BOOLEAN
        PROVE  RegistryReadonly(r, b) \subseteq SiteState /\ SidekiqPause(r, b) \subseteq SiteState
    BY <1>1 DEF SiteState, RegistryReadonly, SidekiqPause
  <1> HIDE DEF r, q
  <1>4. CASE c.step \in {"enRegistry", "disRegistry", "enSidekiq", "disSidekiq"}
    BY <1>3, <1>4, EffectsOf DEF r
  <1>5. CASE c.step \notin {"enRegistry", "disRegistry", "enSidekiq", "disSidekiq"}
    BY <1>2, <1>5, EffectsOf DEF r, q, SendPCs, CommandPCs, PromotePCs, EnablePCs, AdoptPCs
  <1> QED
    BY <1>4, <1>5

\* Of the commands that are sent to a secondary, pg_ctl promote alone changes
\* the role of its PostgreSQL, and none demotes it.
LEMMA EffectsRole ==
    ASSUME site \in [Sites -> SiteState],
           NEW c, c.step \in SendPCs \ AdoptPCs, c.on \in Sites,
           NEW q \in Effects(c)
    PROVE  \/ q.pg = site[c.on].pg
           \/ c.step = "promote" /\ site[c.on].pg = "standby" /\ q.pg = "primary"
  <1> DEFINE r == site[c.on]
  <1>1. r \in SiteState
    OBVIOUS
  <1>2. \A b \in BOOLEAN : \A t \in GitlabStop(r) \cup GitlabStart(r) \cup ClearStorages(r)
                \cup RegistryReadonly(r, b) \cup SidekiqPause(r, b) : t.pg = r.pg
    BY <1>1 DEF SiteState, GitlabStop, GitlabStart, ClearStorages, RegistryReadonly, SidekiqPause
  <1>3. \A t \in PgPromote(r) : r.pg = "standby" /\ t.pg = "primary"
    BY <1>1 DEF SiteState, PgPromote
  <1> HIDE DEF r
  <1>4. CASE c.step \in {"enRegistry", "disRegistry", "enSidekiq", "disSidekiq"}
    BY <1>2, <1>4, EffectsOf DEF r
  <1>5. CASE c.step \notin {"enRegistry", "disRegistry", "enSidekiq", "disSidekiq"}
    BY <1>2, <1>3, <1>5, EffectsOf
    DEF r, SendPCs, CommandPCs, PromotePCs, EnablePCs, AdoptPCs
  <1> QED
    BY <1>4, <1>5

-----------------------------------------------------------------------------
(* Type correctness. *)

\* The configured list names at least one secondary, every secondary is a
\* site, and Position finds each of them in the list.
LEMMA SecondariesFacts ==
    /\ SecondaryList[1] \in Secondaries
    /\ Secondaries \subseteq Sites
    /\ Primary \in Sites
    /\ \A s \in Secondaries : Position(s) \in 1..Len(SecondaryList)
    /\ \A i \in 1..Len(SecondaryList) : SecondaryList[i] \in Secondaries
  <1>1. Len(SecondaryList) \in Nat
    BY SitesAssumption
  <1>2. ASSUME NEW s \in Secondaries
        PROVE  Position(s) \in 1..Len(SecondaryList)
    BY DEF Position, Secondaries
  <1> QED
    BY <1>1, <1>2, SitesAssumption DEF Secondaries, Sites

\* The configuration is one the validator lets through, and what the
\* controller resolves from it is a configured secondary or no name at all.
LEMMA ConfigTyped ==
    ASSUME TypeOK
    PROVE  /\ cfg \in ConfigType
           /\ cfg.promoteSecondary \in Secondaries \cup {NoName}
           /\ cfg.password \in BOOLEAN
           /\ AutoFailoverTarget \in Secondaries \cup {NoName}
           /\ \A name : ResolveNewPrimary(name) \in Secondaries \cup {NoName}
  <1>1. cfg \in ConfigType
    BY ParamAssumption DEF TypeOK
  <1> QED
    BY <1>1, SecondariesFacts DEF ConfigType, AutoFailoverTarget, ResolveNewPrimary

\* A quorum that fails is a witness against the primary, also where the
\* configuration asks for none: New raises it to one.
LEMMA QuorumWitnessed ==
    ASSUME TypeOK, NEW p \in Procs, NEW f \in HealthFailures(p), f >= Quorum
    PROVE  Witnessed(f)
  <1>1. cfg.quorum \in Nat /\ cfg.failoverSection \in BOOLEAN
    BY ConfigTyped DEF ConfigType
  <1>2. f \in Nat
    BY ParamAssumption DEF HealthFailures, URLCount
  <1> QED
    BY <1>1, <1>2 DEF Quorum, Witnessed

-----------------------------------------------------------------------------
(* The inductive invariant. *)

\* Which command may be at which step, on which site, with which permission;
\* a process that is not running has changed nothing.
WorkInv ==
    \A p \in Procs :
        /\ pc[p] \in PromotePCs =>
              /\ p # "adopt" /\ host[p] \in Secondaries
              /\ ~opt[p].dry /\ cfg.failoverEnabled
        /\ pc[p] \in EnablePCs => p # "failover"
        /\ pc[p] \in EnablePCs /\ p = "serve" => host[p] \in Secondaries
        /\ pc[p] \in AdoptPCs => p = "adopt"
        /\ p = "adopt" => host[p] = Primary
        /\ p = "adopt" /\ pc[p] \in EnablePCs \cup (AdoptPCs \ {"cleanup"}) =>
              ~opt[p].dry /\ cfg.failoverEnabled
        /\ pc[p] = "wait" => p = "serve" /\ cfg.failoverEnabled
        /\ pc[p] = "off" => ~touched[p]

\* The loop's counter and flag, and the flag of a manual failover, never say
\* more than was observed.
EvidenceInv ==
    /\ \A i \in 1..DownThreshold : consecutiveFails >= i => rounds[i]
    /\ \A p \in Procs :
          /\ p = "serve" /\ primaryDown[p] => \A i \in 1..DownThreshold : rounds[i]
          /\ p = "serve" /\ pc[p] \in PromotePCs => primaryDown[p]
          /\ p = "failover" /\ primaryDown[p] => probe = "failed"

\* What may still land on a site was sent there by a step of the command: serve
\* and failover leave nothing to the old primary, adopt to no secondary.
LateInv ==
    \A p \in Procs : late[p] # NoCommand =>
        /\ late[p].step \in CommandPCs
        /\ p = "adopt" => late[p].on = Primary /\ late[p].step \notin PromotePCs
        /\ p # "adopt" => late[p].on \in Secondaries /\ late[p].step \notin AdoptPCs

\* The inductive invariant: the checked properties, and the parts WorkInv and
\* EvidenceInv without which no step of Promote could be shown to preserve them.
\* LateInv is kept beside it; only a command that lands late needs it.
IInv ==
    /\ TypeOK
    /\ WorkInv
    /\ EvidenceInv
    /\ PromotionNeedsEvidence
    /\ MismatchNeverPromoted
    /\ OnlyAllowedChanges
    /\ WritableOnlyAfterPromotion
    /\ completed \subseteq Secondaries

-----------------------------------------------------------------------------
(* What each action leaves alone. *)

\* What an ssh that is gone leaves behind is the command of the current step,
\* and nothing once the context is done.
LEMMA LooseFrame ==
    ASSUME TypeOK, NEW p \in Procs, Loose(p)
    PROVE  /\ late' \in [Procs -> Commands]
           /\ \A q \in Procs \ {p} : late'[q] = late[q]
           /\ \/ late' = late
              \/ /\ late'[p] = Command(p) /\ pc[p] \in CommandPCs
                 /\ ~opt[p].dry /\ ~cancelled[p] /\ late[p] = NoCommand
  <1>1. CASE UNCHANGED late
    BY <1>1 DEF TypeOK
  <1>2. CASE /\ pc[p] \in CommandPCs /\ ~opt[p].dry /\ ~cancelled[p] /\ late[p] = NoCommand
             /\ late' = [late EXCEPT ![p] = Command(p)]
    <2>1. Command(p) \in Commands
      BY <1>2, SecondariesFacts DEF Command, Commands, TypeOK, Options
    <2> QED
      BY <1>2, <2>1 DEF TypeOK
  <1> QED
    BY <1>1, <1>2 DEF Loose

\* A remote command of p changes the state of the site p works on, the step
\* of p and whether p has changed anything, and nothing else; when the context
\* is done it changes no site and leaves nothing behind.
LEMMA RemoteFrame ==
    ASSUME TypeOK, NEW p \in Procs, NEW l \in SendPCs, NEW n \in PCs, Remote(p, l, n)
    PROVE  /\ site' \in [Sites -> SiteState]
           /\ late' \in [Procs -> Commands]
           /\ touched' \in [Procs -> BOOLEAN]
           /\ pc' \in [Procs -> PCs]
           /\ pc[p] = l /\ pc'[p] \in {n, OnError(p)}
           /\ \A q \in Procs \ {p} :
                 pc'[q] = pc[q] /\ touched'[q] = touched[q] /\ late'[q] = late[q]
           /\ \A s \in Sites \ {host[p]} : site'[s] = site[s]
           /\ site'[host[p]] \in Effects(Command(p)) \cup {site[host[p]]}
           /\ late' = late \/ (late'[p] = Command(p) /\ pc[p] \in CommandPCs)
           /\ late' # late => site' = site /\ late[p] = NoCommand /\ pc'[p] = OnError(p)
           /\ touched'[p] => touched[p] \/ ~opt[p].dry
           /\ cancelled[p] => site' = site /\ late' = late
           /\ UNCHANGED <<cfg, health, newPrimary, opt, cancelled, consecutiveFails,
                          primaryDown, rounds, probe, parity, rmLost, wiped>>
  <1> OnError(p) \in PCs
    BY DEF OnError, Idle, PCs, AdoptPCs
  <1>2. site[host[p]] \in SiteState
    BY DEF TypeOK
  <1>3. /\ pc[p] = l
        /\ pc' \in [Procs -> PCs]
        /\ pc'[p] \in {n, OnError(p)}
        /\ \A q \in Procs \ {p} : pc'[q] = pc[q]
        /\ UNCHANGED <<cfg, health, newPrimary, opt, cancelled, consecutiveFails,
                       primaryDown, rounds, probe, parity, rmLost, wiped>>
    BY DEF Remote, Succeed, Fail, Goto, TypeOK
  <1>4. CASE Succeed(p, l, n)
    <2>1. Effects(Command(p)) \in SUBSET SiteState
      <3>1. /\ Command(p).step \in SendPCs /\ Command(p).on \in Sites
            /\ Command(p).source \in Sites
        BY <1>3, SecondariesFacts DEF Command, TypeOK
      <3> QED
        BY <3>1, EffectsTyped DEF TypeOK
    <2>2. CASE UNCHANGED <<site, touched>>
      BY <1>3, <1>4, <2>2 DEF Succeed, TypeOK
    <2>3. CASE ~opt[p].dry /\ ~cancelled[p] /\ \E r \in Effects(Command(p)) : SetSite(p, r)
      BY <1>3, <1>4, <2>1, <2>3 DEF Succeed, SetSite, TypeOK
    <2> QED
      BY <1>4, <2>2, <2>3 DEF Succeed
  <1>5. CASE Fail(p, l)
    <2>1. site' = site /\ Loose(p) /\ touched' = [touched EXCEPT ![p] = @ \/ late' # late]
      BY <1>5 DEF Fail
    <2>2. /\ touched' \in [Procs -> BOOLEAN]
          /\ \A q \in Procs \ {p} : touched'[q] = touched[q]
          /\ touched'[p] => touched[p] \/ late' # late
      BY <2>1 DEF TypeOK
    <2>3. pc'[p] = OnError(p)
      BY <1>5 DEF Fail, Goto, TypeOK
    <2> QED
      BY <1>2, <1>3, <2>1, <2>2, <2>3, LooseFrame DEF TypeOK
  <1> QED
    BY <1>4, <1>5 DEF Remote

\* A step of Promote moves p along the sequence, or out of it.
LEMMA PromoteFrame ==
    ASSUME TypeOK, WorkInv, NEW p \in Procs, PromoteStep(p)
    PROVE  /\ TypeOK'
           /\ pc[p] \in PromotePCs
           /\ pc'[p] \in PromotePCs \cup {Idle(p)}
           /\ \A q \in Procs \ {p} :
                 /\ pc'[q] = pc[q] /\ touched'[q] = touched[q]
                 /\ primaryDown'[q] = primaryDown[q] /\ parity'[q] = parity[q]
           /\ \A s \in Sites : site[s].pg = "primary" => site'[s].pg = "primary"
           /\ UNCHANGED <<cfg, health, host, newPrimary, opt, cancelled,
                          consecutiveFails, rounds, rmLost>>
  <1>i. Idle(p) \in PCs /\ OnError(p) \in PCs
    BY DEF Idle, OnError, PCs, AdoptPCs
  <1>p. PromotePCs \subseteq PCs
    BY DEF PCs
  <1>e. pc[p] \in PromotePCs => OnError(p) = Idle(p)
    BY DEF OnError
  <1>1. CASE VerifyPrimaryDown(p)
    <2>1. pc' \in [Procs -> PCs] /\ primaryDown' \in [Procs -> BOOLEAN]
          /\ probe' \in {"none", "failed"}
      BY <1>1, <1>i, <1>p DEF VerifyPrimaryDown, TypeOK, Goto, PromotePCs
    <2> QED
      BY <1>1, <1>e, <2>1 DEF VerifyPrimaryDown, TypeOK, Goto, PromotePCs
  <1>2. CASE VerifyDBKeyParity(p)
    <2>1. PICK o \in ParityOutcomes(p) :
             /\ parity' = [parity EXCEPT ![p] = o]
             /\ Goto(p, IF o = "mismatch" THEN OnError(p) ELSE "stop")
      BY <1>2 DEF VerifyDBKeyParity
    <2>2. o \in {"match", "mismatch", "unverified"}
      BY DEF ParityOutcomes
    <2> QED
      BY <1>2, <1>i, <1>p, <1>e, <2>1, <2>2
      DEF VerifyDBKeyParity, TypeOK, Goto, PromotePCs
  <1>3. CASE PromotionCommand(p) \/ PromotionStart(p)
    <2>1. PICK l \in PastVerifyKey, n \in PromotePCs \cup {Idle(p)} : Remote(p, l, n)
      BY <1>3 DEF PromotionCommand, PromotionStart, Remote, PastVerifyKey, PastVerifyDown,
                  PromotePCs
    <2>2. l \in SendPCs \ AdoptPCs /\ l \in PromotePCs /\ n \in PCs
      BY <1>i, <1>p DEF PastVerifyKey, PastVerifyDown, PromotePCs, SendPCs, CommandPCs, AdoptPCs
    <2>5. /\ site' \in [Sites -> SiteState]
          /\ late' \in [Procs -> Commands]
          /\ touched' \in [Procs -> BOOLEAN]
          /\ pc' \in [Procs -> PCs]
          /\ pc[p] = l /\ pc'[p] \in {n, OnError(p)}
          /\ \A q \in Procs \ {p} : pc'[q] = pc[q] /\ touched'[q] = touched[q]
          /\ \A s \in Sites \ {host[p]} : site'[s] = site[s]
          /\ site'[host[p]] \in Effects(Command(p)) \cup {site[host[p]]}
          /\ UNCHANGED <<cfg, health, newPrimary, opt, cancelled, consecutiveFails,
                         primaryDown, rounds, probe, parity, rmLost, wiped>>
      BY <2>1, <2>2, RemoteFrame
    <2>6. host' = host /\ completed' \in {completed, completed \cup {host[p]}}
      BY <1>3 DEF PromotionCommand, PromotionStart
    <2>7. \A s \in Sites : site[s].pg = "primary" => site'[s].pg = "primary"
      <3>1. Command(p).step = l /\ Command(p).on = host[p] /\ host[p] \in Sites
        BY <2>5 DEF Command, TypeOK
      <3>2. \A q \in Effects(Command(p)) : site[host[p]].pg = "primary" => q.pg = "primary"
        BY <2>2, <3>1, EffectsRole DEF TypeOK
      <3> QED
        BY <2>5, <3>2
    <2>8. TypeOK'
      BY <2>5, <2>6 DEF TypeOK
    <2> QED
      BY <1>e, <2>1, <2>2, <2>5, <2>6, <2>7, <2>8
  <1> QED
    BY <1>1, <1>2, <1>3 DEF PromoteStep

\* Promote: each of its steps, succeeding or failing, keeps the invariant.
\* The two verifications supply the evidence, the command order the rest.
LEMMA PromoteInv ==
    ASSUME IInv, NEW p \in Procs, PromoteStep(p)
    PROVE  IInv'
  <1> DEFINE Lifting == {"disRegistry", "disSidekiq", "disStorages", "start"}
  <1>f. /\ TypeOK'
        /\ pc[p] \in PromotePCs
        /\ pc'[p] \in PromotePCs \cup {Idle(p)}
        /\ \A q \in Procs \ {p} :
              /\ pc'[q] = pc[q] /\ touched'[q] = touched[q]
              /\ primaryDown'[q] = primaryDown[q] /\ parity'[q] = parity[q]
        /\ \A s \in Sites : site[s].pg = "primary" => site'[s].pg = "primary"
        /\ UNCHANGED <<cfg, health, host, newPrimary, opt, cancelled,
                       consecutiveFails, rounds, rmLost>>
    BY PromoteFrame DEF IInv
  <1>w. /\ p # "adopt" /\ host[p] \in Secondaries
        /\ ~opt[p].dry /\ cfg.failoverEnabled
    BY <1>f DEF IInv, WorkInv
  <1>i. Idle(p) \in {"wait", "done"} /\ (Idle(p) = "wait" => p = "serve")
    BY DEF Idle
  <1>t. \A q \in Procs : host[q] \in Sites
    BY DEF IInv, TypeOK
  <1>1. WorkInv'
    <2> SUFFICES ASSUME NEW q \in Procs PROVE WorkInv!(q)'
      BY DEF WorkInv
    <2>1. CASE q = p
      BY <1>f, <1>w, <1>i, <2>1
      DEF WorkInv, PromotePCs, EnablePCs, AdoptPCs
    <2>2. CASE q # p
      BY <1>f, <2>2 DEF IInv, WorkInv
    <2> QED
      BY <2>1, <2>2
  <1>2. EvidenceInv' /\ PromotionNeedsEvidence'
    <2>1. CASE VerifyPrimaryDown(p)
      <3>1. CASE p = "serve"
        BY <1>f, <2>1, <3>1 DEF VerifyPrimaryDown, IInv, EvidenceInv,
           PromotionNeedsEvidence, PastVerifyDown, Idle
      <3>2. CASE p = "failover"
        <4>1. primaryDown'[p] => probe' = "failed"
          BY <2>1, <3>2, QuorumWitnessed DEF VerifyPrimaryDown, IInv, EvidenceInv, TypeOK
        <4>2. pc'[p] \in PastVerifyDown => opt[p].force \/ probe' = "failed"
          BY <1>f, <2>1, <3>2, QuorumWitnessed
          DEF VerifyPrimaryDown, IInv, EvidenceInv, TypeOK, Goto, PastVerifyDown, OnError, Idle, PromotePCs
        <4> QED
          BY <1>f, <3>2, <4>1, <4>2 DEF IInv, EvidenceInv, PromotionNeedsEvidence
      <3> QED
        BY <1>w, <3>1, <3>2, ParamAssumption
    <2>2. CASE ~VerifyPrimaryDown(p)
      <3>1. UNCHANGED <<primaryDown, probe>> /\ pc[p] # "verifyDown"
        BY <2>2 DEF PromoteStep, VerifyDBKeyParity, PromotionCommand, PromotionStart,
           Remote, Succeed, Fail
      <3>2. pc[p] \in PastVerifyDown
        BY <1>f, <3>1 DEF PastVerifyDown
      <3> QED
        BY <1>f, <1>i, <3>1, <3>2 DEF IInv, EvidenceInv, PromotionNeedsEvidence,
           PastVerifyDown, PromotePCs
    <2> QED
      BY <2>1, <2>2
  <1>3. MismatchNeverPromoted'
    <2>1. pc'[p] \in PastVerifyKey => parity'[p] # "mismatch"
      <3>1. CASE VerifyPrimaryDown(p)
        BY <1>f, <3>1 DEF VerifyPrimaryDown, Goto, IInv, TypeOK, PastVerifyKey,
           PastVerifyDown, OnError, Idle, PromotePCs
      <3>2. CASE VerifyDBKeyParity(p)
        BY <1>f, <3>2 DEF VerifyDBKeyParity, Goto, IInv, TypeOK, PastVerifyKey,
           PastVerifyDown, OnError, Idle, PromotePCs
      <3>3. CASE PromotionCommand(p) \/ PromotionStart(p)
        <4>1. UNCHANGED parity /\ pc[p] \in PastVerifyKey
          BY <3>3 DEF PromotionCommand, PromotionStart, Remote, Succeed, Fail,
             PastVerifyKey, PastVerifyDown, PromotePCs
        <4> QED
          BY <4>1 DEF IInv, MismatchNeverPromoted
      <3> QED
        BY <3>1, <3>2, <3>3 DEF PromoteStep
    <2> QED
      BY <1>f, <2>1 DEF IInv, MismatchNeverPromoted
  <1>4. OnlyAllowedChanges'
    BY <1>f, <1>w DEF IInv, OnlyAllowedChanges
  <1>5. WritableOnlyAfterPromotion' /\ (completed \subseteq Secondaries)'
    <2>1. pc'[p] \in Lifting => site'[host[p]].pg = "primary"
      <3>1. CASE pc[p] \in Lifting
        BY <1>f, <1>t, <3>1 DEF IInv, WritableOnlyAfterPromotion
      <3>2. CASE PromotionCommand(p) /\ pc[p] = "promote"
        <4>1. Succeed(p, "promote", "disRegistry") \/ Fail(p, "promote")
          BY <3>2 DEF PromotionCommand, Remote, Succeed, Fail
        <4>2. CASE Succeed(p, "promote", "disRegistry")
          <5>1. PICK r \in Effects(Command(p)) : SetSite(p, r)
            BY <1>w, <4>2 DEF Succeed
          <5>2. Effects(Command(p)) = PgPromote(site[host[p]])
            BY <3>2, EffectsOf DEF Command
          <5>3. r.pg = "primary"
            BY <1>t, <5>1, <5>2 DEF PgPromote, IInv, TypeOK, SiteState
          <5> QED
            BY <1>t, <5>1, <5>3 DEF SetSite, IInv, TypeOK
        <4>3. CASE Fail(p, "promote")
          BY <1>f, <4>3 DEF Fail, Goto, OnError, Idle, IInv, TypeOK
        <4> QED
          BY <4>1, <4>2, <4>3
      <3>3. CASE pc[p] \notin Lifting \cup {"promote"}
        <4>1. pc'[p] \notin Lifting
          BY <1>f, <3>3 DEF PromoteStep, VerifyPrimaryDown, VerifyDBKeyParity,
             PromotionCommand, PromotionStart, Remote, Succeed, Fail, Goto, OnError,
             Idle, IInv, TypeOK
        <4> QED
          BY <4>1
      <3> QED
        BY <3>1, <3>2, <3>3 DEF PromoteStep, VerifyPrimaryDown, VerifyDBKeyParity,
           PromotionStart, Succeed, Fail
    <2>2. completed' \in {completed, completed \cup {host[p]}}
      BY DEF PromoteStep, VerifyPrimaryDown, VerifyDBKeyParity, PromotionCommand,
         PromotionStart
    <2>3. completed' # completed => pc[p] \in Lifting
      BY DEF PromoteStep, VerifyPrimaryDown, VerifyDBKeyParity, PromotionCommand,
         PromotionStart, Succeed, Fail
    <2>4. \A s \in completed' : site[s].pg = "primary" /\ s \in Secondaries
      BY <1>w, <2>2, <2>3 DEF IInv, WritableOnlyAfterPromotion
    <2>5. \A s \in completed' : site'[s].pg = "primary"
      BY <1>f, <2>4, SecondariesFacts
    <2>6. \A q \in Procs \ {p} : pc'[q] \in Lifting => site'[host[q]].pg = "primary"
      BY <1>f, <1>t DEF IInv, WritableOnlyAfterPromotion
    <2> QED
      BY <1>f, <2>1, <2>4, <2>5, <2>6 DEF WritableOnlyAfterPromotion
  <1> QED
    BY <1>f, <1>1, <1>2, <1>3, <1>4, <1>5 DEF IInv

-----------------------------------------------------------------------------
(* serve *)

\* serve starts, or restarts after a crash, and keeps the invariant.
LEMMA ServeStartInv ==
    ASSUME IInv, "serve" \in Procs, ServeStart
    PROVE  IInv'
  <1> DEFINE p == "serve"
  <1>1. pc[p] = "off" /\ ~touched[p]
    BY DEF IInv, WorkInv, ServeStart
  <1>2. pc'[p] \in {"enRegistry", "serving", "wait"}
        /\ (pc'[p] = "wait" => cfg.failoverEnabled)
    BY DEF ServeStart, Goto, ServeLoop, IInv, TypeOK
  <1>3. /\ \A q \in Procs \ {p} : pc'[q] = pc[q] /\ host'[q] = host[q] /\ opt'[q] = opt[q]
        /\ host'[p] \in Secondaries
    BY SecondariesFacts DEF ServeStart, Goto, IInv, TypeOK
  <1>4. UNCHANGED <<cfg, site, late, health, newPrimary, cancelled, consecutiveFails,
                    primaryDown, rounds, probe, parity, touched, completed, rmLost, wiped>>
    BY DEF ServeStart, hist
  <1>5. TypeOK'
    <2>1. opt' \in [Procs -> Options]
      BY DEF ServeStart, IInv, TypeOK, Options, Flags
    <2>2. pc' \in [Procs -> PCs] /\ host' \in [Procs -> Sites]
      BY <1>2, SecondariesFacts DEF ServeStart, Goto, IInv, TypeOK, PCs, EnablePCs
    <2> QED
      BY <1>4, <2>1, <2>2 DEF IInv, TypeOK
  <1>6. WorkInv'
    <2> SUFFICES ASSUME NEW q \in Procs PROVE WorkInv!(q)'
      BY DEF WorkInv
    <2>1. CASE q = p
      BY <1>1, <1>2, <1>3, <1>4, <2>1 DEF WorkInv, PromotePCs, EnablePCs, AdoptPCs
    <2>2. CASE q # p
      BY <1>3, <1>4, <2>2 DEF IInv, WorkInv
    <2> QED
      BY <2>1, <2>2
  <1>7. pc'[p] \notin PromotePCs
    BY <1>2 DEF PromotePCs
  <1>8. EvidenceInv' /\ PromotionNeedsEvidence' /\ MismatchNeverPromoted'
    BY <1>3, <1>4, <1>7
    DEF IInv, EvidenceInv, PromotionNeedsEvidence, MismatchNeverPromoted,
        PastVerifyDown, PastVerifyKey
  <1>9. OnlyAllowedChanges'
    BY <1>1, <1>3, <1>4 DEF IInv, OnlyAllowedChanges
  <1>10. WritableOnlyAfterPromotion'
    BY <1>2, <1>3, <1>4 DEF IInv, WritableOnlyAfterPromotion
  <1> QED
    BY <1>4, <1>5, <1>6, <1>8, <1>9, <1>10 DEF IInv

\* Each ssh command with which serve puts its secondaries into read-only mode
\* keeps the invariant, also on a site that is promoted meanwhile.
LEMMA ServeEnableInv ==
    ASSUME IInv, "serve" \in Procs, ServeEnable
    PROVE  IInv'
  <1> DEFINE p == "serve"
  <1>l. {ServeLoop, "enRegistry", "enSidekiq", "enStorages", "done"} \subseteq PCs
        /\ ServeLoop \in {"wait", "serving"}
        /\ (ServeLoop = "wait" => cfg.failoverEnabled)
    BY DEF ServeLoop, PCs, EnablePCs
  <1>1. PICK l \in EnablePCs, n \in {ServeLoop, "enRegistry", "enSidekiq", "enStorages"} :
           Remote(p, l, n)
    BY DEF ServeEnable, Remote, EnablePCs
  <1>2. l \in SendPCs \ AdoptPCs
    BY DEF SendPCs, CommandPCs, EnablePCs, AdoptPCs
  <1>4. /\ site' \in [Sites -> SiteState]
        /\ late' \in [Procs -> Commands]
        /\ touched' \in [Procs -> BOOLEAN]
        /\ pc' \in [Procs -> PCs]
        /\ pc[p] = l /\ pc'[p] \in {n, OnError(p)}
        /\ \A q \in Procs \ {p} : pc'[q] = pc[q] /\ touched'[q] = touched[q]
        /\ \A s \in Sites \ {host[p]} : site'[s] = site[s]
        /\ site'[host[p]] \in Effects(Command(p)) \cup {site[host[p]]}
        /\ touched'[p] => touched[p] \/ ~opt[p].dry
        /\ UNCHANGED <<cfg, health, newPrimary, opt, cancelled, consecutiveFails,
                       primaryDown, rounds, probe, parity, rmLost, wiped>>
    BY <1>l, <1>1, <1>2, RemoteFrame DEF IInv
  <1>5. OnError(p) = "done"
    BY <1>4 DEF OnError, EnablePCs, PromotePCs
  <1>6. host[p] \in Secondaries
    BY <1>4 DEF IInv, WorkInv
  <1>7. /\ host' \in [Procs -> Sites] /\ completed' = completed
        /\ host'[p] \in Secondaries
        /\ \A q \in Procs \ {p} : host'[q] = host[q]
    <2>1. Position(host[p]) \in 1..Len(SecondaryList)
      BY <1>6, SecondariesFacts
    <2>2. Len(SecondaryList) \in Nat
      BY SitesAssumption
    <2>3. Position(host[p]) # Len(SecondaryList) =>
             SecondaryList[Position(host[p]) + 1] \in Secondaries
      BY <2>1, <2>2, SecondariesFacts
    <2> QED
      BY <1>6, <2>3, SecondariesFacts DEF ServeEnable, IInv, TypeOK
  <1>8. \A s \in Sites : site[s].pg = "primary" => site'[s].pg = "primary"
    <2>1. Command(p).step = l /\ Command(p).on = host[p] /\ host[p] \in Sites
      BY <1>4 DEF Command, IInv, TypeOK
    <2>2. \A q \in Effects(Command(p)) : site[host[p]].pg = "primary" => q.pg = "primary"
      BY <1>2, <2>1, EffectsRole DEF IInv, TypeOK
    <2> QED
      BY <1>4, <2>2
  <1>9. TypeOK'
    BY <1>4, <1>7 DEF IInv, TypeOK
  <1>10. WorkInv'
    <2> SUFFICES ASSUME NEW q \in Procs PROVE WorkInv!(q)'
      BY DEF WorkInv
    <2>1. CASE q = p
      BY <1>1, <1>4, <1>5, <1>7, <1>l, <2>1 DEF WorkInv, PromotePCs, EnablePCs, AdoptPCs
    <2>2. CASE q # p
      BY <1>4, <1>7, <2>2 DEF IInv, WorkInv
    <2> QED
      BY <2>1, <2>2
  <1>11. pc'[p] \notin PromotePCs
    BY <1>1, <1>4, <1>5, <1>l DEF PromotePCs
  <1>12. EvidenceInv' /\ PromotionNeedsEvidence' /\ MismatchNeverPromoted'
    BY <1>4, <1>11
    DEF IInv, EvidenceInv, PromotionNeedsEvidence, MismatchNeverPromoted,
        PastVerifyDown, PastVerifyKey
  <1>13. OnlyAllowedChanges'
    BY <1>4 DEF IInv, OnlyAllowedChanges
  <1>14. WritableOnlyAfterPromotion'
    <2>1. \A q \in Procs : host[q] \in Sites
      BY DEF IInv, TypeOK
    <2> QED
      BY <1>4, <1>7, <1>8, <1>11, <2>1, SecondariesFacts
      DEF IInv, WritableOnlyAfterPromotion, PromotePCs
  <1> QED
    BY <1>7, <1>9, <1>10, <1>12, <1>13, <1>14 DEF IInv

\* One tick of the health loop keeps the invariant: the counter and the flag
\* never run ahead of the rounds observed.
LEMMA CheckInv ==
    ASSUME IInv, "serve" \in Procs, Check
    PROVE  IInv'
  <1> DEFINE p == "serve"
  <1>1. PICK f \in HealthFailures(p) :
           /\ rounds' = [i \in 1..DownThreshold |->
                            IF i = 1 THEN Witnessed(f) ELSE rounds[i - 1]]
           /\ IF f >= Quorum THEN CheckFailed ELSE CheckAnswered
    BY DEF Check
  <1>2. UNCHANGED <<cfg, site, late, health, newPrimary, opt, cancelled, probe, parity,
                    touched, completed, rmLost, wiped>>
    BY DEF Check
  <1>3. pc[p] = "wait" /\ cfg.failoverEnabled
    BY DEF Check, IInv, WorkInv
  <1>4. /\ \A q \in Procs \ {p} : pc'[q] = pc[q] /\ host'[q] = host[q]
        /\ pc'[p] \in {"wait", "verifyDown"}
        /\ pc' \in [Procs -> PCs] /\ host' \in [Procs -> Sites]
    <2>1. AutoFailoverTarget \in Secondaries \cup {NoName}
      BY ConfigTyped DEF IInv
    <2>2. PromoteEntry(p, AutoFailoverTarget, opt[p].dry) \in {"wait", "verifyDown"}
      BY DEF PromoteEntry, Idle
    <2>3. {"wait", "verifyDown"} \subseteq PCs
      BY DEF PCs, PromotePCs
    <2> QED
      BY <1>1, <1>3, <2>1, <2>2, <2>3, SecondariesFacts
      DEF CheckFailed, CheckAnswered, Goto, IInv, TypeOK
  <1>5. /\ consecutiveFails' \in 0..DownThreshold
        /\ primaryDown' \in [Procs -> BOOLEAN]
        /\ \A q \in Procs \ {p} : primaryDown'[q] = primaryDown[q]
    <2>1. consecutiveFails' \in 0..DownThreshold
      BY <1>1 DEF CheckFailed, CheckAnswered, IInv, TypeOK, DownThreshold
    <2>2. /\ primaryDown' \in [Procs -> BOOLEAN]
          /\ \A q \in Procs \ {p} : primaryDown'[q] = primaryDown[q]
      BY <1>1 DEF CheckFailed, CheckAnswered, IInv, TypeOK
    <2> QED
      BY <2>1, <2>2
  <1>6. rounds' \in [1..DownThreshold -> BOOLEAN]
    <2>1. Witnessed(f) \in BOOLEAN
      BY DEF Witnessed
    <2>2. \A i \in 1..DownThreshold : i # 1 => rounds[i - 1] \in BOOLEAN
      BY DEF IInv, TypeOK, DownThreshold
    <2>3. \A i \in 1..DownThreshold :
             (IF i = 1 THEN Witnessed(f) ELSE rounds[i - 1]) \in BOOLEAN
      BY <2>1, <2>2
    <2> QED
      BY <1>1, <2>3, Zenon
  <1>7. TypeOK'
    BY <1>2, <1>4, <1>5, <1>6 DEF IInv, TypeOK
  <1>8. pc'[p] = "verifyDown" => /\ ~opt[p].dry /\ host'[p] \in Secondaries
                                 /\ primaryDown'[p]
    BY <1>1, <1>3 DEF CheckFailed, CheckAnswered, PromoteEntry, Idle, Goto, IInv, TypeOK
  <1>9. WorkInv'
    <2> SUFFICES ASSUME NEW q \in Procs PROVE WorkInv!(q)'
      BY DEF WorkInv
    <2>1. CASE q = p
      BY <1>2, <1>3, <1>4, <1>8, <2>1 DEF WorkInv, PromotePCs, EnablePCs, AdoptPCs
    <2>2. CASE q # p
      BY <1>2, <1>4, <2>2 DEF IInv, WorkInv
    <2> QED
      BY <2>1, <2>2
  <1>10. EvidenceInv'
    <2>1. CASE f >= Quorum
      <3>1. \A i \in 1..DownThreshold : consecutiveFails' >= i => rounds'[i]
        <4>1. rounds'[1] /\ rounds'[2] = rounds[1] /\ rounds'[3] = rounds[2]
          <5>1. DownThreshold = 3 /\ 1 \in 1..3 /\ 2 \in 1..3 /\ 3 \in 1..3
            BY DEF DownThreshold
          <5>2. rounds'[1] = Witnessed(f)
            BY <1>1, <5>1, Zenon
          <5>3. rounds'[2] = rounds[2 - 1] /\ rounds'[3] = rounds[3 - 1]
            BY <1>1, <5>1
          <5>4. rounds'[1]
            BY <2>1, <5>2, QuorumWitnessed DEF IInv
          <5> QED
            BY <5>3, <5>4
        <4>2. consecutiveFails' =
                 IF consecutiveFails < 3 THEN consecutiveFails + 1 ELSE 3
          BY <1>1, <2>1 DEF CheckFailed, DownThreshold
        <4>3. /\ consecutiveFails \in 0..3
              /\ consecutiveFails >= 1 => rounds[1]
              /\ consecutiveFails >= 2 => rounds[2]
          BY DEF IInv, TypeOK, EvidenceInv, DownThreshold
        <4> QED
          BY <4>1, <4>2, <4>3 DEF DownThreshold
      <3>2. primaryDown'[p] => \A i \in 1..DownThreshold : rounds'[i]
        BY <1>1, <2>1, <3>1 DEF CheckFailed, IInv, TypeOK, EvidenceInv, DownThreshold
      <3> QED
        BY <1>2, <1>4, <1>5, <1>8, <3>1, <3>2 DEF IInv, EvidenceInv, PromotePCs
    <2>2. CASE ~(f >= Quorum)
      <3>1. consecutiveFails' = 0 /\ ~primaryDown'[p] /\ pc' = pc
        BY <1>1, <2>2 DEF CheckAnswered, IInv, TypeOK
      <3> QED
        BY <1>2, <1>3, <1>5, <3>1 DEF IInv, EvidenceInv, PromotePCs, DownThreshold
    <2> QED
      BY <2>1, <2>2
  <1>11. PromotionNeedsEvidence' /\ MismatchNeverPromoted' /\ WritableOnlyAfterPromotion'
    BY <1>2, <1>4
    DEF IInv, PromotionNeedsEvidence, MismatchNeverPromoted, WritableOnlyAfterPromotion,
        PastVerifyDown, PastVerifyKey, PromotePCs
  <1>12. OnlyAllowedChanges'
    BY <1>2 DEF IInv, OnlyAllowedChanges
  <1> QED
    BY <1>2, <1>7, <1>9, <1>10, <1>11, <1>12 DEF IInv

-----------------------------------------------------------------------------
(* failover and adopt-as-secondary *)

\* Starting the failover command keeps the invariant.
LEMMA FailoverCmdInv ==
    ASSUME IInv, "failover" \in Procs, FailoverCmd
    PROVE  IInv'
  <1> DEFINE p == "failover"
  <1>1. PICK name \in Sites \cup {NoName}, dry \in BOOLEAN, force \in BOOLEAN :
           /\ opt' = [opt EXCEPT ![p] = Flags(dry, force, FALSE)]
           /\ host' = [host EXCEPT ![p] = FailoverTarget(name)]
           /\ Goto(p, PromoteEntry(p, FailoverTarget(name), dry))
    BY DEF FailoverCmd
  <1>2. UNCHANGED <<cfg, site, late, health, newPrimary, cancelled, consecutiveFails,
                    primaryDown, rounds, probe, parity, touched, completed, rmLost, wiped>>
    BY DEF FailoverCmd, hist
  <1>3. pc[p] = "off" /\ ~touched[p]
    BY DEF FailoverCmd, IInv, WorkInv
  <1>4. FailoverTarget(name) \in Sites
    BY SecondariesFacts DEF FailoverTarget
  <1>5. Flags(dry, force, FALSE) \in Options /\ Flags(dry, force, FALSE).dry = dry
    BY DEF Flags, Options
  <1>6. /\ \A q \in Procs \ {p} : pc'[q] = pc[q] /\ host'[q] = host[q] /\ opt'[q] = opt[q]
        /\ pc'[p] \in {"done", "verifyDown"}
        /\ pc'[p] = "verifyDown" =>
              /\ host'[p] \in Secondaries /\ ~opt'[p].dry /\ cfg.failoverEnabled
    BY <1>1, <1>5 DEF Goto, PromoteEntry, Idle, IInv, TypeOK
  <1>7. TypeOK'
    <2>1. opt' \in [Procs -> Options] /\ host' \in [Procs -> Sites]
      BY <1>1, <1>4, <1>5 DEF IInv, TypeOK
    <2>2. pc' \in [Procs -> PCs]
      BY <1>1 DEF Goto, PromoteEntry, Idle, IInv, TypeOK, PCs, PromotePCs
    <2> QED
      BY <1>2, <2>1, <2>2 DEF IInv, TypeOK
  <1>8. WorkInv'
    <2> SUFFICES ASSUME NEW q \in Procs PROVE WorkInv!(q)'
      BY DEF WorkInv
    <2>1. CASE q = p
      BY <1>2, <1>3, <1>6, <2>1 DEF WorkInv, PromotePCs, EnablePCs, AdoptPCs
    <2>2. CASE q # p
      BY <1>2, <1>6, <2>2 DEF IInv, WorkInv
    <2> QED
      BY <2>1, <2>2
  <1>9. EvidenceInv' /\ PromotionNeedsEvidence' /\ MismatchNeverPromoted'
    BY <1>2, <1>6
    DEF IInv, EvidenceInv, PromotionNeedsEvidence, MismatchNeverPromoted,
        PastVerifyDown, PastVerifyKey, PromotePCs
  <1>10. OnlyAllowedChanges' /\ WritableOnlyAfterPromotion'
    BY <1>2, <1>3, <1>6 DEF IInv, OnlyAllowedChanges, WritableOnlyAfterPromotion
  <1> QED
    BY <1>2, <1>7, <1>8, <1>9, <1>10 DEF IInv

\* Starting the adopt-as-secondary command keeps the invariant.
LEMMA AdoptCmdInv ==
    ASSUME IInv, "adopt" \in Procs, AdoptCmd
    PROVE  IInv'
  <1> DEFINE p == "adopt"
  <1>1. PICK name \in Sites \cup {NoName}, wipe \in BOOLEAN, dry \in BOOLEAN :
           /\ dry \/ cfg.failoverEnabled
           /\ ResolveNewPrimary(name) # NoName
           /\ newPrimary' = ResolveNewPrimary(name)
           /\ opt' = [opt EXCEPT ![p] = Flags(dry, FALSE, wipe)]
           /\ Goto(p, IF dry THEN "cleanup" ELSE "adoptStop")
    BY DEF AdoptCmd
  <1>2. UNCHANGED <<cfg, site, late, health, cancelled, consecutiveFails, primaryDown,
                    rounds, probe, parity, touched, completed, rmLost>> /\ wiped' = FALSE
    BY DEF AdoptCmd
  <1>3. pc[p] = "off" /\ ~touched[p]
    BY DEF AdoptCmd, IInv, WorkInv
  <1>4. Flags(dry, FALSE, wipe) \in Options /\ Flags(dry, FALSE, wipe).dry = dry
    BY DEF Flags, Options
  <1>5. /\ \A q \in Procs \ {p} : pc'[q] = pc[q] /\ host'[q] = host[q] /\ opt'[q] = opt[q]
        /\ pc'[p] \in {"cleanup", "adoptStop"} /\ host'[p] = Primary
        /\ pc'[p] = "adoptStop" => ~opt'[p].dry /\ cfg.failoverEnabled
    BY <1>1, <1>4 DEF Goto, AdoptCmd, IInv, TypeOK
  <1>6. TypeOK'
    <2>1. opt' \in [Procs -> Options] /\ host' \in [Procs -> Sites]
      BY <1>1, <1>4, SecondariesFacts DEF AdoptCmd, IInv, TypeOK
    <2>2. pc' \in [Procs -> PCs]
      BY <1>1 DEF Goto, IInv, TypeOK, PCs, AdoptPCs
    <2>3. newPrimary' \in Secondaries
      BY <1>1, ConfigTyped DEF IInv
    <2> QED
      BY <1>2, <2>1, <2>2, <2>3 DEF IInv, TypeOK
  <1>7. WorkInv'
    <2> SUFFICES ASSUME NEW q \in Procs PROVE WorkInv!(q)'
      BY DEF WorkInv
    <2>1. CASE q = p
      BY <1>2, <1>3, <1>5, <2>1 DEF WorkInv, PromotePCs, EnablePCs, AdoptPCs
    <2>2. CASE q # p
      BY <1>2, <1>5, <2>2 DEF IInv, WorkInv
    <2> QED
      BY <2>1, <2>2
  <1>8. EvidenceInv' /\ PromotionNeedsEvidence' /\ MismatchNeverPromoted'
    BY <1>2, <1>5
    DEF IInv, EvidenceInv, PromotionNeedsEvidence, MismatchNeverPromoted,
        PastVerifyDown, PastVerifyKey, PromotePCs
  <1>9. OnlyAllowedChanges' /\ WritableOnlyAfterPromotion'
    BY <1>2, <1>3, <1>5 DEF IInv, OnlyAllowedChanges, WritableOnlyAfterPromotion
  <1> QED
    BY <1>2, <1>6, <1>7, <1>8, <1>9 DEF IInv

\* Each remote command of AdoptAsSecondary keeps the invariant: it works on
\* the old primary, which is no secondary.
LEMMA AdoptCommandInv ==
    ASSUME IInv, "adopt" \in Procs, AdoptCommand
    PROVE  IInv'
  <1> DEFINE p == "adopt"
             Working == EnablePCs \cup AdoptPCs
  <1>1. PICK l \in Working \ {"cleanup"}, n \in Working : Remote(p, l, n)
    BY DEF AdoptCommand, EnablePCs, AdoptPCs
  <1>3. l \in SendPCs /\ n \in PCs
    BY DEF PCs, SendPCs, CommandPCs, EnablePCs, AdoptPCs
  <1>4. /\ site' \in [Sites -> SiteState]
        /\ late' \in [Procs -> Commands]
        /\ touched' \in [Procs -> BOOLEAN]
        /\ pc' \in [Procs -> PCs]
        /\ pc[p] = l /\ pc'[p] \in {n, OnError(p)}
        /\ \A q \in Procs \ {p} : pc'[q] = pc[q] /\ touched'[q] = touched[q]
        /\ \A s \in Sites \ {host[p]} : site'[s] = site[s]
        /\ UNCHANGED <<cfg, health, newPrimary, opt, cancelled, consecutiveFails,
                       primaryDown, rounds, probe, parity, rmLost, wiped>>
    BY <1>1, <1>3, RemoteFrame DEF IInv
  <1>5. host' = host /\ completed' = completed
    BY DEF AdoptCommand
  <1>6. host[p] = Primary /\ ~opt[p].dry /\ cfg.failoverEnabled
    BY <1>4 DEF IInv, WorkInv
  <1>7. pc'[p] \in Working
    BY <1>1, <1>4 DEF OnError, EnablePCs, AdoptPCs, PromotePCs
  <1>8. TypeOK'
    BY <1>4, <1>5 DEF IInv, TypeOK
  <1>9. WorkInv'
    <2> SUFFICES ASSUME NEW q \in Procs PROVE WorkInv!(q)'
      BY DEF WorkInv
    <2>1. CASE q = p
      BY <1>4, <1>5, <1>6, <1>7, <2>1 DEF WorkInv, PromotePCs, EnablePCs, AdoptPCs
    <2>2. CASE q # p
      BY <1>4, <1>5, <2>2 DEF IInv, WorkInv
    <2> QED
      BY <2>1, <2>2
  <1>10. pc'[p] \notin PromotePCs
    BY <1>7 DEF EnablePCs, AdoptPCs, PromotePCs
  <1>11. EvidenceInv' /\ PromotionNeedsEvidence' /\ MismatchNeverPromoted'
    BY <1>4, <1>5, <1>10
    DEF IInv, EvidenceInv, PromotionNeedsEvidence, MismatchNeverPromoted,
        PastVerifyDown, PastVerifyKey
  <1>12. OnlyAllowedChanges'
    BY <1>4, <1>6 DEF IInv, OnlyAllowedChanges
  <1>13. \A s \in Secondaries : site'[s] = site[s]
    BY <1>4, <1>6, SecondariesFacts, SitesAssumption
  <1>14. WritableOnlyAfterPromotion'
    <2>1. \A q \in Procs : pc[q] \in PromotePCs => host[q] \in Secondaries
      BY DEF IInv, WorkInv
    <2> QED
      BY <1>4, <1>5, <1>10, <1>13, <2>1
      DEF IInv, WritableOnlyAfterPromotion, PromotePCs
  <1> QED
    BY <1>5, <1>8, <1>9, <1>11, <1>12, <1>14 DEF IInv

\* The deferred removal of the passfile keeps the invariant.
LEMMA CleanupInv ==
    ASSUME IInv, "adopt" \in Procs, Cleanup
    PROVE  IInv'
  <1> DEFINE p == "adopt"
  <1>1. host[p] = Primary /\ pc[p] = "cleanup"
    BY DEF IInv, WorkInv, Cleanup
  <1>2. /\ pc'[p] = "done" /\ pc' \in [Procs -> PCs]
        /\ \A q \in Procs \ {p} : pc'[q] = pc[q]
    BY DEF Cleanup, Goto, IInv, TypeOK, PCs
  <1>3. /\ site' \in [Sites -> SiteState] /\ rmLost' \in BOOLEAN
        /\ \A s \in Secondaries : site'[s] = site[s]
    <2>1. site[host[p]] \in SiteState
      BY DEF IInv, TypeOK
    <2>2. RemovePassfile(site[host[p]]) \subseteq SiteState
      BY <2>1 DEF RemovePassfile, SiteState
    <2> QED
      BY <1>1, <2>2, SecondariesFacts, SitesAssumption DEF Cleanup, IInv, TypeOK
  <1>4. UNCHANGED <<cfg, late, health, host, newPrimary, opt, cancelled, consecutiveFails,
                    primaryDown, rounds, probe, parity, touched, completed, wiped>>
    BY DEF Cleanup
  <1>5. TypeOK'
    BY <1>2, <1>3, <1>4 DEF IInv, TypeOK
  <1>6. WorkInv'
    BY <1>2, <1>4 DEF IInv, WorkInv, PromotePCs, EnablePCs, AdoptPCs
  <1>7. EvidenceInv' /\ PromotionNeedsEvidence' /\ MismatchNeverPromoted'
    BY <1>2, <1>4
    DEF IInv, EvidenceInv, PromotionNeedsEvidence, MismatchNeverPromoted,
        PastVerifyDown, PastVerifyKey, PromotePCs
  <1>8. OnlyAllowedChanges'
    BY <1>4 DEF IInv, OnlyAllowedChanges
  <1>9. WritableOnlyAfterPromotion'
    <2>1. \A q \in Procs : pc[q] \in PromotePCs => host[q] \in Secondaries
      BY DEF IInv, WorkInv
    <2> QED
      BY <1>2, <1>3, <1>4, <2>1 DEF IInv, WritableOnlyAfterPromotion, PromotePCs
  <1> QED
    BY <1>4, <1>5, <1>6, <1>7, <1>8, <1>9 DEF IInv

-----------------------------------------------------------------------------
(* Signals, exits and crashes *)

\* A signal sets the flag that the next command looks at, and may leave the
\* command that is under way to the site.
LEMMA CancelInv ==
    ASSUME IInv, NEW p \in Procs, Cancel(p)
    PROVE  IInv'
  <1>1. UNCHANGED <<cfg, site, health, pc, host, newPrimary, opt, consecutiveFails,
                    primaryDown, rounds, probe, parity, completed, rmLost, wiped>>
    BY DEF Cancel
  <1>2. /\ late' \in [Procs -> Commands]
        /\ late' # late => pc[p] \in CommandPCs /\ ~opt[p].dry
    BY LooseFrame DEF Cancel, IInv
  <1>3. /\ touched' \in [Procs -> BOOLEAN]
        /\ \A q \in Procs \ {p} : touched'[q] = touched[q]
        /\ touched'[p] => touched[p] \/ late' # late
    BY DEF Cancel, IInv, TypeOK
  <1>4. TypeOK'
    BY <1>1, <1>2, <1>3 DEF IInv, TypeOK, Cancel
  <1>5. p # "serve" /\ late' # late => cfg.failoverEnabled
    <2>1. CASE p = "adopt"
      BY <1>2, <2>1 DEF IInv, WorkInv, CommandPCs, PromotePCs, EnablePCs, AdoptPCs
    <2>2. CASE p = "failover"
      BY <1>2, <2>2 DEF IInv, WorkInv, CommandPCs, PromotePCs, EnablePCs, AdoptPCs
    <2> QED
      BY <2>1, <2>2, ParamAssumption
  <1>6. WorkInv'
    <2>1. pc[p] # "off"
      BY DEF Cancel
    <2> QED
      BY <1>1, <1>3, <2>1 DEF IInv, WorkInv
  <1>7. OnlyAllowedChanges'
    BY <1>1, <1>2, <1>3, <1>5 DEF IInv, OnlyAllowedChanges
  <1> QED
    BY <1>1, <1>4, <1>6, <1>7
    DEF IInv, EvidenceInv, PromotionNeedsEvidence, MismatchNeverPromoted,
        WritableOnlyAfterPromotion

\* A command that lands late keeps the invariant: it demotes no secondary.
LEMMA LateLands ==
    ASSUME IInv, LateInv, NEW p \in Procs, Late(p)
    PROVE  IInv'
  <1> DEFINE c == late[p]
  <1>1. UNCHANGED <<cfg, health, pc, host, newPrimary, opt, cancelled, consecutiveFails,
                    primaryDown, rounds, probe, parity, touched, completed>>
    BY DEF Late, ctl
  <1>2. c \in Commands /\ c.step \in CommandPCs /\ c.on \in Sites /\ c.source \in Sites
    BY SecondariesFacts DEF Late, LateInv, IInv, TypeOK, Commands
  <1>3. NoCommand \in Commands
    BY SecondariesFacts DEF NoCommand, Commands
  <1>4. Effects(c) \in SUBSET SiteState
    BY <1>2, EffectsTyped DEF SendPCs, IInv, TypeOK
  <1>5. /\ site' \in [Sites -> SiteState]
        /\ \A s \in Sites \ {c.on} : site'[s] = site[s]
        /\ site'[c.on] \in Effects(c) \cup {site[c.on]}
    BY <1>2, <1>4 DEF Late, IInv, TypeOK
  <1>6. late' \in [Procs -> Commands] /\ rmLost' \in BOOLEAN /\ wiped' \in BOOLEAN
    <2>1. late' \in [Procs -> Commands]
      BY <1>3 DEF Late, IInv, TypeOK
    <2>2. rmLost' \in BOOLEAN /\ wiped' \in BOOLEAN
      BY DEF Late, IInv, TypeOK
    <2> QED
      BY <2>1, <2>2
  <1>7. TypeOK'
    BY <1>1, <1>5, <1>6 DEF IInv, TypeOK
  <1>8. \A s \in Secondaries : site[s].pg = "primary" => site'[s].pg = "primary"
    <2>1. CASE p = "adopt"
      <3>1. c.on \notin Secondaries
        BY <2>1, SitesAssumption DEF Late, LateInv
      <3> QED
        BY <1>5, <3>1, SecondariesFacts
    <2>2. CASE p # "adopt"
      <3>1. c.step \in SendPCs \ AdoptPCs
        BY <1>2, <2>2 DEF Late, LateInv, SendPCs
      <3>2. \A q \in Effects(c) : site[c.on].pg = "primary" => q.pg = "primary"
        BY <1>2, <3>1, EffectsRole DEF IInv, TypeOK
      <3> QED
        BY <1>5, <3>2, SecondariesFacts
    <2> QED
      BY <2>1, <2>2
  <1>9. WritableOnlyAfterPromotion'
    <2>1. \A q \in Procs : pc[q] \in PromotePCs => host[q] \in Secondaries
      BY DEF IInv, WorkInv
    <2> QED
      BY <1>1, <1>8, <2>1 DEF IInv, WritableOnlyAfterPromotion, PromotePCs
  <1> QED
    BY <1>1, <1>7, <1>9
    DEF IInv, WorkInv, EvidenceInv, PromotionNeedsEvidence, MismatchNeverPromoted,
        OnlyAllowedChanges

\* A command that returns, or a process that is killed, keeps the invariant.
LEMMA GoneInv ==
    ASSUME IInv, NEW p \in Procs, Exit(p) \/ Crash(p)
    PROVE  IInv'
  <1>g. Gone(p)
    BY DEF Exit, Crash
  <1>0. rmLost' \in BOOLEAN /\ late' \in [Procs -> Commands]
    BY LooseFrame DEF Exit, Crash, IInv, TypeOK
  <1>1. UNCHANGED <<cfg, site, health, completed, wiped>>
    BY <1>g DEF Gone
  <1>2. /\ pc'[p] = "off" /\ host'[p] = Primary /\ ~primaryDown'[p] /\ ~touched'[p]
        /\ \A q \in Procs \ {p} :
              /\ pc'[q] = pc[q] /\ host'[q] = host[q] /\ opt'[q] = opt[q]
              /\ primaryDown'[q] = primaryDown[q] /\ parity'[q] = parity[q]
              /\ touched'[q] = touched[q]
    BY <1>g DEF Gone, Goto, IInv, TypeOK
  <1>3. TypeOK'
    <2>1. NoOptions \in Options /\ "off" \in PCs
      BY DEF NoOptions, Flags, Options, PCs
    <2>2. /\ pc' \in [Procs -> PCs] /\ host' \in [Procs -> Sites]
          /\ opt' \in [Procs -> Options]
      BY <1>g, <2>1, SecondariesFacts DEF Gone, Goto, IInv, TypeOK
    <2>3. /\ cancelled' \in [Procs -> BOOLEAN]
          /\ primaryDown' \in [Procs -> BOOLEAN]
          /\ touched' \in [Procs -> BOOLEAN]
          /\ parity' \in [Procs -> {"none", "match", "mismatch", "unverified"}]
      BY <1>g DEF Gone, IInv, TypeOK
    <2>4. /\ consecutiveFails' \in 0..DownThreshold
          /\ rounds' \in [1..DownThreshold -> BOOLEAN]
      BY <1>g DEF Gone, IInv, TypeOK, DownThreshold
    <2>5. probe' \in {"none", "failed"} /\ newPrimary' \in Secondaries
      BY <1>g, SecondariesFacts DEF Gone, IInv, TypeOK
    <2> QED
      BY <1>0, <1>1, <2>2, <2>3, <2>4, <2>5 DEF IInv, TypeOK
  <1>4. WorkInv'
    BY <1>1, <1>2 DEF IInv, WorkInv, PromotePCs, EnablePCs, AdoptPCs
  <1>5. EvidenceInv'
    <2>1. CASE p = "serve"
      <3>1. consecutiveFails' = 0 /\ probe' = probe
        BY <1>g, <2>1 DEF Gone
      <3> QED
        BY <1>2, <2>1, <3>1 DEF IInv, EvidenceInv, DownThreshold, PromotePCs
    <2>2. CASE p # "serve"
      <3>1. UNCHANGED <<consecutiveFails, rounds>> /\ (p # "failover" => probe' = probe)
        BY <1>g, <2>2 DEF Gone
      <3> QED
        BY <1>2, <2>2, <3>1 DEF IInv, EvidenceInv
    <2> QED
      BY <2>1, <2>2
  <1>6. PromotionNeedsEvidence'
    <2>1. /\ p # "serve" => rounds' = rounds
          /\ p # "failover" => probe' = probe
      BY <1>g DEF Gone
    <2> QED
      BY <1>2, <2>1 DEF IInv, PromotionNeedsEvidence, PastVerifyDown, PromotePCs
  <1>7. MismatchNeverPromoted' /\ OnlyAllowedChanges' /\ WritableOnlyAfterPromotion'
    BY <1>1, <1>2
    DEF IInv, MismatchNeverPromoted, OnlyAllowedChanges, WritableOnlyAfterPromotion,
        PastVerifyDown, PastVerifyKey, PromotePCs
  <1> QED
    BY <1>1, <1>3, <1>4, <1>5, <1>6, <1>7 DEF IInv

-----------------------------------------------------------------------------
(* The theorems *)

\* Every configuration and every initial state of the sites satisfies the
\* invariant.
LEMMA InitInv == Init => IInv
  <1> SUFFICES ASSUME Init PROVE IInv
    OBVIOUS
  <1>1. TypeOK
    <2>1. site \in [Sites -> SiteState]
      BY DEF Init, SiteState
    <2>2. NoOptions \in Options /\ "off" \in PCs /\ NoCommand \in Commands
      BY SecondariesFacts DEF NoOptions, Flags, Options, PCs, NoCommand, Commands
    <2>3. consecutiveFails \in 0..DownThreshold /\ rounds \in [1..DownThreshold -> BOOLEAN]
      BY DEF Init, DownThreshold
    <2> QED
      BY <2>1, <2>2, <2>3, SecondariesFacts DEF Init, TypeOK
  <1>2. \A p \in Procs : pc[p] = "off" /\ host[p] = Primary /\ ~primaryDown[p] /\ ~touched[p]
    BY DEF Init
  <1>3. consecutiveFails = 0 /\ completed = {}
    BY DEF Init
  <1> QED
    BY <1>1, <1>2, <1>3
    DEF IInv, WorkInv, EvidenceInv, PromotionNeedsEvidence, MismatchNeverPromoted,
        OnlyAllowedChanges, WritableOnlyAfterPromotion, PromotePCs, EnablePCs, AdoptPCs,
        PastVerifyDown, PastVerifyKey, DownThreshold

\* Every step of every process, and of the environment, keeps the invariant.
LEMMA NextInv == IInv /\ LateInv /\ [Next]_vars => IInv'
  <1> SUFFICES ASSUME IInv, LateInv, [Next]_vars PROVE IInv'
    OBVIOUS
  <1>1. CASE HealthChange
    <2>1. UNCHANGED <<cfg, site, late, pc, host, newPrimary, opt, cancelled,
                      consecutiveFails, primaryDown, rounds, probe, parity, touched, completed, rmLost, wiped>>
      BY <1>1 DEF HealthChange, ctl, hist
    <2>2. TypeOK'
      BY <1>1, <2>1 DEF HealthChange, IInv, TypeOK
    <2> QED
      BY <2>1, <2>2
      DEF IInv, WorkInv, EvidenceInv, PromotionNeedsEvidence, MismatchNeverPromoted,
          OnlyAllowedChanges, WritableOnlyAfterPromotion
  <1>2. ASSUME NEW p \in Procs, ProcNext(p) PROVE IInv'
    <2>1. CASE p = "serve"
      BY <1>2, <2>1, ServeStartInv, ServeEnableInv, CheckInv, PromoteInv DEF ProcNext, ServeNext
    <2>2. CASE p = "failover"
      BY <1>2, <2>2, FailoverCmdInv, PromoteInv DEF ProcNext, FailoverNext
    <2>3. CASE p = "adopt"
      BY <1>2, <2>3, AdoptCmdInv, AdoptCommandInv, CleanupInv DEF ProcNext, AdoptNext
    <2> QED
      BY <2>1, <2>2, <2>3, ParamAssumption
  <1>3. ASSUME NEW p \in Procs, Late(p) \/ Exit(p) \/ Cancel(p) \/ Crash(p) PROVE IInv'
    BY <1>3, GoneInv, CancelInv, LateLands
  <1>4. CASE UNCHANGED vars
    <2>1. UNCHANGED <<cfg, site, late, health, pc, host, newPrimary, opt, cancelled,
                      consecutiveFails, primaryDown, rounds, probe, parity, touched,
                      completed, rmLost, wiped>>
      BY <1>4 DEF vars, ctl, hist
    <2>2. TypeOK'
      BY <2>1 DEF IInv, TypeOK
    <2> QED
      BY <2>1, <2>2
      DEF IInv, WorkInv, EvidenceInv, PromotionNeedsEvidence, MismatchNeverPromoted,
          OnlyAllowedChanges, WritableOnlyAfterPromotion
  <1> QED
    BY <1>1, <1>2, <1>3, <1>4 DEF Next

\* What a step leaves behind is a command of its own process.
LEMMA LooseKeeps ==
    ASSUME IInv, LateInv, NEW p \in Procs,
           \A q \in Procs \ {p} : late'[q] = late[q],
           late' = late \/ (late'[p] = Command(p) /\ pc[p] \in CommandPCs)
    PROVE  LateInv'
  <1>1. CASE late' = late
    BY <1>1 DEF LateInv
  <1>2. CASE late'[p] = Command(p) /\ pc[p] \in CommandPCs
    <2>1. late'[p].step = pc[p] /\ late'[p].on = host[p]
      BY <1>2 DEF Command
    <2>2. CASE p = "adopt"
      BY <1>2, <2>1, <2>2 DEF LateInv, IInv, WorkInv
    <2>3. CASE p # "adopt"
      <3>1. pc[p] \in PromotePCs \cup EnablePCs /\ pc[p] \notin AdoptPCs
        BY <1>2, <2>3 DEF IInv, WorkInv, CommandPCs
      <3>2. host[p] \in Secondaries
        BY <2>3, <3>1, ParamAssumption DEF IInv, WorkInv
      <3> QED
        BY <1>2, <2>1, <2>3, <3>1, <3>2 DEF LateInv
    <2> QED
      BY <2>2, <2>3
  <1> QED
    BY <1>1, <1>2

\* Every step keeps what is known of the late commands.
LEMMA LateNextInv == IInv /\ LateInv /\ [Next]_vars => LateInv'
  <1> SUFFICES ASSUME IInv, LateInv, [Next]_vars PROVE LateInv'
    OBVIOUS
  <1>1. ASSUME UNCHANGED late PROVE LateInv'
    BY <1>1 DEF LateInv
  <1>2. ASSUME NEW p \in Procs, NEW l \in SendPCs, NEW n \in PCs, Remote(p, l, n)
        PROVE  LateInv'
    BY <1>2, RemoteFrame, LooseKeeps DEF IInv
  <1>3. ASSUME NEW p \in Procs, Cancel(p) \/ Crash(p) PROVE LateInv'
    BY <1>3, LooseFrame, LooseKeeps DEF Cancel, Crash, IInv
  <1>4. ASSUME NEW p \in Procs, Late(p) PROVE LateInv'
    BY <1>4 DEF Late, LateInv, IInv, TypeOK
  <1>5. ASSUME NEW p \in Procs, PromoteStep(p) PROVE LateInv'
    <2>1. CASE VerifyPrimaryDown(p) \/ VerifyDBKeyParity(p)
      BY <1>1, <2>1 DEF VerifyPrimaryDown, VerifyDBKeyParity
    <2>2. CASE PromotionCommand(p) \/ PromotionStart(p)
      <3>1. PICK l \in PastVerifyKey, n \in PromotePCs \cup {Idle(p)} : Remote(p, l, n)
        BY <2>2 DEF PromotionCommand, PromotionStart, Remote, PastVerifyKey, PastVerifyDown,
                    PromotePCs
      <3>2. l \in SendPCs /\ n \in PCs
        BY DEF PastVerifyKey, PastVerifyDown, PromotePCs, SendPCs, CommandPCs, PCs, Idle
      <3> QED
        BY <1>2, <3>1, <3>2
    <2> QED
      BY <1>5, <2>1, <2>2 DEF PromoteStep
  <1>6. ASSUME "serve" \in Procs, ServeEnable PROVE LateInv'
    <2>1. PICK l \in EnablePCs, n \in {ServeLoop, "enRegistry", "enSidekiq", "enStorages"} :
             Remote("serve", l, n)
      BY <1>6 DEF ServeEnable, Remote, EnablePCs
    <2>2. l \in SendPCs /\ n \in PCs
      BY DEF SendPCs, CommandPCs, EnablePCs, PCs, ServeLoop
    <2> QED
      BY <1>2, <1>6, <2>1, <2>2
  <1>7. ASSUME "adopt" \in Procs, AdoptCommand PROVE LateInv'
    <2>1. PICK l \in (EnablePCs \cup AdoptPCs) \ {"cleanup"}, n \in EnablePCs \cup AdoptPCs :
             Remote("adopt", l, n)
      BY <1>7 DEF AdoptCommand, EnablePCs, AdoptPCs
    <2>2. l \in SendPCs /\ n \in PCs
      BY DEF SendPCs, CommandPCs, EnablePCs, AdoptPCs, PCs
    <2> QED
      BY <1>2, <1>7, <2>1, <2>2
  <1>8. ASSUME NEW p \in Procs, ProcNext(p) PROVE LateInv'
    <2>1. CASE p = "serve"
      BY <1>1, <1>5, <1>6, <1>8, <2>1 DEF ProcNext, ServeNext, ServeStart, Check
    <2>2. CASE p = "failover"
      BY <1>1, <1>5, <1>8, <2>2 DEF ProcNext, FailoverNext, FailoverCmd
    <2>3. CASE p = "adopt"
      BY <1>1, <1>7, <1>8, <2>3 DEF ProcNext, AdoptNext, AdoptCmd, Cleanup
    <2> QED
      BY <2>1, <2>2, <2>3, ParamAssumption
  <1>9. CASE UNCHANGED vars \/ HealthChange \/ \E p \in Procs : Exit(p)
    BY <1>1, <1>9 DEF vars, HealthChange, Exit
  <1> QED
    BY <1>3, <1>4, <1>8, <1>9 DEF Next

\* Before any command has run nothing is under way.
LEMMA LateInitInv == Init => LateInv
  BY DEF Init, LateInv

\* The inductive invariant holds in every reachable state; the theorems below
\* read off its parts.
THEOREM Invariance == Spec => [](IInv /\ LateInv)
  BY InitInv, LateInitInv, NextInv, LateNextInv, PTL DEF Spec

\* Every variable of the failover flow keeps its type, whatever commands run
\* at the same time and wherever they fail, are cancelled or are killed.
THEOREM TypeCorrect == Spec => []TypeOK
  <1>1. IInv => TypeOK
    BY DEF IInv
  <1> QED
    BY <1>1, Invariance, PTL

\* No promotion gets past "verify primary down" without the evidence that
\* check and verifyPrimaryDown demand: for any quorum, any number of health
\* URLs and any interleaving.
THEOREM EvidenceTheorem == Spec => []PromotionNeedsEvidence
  <1>1. IInv => PromotionNeedsEvidence
    BY DEF IInv
  <1> QED
    BY <1>1, Invariance, PTL

\* An attempt that has seen a db_key_base mismatch changes no site.
THEOREM MismatchTheorem == Spec => []MismatchNeverPromoted
  <1>1. IInv => MismatchNeverPromoted
    BY DEF IInv
  <1> QED
    BY <1>1, Invariance, PTL

\* A dry run changes no site, and failover and adopt-as-secondary change one
\* only when sync.failover_enabled is set.
THEOREM PermissionTheorem == Spec => []OnlyAllowedChanges
  <1>1. IInv => OnlyAllowedChanges
    BY DEF IInv
  <1> QED
    BY <1>1, Invariance, PTL

\* Concurrent promotions of any sites, restarts of serve and a role-swap
\* never lift read-only mode from, or report complete, a secondary whose
\* PostgreSQL is not a primary.
THEOREM PromotionOrderTheorem == Spec => []WritableOnlyAfterPromotion
  <1>1. IInv => WritableOnlyAfterPromotion
    BY DEF IInv
  <1> QED
    BY <1>1, Invariance, PTL

=============================================================================
