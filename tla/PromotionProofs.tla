--------------------------- MODULE PromotionProofs ---------------------------
(***************************************************************************)
(* The proof that the commands of Failover implement Promotion: the        *)
(* initial states map to an initial state, and every step of a command, of *)
(* the environment or of a crash maps to one step of the abstract          *)
(* specification or to none.  The invariant of FailoverProofs supplies     *)
(* what a step alone does not show: that an attempt works on a secondary,  *)
(* that GitLab is started only where PostgreSQL has been promoted, and     *)
(* which commands may still land after their ssh is gone.                  *)
(***************************************************************************)
EXTENDS FailoverProofs

-----------------------------------------------------------------------------
(* The mapping *)

\* A step of one process moves the phase and the target of that process only.
LEMMA MapsToOneAgent ==
    ASSUME NEW p \in Procs,
           \A q \in Procs \ {p} : pc'[q] = pc[q] /\ host'[q] = host[q]
    PROVE  /\ Phase' = [Phase EXCEPT ![p] = Phase'[p]]
           /\ Target' = [Target EXCEPT ![p] = Target'[p]]
  BY DEF Phase, Target, Attempting

\* While the PostgreSQL of no secondary changes its role, the roles of the
\* abstract specification stay as they are.
LEMMA MapsToSameRoles ==
    ASSUME \A s \in Secondaries : site'[s].pg = site[s].pg
    PROVE  Role' = Role
  BY DEF Role

\* A step that neither leaves a pg_ctl promote behind nor lets one land leaves
\* the pending promotions of the abstract specification as they are.
SamePending ==
    \A q \in Procs : late'[q] = late[q] \/ "promote" \notin {late'[q].step, late[q].step}

LEMMA MapsToSamePending ==
    ASSUME SamePending
    PROVE  Pending' = Pending
  BY DEF SamePending, Pending

\* Where a process stands, in terms of the abstract specification.
LEMMA PhaseFacts ==
    ASSUME NEW p \in Procs
    PROVE  /\ pc[p] \in PastVerifyKey <=> Phase[p] = "cleared"
           /\ pc[p] \in {"verifyDown", "verifyKey"} <=> Phase[p] = "checking"
           /\ pc[p] \notin PromotePCs <=> Phase[p] = "idle"
           /\ Phase[p] # "idle" => Target[p] = host[p]
           /\ Phase[p] = "idle" => Target[p] = NoName
  BY DEF Phase, Target, Attempting, PastVerifyKey, PastVerifyDown, PromotePCs

\* A step that neither touches an attempt nor a role nor the announcements
\* maps to no step.
LEMMA MapsToStutter ==
    ASSUME \A s \in Secondaries : site'[s].pg = site[s].pg,
           completed' = completed, SamePending,
           \A q \in Procs : \/ pc'[q] = pc[q] /\ host'[q] = host[q]
                            \/ pc[q] \notin PromotePCs /\ pc'[q] \notin PromotePCs
    PROVE  UNCHANGED Abstract!promotionVars
  <1>1. Role' = Role
    BY MapsToSameRoles
  <1>2. Phase' = Phase /\ Target' = Target
    BY DEF Phase, Target, Attempting, PastVerifyKey, PastVerifyDown
  <1> QED
    BY <1>1, <1>2, MapsToSamePending DEF Abstract!promotionVars

-----------------------------------------------------------------------------
(* The steps of an attempt *)

\* An attempt begins with the checks: a tick of the health loop or a failover
\* command moves from no attempt to "verify primary down", or stays out of it.
LEMMA EntryMaps ==
    ASSUME NEW p \in Procs, TypeOK', WorkInv',
           pc[p] \notin PromotePCs,
           pc'[p] \notin PromotePCs \/ pc'[p] = "verifyDown",
           \A q \in Procs \ {p} : pc'[q] = pc[q] /\ host'[q] = host[q],
           site' = site, completed' = completed, late' = late
    PROVE  [Abstract!Next]_Abstract!promotionVars
  <1>p. SamePending
    BY DEF SamePending
  <1>1. CASE pc'[p] \notin PromotePCs
    BY <1>1, <1>p, MapsToStutter
  <1>2. CASE pc'[p] = "verifyDown"
    <2>1. Phase[p] = "idle"
      BY PhaseFacts
    <2>2. Phase'[p] = "checking" /\ Target'[p] = host'[p]
      BY <1>2 DEF Phase, Target, Attempting, PastVerifyKey, PastVerifyDown, PromotePCs
    <2>3. host'[p] \in Secondaries
      BY <1>2 DEF WorkInv, PromotePCs
    <2>4. Abstract!Attempt(p, "checking", host'[p])
      BY <2>2, MapsToOneAgent DEF Abstract!Attempt
    <2>5. Role' = Role
      BY MapsToSameRoles
    <2>6. Abstract!Begin(p)
      BY <1>p, <2>1, <2>3, <2>4, <2>5, MapsToSamePending DEF Abstract!Begin
    <2> QED
      BY <2>6 DEF Abstract!Next
  <1> QED
    BY <1>1, <1>2

\* An attempt that ends without having done anything in this step is
\* abandoned: a failed check or command, an exit, a crash.
LEMMA AbandonMaps ==
    ASSUME NEW p \in Procs,
           pc[p] \in PromotePCs, pc'[p] \notin PromotePCs,
           \A q \in Procs \ {p} : pc'[q] = pc[q] /\ host'[q] = host[q],
           \A s \in Secondaries : site'[s].pg = site[s].pg,
           completed' = completed, SamePending
    PROVE  [Abstract!Next]_Abstract!promotionVars
  <1>1. Phase[p] # "idle"
    BY PhaseFacts
  <1>2. Phase'[p] = "idle" /\ Target'[p] = NoName
    BY DEF Phase, Target, Attempting, PastVerifyKey, PastVerifyDown
  <1>3. Abstract!Attempt(p, "idle", NoName)
    BY <1>2, MapsToOneAgent DEF Abstract!Attempt
  <1>4. Abstract!Abandon(p)
    BY <1>1, <1>3, MapsToSameRoles, MapsToSamePending DEF Abstract!Abandon
  <1> QED
    BY <1>4 DEF Abstract!Next

\* An ssh that is gone while pg_ctl promote is under way, because it failed, was
\* cancelled or killed, may leave the promotion to the site.
LEMMA LooseMaps ==
    ASSUME NEW p \in Procs,
           pc[p] = "promote", late[p] = NoCommand, late'[p] = Command(p),
           late \in [Procs -> Commands], late' \in [Procs -> Commands],
           \A q \in Procs \ {p} : pc'[q] = pc[q] /\ host'[q] = host[q] /\ late'[q] = late[q],
           (pc'[p] = pc[p] /\ host'[p] = host[p]) \/ pc'[p] \notin PromotePCs,
           site' = site, completed' = completed
    PROVE  [Abstract!Next]_Abstract!promotionVars
  <1>1. Phase[p] = "cleared" /\ Target[p] = host[p]
    <2>1. pc[p] \in PastVerifyKey
      BY DEF PastVerifyKey, PastVerifyDown, PromotePCs
    <2> QED
      BY <2>1, PhaseFacts
  <1>2. Pending[p] = NoName /\ Pending'[p] = host[p]
    BY DEF Pending, NoCommand, Command
  <1>3. Pending' = [Pending EXCEPT ![p] = Target[p]]
    BY <1>1, <1>2 DEF Pending
  <1>4. UNCHANGED <<Phase, Target>> \/ Abstract!Attempt(p, "idle", NoName)
    <2>1. CASE pc'[p] = pc[p] /\ host'[p] = host[p]
      BY <2>1 DEF Phase, Target, Attempting
    <2>2. CASE pc'[p] \notin PromotePCs
      <3>1. Phase'[p] = "idle" /\ Target'[p] = NoName
        BY <2>2 DEF Phase, Target, Attempting, PastVerifyKey, PastVerifyDown
      <3> QED
        BY <3>1, MapsToOneAgent DEF Abstract!Attempt
    <2> QED
      BY <2>1, <2>2
  <1>5. Abstract!Loose(p)
    BY <1>1, <1>2, <1>3, <1>4, MapsToSameRoles DEF Abstract!Loose
  <1> QED
    BY <1>5 DEF Abstract!Next

\* A command that lands after its ssh is gone promotes a secondary only if it is
\* the pg_ctl promote of an attempt that was cleared for it.
LEMMA LateMaps ==
    ASSUME IInv, LateInv, NEW p \in Procs, Late(p)
    PROVE  [Abstract!Next]_Abstract!promotionVars
  <1> DEFINE c == late[p]
  <1>1. /\ c \in Commands /\ c # NoCommand /\ c.on \in Sites
        /\ site \in [Sites -> SiteState] /\ late \in [Procs -> Commands]
        /\ pc' = pc /\ host' = host /\ completed' = completed
    BY DEF Late, IInv, TypeOK, Commands, ctl
  <1>2. late'[p] = NoCommand /\ \A q \in Procs \ {p} : late'[q] = late[q]
    BY <1>1 DEF Late
  <1>3. /\ \A s \in Sites \ {c.on} : site'[s] = site[s]
        /\ site'[c.on] \in Effects(c) \cup {site[c.on]}
    BY <1>1 DEF Late
  <1>4. CASE c.step = "promote"
    <2>1. c.on \in Secondaries
      BY <1>1, <1>4 DEF LateInv, PromotePCs
    <2>2. Pending[p] = c.on /\ Pending'[p] = NoName /\ c.on # NoName
      BY <1>2, <1>4, <2>1, SitesAssumption, SecondariesFacts DEF Pending, NoCommand
    <2>3. Pending' = [Pending EXCEPT ![p] = NoName]
      BY <1>2, <2>2 DEF Pending
    <2>4. \/ site'[c.on].pg = site[c.on].pg
          \/ site[c.on].pg = "standby" /\ site'[c.on].pg = "primary"
      <3>1. \A q \in PgPromote(site[c.on]) : site[c.on].pg = "standby" /\ q.pg = "primary"
        BY <1>1 DEF PgPromote, SiteState
      <3> QED
        BY <1>3, <1>4, <3>1, EffectsOf
    <2>5. \/ UNCHANGED Role
          \/ Role[c.on] = "standby" /\ Role' = [Role EXCEPT ![c.on] = "primary"]
      BY <1>3, <2>1, <2>4, SecondariesFacts DEF Role
    <2>6. UNCHANGED <<Phase, Target>>
      BY <1>1 DEF Phase, Target, Attempting
    <2>7. Abstract!Land(p)
      BY <1>1, <2>2, <2>3, <2>5, <2>6 DEF Abstract!Land
    <2> QED
      BY <2>7 DEF Abstract!Next
  <1>5. CASE c.step # "promote"
    <2>1. SamePending
      BY <1>2, <1>5 DEF SamePending, NoCommand
    <2>2. \A s \in Secondaries : site'[s].pg = site[s].pg
      <3>1. CASE p = "adopt"
        BY <1>1, <1>3, <3>1, SecondariesFacts, SitesAssumption DEF LateInv
      <3>2. CASE p # "adopt"
        <4>1. c.step \in SendPCs \ AdoptPCs
          BY <1>1, <3>2 DEF LateInv, SendPCs
        <4>2. \A q \in Effects(c) : q.pg = site[c.on].pg
          BY <1>1, <1>5, <4>1, EffectsRole
        <4> QED
          BY <1>3, <4>2, SecondariesFacts
      <3> QED
        BY <3>1, <3>2
    <2> QED
      BY <1>1, <2>1, <2>2, MapsToStutter
  <1> QED
    BY <1>4, <1>5

\* A step from one check to the next, or from one command to the next, that
\* changes no role maps to no step.
LEMMA AdvanceMaps ==
    ASSUME NEW p \in Procs,
           \/ pc[p] \in PastVerifyKey /\ pc'[p] \in PastVerifyKey
           \/ /\ pc[p] \in {"verifyDown", "verifyKey"}
              /\ pc'[p] \in {"verifyDown", "verifyKey"},
           \A q \in Procs \ {p} : pc'[q] = pc[q],
           host' = host,
           \A s \in Secondaries : site'[s].pg = site[s].pg,
           completed' = completed, late' = late
    PROVE  UNCHANGED Abstract!promotionVars
  <1>1. Phase' = Phase /\ Target' = Target
    BY DEF Phase, Target, Attempting, PastVerifyKey, PastVerifyDown, PromotePCs
  <1> QED
    BY <1>1, MapsToSameRoles, MapsToSamePending DEF Abstract!promotionVars, SamePending

\* The comparison of the keys clears the attempt.
LEMMA ClearMaps ==
    ASSUME NEW p \in Procs,
           pc[p] = "verifyKey", pc'[p] = "stop",
           \A q \in Procs \ {p} : pc'[q] = pc[q],
           host' = host, site' = site, completed' = completed, late' = late
    PROVE  [Abstract!Next]_Abstract!promotionVars
  <1>1. Phase[p] = "checking" /\ Target[p] = host[p]
    BY PhaseFacts
  <1>2. Phase'[p] = "cleared" /\ Target'[p] = host[p]
    BY DEF Phase, Target, Attempting, PastVerifyKey, PastVerifyDown, PromotePCs
  <1>3. Abstract!Attempt(p, "cleared", Target[p])
    BY <1>1, <1>2, MapsToOneAgent DEF Abstract!Attempt
  <1>4. Abstract!Clear(p)
    BY <1>1, <1>3, MapsToSameRoles, MapsToSamePending DEF Abstract!Clear, SamePending
  <1> QED
    BY <1>4 DEF Abstract!Next

\* What a command of a promotion does, in terms of the abstract specification:
\* only pg_ctl promote changes the role of PostgreSQL, and only that of the
\* site the attempt is for, from standby to primary.
LEMMA CommandRole ==
    ASSUME IInv, NEW p \in Procs, PromotionCommand(p) \/ PromotionStart(p)
    PROVE  /\ pc[p] \in PastVerifyKey
           /\ pc'[p] \in PastVerifyKey \cup {Idle(p)}
           /\ host[p] \in Secondaries
           /\ \A s \in Sites \ {host[p]} : site'[s] = site[s]
           /\ \/ site'[host[p]].pg = site[host[p]].pg
              \/ /\ pc[p] = "promote"
                 /\ site[host[p]].pg = "standby" /\ site'[host[p]].pg = "primary"
           /\ late' \in [Procs -> Commands]
           /\ \A q \in Procs \ {p} : late'[q] = late[q]
           /\ late' # late => /\ late[p] = NoCommand /\ late'[p] = Command(p)
                              /\ site' = site /\ pc'[p] = Idle(p)
  <1>1. PICK l \in PastVerifyKey, n \in PastVerifyKey \cup {Idle(p)} : Remote(p, l, n)
    BY DEF PromotionCommand, PromotionStart, Remote, PastVerifyKey, PastVerifyDown, PromotePCs
  <1>2. l \in SendPCs \ AdoptPCs /\ n \in PCs /\ (pc[p] = l => OnError(p) = Idle(p))
    BY DEF PCs, PastVerifyKey, PastVerifyDown, PromotePCs, AdoptPCs, SendPCs, CommandPCs,
           OnError, Idle
  <1>3. /\ pc[p] = l /\ pc'[p] \in {n, OnError(p)}
        /\ \A s \in Sites \ {host[p]} : site'[s] = site[s]
        /\ site'[host[p]] \in Effects(Command(p)) \cup {site[host[p]]}
        /\ late' \in [Procs -> Commands]
        /\ \A q \in Procs \ {p} : late'[q] = late[q]
        /\ late' = late \/ late'[p] = Command(p)
        /\ late' # late => site' = site /\ late[p] = NoCommand /\ pc'[p] = OnError(p)
    BY <1>1, <1>2, RemoteFrame DEF IInv
  <1>4. host[p] \in Secondaries
    BY <1>3 DEF IInv, WorkInv, PastVerifyKey, PastVerifyDown
  <1>5. \/ site'[host[p]].pg = site[host[p]].pg
        \/ /\ l = "promote"
           /\ site[host[p]].pg = "standby" /\ site'[host[p]].pg = "primary"
    <2>1. Command(p).step = l /\ Command(p).on = host[p] /\ host[p] \in Sites
      BY <1>3, <1>4, SecondariesFacts DEF Command
    <2>2. \A q \in Effects(Command(p)) :
             \/ q.pg = site[host[p]].pg
             \/ l = "promote" /\ site[host[p]].pg = "standby" /\ q.pg = "primary"
      BY <1>2, <2>1, EffectsRole DEF IInv, TypeOK
    <2> QED
      BY <1>3, <2>2
  <1> QED
    BY <1>2, <1>3, <1>4, <1>5

-----------------------------------------------------------------------------

\* Every step of a promotion, succeeding or failing, maps to one step of the
\* abstract specification or to none.
LEMMA PromoteStepMaps ==
    ASSUME IInv, NEW p \in Procs, PromoteStep(p)
    PROVE  [Abstract!Next]_Abstract!promotionVars
  <1>f. /\ pc[p] \in PromotePCs
        /\ \A q \in Procs \ {p} : pc'[q] = pc[q]
        /\ host' = host
    BY PromoteFrame DEF IInv
  <1>i. Idle(p) \notin PromotePCs
    BY DEF Idle, PromotePCs
  <1>e. OnError(p) = Idle(p)
    BY <1>f DEF OnError
  <1>1. CASE VerifyPrimaryDown(p)
    <2>1. /\ pc[p] = "verifyDown" /\ pc'[p] \in {"verifyKey", Idle(p)}
          /\ site' = site /\ completed' = completed /\ late' = late
      BY <1>1, <1>e DEF VerifyPrimaryDown, Goto, IInv, TypeOK
    <2>2. CASE pc'[p] = "verifyKey"
      BY <1>f, <2>1, <2>2, AdvanceMaps
    <2>3. CASE pc'[p] = Idle(p)
      BY <1>f, <1>i, <2>1, <2>3, AbandonMaps DEF SamePending
    <2> QED
      BY <2>1, <2>2, <2>3
  <1>2. CASE VerifyDBKeyParity(p)
    <2>1. /\ pc[p] = "verifyKey" /\ pc'[p] \in {"stop", Idle(p)}
          /\ site' = site /\ completed' = completed /\ late' = late
      BY <1>2, <1>e DEF VerifyDBKeyParity, Goto, IInv, TypeOK
    <2>2. CASE pc'[p] = "stop"
      BY <1>f, <2>1, <2>2, ClearMaps
    <2>3. CASE pc'[p] = Idle(p)
      BY <1>f, <1>i, <2>1, <2>3, AbandonMaps DEF SamePending
    <2> QED
      BY <2>1, <2>2, <2>3
  <1>3. CASE PromotionCommand(p) \/ PromotionStart(p)
    <2>c. /\ pc[p] \in PastVerifyKey
          /\ pc'[p] \in PastVerifyKey \cup {Idle(p)}
          /\ host[p] \in Secondaries
          /\ \A s \in Sites \ {host[p]} : site'[s] = site[s]
          /\ \/ site'[host[p]].pg = site[host[p]].pg
             \/ /\ pc[p] = "promote"
                /\ site[host[p]].pg = "standby" /\ site'[host[p]].pg = "primary"
          /\ late' \in [Procs -> Commands]
          /\ \A q \in Procs \ {p} : late'[q] = late[q]
          /\ late' # late => /\ late[p] = NoCommand /\ late'[p] = Command(p)
                             /\ site' = site /\ pc'[p] = Idle(p)
      BY <1>3, CommandRole
    <2>s. Secondaries \subseteq Sites
      BY SecondariesFacts
    <2>p. Phase[p] = "cleared" /\ Target[p] = host[p]
      BY <2>c, PhaseFacts
    <2>n. pc'[p] = Idle(p) => Abstract!Attempt(p, "idle", NoName)
      <3>1. pc'[p] = Idle(p) => Phase'[p] = "idle" /\ Target'[p] = NoName
        BY <1>i DEF Phase, Target, Attempting, PastVerifyKey, PastVerifyDown
      <3> QED
        BY <1>f, <3>1, MapsToOneAgent DEF Abstract!Attempt
    <2>1. CASE completed' = completed /\ site'[host[p]].pg = site[host[p]].pg
      <3>1. \A s \in Secondaries : site'[s].pg = site[s].pg
        BY <2>c, <2>s, <2>1
      <3>2. CASE pc'[p] \in PastVerifyKey
        <4>1. late' = late
          BY <1>i, <2>c, <3>2 DEF PastVerifyKey, PastVerifyDown
        <4> QED
          BY <1>f, <2>c, <2>1, <3>1, <3>2, <4>1, AdvanceMaps
      <3>3. CASE pc'[p] = Idle(p) /\ SamePending
        BY <1>f, <1>i, <2>1, <3>1, <3>3, AbandonMaps
      <3>4. CASE pc'[p] = Idle(p) /\ ~SamePending
        <4>1. late' # late
          BY <3>4 DEF SamePending
        <4>2. pc[p] = "promote"
          <5>1. late[p].step # "promote"
            BY <2>c, <4>1 DEF NoCommand
          <5>2. late'[p].step = pc[p]
            BY <2>c, <4>1 DEF Command
          <5> QED
            BY <2>c, <3>4, <5>1, <5>2 DEF SamePending
        <4>3. late \in [Procs -> Commands]
          BY DEF IInv, TypeOK
        <4> QED
          BY <1>f, <1>i, <2>c, <2>1, <3>4, <4>1, <4>2, <4>3, LooseMaps
      <3> QED
        BY <2>c, <3>2, <3>3, <3>4
    <2>2. CASE pc[p] = "promote" /\ site[host[p]].pg = "standby" /\ site'[host[p]].pg = "primary"
      <3>1. completed' = completed /\ late' = late /\ pc'[p] \in PastVerifyKey
        <4>1. completed' = completed
          BY <1>3, <2>2 DEF PromotionCommand, PromotionStart, Succeed, Fail
        <4>2. late' = late
          BY <2>c, <2>2
        <4>3. pc'[p] = "disRegistry"
          BY <1>3, <2>2 DEF PromotionCommand, PromotionStart, Remote, Succeed, Fail, Goto,
                            IInv, TypeOK
        <4> QED
          BY <4>1, <4>2, <4>3 DEF PastVerifyKey, PastVerifyDown, PromotePCs
      <3>2. Role' = [Role EXCEPT ![host[p]] = "primary"]
        BY <2>c, <2>s, <2>2 DEF Role
      <3>3. Role[host[p]] = "standby"
        BY <2>c, <2>2 DEF Role
      <3>4. UNCHANGED <<Phase, Target, Pending>>
        <4>1. UNCHANGED <<Phase, Target>>
          BY <1>f, <2>c, <3>1
          DEF Phase, Target, Attempting, PastVerifyKey, PastVerifyDown, PromotePCs
        <4> QED
          BY <3>1, <4>1, MapsToSamePending DEF SamePending
      <3>5. Abstract!Promote(p)
        BY <2>c, <2>p, <3>1, <3>2, <3>3, <3>4 DEF Abstract!Promote
      <3> QED
        BY <3>5 DEF Abstract!Next
    <2>3. CASE completed' # completed
      <3>1. /\ Succeed(p, "start", Idle(p))
            /\ completed' = completed \cup {host[p]}
        BY <1>3, <2>3 DEF PromotionCommand, PromotionStart
      <3>2. pc[p] = "start" /\ pc'[p] = Idle(p) /\ late' = late
        BY <3>1 DEF Succeed, Goto, IInv, TypeOK
      <3>3. site[host[p]].pg = "primary"
        BY <3>2 DEF IInv, WritableOnlyAfterPromotion
      <3>4. site'[host[p]].pg = site[host[p]].pg
        BY <2>c, <3>2
      <3>5. Role' = Role
        BY <2>c, <2>s, <3>4, MapsToSameRoles
      <3>6. Role[host[p]] = "primary"
        BY <2>c, <3>3 DEF Role
      <3>7. Pending' = Pending
        BY <3>2, MapsToSamePending DEF SamePending
      <3>8. Abstract!Announce(p)
        BY <2>p, <2>n, <3>1, <3>2, <3>5, <3>6, <3>7 DEF Abstract!Announce
      <3> QED
        BY <3>8 DEF Abstract!Next
    <2> QED
      BY <2>c, <2>1, <2>2, <2>3
  <1> QED
    BY <1>1, <1>2, <1>3 DEF PromoteStep

-----------------------------------------------------------------------------
(* The other steps *)

\* Read-only mode is no part of an attempt and leaves the role of every
\* PostgreSQL alone.
LEMMA ServeEnableMaps ==
    ASSUME IInv, "serve" \in Procs, ServeEnable
    PROVE  UNCHANGED Abstract!promotionVars
  <1> DEFINE p == "serve"
  <1>1. PICK l \in EnablePCs, n \in {ServeLoop, "enRegistry", "enSidekiq", "enStorages"} :
           Remote(p, l, n)
    BY DEF ServeEnable, Remote, EnablePCs
  <1>3. /\ l \in SendPCs \ AdoptPCs /\ n \in PCs /\ n \notin PromotePCs
        /\ l # "promote" /\ (pc[p] = l => OnError(p) = "done")
    BY DEF PCs, EnablePCs, AdoptPCs, SendPCs, CommandPCs, ServeLoop, OnError, PromotePCs
  <1>4. /\ pc[p] = l /\ pc'[p] \in {n, OnError(p)}
        /\ \A q \in Procs \ {p} : pc'[q] = pc[q] /\ late'[q] = late[q]
        /\ \A s \in Sites \ {host[p]} : site'[s] = site[s]
        /\ site'[host[p]] \in Effects(Command(p)) \cup {site[host[p]]}
        /\ late' = late \/ late'[p] = Command(p)
        /\ late' # late => late[p] = NoCommand
    BY <1>1, <1>3, RemoteFrame DEF IInv
  <1>5. pc[p] \notin PromotePCs /\ pc'[p] \notin PromotePCs
    BY <1>3, <1>4 DEF EnablePCs, PromotePCs
  <1>6. \A q \in Procs \ {p} : host'[q] = host[q]
    BY DEF ServeEnable, IInv, TypeOK
  <1>7. \A s \in Secondaries : site'[s].pg = site[s].pg
    <2>1. Command(p).step = l /\ Command(p).on = host[p] /\ host[p] \in Sites
      BY <1>4 DEF Command, IInv, TypeOK
    <2>2. \A q \in Effects(Command(p)) : q.pg = site[host[p]].pg
      BY <1>3, <2>1, EffectsRole DEF IInv, TypeOK
    <2> QED
      BY <1>4, <2>2, SecondariesFacts
  <1>8. completed' = completed
    BY DEF ServeEnable
  <1>9. SamePending
    BY <1>3, <1>4 DEF SamePending, Command, NoCommand
  <1> QED
    BY <1>4, <1>5, <1>6, <1>7, <1>8, <1>9, MapsToStutter

\* adopt-as-secondary works on the old primary only.
LEMMA AdoptMaps ==
    ASSUME IInv, "adopt" \in Procs, AdoptCmd \/ AdoptCommand \/ Cleanup
    PROVE  UNCHANGED Abstract!promotionVars
  <1> DEFINE p == "adopt"
  <1>h. host[p] = Primary /\ Primary \notin Secondaries
    BY SitesAssumption DEF IInv, WorkInv
  <1>1. \A s \in Secondaries : site'[s] = site[s]
    <2>1. CASE AdoptCmd
      BY <2>1 DEF AdoptCmd
    <2>2. CASE Cleanup
      <3>1. site' = site \/ \E r : site' = [site EXCEPT ![host[p]] = r]
        BY <2>2 DEF Cleanup
      <3> QED
        BY <1>h, <3>1, SecondariesFacts DEF IInv, TypeOK
    <2>3. CASE AdoptCommand
      <3>1. PICK l, n : Remote(p, l, n)
        BY <2>3, Zenon DEF AdoptCommand
      <3>2. site' = site \/ \E r : site' = [site EXCEPT ![host[p]] = r]
        BY <3>1 DEF Remote, Succeed, Fail, SetSite
      <3> QED
        BY <1>h, <3>2, SecondariesFacts DEF IInv, TypeOK
    <2> QED
      BY <2>1, <2>2, <2>3
  <1>2. completed' = completed
    BY DEF AdoptCmd, AdoptCommand, Cleanup
  <1>3. \A q \in Procs \ {p} : pc'[q] = pc[q] /\ host'[q] = host[q]
    BY DEF AdoptCmd, AdoptCommand, Cleanup, Remote, Succeed, Fail, Goto, IInv, TypeOK
  <1>4. IInv'
    BY AdoptCmdInv, AdoptCommandInv, CleanupInv
  <1>5. pc[p] \notin PromotePCs /\ pc'[p] \notin PromotePCs
    BY <1>4 DEF IInv, WorkInv
  <1>6. SamePending
    <2>1. CASE AdoptCmd \/ Cleanup
      BY <2>1 DEF AdoptCmd, Cleanup, SamePending
    <2>2. CASE AdoptCommand
      <3>1. PICK l \in (EnablePCs \cup AdoptPCs) \ {"cleanup"}, n \in EnablePCs \cup AdoptPCs :
               Remote(p, l, n)
        BY <2>2 DEF AdoptCommand, EnablePCs, AdoptPCs
      <3>2. l \in SendPCs /\ n \in PCs /\ l # "promote"
        BY DEF EnablePCs, AdoptPCs, SendPCs, CommandPCs, PCs
      <3>3. /\ pc[p] = l /\ \A q \in Procs \ {p} : late'[q] = late[q]
            /\ late' = late \/ late'[p] = Command(p)
            /\ late' # late => late[p] = NoCommand
        BY <3>1, <3>2, RemoteFrame DEF IInv
      <3> QED
        BY <3>2, <3>3 DEF SamePending, Command, NoCommand
    <2> QED
      BY <2>1, <2>2
  <1> QED
    BY <1>1, <1>2, <1>3, <1>5, <1>6, MapsToStutter

\* A process that exits or is killed abandons its attempt, if it has one; one
\* that is killed or cancelled may leave its promotion to the site.
LEMMA GoneMaps ==
    ASSUME IInv, NEW p \in Procs, Exit(p) \/ Cancel(p) \/ Crash(p)
    PROVE  [Abstract!Next]_Abstract!promotionVars
  <1>1. /\ (pc'[p] = pc[p] /\ host'[p] = host[p]) \/ pc'[p] = "off"
        /\ \A q \in Procs \ {p} : pc'[q] = pc[q] /\ host'[q] = host[q]
        /\ site' = site /\ completed' = completed
    BY DEF Exit, Cancel, Crash, Gone, Goto, IInv, TypeOK
  <1>2. "off" \notin PromotePCs
    BY DEF PromotePCs
  <1>3. /\ late \in [Procs -> Commands] /\ late' \in [Procs -> Commands]
        /\ \A q \in Procs \ {p} : late'[q] = late[q]
        /\ late' = late \/ (late'[p] = Command(p) /\ late[p] = NoCommand)
    BY LooseFrame DEF Exit, Cancel, Crash, IInv, TypeOK
  <1>4. CASE SamePending /\ pc[p] \in PromotePCs /\ pc'[p] = "off"
    BY <1>1, <1>2, <1>4, AbandonMaps
  <1>5. CASE SamePending /\ ~(pc[p] \in PromotePCs /\ pc'[p] = "off")
    BY <1>1, <1>2, <1>5, MapsToStutter
  <1>6. CASE ~SamePending
    <2>1. late'[p] = Command(p) /\ late[p] = NoCommand
      BY <1>3, <1>6 DEF SamePending
    <2>2. pc[p] = "promote"
      BY <1>3, <1>6, <2>1 DEF SamePending, Command, NoCommand
    <2> QED
      BY <1>1, <1>2, <1>3, <2>1, <2>2, LooseMaps
  <1> QED
    BY <1>4, <1>5, <1>6

\* The start of serve, a tick of its health loop and the start of failover.
LEMMA StartMaps ==
    ASSUME IInv, \/ "serve" \in Procs /\ (ServeStart \/ Check)
                 \/ "failover" \in Procs /\ FailoverCmd
    PROVE  [Abstract!Next]_Abstract!promotionVars
  <1>1. CASE "serve" \in Procs /\ ServeStart
    <2>1. /\ pc["serve"] = "off"
          /\ pc'["serve"] \in {"enRegistry", "wait", "serving"}
          /\ \A q \in Procs \ {"serve"} : pc'[q] = pc[q] /\ host'[q] = host[q]
          /\ site' = site /\ completed' = completed /\ late' = late
      BY <1>1 DEF ServeStart, ServeLoop, Goto, IInv, TypeOK, hist
    <2> QED
      BY <1>1, <2>1, MapsToStutter DEF PromotePCs, SamePending
  <1>2. CASE "serve" \in Procs /\ Check
    <2>1. /\ pc["serve"] = "wait"
          /\ pc'["serve"] \in {"wait", "verifyDown"}
          /\ \A q \in Procs \ {"serve"} : pc'[q] = pc[q] /\ host'[q] = host[q]
          /\ site' = site /\ completed' = completed /\ late' = late
      BY <1>2 DEF Check, CheckFailed, CheckAnswered, PromoteEntry, Idle, Goto, IInv, TypeOK
    <2>2. IInv'
      BY <1>2, CheckInv
    <2> QED
      BY <1>2, <2>1, <2>2, EntryMaps DEF PromotePCs, IInv
  <1>3. CASE "failover" \in Procs /\ FailoverCmd
    <2>1. /\ pc["failover"] = "off"
          /\ pc'["failover"] \in {"done", "verifyDown"}
          /\ \A q \in Procs \ {"failover"} : pc'[q] = pc[q] /\ host'[q] = host[q]
          /\ site' = site /\ completed' = completed /\ late' = late
      BY <1>3 DEF FailoverCmd, PromoteEntry, Idle, Goto, IInv, TypeOK, hist
    <2>2. IInv'
      BY <1>3, FailoverCmdInv
    <2> QED
      BY <1>3, <2>1, <2>2, EntryMaps DEF PromotePCs, IInv
  <1> QED
    BY <1>1, <1>2, <1>3

-----------------------------------------------------------------------------
(* The refinement *)

\* Before any command has run there is no attempt and every secondary is a
\* standby.
LEMMA InitMaps == Init => Abstract!Init
  <1> SUFFICES ASSUME Init PROVE Abstract!Init
    OBVIOUS
  <1>1. \A s \in Secondaries : site[s].pg = "standby"
    BY SecondariesFacts, SitesAssumption DEF Init
  <1>2. \A p \in Procs : pc[p] = "off"
    BY DEF Init
  <1> QED
    BY <1>1, <1>2
    DEF Init, Abstract!Init, Role, Phase, Target, Pending, NoCommand, Attempting,
        PastVerifyKey, PastVerifyDown, PromotePCs

\* Every step maps to one step of the abstract specification or to none.
LEMMA NextMaps == IInv /\ LateInv /\ [Next]_vars => [Abstract!Next]_Abstract!promotionVars
  <1> SUFFICES ASSUME IInv, LateInv, [Next]_vars
               PROVE  [Abstract!Next]_Abstract!promotionVars
    OBVIOUS
  <1>1. CASE HealthChange \/ UNCHANGED vars
    BY <1>1, MapsToStutter DEF HealthChange, vars, ctl, hist, SamePending
  <1>2. ASSUME NEW p \in Procs, ProcNext(p)
        PROVE  [Abstract!Next]_Abstract!promotionVars
    <2>1. CASE p = "serve"
      BY <1>2, <2>1, StartMaps, ServeEnableMaps, PromoteStepMaps DEF ProcNext, ServeNext
    <2>2. CASE p = "failover"
      BY <1>2, <2>2, StartMaps, PromoteStepMaps DEF ProcNext, FailoverNext
    <2>3. CASE p = "adopt"
      BY <1>2, <2>3, AdoptMaps DEF ProcNext, AdoptNext
    <2> QED
      BY <2>1, <2>2, <2>3, ParamAssumption
  <1> QED
    BY <1>1, <1>2, GoneMaps, LateMaps DEF Next

\* serve, failover and adopt-as-secondary, however many secondaries there are
\* and whatever runs, fails, is cancelled or is killed at the same time,
\* implement the abstract promotion: the sequence that Promote runs and the
\* guards in front of it keep what Promotion states.
THEOREM PromotionTheorem == Spec => ImplementsPromotion
  <1>1. Spec => Abstract!Init
    BY InitMaps DEF Spec
  <1>2. Spec => [][Abstract!Next]_Abstract!promotionVars
    BY Invariance, NextMaps, PTL DEF Spec
  <1> QED
    BY <1>1, <1>2 DEF ImplementsPromotion, Abstract!Spec

=============================================================================
