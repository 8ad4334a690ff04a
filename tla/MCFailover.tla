----------------------------- MODULE MCFailover -----------------------------
(***************************************************************************)
(* Failover for TLC: three sites, two health URLs, and the configurations  *)
(* that make a difference.                                                 *)
(***************************************************************************)
EXTENDS Failover

CONSTANTS P, A, B, None

BaseConfig ==
    [failoverEnabled |-> TRUE, failoverSection |-> TRUE, autoFailover |-> TRUE,
     promoteSecondary |-> None, quorum |-> 2, readOnlySecondary |-> TRUE,
     password |-> TRUE, ssh |-> {P, A}, keyMatch |-> {A}]

OneSecondary == <<A>>
TwoSecondaries == <<A, B>>

\* One secondary: automatic promotion, where the keys differ unless they cannot
\* be read, with no quorum set; no failover section, equal keys and a serve that
\* enables read-only mode; a quorum of two and no automatic promotion; failover
\* disabled.
PromotionConfigs ==
    {[BaseConfig EXCEPT !.keyMatch = {}, !.readOnlySecondary = FALSE, !.quorum = 0],
     [BaseConfig EXCEPT !.failoverSection = FALSE],
     [BaseConfig EXCEPT !.autoFailover = FALSE, !.readOnlySecondary = FALSE],
     [BaseConfig EXCEPT !.failoverEnabled = FALSE, !.readOnlySecondary = FALSE]}

\* Equal keys and automatic promotion.
RoleSwapConfigs ==
    {BaseConfig, [BaseConfig EXCEPT !.failoverEnabled = FALSE]}

=============================================================================
