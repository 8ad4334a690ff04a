------------------------------ MODULE MCMirror ------------------------------
(***************************************************************************)
(* Mirror for TLC: the sites and the configurations of MCFailover, serve   *)
(* on the host of the first secondary.                                     *)
(***************************************************************************)
EXTENDS Mirror

CONSTANTS P, A, B, None

BaseConfig ==
    [failoverEnabled |-> TRUE, failoverSection |-> TRUE, autoFailover |-> TRUE,
     promoteSecondary |-> None, quorum |-> 2, readOnlySecondary |-> FALSE,
     password |-> TRUE, ssh |-> {P, A, B}, keyMatch |-> {A}]

TwoSecondaries == <<A, B>>

\* A promotion of the secondary that is named, no choice made, no automatic
\* promotion, no failover section, no ssh_host for the primary or for the
\* target, a quorum that is not set and one that cannot be reached, failover
\* disabled.
MirrorConfigs ==
    {[BaseConfig EXCEPT !.promoteSecondary = A],
     [BaseConfig EXCEPT !.quorum = 0],
     [BaseConfig EXCEPT !.autoFailover = FALSE, !.readOnlySecondary = TRUE],
     [BaseConfig EXCEPT !.failoverSection = FALSE],
     [BaseConfig EXCEPT !.ssh = {A, B}, !.promoteSecondary = A],
     [BaseConfig EXCEPT !.ssh = {P, B}, !.promoteSecondary = A],
     [BaseConfig EXCEPT !.quorum = 3, !.promoteSecondary = A],
     [BaseConfig EXCEPT !.failoverEnabled = FALSE]}

\* The commands are used by themselves: serve under every configuration, the
\* others where it makes a difference to them.
Alone ==
    [cast : {{"serve"}}, cfg : MirrorConfigs] \cup
    [cast : {{"failover"}}, cfg : {c \in MirrorConfigs : ~c.failoverSection}] \cup
    [cast : {{"adopt"}}, cfg : {c \in MirrorConfigs : c.quorum = 0 \/ ~c.failoverEnabled}]

=============================================================================
