----------------------------- MODULE GitLabSite -----------------------------
(***************************************************************************)
(* The GitLab sites that syncctl drives over ssh, and what each remote     *)
(* command of the failover flow does to one of them.                       *)
(*                                                                         *)
(* syncctl keeps no state of its own about a site: everything it changes   *)
(* is changed by a command it sends.  An operator below stands for the     *)
(* command line that a step of internal/failover or internal/readonly      *)
(* sends, and yields the set of states the site may be in after the        *)
(* command has exited with status 0.  The empty set says that the command  *)
(* cannot succeed in this state (pg_ctl refuses to promote a server that   *)
(* is not a standby, pg_basebackup refuses a data directory that is not    *)
(* empty).                                                                 *)
(***************************************************************************)

SiteState ==
    [gitlab        : {"running", "stopped"},
     pg            : {"primary", "standby", "empty"},   \* role of PGDATA
     registryRO    : BOOLEAN,   \* registry read-only filter started
     sidekiqPaused : BOOLEAN,
     passfile      : BOOLEAN]   \* staged replication password on disk

-----------------------------------------------------------------------------
(* internal/failover: the commands of promotionSteps and AdoptAsSecondary. *)

\* sudo gitlab-ctl stop
GitlabStop(r) == {[r EXCEPT !.gitlab = "stopped"]}

\* sudo gitlab-ctl start
GitlabStart(r) == {[r EXCEPT !.gitlab = "running"]}

\* pg_ctl promote -D PGDATA
PgPromote(r) ==
    IF r.pg = "standby" THEN {[r EXCEPT !.pg = "primary"]} ELSE {}

\* checkRemotePGDataEmpty: rm -rf with --wipe-pgdata, otherwise only a look.  A
\* populated directory is an error of the step, but the exit status of ls is
\* lost in a pipe, so that one it cannot read passes as empty.
ClearPGData(r, wipe) ==
    {IF wipe THEN [r EXCEPT !.pg = "empty"] ELSE r}

\* writeRemotePassfile: nothing to stage without a password.
StagePassfile(r, password) ==
    IF password THEN {[r EXCEPT !.passfile = TRUE]} ELSE {r}

\* pg_basebackup -R into PGDATA, from a new primary that has data.
PgBasebackup(r, source) ==
    IF r.pg = "empty" /\ source.pg # "empty"
    THEN {[r EXCEPT !.pg = "standby"]} ELSE {}

\* removeRemotePassfile: rm -f
RemovePassfile(r) == {[r EXCEPT !.passfile = FALSE]}

-----------------------------------------------------------------------------
(* internal/readonly: the three commands of EnableWithConfig and           *)
(* DisableWithConfig.                                                      *)

RegistryReadonly(r, on) == {[r EXCEPT !.registryRO = on]}

SidekiqPause(r, on) == {[r EXCEPT !.sidekiqPaused = on]}

\* The rails runner ends in "|| true": it exits 0 whether or not the setting
\* was made, and no step depends on the setting, which is not followed.
ClearStorages(r) == {r}

\* A site in read-only mode, as far as the switch can see to it.
ReadOnly(r) == r.registryRO /\ r.sidekiqPaused

=============================================================================
