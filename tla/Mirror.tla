------------------------------- MODULE Mirror -------------------------------
(***************************************************************************)
(* The commands of module Failover together with the mirror that serve     *)
(* keeps running beside them: the git rsync reconciler of                  *)
(* internal/reconciler/gitrsync, and the users of the sites.               *)
(*                                                                         *)
(* The reconcilers are built once, when serve starts, from the roles the   *)
(* configuration gives to the sites.  rsync reads the configured primary   *)
(* over ssh and writes to a local path, so the copy it keeps is the one of *)
(* the host that serve runs on.  A promotion changes none of this.         *)
(***************************************************************************)
EXTENDS Failover

CONSTANTS
    Here,          \* the secondary on whose host serve runs
    Scenarios      \* bound: which commands are used, one after the other, under
                   \* which configuration; without serve the repositories rest

ASSUME HereAssumption ==
    /\ Here \in Secondaries
    /\ Scenarios \subseteq [cast : SUBSET Procs, cfg : Configs]

VARIABLES
    cast,     \* the commands that are used
    content,  \* [Sites -> the repositories under repos_path]; a repository is
              \* named after the site it was created on, one for each site
    pulling   \* <<>>, or <<what the rsync that is running makes of the copy>>

mirrorVars == <<vars, cast, content, pulling>>

MirrorInit ==
    /\ Init
    /\ cast \in SUBSET Procs
    /\ [cast |-> cast, cfg |-> cfg] \in Scenarios
    /\ content = [s \in Sites |-> {Primary}]
    /\ pulling = <<>>

\* Users create a repository, or delete one, on a site that runs GitLab on a
\* database that takes writes; read-only mode does not keep git from pushing.
Edit(s) ==
    /\ "serve" \in cast
    /\ site[s].gitlab = "running" /\ site[s].pg = "primary"
    /\ \/ content' = [content EXCEPT ![s] = @ \cup {s}]
       \/ \E r \in content[s] : content' = [content EXCEPT ![s] = @ \ {r}]
    /\ UNCHANGED <<vars, cast, pulling>>

\* The runner sweeps from the time the read-only switch is done to the end
\* of serve, whatever the failover controller is at.
Sweeping == pc["serve"] \in {"wait", "serving"} \cup PromotePCs

\* Mutant: rsync without --delete.
RsyncKeeps == content[Here] \cup content[Primary]

\* rsync --delete: an exact mirror of the source, as it is when rsync lists it.
Rsync == content[Primary]

\* Reconcile: an unset ssh_host is an error, a dry run transfers nothing.  The
\* sweep waits for rsync, and no timeout ends one that hangs.
MirrorStart ==
    /\ "serve" \in Procs /\ Sweeping /\ pulling = <<>>
    /\ Primary \in cfg.ssh /\ ~opt["serve"].dry /\ ~cancelled["serve"]
    /\ pulling' = <<Rsync>>
    /\ UNCHANGED <<vars, cast, content>>

MirrorGit ==
    /\ pulling # <<>> /\ ~cancelled["serve"]
    /\ content' = [content EXCEPT ![Here] = pulling[1]]
    /\ pulling' = <<>>
    /\ UNCHANGED <<vars, cast>>

\* An rsync that fails or is killed has dealt with some of the repositories.
MirrorGitFails ==
    /\ pulling # <<>>
    /\ \E c \in SUBSET (content[Here] \cup pulling[1]) :
          /\ content[Here] \cap pulling[1] \subseteq c
          /\ content' = [content EXCEPT ![Here] = c]
    /\ pulling' = <<>>
    /\ UNCHANGED <<vars, cast>>

OneAtATime ==
    \A p, q \in {r \in Procs : pc[r] # "off"} : p \in cast /\ p = q

\* The end of serve is the end of its rsync.
MirrorNext ==
    \/ /\ Next /\ UNCHANGED <<cast, content>> /\ OneAtATime'
       /\ pulling' = IF "serve" \in Procs /\ Sweeping' THEN pulling ELSE <<>>
    \/ \E s \in Sites : Edit(s)
    \/ MirrorStart
    \/ MirrorGit
    \/ MirrorGitFails

MirrorSpec == MirrorInit /\ [][MirrorNext]_mirrorVars

\* Nothing is assumed of rsync: it may fail or hang every time.
FairMirrorSpec == MirrorSpec /\ Fairness

-----------------------------------------------------------------------------
(* Properties *)

\* The git data of the secondary follows the primary: while serve goes on, the
\* primary is left as it is and an rsync succeeds now and again, the copy
\* becomes and stays equal to it, whatever failed, outdated or interrupted
\* transfers, restarts, promotions that failed and edits of the copy have left
\* behind.  (gitrsync Reconcile, Runner.Run)
Following == Sweeping /\ ~opt["serve"].dry /\ ~cancelled["serve"]
ReplicaFollows ==
    "serve" \in Procs =>
    \A c \in SUBSET Sites :
        /\ <>[](Following /\ site[Here].pg = "standby" /\ content[Primary] = c)
        /\ []<><<MirrorGit>>_mirrorVars
        => <>[](content[Here] = c)

\* What the testing guide says of a promoted secondary ("You can create
\* projects/issues"): what users create on it is theirs to delete.
PromotedKeepsWrites ==
    [][\A s \in completed : content[s] \cap {s} \subseteq content'[s] \/ Edit(s)]_mirrorVars

=============================================================================
