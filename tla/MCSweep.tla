------------------------------ MODULE MCSweep ------------------------------
(***************************************************************************)
(* Sweep for TLC: one secondary, one or two items per reconciler, and      *)
(* configurations that between them build every reconciler.                *)
(***************************************************************************)
EXTENDS Sweep

OneSite == <<"a">>

\* Tables: not analyzed, and just within and just beyond both tolerances, five
\* rows of the small one and a tenth of the large one.
SomeCounts ==
    [x \in {"small", "large", "users"} |->
        CASE x = "small" -> {-1, 0, 5, 6}
          [] x = "large" -> {60, 66, 67}
          [] x = "users" -> {0, 1}]

SmallThings ==
    [k \in Kinds \cup {"fsck"} |->
        CASE k \in {"fs", "fsck"} -> {"x", "y"}
          [] k = "registry" -> {1, 2}
          [] k = "consistency" -> {"small", "large"}
          [] k = "apivalidator" -> {"users"}
          [] OTHER -> {"x"}]

Serve(git, backend, registry, api) ==
    [cmd |-> "serve", git |-> git, backend |-> backend, registry |-> registry, api |-> api]

ServeConfigs ==
    {Serve("fetch", "s3", "url", FALSE),
     Serve("rsync", "fs", "nourl", TRUE)}

SyncConfigs == {[Serve("rsync", "fs", "none", FALSE) EXCEPT !.cmd = "sync"]}
AllConfigs == ServeConfigs \cup SyncConfigs

=============================================================================
