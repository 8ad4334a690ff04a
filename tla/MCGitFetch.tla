---------------------------- MODULE MCGitFetch ----------------------------
(* Instances of GitFetch for TLC. *)
EXTENDS GitFetch

Setting(u, w, k, ssh, dry, m) ==
    [usable |-> u, present |-> w, knownRefs |-> k, sshHost |-> ssh,
     dryRun |-> dry, maxParallel |-> m]

\* No project, two with a pool of one, and two with a pool of two, of which
\* one, the active one or the other, lacks its repository; one project whose
\* pushes create refs; a dry run, and an ssh_host that cannot be parsed.
MCSettings ==
    {Setting({}, {}, {}, TRUE, FALSE, 2),
     Setting({1, 2}, {1, 2}, {2}, TRUE, FALSE, 0),
     Setting({1, 2}, {1}, {2}, TRUE, FALSE, 2),
     Setting({1, 2}, {2}, {2}, TRUE, FALSE, 2),
     Setting({2}, {2}, {}, TRUE, FALSE, 2),
     Setting({1, 2}, {1, 2}, {}, TRUE, TRUE, 2),
     Setting({1, 2}, {1, 2}, {}, FALSE, FALSE, 2)}

=============================================================================
