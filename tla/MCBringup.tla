----------------------------- MODULE MCBringup -----------------------------
(***************************************************************************)
(* Bringup for TLC: the wizard with answers that make sense and some that  *)
(* do not, and files written by hand that depart from a good one in one    *)
(* respect each.                                                           *)
(***************************************************************************)
EXTENDS Bringup

\* EXTRA is never exported.
AllVars == NextSteps \cup {"EXTRA"}
SomeEnvironments == {NextSteps, NextSteps \ {"S3_SK"}}

Host(u, h, p) == [user |-> u, host |-> h, port |-> p]
GoodHost == Host("none", "good", {22})

GoodAnswers ==
    [plain |-> TRUE, port |-> 5432, mode |-> "rsync", backend |-> "s3",
     primary |-> [name |-> "p", url |-> "https", ssh |-> GoodHost],
     secondary |-> [name |-> "a", url |-> "https", ssh |-> GoodHost]]
SomeAnswers ==
    {GoodAnswers,
     [GoodAnswers EXCEPT !.mode = "fetch", !.backend = "fs", !.primary.url = "http"],
     [GoodAnswers EXCEPT !.backend = "other"],
     [GoodAnswers EXCEPT !.plain = FALSE],
     [GoodAnswers EXCEPT !.secondary.url = "noscheme"],
     [GoodAnswers EXCEPT !.mode = "other"],
     [GoodAnswers EXCEPT !.secondary.ssh = Host("none", "good", {0})]}

Site(name, slot) ==
    [WizardSite([name |-> name, url |-> "https", ssh |-> GoodHost], GoodAnswers) EXCEPT !.slot = slot]
GoodFile ==
    [GenerateYAML(GoodAnswers) EXCEPT
        !.secondaries = <<Site("a", "s"), Site("b", NoText)>>,
        !.webhook = {[token |-> "ref", cert |-> TRUE, key |-> TRUE]}, !.tokens = {"ref"}]

WithA(f, s) == [f EXCEPT !.secondaries[1] = s]
A == Site("a", "s")

\* Those that load: as it is, a slot given to both, no ssh_host, no s3 keys,
\* a literal secret (if allowed).
LoadingFiles ==
    {GoodFile,
     [GoodFile EXCEPT !.secondaries = <<Site("a", "s"), Site("b", "s")>>],
     WithA(GoodFile, [A EXCEPT !.ssh = {}]),
     [GoodFile EXCEPT !.primary.s3 = {[keys |-> "", buckets |-> TRUE]}, !.mode = "fetch"],
     [GoodFile EXCEPT !.tokens = {"literal"}]}

BrokenFiles ==
    {[GoodFile EXCEPT !.secondaries = <<A, A>>],
     [GoodFile EXCEPT !.secondaries = <<>>],
     [GoodFile EXCEPT !.primary.password = "partial"],
     [GoodFile EXCEPT !.primary.replPassword = ""],
     [GoodFile EXCEPT !.pgPort = 0],
     [GoodFile EXCEPT !.webhook = {[token |-> "ref", cert |-> TRUE, key |-> FALSE]}],
     [GoodFile EXCEPT !.primary.reposPath = FALSE],
     [GoodFile EXCEPT !.strict = "other"],
     [GoodFile EXCEPT !.late = {"EXTRA"}],
     WithA(GoodFile, [A EXCEPT !.name = NoText]),
     WithA(GoodFile, [A EXCEPT !.url = "nohost"]),
     WithA(GoodFile, [A EXCEPT !.ssh = {Host("dash", "good", {})}]),
     WithA(GoodFile, [A EXCEPT !.ssh = {Host("good", "dash", {})}]),
     WithA(GoodFile, [A EXCEPT !.ssh = {Host("good", "good", {65536})}])}

SomeFiles == LoadingFiles \cup BrokenFiles

\* A zone for the DNS plugin, as in deploy/config.example.yaml.
FilesWithMap == {GoodFile, [GoodFile EXCEPT !.dns = {{}}], [GoodFile EXCEPT !.dns = {{"EXTRA"}}]}

=============================================================================
