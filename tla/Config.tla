------------------------------- MODULE Config -------------------------------
(***************************************************************************)
(* The configuration file: how config.Load takes it in (internal/config),  *)
(* what it makes of an ssh_host (internal/sshexec) and the file that the   *)
(* init wizard writes (internal/initcmd).                                  *)
(*                                                                         *)
(* A field holds what it reads once its references are expanded, since an  *)
(* unset or empty variable is an error; of the text only what the code     *)
(* looks at is kept: whether a secret is written out, and which variables  *)
(* are referenced where.  A part that may be left out is a set with at     *)
(* most one element.  What load only warns about is left out.              *)
(***************************************************************************)
EXTENDS Integers, Sequences

CONSTANTS
    NoText,   \* the empty string, as a name
    Vars      \* names of environment variables

Optional(S) == {{}} \cup {{x} : x \in S}

\* The text of a field tagged env:"required": empty, nothing but ${VAR},
\* ${VAR} with something around it, or no reference at all.
SecretText == {"", "ref", "partial", "literal"}

-----------------------------------------------------------------------------
(* ssh_host: [user@]host[:port] *)

\* A part may be missing or empty, may begin with "-", or may hold characters
\* that no login name or address has; a port that is not a number reads 0.
IsHostText(h) ==
    /\ h.user \in {"none", "empty", "dash", "odd", "good"}
    /\ h.host \in {"empty", "dash", "odd", "good"}
    /\ \A p \in h.port : p \in Int

Ports == 1..65535

ValidatePort(p) == p \in Ports

\* ParseEndpoint: the text is a destination and not an option of ssh.
ParseEndpoint(h) ==
    /\ h.user \in {"none", "good"}
    /\ h.host = "good"
    /\ \A p \in h.port : ValidatePort(p)

-----------------------------------------------------------------------------
(* The file. *)

\* s3 is there if the backend is s3 and has its section.
IsSite(s) ==
    /\ s.url \in {"", "https", "http", "noscheme", "nohost"}
    /\ \A h \in s.ssh : IsHostText(h)
    /\ s.pgHost \in BOOLEAN           \* postgres.host is set
    /\ s.password \in SecretText
    /\ s.replPassword \in SecretText
    /\ s.reposPath \in BOOLEAN        \* git.repos_path is set
    /\ s.s3 \in Optional([keys : SecretText, buckets : BOOLEAN])

IsFile(f) ==
    /\ f.decodes \in BOOLEAN          \* YAML, and no unknown key in it
    /\ IsSite(f.primary)
    /\ f.pgPort \in Int /\ f.replUser \in BOOLEAN   \* of the primary
    /\ f.mode \in {"", "rsync", "fetch", "other"}
    /\ Len(f.secondaries) \in Nat
    /\ \A i \in 1..Len(f.secondaries) : IsSite(f.secondaries[i])
    /\ f.webhook \in Optional([token : SecretText, cert : BOOLEAN, key : BOOLEAN])
    /\ f.tokens \in SUBSET SecretText \* of registry and API validator
    /\ f.strict \in {"", "yes", "no", "accept-new", "other"}
    /\ f.early \in SUBSET Vars        \* referenced before dns_config is reached
    /\ f.dns \in SUBSET SUBSET Vars   \* by the entries of failover.dns_config
    /\ f.late \in SUBSET Vars         \* after it

Sites(f) == {f.primary} \cup {f.secondaries[i] : i \in 1..Len(f.secondaries)}

\* walkSecretFields
Secrets(f) ==
    {s.password : s \in Sites(f)} \cup {s.replPassword : s \in Sites(f)}
    \cup (UNION {{x.keys : x \in s.s3} : s \in Sites(f)})
    \cup {w.token : w \in f.webhook} \cup f.tokens

CheckSecretField(text) == text \in {"", "ref"}

\* enforceSecretsAreEnvRefs; allow is --allow-literal-secrets.
SecretsAreEnvRefs(f, allow) == allow \/ \A text \in Secrets(f) : CheckSecretField(text)

-----------------------------------------------------------------------------
(* validate, and the checks it calls. *)

ValidateExternalURL(s) == s.url \in {"", "https", "http"}

ValidateSSHHost(s) == \A h \in s.ssh : ParseEndpoint(h)

ValidateWebhookTLS(f) == \A w \in f.webhook : w.cert = w.key

ValidateSSHPolicy(f) == f.strict # "other"

ValidatePrimary(f) ==
    /\ f.primary.name # NoText /\ f.primary.url # "" /\ f.primary.pgHost
    /\ f.pgPort # 0 /\ f.replUser /\ f.primary.replPassword # ""
    /\ f.mode \in {"rsync", "fetch"}
    /\ f.mode = "rsync" => f.primary.reposPath

ValidateSecondaries(f) ==
    /\ Len(f.secondaries) > 0
    /\ \A i \in 1..Len(f.secondaries) :
          LET s == f.secondaries[i]
          IN  /\ s.name # NoText /\ s.pgHost /\ s.replPassword # ""
              /\ \A j \in 1..(i - 1) : f.secondaries[j].name # s.name

Validate(f) ==
    /\ ValidatePrimary(f)
    /\ ValidateSecondaries(f)
    /\ \A s \in Sites(f) : ValidateSSHHost(s) /\ ValidateExternalURL(s)
    /\ ValidateSSHPolicy(f)
    /\ ValidateWebhookTLS(f)

\* resolveEnvInStruct goes through the fields in order.  The entries of a map
\* come in any order, and reflect cannot assign to the first of them.
ResolveEnv(f, env) ==
    IF ~(f.early \subseteq env) THEN {"error"}
    ELSE IF f.dns # {} THEN {IF e \subseteq env THEN "panic" ELSE "error" : e \in f.dns}
    ELSE IF f.late \subseteq env THEN {"ok"} ELSE {"error"}

\* Mutant: a file that ends before it says anything is no error.
LoadEmpty(f, env, allow) ==
    IF ~SecretsAreEnvRefs(f, allow) THEN {"error"}
    ELSE IF ResolveEnv(f, env) = {"ok"}
         THEN IF Validate(f) THEN {"ok"} ELSE {"error"}
         ELSE ResolveEnv(f, env)

\* Load: what may come of it.
Load(f, env, allow) ==
    IF ~f.decodes \/ ~SecretsAreEnvRefs(f, allow) THEN {"error"}
    ELSE IF ResolveEnv(f, env) = {"ok"}
         THEN IF Validate(f) THEN {"ok"} ELSE {"error"}
         ELSE ResolveEnv(f, env)

Loads(f, env, allow) == Load(f, env, allow) = {"ok"}

-----------------------------------------------------------------------------
(* The wizard.  prompt puts the default for an empty line, so that only the *)
(* slot and the endpoint of S3 can be left empty; confirm's two answers     *)
(* steer nothing here.  The answers go into the file as they are: plain     *)
(* says that none of them means something else to YAML.                     *)

IsAnswers(a) ==
    /\ a.plain \in BOOLEAN
    /\ \A s \in {a.primary, a.secondary} :
          s.name # NoText /\ s.url \in {"https", "http", "noscheme", "nohost"} /\ IsHostText(s.ssh)
    /\ a.port \in Int
    /\ a.mode \in {"rsync", "fetch", "other"}
    /\ a.backend \in {"s3", "fs", "other"}

\* The variables that the command tells the user to export.
NextSteps == {"PG_CTRL_PASSWORD", "PG_REPL_PASSWORD", "SEC_REPL_PASSWORD", "S3_AK", "S3_SK"}

\* Mutant: the replication password is not in the file.
WizardSiteNoPassword(s, a) ==
    [name |-> s.name, url |-> s.url, ssh |-> {s.ssh}, pgHost |-> TRUE,
     password |-> "ref", replPassword |-> "", slot |-> NoText, reposPath |-> TRUE,
     s3 |-> IF a.backend = "s3" THEN {[keys |-> "ref", buckets |-> TRUE]} ELSE {}]

\* The slot goes under the primary, where pg setup does not look.
WizardSite(s, a) ==
    [name |-> s.name, url |-> s.url, ssh |-> {s.ssh}, pgHost |-> TRUE,
     password |-> "ref", replPassword |-> "ref", slot |-> NoText, reposPath |-> TRUE,
     s3 |-> IF a.backend = "s3" THEN {[keys |-> "ref", buckets |-> TRUE]} ELSE {}]

WizardVars(a) ==
    {"PG_CTRL_PASSWORD", "PG_REPL_PASSWORD", "SEC_REPL_PASSWORD"}
    \cup (IF a.backend = "s3" THEN {"S3_AK", "S3_SK"} ELSE {})

GenerateYAML(a) ==
    [decodes |-> a.plain, primary |-> WizardSite(a.primary, a), pgPort |-> a.port,
     replUser |-> TRUE, mode |-> a.mode, secondaries |-> <<WizardSite(a.secondary, a)>>,
     webhook |-> {}, tokens |-> {}, strict |-> "",
     early |-> WizardVars(a), dns |-> {}, late |-> {}]

=============================================================================
