---------------------------- MODULE BringupProofs ----------------------------
(***************************************************************************)
(* That the wizard's file gets past config.Load, that pg setup tells the   *)
(* truth and fills only what is empty, and that doctor overlooks nothing,  *)
(* for every file, environment and set of secondaries.                     *)
(***************************************************************************)
EXTENDS Bringup, TLAPS

-----------------------------------------------------------------------------
(* Load *)

\* A file that loads decodes.  (Load)
LEMMA LoadsDecodes ==
    ASSUME NEW f, NEW e, NEW allow, Loads(f, e, allow)
    PROVE  f.decodes
  BY DEF Loads, Load

\* The file that GenerateYAML makes of sensible answers loads once the listed
\* variables are exported.  (GenerateYAML, newInitCmd)
LEMMA WizardLoads ==
    ASSUME NEW a \in Answers, NEW e, SensibleAnswers(GenerateYAML(a)), NextSteps \subseteq e
    PROVE  Loads(GenerateYAML(a), e, FALSE)
<1>. DEFINE f == GenerateYAML(a)
            p == WizardSite(a.primary, a)
            q == WizardSite(a.secondary, a)
<1>1. /\ f.decodes = a.plain /\ f.primary = p /\ f.pgPort = a.port /\ f.replUser = TRUE
      /\ f.mode = a.mode /\ f.secondaries = <<q>> /\ f.webhook = {} /\ f.tokens = {}
      /\ f.strict = "" /\ f.early = WizardVars(a) /\ f.dns = {} /\ f.late = {}
  BY DEF GenerateYAML
<1>0. Len(f.secondaries) = 1 /\ f.secondaries[1] = q
  <2>1. Len(<<q>>) = 1 /\ <<q>>[1] = q
    OBVIOUS
  <2>2. f.secondaries = <<q>>
    BY <1>1, Zenon
  <2>. HIDE DEF f, q
  <2>. QED BY <2>1, <2>2, Zenon
<1>2. \A s \in {p, q} :
         /\ s.pgHost = TRUE /\ s.password = "ref" /\ s.replPassword = "ref" /\ s.reposPath = TRUE
         /\ \A x \in s.s3 : x.keys = "ref"
  BY DEF WizardSite
<1>3. p.name = a.primary.name /\ q.name = a.secondary.name
  BY DEF WizardSite
<1>4. Sites(f) = {p, q}
  <2>. HIDE DEF f, p, q
  <2>1. 1..Len(f.secondaries) = {1}
    BY <1>0
  <2>2. {f.secondaries[i] : i \in 1..Len(f.secondaries)} = {q}
    BY <1>0, <2>1, Zenon
  <2>3. f.primary = p
    BY <1>1, Zenon
  <2>. QED BY <2>2, <2>3, Zenon DEF Sites
<1>5. \A s \in {p, q} :
         /\ s.url \in {"https", "http"}
         /\ \A h \in s.ssh : h.user \in {"none", "good"} /\ h.host = "good" /\ h.port \subseteq Ports
  BY <1>4, Zenon DEF SensibleAnswers
<1>6. a.primary.name # NoText /\ a.secondary.name # NoText /\ a.mode \in {"rsync", "fetch", "other"}
  BY BringupAssumption DEF IsAnswers
<1>7. f.decodes /\ f.mode # "other" /\ f.pgPort # 0
  BY Zenon DEF SensibleAnswers
<1>. HIDE DEF f, p, q
<1>8. SecretsAreEnvRefs(f, FALSE)
  <2>1. ASSUME NEW text \in Secrets(f)
        PROVE  text = "ref"
    <3>1. f.webhook = {} /\ f.tokens = {}
      BY <1>1, Zenon
    <3>2. \/ \E s \in Sites(f) : text = s.password
          \/ \E s \in Sites(f) : text = s.replPassword
          \/ \E s \in Sites(f) : \E x \in s.s3 : text = x.keys
      BY <3>1, Zenon DEF Secrets
    <3>. QED BY <1>2, <1>4, <3>2
  <2>. QED BY <2>1 DEF SecretsAreEnvRefs, CheckSecretField
<1>9. ResolveEnv(f, e) = {"ok"}
  <2>1. WizardVars(a) \subseteq e
    BY DEF WizardVars, NextSteps
  <2>. QED BY <1>1, <2>1 DEF ResolveEnv
<1>10. ValidatePrimary(f)
  BY <1>1, <1>2, <1>3, <1>5, <1>6, <1>7 DEF ValidatePrimary
<1>11. ValidateSecondaries(f)
  <2>1. ASSUME NEW i \in 1..Len(f.secondaries)
        PROVE  /\ f.secondaries[i] = q
               /\ \A j \in 1..(i - 1) : f.secondaries[j].name # f.secondaries[i].name
    <3>1. i = 1 /\ 1..(i - 1) = {}
      BY <1>0
    <3>. QED BY <1>0, <3>1, Zenon
  <2>2. q.name # NoText /\ q.pgHost /\ q.replPassword # ""
    BY <1>2, <1>3, <1>6
  <2>3. Len(f.secondaries) > 0
    BY <1>0
  <2>. QED BY <2>1, <2>2, <2>3, Zenon DEF ValidateSecondaries
<1>12. \A s \in Sites(f) : ValidateSSHHost(s) /\ ValidateExternalURL(s)
  BY <1>4, <1>5 DEF ValidateSSHHost, ParseEndpoint, ValidatePort, ValidateExternalURL
<1>13. Validate(f)
  BY <1>1, <1>10, <1>11, <1>12 DEF Validate, ValidateSSHPolicy, ValidateWebhookTLS
<1>14. Loads(f, e, FALSE)
  BY <1>7, <1>8, <1>9, <1>13 DEF Loads, Load
<1>. QED BY <1>14 DEF f

-----------------------------------------------------------------------------
(* The file on disk. *)

\* Where the file comes from is what it looks like.
FileInv ==
    /\ Len(file.secondaries) \in Nat
    /\ origin = "wizard" => \E a \in Answers : file = GenerateYAML(a)
    /\ origin = "none" => ~file.decodes

LEMMA GeneratedIsList ==
    ASSUME NEW a
    PROVE  Len(GenerateYAML(a).secondaries) \in Nat
  BY DEF GenerateYAML

LEMMA EmptyIsList == Len(EmptyFile.secondaries) \in Nat
  BY DEF EmptyFile, GenerateYAML

LEMMA EmptyDecodesNot == ~EmptyFile.decodes
  BY DEF EmptyFile, GenerateYAML

\* Only edits and init change the file.
LEMMA FileInvariance == Spec => []FileInv
<1>1. Init => FileInv
  BY EmptyIsList, EmptyDecodesNot, Zenon DEF Init, FileInv
<1>2. FileInv /\ [Next]_vars => FileInv'
  <2>. SUFFICES ASSUME FileInv, [Next]_vars
                PROVE  FileInv'
    OBVIOUS
  <2>1. CASE EditFile
    BY <2>1, BringupAssumption DEF EditFile, FileInv, IsFile
  <2>2. CASE InitCreate
    BY <2>2, EmptyIsList, EmptyDecodesNot DEF InitCreate, FileInv
  <2>3. CASE InitWrite
    BY <2>3, GeneratedIsList, Zenon DEF InitWrite, FileInv
  <2>4. CASE UNCHANGED <<file, origin>>
    BY <2>4, Zenon DEF FileInv
  <2>5. [Next]_vars => EditFile \/ InitCreate \/ InitWrite \/ UNCHANGED <<file, origin>>
    BY Zenon DEF Next, vars, Export, CleanUp, SetupStart, RunBasebackup, AppendConnInfoAppname,
           DoctorStart, DoctorCheck, MissingChange, Cancel, DoctorReport
  <2>. QED BY <2>1, <2>2, <2>3, <2>4, <2>5, Zenon
<1>. QED BY <1>1, <1>2, PTL DEF Spec

\* What init writes loads, for all answers that make sense.
THEOREM WizardTheorem == Spec => []WizardFileLoads
<1>1. FileInv => WizardFileLoads
  BY WizardLoads, Zenon DEF FileInv, WizardFileLoads
<1>. QED BY <1>1, FileInvariance, PTL

-----------------------------------------------------------------------------
(* pg setup *)

\* What is running works on one secondary: its directory was empty when
\* pg_basebackup began and holds a standby once it is done.
Running ==
    /\ pc = "basebackup" => \E n \in Names : who = {n} /\ pgdata[n] = "empty"
    /\ pc = "conninfo" => /\ \E n \in Names : who = {n} /\ pgdata[n] = "standby"
                          /\ SlotName \in slots \cup {NoText}
    /\ pc \notin {"basebackup", "conninfo"} => who = {}

\* The two functions over Names have their shape.
Shapes ==
    /\ pgdata \in [Names -> {"empty", "partial", "standby", "other"}]
    /\ reported = [n \in Names |-> [result |-> reported[n].result, slot |-> reported[n].slot]]

SetupInv == Shapes /\ Running /\ SetupReportsTruth

LEMMA SetupInit == Init => SetupInv
<1>. SUFFICES ASSUME Init PROVE SetupInv
  OBVIOUS
<1>1. Shapes
  BY DEF Init, Shapes, Quiet
<1>2. Running
  BY DEF Init, Running
<1>3. SetupReportsTruth
  BY DEF Init, SetupReportsTruth, Quiet
<1>. QED BY <1>1, <1>2, <1>3 DEF SetupInv

\* The slot in use depends on the file and on who is being set up.
LEMMA SlotNameKept ==
    ASSUME UNCHANGED <<file, who>>
    PROVE  SlotName' = SlotName
  BY DEF SlotName

\* Steps that leave pg setup alone.
LEMMA SetupOther ==
    ASSUME SetupInv, UNCHANGED <<pgdata, slots, who, reported>>,
           pc \notin {"basebackup", "conninfo"}, pc' \notin {"basebackup", "conninfo"}
    PROVE  SetupInv'
<1>1. Shapes'
  BY DEF SetupInv, Shapes
<1>2. Running'
  <2>1. who' = {}
    BY DEF SetupInv, Running
  <2>. QED BY <2>1 DEF Running
<1>3. SetupReportsTruth'
  BY DEF SetupInv, SetupReportsTruth
<1>. QED BY <1>1, <1>2, <1>3 DEF SetupInv

\* Cleaning up one secondary keeps the slots that the others were given.
LEMMA CleanUpKeeps ==
    ASSUME SetupInv, NEW n \in Names, CleanUp(n)
    PROVE  SetupInv'
<1>1. Shapes'
  BY DEF SetupInv, Shapes, CleanUp, Quiet
<1>2. Running'
  BY DEF SetupInv, Running, CleanUp
<1>3. ASSUME NEW m \in Names, m # n
      PROVE  reported'[m] = reported[m] /\ pgdata'[m] = pgdata[m]
  BY <1>3 DEF SetupInv, Shapes, CleanUp
<1>4. reported'[n] = Quiet("none") /\ pgdata'[n] = "empty"
  BY DEF SetupInv, Shapes, CleanUp
<1>5. ASSUME NEW m \in Names, m # n, reported[m].slot \in slots
      PROVE  reported[m].slot \in slots'
  BY <1>5 DEF CleanUp
<1>6. SetupReportsTruth'
  BY <1>3, <1>4, <1>5 DEF SetupInv, SetupReportsTruth, CleanUp, Quiet
<1>. QED BY <1>1, <1>2, <1>6 DEF SetupInv

LEMMA SetupStartKeeps ==
    ASSUME SetupInv, NEW n \in Names, SetupStart(n)
    PROVE  SetupInv'
<1>1. Shapes'
  BY DEF SetupInv, Shapes, SetupStart
<1>2. Running'
  BY DEF SetupInv, Shapes, Running, SetupStart, CheckDataDir
<1>3. SetupReportsTruth'
  BY DEF SetupInv, Shapes, Running, SetupReportsTruth, SetupStart
<1>. QED BY <1>1, <1>2, <1>3 DEF SetupInv

\* pg_basebackup: success leaves a standby and the slot, failure is reported.
LEMMA RunBasebackupKeeps ==
    ASSUME SetupInv, RunBasebackup
    PROVE  SetupInv'
<1>1. PICK n \in Names : who = {n} /\ pgdata[n] = "empty"
  BY Zenon DEF SetupInv, Running, RunBasebackup
<1>2. CASE Basebackup /\ pc' = "conninfo" /\ UNCHANGED <<who, reported>>
  <2>1. Shapes'
    BY <1>2 DEF SetupInv, Shapes, Basebackup
  <2>2. pgdata'[n] = "standby" /\ \A m \in Names \ {n} : pgdata'[m] = pgdata[m]
    BY <1>1, <1>2 DEF Basebackup
  <2>3. SlotName' = SlotName
    BY <1>2, SlotNameKept DEF RunBasebackup
  <2>4. Running'
    BY <1>1, <1>2, <2>2, <2>3 DEF Running, Basebackup
  <2>5. slots \subseteq slots'
    BY <1>2 DEF Basebackup
  <2>6. SetupReportsTruth'
    BY <1>1, <1>2, <2>2, <2>5 DEF SetupInv, SetupReportsTruth
  <2>. QED BY <2>1, <2>4, <2>6 DEF SetupInv
<1>3. CASE BasebackupEndsBadly /\ SetupReturns("error")
  <2>1. Shapes'
    BY <1>3 DEF SetupInv, Shapes, BasebackupEndsBadly, SetupReturns, Quiet
  <2>2. Running'
    BY <1>3 DEF Running, SetupReturns
  <2>3. /\ reported'[n].result = "error"
        /\ \A m \in Names \ {n} : reported'[m] = reported[m] /\ pgdata'[m] = pgdata[m]
    BY <1>1, <1>3 DEF SetupReturns, Quiet, BasebackupEndsBadly
  <2>4. slots \subseteq slots'
    BY <1>3 DEF BasebackupEndsBadly
  <2>5. SetupReportsTruth'
    BY <1>1, <1>3, <2>3, <2>4 DEF SetupInv, SetupReportsTruth, SetupReturns
  <2>. QED BY <2>1, <2>2, <2>5 DEF SetupInv
<1>. QED BY <1>2, <1>3, Zenon DEF RunBasebackup

LEMMA AppendConnInfoKeeps ==
    ASSUME SetupInv, AppendConnInfoAppname
    PROVE  SetupInv'
<1>1. PICK n \in Names : who = {n} /\ pgdata[n] = "standby"
  BY Zenon DEF SetupInv, Running, AppendConnInfoAppname
<1>2. SlotName \in slots \cup {NoText}
  BY Zenon DEF SetupInv, Running, AppendConnInfoAppname
<1>3. PICK res \in {"ok", "error"} : SetupReturns(res)
  BY DEF AppendConnInfoAppname
<1>4. Shapes'
  BY <1>3 DEF SetupInv, Shapes, AppendConnInfoAppname, SetupReturns, Quiet
<1>5. Running'
  BY <1>3 DEF Running, SetupReturns
<1>6. /\ reported'[n].result = res
      /\ res = "ok" => reported'[n].slot = SlotName
      /\ \A m \in Names \ {n} : reported'[m] = reported[m]
  BY <1>1, <1>3 DEF SetupReturns, Quiet
<1>7. SetupReportsTruth'
  BY <1>1, <1>2, <1>3, <1>6 DEF SetupInv, SetupReportsTruth, SetupReturns, AppendConnInfoAppname
<1>. QED BY <1>4, <1>5, <1>7 DEF SetupInv

LEMMA SetupInvariance == Spec => []SetupInv
<1>1. SetupInv /\ [Next]_vars => SetupInv'
  <2>. SUFFICES ASSUME SetupInv, [Next]_vars
                PROVE  SetupInv'
    OBVIOUS
  <2>1. CASE \E n \in Names : CleanUp(n) \/ SetupStart(n)
    BY <2>1, CleanUpKeeps, SetupStartKeeps, Zenon
  <2>2. CASE RunBasebackup \/ AppendConnInfoAppname
    BY <2>2, RunBasebackupKeeps, AppendConnInfoKeeps, Zenon
  <2>3. CASE EditFile \/ Export \/ InitCreate \/ InitWrite
    BY <2>3, SetupOther DEF EditFile, Export, InitCreate, InitWrite
  <2>4. CASE DoctorStart \/ DoctorCheck \/ MissingChange \/ Cancel \/ DoctorReport
    BY <2>4, SetupOther DEF DoctorStart, DoctorCheck, MissingChange, Cancel, DoctorReport
  <2>5. CASE UNCHANGED vars
    <3>1. UNCHANGED <<file, pgdata, slots, pc, who, reported>>
      BY <2>5 DEF vars
    <3>2. SlotName' = SlotName
      BY <3>1, SlotNameKept, Zenon
    <3>. QED BY <3>1, <3>2 DEF SetupInv, Shapes, Running, SetupReportsTruth
  <2>. QED BY <2>1, <2>2, <2>3, <2>4, <2>5, Zenon DEF Next
<1>. QED BY <1>1, SetupInit, PTL DEF Spec

\* pg setup tells the truth about any number of secondaries, slot names in
\* common included, however often it fails, is killed and is tried again.
THEOREM SetupTheorem == Spec => []SetupReportsTruth
<1>1. SetupInv => SetupReportsTruth
  BY DEF SetupInv
<1>. QED BY <1>1, SetupInvariance, PTL

\* What a setup works from has been written to its end.
WholeInv == pc = "basebackup" => origin # "none"

LEMMA WholeStep == FileInv /\ WholeInv /\ [Next]_vars => WholeInv'
<1>. SUFFICES ASSUME FileInv, WholeInv, [Next]_vars PROVE WholeInv'
  OBVIOUS
<1>1. ASSUME NEW n \in Names, SetupStart(n) PROVE WholeInv'
  <2>1. pc' = "basebackup" => file.decodes
    BY <1>1, LoadsDecodes DEF SetupStart
  <2>. QED BY <1>1, <2>1 DEF SetupStart, FileInv, WholeInv
<1>2. ASSUME ~\E n \in Names : SetupStart(n) PROVE WholeInv'
  BY <1>2 DEF WholeInv, Next, vars, EditFile, Export, InitCreate, InitWrite, CleanUp, RunBasebackup,
     SetupReturns, AppendConnInfoAppname, DoctorStart, DoctorCheck, MissingChange, Cancel, DoctorReport
<1>. QED BY <1>1, <1>2

\* No setup overwrites anything or starts from a truncated file, however init,
\* pg setup and the operator's edits follow on each other and are interrupted.
THEOREM FillsOnlyEmptyTheorem == Spec => SetupFillsOnlyEmpty
<1>. DEFINE Fills == /\ \A n \in Names :
                          pgdata'[n] \notin {pgdata[n], "empty"} => pgdata[n] = "empty" /\ origin # "none"
                     /\ ~(slots' \subseteq slots) => origin # "none"
<1>1. Init => WholeInv
  BY DEF Init, WholeInv
<1>2. ASSUME SetupInv, WholeInv, [Next]_vars PROVE Fills
  <2>1. pgdata \in [Names -> {"empty", "partial", "standby", "other"}]
    BY <1>2 DEF SetupInv, Shapes
  <2>2. ASSUME NEW n \in Names, CleanUp(n) PROVE Fills
    BY <2>1, <2>2 DEF CleanUp
  <2>3. CASE RunBasebackup
    <3>1. origin # "none" /\ \E n \in Names : who = {n} /\ pgdata[n] = "empty"
      BY <1>2, <2>3 DEF SetupInv, Running, WholeInv, RunBasebackup
    <3>2. \A n \in Names : n \notin who => pgdata'[n] = pgdata[n]
      BY <2>1, <2>3 DEF RunBasebackup, Basebackup, BasebackupEndsBadly
    <3>3. \A n \in Names : pgdata'[n] \notin {pgdata[n], "empty"} => pgdata[n] = "empty"
      BY <3>1, <3>2, Zenon
    <3>. QED BY <3>1, <3>3, Zenon
  <2>4. UNCHANGED <<pgdata, slots>> \/ RunBasebackup \/ \E n \in Names : CleanUp(n)
    BY <1>2 DEF Next, vars, EditFile, Export, InitCreate, InitWrite, SetupStart,
       AppendConnInfoAppname, DoctorStart, DoctorCheck, MissingChange, Cancel, DoctorReport
  <2>. QED BY <2>2, <2>3, <2>4
<1>3. SetupInv /\ WholeInv /\ [Next]_vars =>
        [/\ \A n \in Names :
               pgdata'[n] \notin {pgdata[n], "empty"} => pgdata[n] = "empty" /\ origin # "none"
         /\ ~(slots' \subseteq slots) => origin # "none"]_vars
  BY <1>2
<1>. QED BY <1>1, <1>3, WholeStep, FileInvariance, SetupInvariance, PTL DEF Spec, SetupFillsOnlyEmpty

-----------------------------------------------------------------------------
(* The shape of the file. *)

\* The file is one, and its slots are among those considered.
FileShape ==
    /\ IsFile(file)
    /\ \A i \in 1..Len(file.secondaries) : file.secondaries[i].slot \in Slots \cup {NoText}

LEMMA WizardSiteIsSite ==
    ASSUME NEW a \in Answers, NEW s \in {a.primary, a.secondary}
    PROVE  IsSite(WizardSite(s, a)) /\ WizardSite(s, a).slot = NoText
<1>. DEFINE w == WizardSite(s, a)
<1>1. s.url \in {"https", "http", "noscheme", "nohost"} /\ IsHostText(s.ssh)
  BY BringupAssumption DEF IsAnswers
<1>2. /\ w.url = s.url /\ w.ssh = {s.ssh} /\ w.pgHost = TRUE /\ w.password = "ref"
      /\ w.replPassword = "ref" /\ w.slot = NoText /\ w.reposPath = TRUE
      /\ w.s3 = IF a.backend = "s3" THEN {[keys |-> "ref", buckets |-> TRUE]} ELSE {}
  BY DEF WizardSite
<1>3. [keys |-> "ref", buckets |-> TRUE] \in [keys : SecretText, buckets : BOOLEAN]
  BY DEF SecretText
<1>4. w.s3 \in Optional([keys : SecretText, buckets : BOOLEAN])
  BY <1>2, <1>3, Zenon DEF Optional
<1>5. "ref" \in SecretText /\ TRUE \in BOOLEAN
  BY DEF SecretText
<1>6. w.url \in {"", "https", "http", "noscheme", "nohost"}
  BY <1>1, <1>2
<1>. HIDE DEF w
<1>7. \A h \in w.ssh : IsHostText(h)
  BY <1>1, <1>2, Zenon
<1>8. IsSite(w)
  BY <1>2, <1>4, <1>5, <1>6, <1>7, Zenon DEF IsSite
<1>. QED BY <1>2, <1>8 DEF w

LEMMA GeneratedIsFile ==
    ASSUME NEW a \in Answers
    PROVE  /\ IsFile(GenerateYAML(a)) /\ Len(GenerateYAML(a).secondaries) = 1
           /\ GenerateYAML(a).secondaries[1].slot = NoText
<1>. DEFINE f == GenerateYAML(a)
            p == WizardSite(a.primary, a)
            q == WizardSite(a.secondary, a)
<1>1. /\ f.decodes = a.plain /\ f.primary = p /\ f.pgPort = a.port /\ f.replUser = TRUE
      /\ f.mode = a.mode /\ f.secondaries = <<q>> /\ f.webhook = {} /\ f.tokens = {}
      /\ f.strict = "" /\ f.early = WizardVars(a) /\ f.dns = {} /\ f.late = {}
  BY DEF GenerateYAML
<1>2. a.plain \in BOOLEAN /\ a.port \in Int /\ a.mode \in {"rsync", "fetch", "other"}
  BY BringupAssumption, Zenon DEF IsAnswers
<1>3. IsSite(p) /\ IsSite(q) /\ q.slot = NoText
  BY WizardSiteIsSite, Zenon
<1>. HIDE DEF f, p, q
<1>4. Len(f.secondaries) = 1 /\ f.secondaries[1] = q
  <2>1. Len(<<q>>) = 1 /\ <<q>>[1] = q
    OBVIOUS
  <2>. QED BY <1>1, <2>1, Zenon
<1>5. \A i \in 1..Len(f.secondaries) : IsSite(f.secondaries[i])
  <2>1. 1..Len(f.secondaries) = {1}
    BY <1>4
  <2>. QED BY <1>3, <1>4, <2>1, Zenon
<1>6. WizardVars(a) \in SUBSET Vars /\ {} \in SUBSET Vars /\ {} \in SUBSET SUBSET Vars
  BY BringupAssumption DEF WizardVars, NextSteps
<1>7. Len(f.secondaries) \in Nat
  BY <1>4
<1>8. f.mode \in {"", "rsync", "fetch", "other"}
  BY <1>1, <1>2
<1>9. {} \in SUBSET SecretText /\ TRUE \in BOOLEAN /\ "" \in {"", "yes", "no", "accept-new", "other"}
      /\ {} \in Optional([token : SecretText, cert : BOOLEAN, key : BOOLEAN])
  BY Zenon DEF Optional
<1>10. IsFile(f)
  BY <1>1, <1>2, <1>3, <1>5, <1>6, <1>7, <1>8, <1>9, Zenon DEF IsFile
<1>. QED BY <1>3, <1>4, <1>10 DEF f

LEMMA EmptyIsFile ==
    /\ IsFile(EmptyFile) /\ Len(EmptyFile.secondaries) = 1
    /\ EmptyFile.secondaries[1].slot = NoText
<1>. DEFINE f == GenerateYAML(CHOOSE a \in Answers : TRUE)
            e == EmptyFile
<1>1. IsFile(f) /\ Len(f.secondaries) = 1 /\ f.secondaries[1].slot = NoText
  <2>1. (CHOOSE a \in Answers : TRUE) \in Answers
    BY BringupAssumption
  <2>. QED BY <2>1, GeneratedIsFile, Zenon
<1>2. /\ e.decodes = FALSE /\ e.primary = f.primary /\ e.pgPort = f.pgPort
      /\ e.replUser = f.replUser /\ e.mode = f.mode /\ e.secondaries = f.secondaries
      /\ e.webhook = f.webhook /\ e.tokens = f.tokens /\ e.strict = f.strict
      /\ e.early = f.early /\ e.dns = f.dns /\ e.late = f.late
  BY DEF EmptyFile, GenerateYAML
<1>. HIDE DEF e, f
<1>3. FALSE \in BOOLEAN
  OBVIOUS
<1>4. IsFile(e)
  BY <1>1, <1>2, <1>3, Zenon DEF IsFile
<1>5. Len(e.secondaries) = 1 /\ e.secondaries[1].slot = NoText
  BY <1>1, <1>2
<1>. QED BY <1>4, <1>5 DEF e

LEMMA FileShapeInvariance == Spec => []FileShape
<1>1. ASSUME NEW f, IsFile(f), Len(f.secondaries) = 1, f.secondaries[1].slot = NoText
      PROVE  \A i \in 1..Len(f.secondaries) : f.secondaries[i].slot \in Slots \cup {NoText}
  BY <1>1
<1>2. Init => FileShape
  BY <1>1, EmptyIsFile DEF Init, FileShape
<1>3. FileShape /\ [Next]_vars => FileShape'
  <2>. SUFFICES ASSUME FileShape, [Next]_vars
                PROVE  FileShape'
    OBVIOUS
  <2>1. CASE EditFile
    BY <2>1, BringupAssumption, Zenon DEF EditFile, FileShape
  <2>2. CASE InitCreate
    <3>1. file' = EmptyFile
      BY <2>2 DEF InitCreate
    <3>. QED BY <1>1, <3>1, EmptyIsFile, Zenon DEF FileShape
  <2>3. CASE InitWrite
    <3>1. CASE \E a \in Answers : file' = GenerateYAML(a)
      BY <1>1, <3>1, GeneratedIsFile, Zenon DEF FileShape
    <3>2. CASE UNCHANGED file
      BY <3>2, Zenon DEF FileShape
    <3>. QED BY <2>3, <3>1, <3>2, Zenon DEF InitWrite
  <2>4. CASE UNCHANGED file
    BY <2>4, Zenon DEF FileShape
  <2>5. [Next]_vars => EditFile \/ InitCreate \/ InitWrite \/ UNCHANGED file
    BY Zenon DEF Next, vars, Export, CleanUp, SetupStart, RunBasebackup, AppendConnInfoAppname,
           DoctorStart, DoctorCheck, MissingChange, Cancel, DoctorReport
  <2>. QED BY <2>1, <2>2, <2>3, <2>4, <2>5, Zenon
<1>. QED BY <1>2, <1>3, PTL DEF Spec

-----------------------------------------------------------------------------
(* The lists of checks. *)

CheckNames == {"ssh", "control", "recovery", "key", "parity", "rsync", "git", "path"}

LEMMA Appended ==
    ASSUME NEW a \in Seq(CheckNames), NEW b \in Seq(CheckNames)
    PROVE  /\ a \o b \in Seq(CheckNames) /\ Len(a \o b) = Len(a) + Len(b)
           /\ \A i \in 1..Len(a) : (a \o b)[i] = a[i]
OBVIOUS

\* ssh comes first at every site, and a secondary is asked whether it is in
\* recovery.  (Result.checks)
LEMMA SiteChecksFacts ==
    ASSUME Len(file.secondaries) \in Nat, NEW k \in Stations
    PROVE  /\ Len(SiteChecks(k)) \in Nat
           /\ k <= Len(file.secondaries) => Len(SiteChecks(k)) >= 1 /\ SiteChecks(k)[1] = "ssh"
           /\ k \in 1..Len(file.secondaries) =>
                 Len(SiteChecks(k)) >= 3 /\ SiteChecks(k)[3] = "recovery"
<1>1. k \in Nat
  BY DEF Stations
<1>2. CASE k = 0
  <2>1. SiteChecks(k) = <<"ssh", "control", "role", "walLevel", "walSenders", "key", "rsync", "git">>
    BY <1>2 DEF SiteChecks, PrimaryChecks
  <2>. QED BY <1>2, <2>1
<1>3. CASE k \in 1..Len(file.secondaries)
  <2>. DEFINE a == <<"ssh", "control", "recovery", "key">>
              b == IF HasSSH(0) /\ HasSSH(k) THEN <<"parity">> ELSE <<>>
              c == <<"rsync", "git">>
              d == IF SiteOf(k).reposPath THEN <<"path">> ELSE <<>>
  <2>1. SiteChecks(k) = ((a \o b) \o c) \o d
    BY <1>3 DEF SiteChecks, SecondaryChecks
  <2>2. a \in Seq(CheckNames) /\ b \in Seq(CheckNames) /\ c \in Seq(CheckNames) /\ d \in Seq(CheckNames)
    <3>1. <<"ssh", "control", "recovery", "key">> \in Seq(CheckNames)
      BY DEF CheckNames
    <3>2. <<"rsync", "git">> \in Seq(CheckNames)
      BY DEF CheckNames
    <3>3. <<"parity">> \in Seq(CheckNames)
      BY DEF CheckNames
    <3>4. <<"path">> \in Seq(CheckNames)
      BY DEF CheckNames
    <3>5. <<>> \in Seq(CheckNames)
      OBVIOUS
    <3>. QED BY <3>1, <3>2, <3>3, <3>4, <3>5, Zenon
  <2>3. Len(a) = 4 /\ a[1] = "ssh" /\ a[3] = "recovery"
    OBVIOUS
  <2>. HIDE DEF a, b, c, d
  <2>4. a \o b \in Seq(CheckNames) /\ Len(a \o b) >= 4
        /\ (a \o b)[1] = "ssh" /\ (a \o b)[3] = "recovery"
    <3>1. Len(b) \in Nat /\ 1 \in 1..Len(a) /\ 3 \in 1..Len(a)
      BY <2>2, <2>3
    <3>2. Len(a \o b) = Len(a) + Len(b) /\ a \o b \in Seq(CheckNames)
          /\ (a \o b)[1] = a[1] /\ (a \o b)[3] = a[3]
      BY <2>2, <3>1, Appended, Zenon
    <3>. QED BY <2>3, <3>1, <3>2
  <2>5. (a \o b) \o c \in Seq(CheckNames) /\ Len((a \o b) \o c) >= 4
        /\ ((a \o b) \o c)[1] = "ssh" /\ ((a \o b) \o c)[3] = "recovery"
    BY <2>2, <2>4, Appended
  <2>6. ((a \o b) \o c) \o d \in Seq(CheckNames) /\ Len(((a \o b) \o c) \o d) >= 4
        /\ (((a \o b) \o c) \o d)[1] = "ssh" /\ (((a \o b) \o c) \o d)[3] = "recovery"
    BY <2>2, <2>5, Appended
  <2>7. SiteChecks(k) \in Seq(CheckNames) /\ Len(SiteChecks(k)) >= 4
        /\ SiteChecks(k)[1] = "ssh" /\ SiteChecks(k)[3] = "recovery"
    BY <2>1, <2>6, Zenon
  <2>8. Len(SiteChecks(k)) \in Nat
    BY <2>7
  <2>. QED BY <1>3, <2>7, <2>8
<1>4. CASE k > Len(file.secondaries)
  <2>1. SiteChecks(k) = StorageChecks
    BY <1>1, <1>4 DEF SiteChecks
  <2>2. Len(StorageChecks) \in Nat
    BY DEF StorageChecks
  <2>. QED BY <1>1, <1>4, <2>1, <2>2
<1>5. k = 0 \/ k \in 1..Len(file.secondaries) \/ k > Len(file.secondaries)
  BY <1>1
<1>. QED BY <1>2, <1>3, <1>4, <1>5, Zenon

\* The lists depend on the file only.
LEMMA ChecksKept ==
    ASSUME UNCHANGED file
    PROVE  /\ \A k : SiteChecks(k)' = SiteChecks(k) /\ HasSSH(k)' = HasSSH(k)
           /\ Stations' = Stations
BY DEF SiteChecks, PrimaryChecks, SecondaryChecks, StorageChecks, HasSSH, SiteOf, Stations

\* Where a check is: before the next one.
Before(k, j) == k < site \/ (k = site /\ j < nth)

\* From one check doctor goes on to the one after it, if there is any, and
\* otherwise it has been everywhere.
LEMMA OnToNext ==
    ASSUME Len(file.secondaries) \in Nat, IsCheck(site, nth), NEW s, NEW n,
           IF nth < Len(SiteChecks(site)) THEN s = site /\ n = nth + 1 ELSE s = site + 1 /\ n = 1
    PROVE  /\ s \in Nat /\ n \in Nat \ {0}
           /\ ~IsCheck(s, n) => s > Len(file.secondaries) /\ n = 1
           /\ \A k \in Stations : \A j \in 1..Len(SiteChecks(k)) :
                 k < s \/ (k = s /\ j < n) => Before(k, j) \/ (k = site /\ j = nth)
<1>1. site \in Stations /\ nth \in 1..Len(SiteChecks(site)) /\ site \in Nat
  BY DEF IsCheck, Stations
<1>2. Len(SiteChecks(site)) \in Nat
  BY <1>1, SiteChecksFacts
<1>3. CASE nth < Len(SiteChecks(site))
  <2>1. s = site /\ n = nth + 1 /\ n \in 1..Len(SiteChecks(site))
    BY <1>1, <1>2, <1>3
  <2>2. IsCheck(s, n)
    BY <1>1, <2>1 DEF IsCheck
  <2>. QED BY <1>1, <1>2, <2>1, <2>2 DEF Before, Stations
<1>4. CASE ~(nth < Len(SiteChecks(site)))
  <2>1. s = site + 1 /\ n = 1 /\ nth = Len(SiteChecks(site))
    BY <1>1, <1>2, <1>4
  <2>2. ASSUME s <= Len(file.secondaries) PROVE IsCheck(s, n)
    <3>1. s \in Stations
      BY <1>1, <2>1, <2>2 DEF Stations
    <3>2. Len(SiteChecks(s)) \in Nat /\ Len(SiteChecks(s)) >= 1
      BY <2>2, <3>1, SiteChecksFacts
    <3>. QED BY <2>1, <3>1, <3>2 DEF IsCheck
  <2>3. ~IsCheck(s, n) => s > Len(file.secondaries)
    BY <1>1, <2>1, <2>2
  <2>4. ASSUME NEW k \in Stations, NEW j \in 1..Len(SiteChecks(k)), k < s \/ (k = s /\ j < n)
        PROVE  Before(k, j) \/ (k = site /\ j = nth)
    <3>1. k \in Nat /\ Len(SiteChecks(k)) \in Nat
      BY SiteChecksFacts DEF Stations
    <3>2. j \in Nat \ {0}
      BY <3>1
    <3>3. k < s
      BY <2>1, <2>4, <3>2
    <3>4. k <= site
      BY <1>1, <2>1, <3>1, <3>3
    <3>5. CASE k = site
      BY <1>1, <1>2, <2>1, <3>2, <3>5 DEF Before
    <3>. QED BY <1>1, <3>1, <3>4, <3>5 DEF Before
  <2>. QED BY <1>1, <2>1, <2>3, <2>4
<1>. QED BY <1>3, <1>4

-----------------------------------------------------------------------------
(* Type correctness. *)

\* pg setup has found the secondary it works on, and the file stays as it is
\* meanwhile.
SlotKnown == pc \in {"basebackup", "conninfo"} => SlotName \in Slots \cup {NoText}

TypeInv == TypeOK /\ SlotKnown

LEMMA FoundSlot ==
    ASSUME FileShape, NEW n, FindSecondary(file, n) # {}
    PROVE  SlotOf(file, {n}) \in Slots \cup {NoText}
<1>. DEFINE found == UNION {FindSecondary(file, m) : m \in {n}}
<1>1. found = FindSecondary(file, n)
  OBVIOUS
<1>2. (CHOOSE s \in found : TRUE) \in FindSecondary(file, n)
  BY <1>1
<1>3. \A s \in FindSecondary(file, n) : s.slot \in Slots \cup {NoText}
  BY DEF FindSecondary, FileShape
<1>. QED BY <1>2, <1>3 DEF SlotOf

\* Steps of doctor and of the operator leave pg setup alone, and the other
\* way round.
SetupTypes ==
    /\ pgdata \in [Names -> {"empty", "partial", "standby", "other"}]
    /\ slots \in SUBSET Slots
    /\ who \in SUBSET Names /\ (who # {} <=> pc \in {"basebackup", "conninfo"})
    /\ reported \in [Names -> [result : {"none", "ok", "error"}, slot : Slots \cup {NoText}]]

DoctorTypes ==
    /\ site \in Nat /\ nth \in Nat \ {0}
    /\ pc = "doctor" => IsCheck(site, nth)
    /\ pc = "report" => site > Len(file.secondaries)
    /\ changes \in 0..MaxChanges /\ cancelled \in BOOLEAN
    /\ worst \in {"PASS", "WARN", "FAIL"}
    /\ persisted \subseteq missing

LEMMA TypeParts ==
    TypeOK <=> /\ IsFile(file) /\ env \in Environments
               /\ pc \in {"off", "init", "basebackup", "conninfo", "doctor", "report"}
               /\ origin \in {"none", "wizard", "hand"}
               /\ SetupTypes /\ DoctorTypes
BY Zenon DEF TypeOK, SetupTypes, DoctorTypes

LEMMA QuietType ==
    ASSUME NEW res \in {"none", "ok", "error"}
    PROVE  Quiet(res) \in [result : {"none", "ok", "error"}, slot : Slots \cup {NoText}]
BY DEF Quiet

LEMMA TypeInit == Init => TypeInv
<1>. SUFFICES ASSUME Init PROVE TypeInv
  OBVIOUS
<1>1. SetupTypes
  BY QuietType DEF Init, SetupTypes
<1>2. DoctorTypes
  <2>1. /\ site = 0 /\ nth = 1 /\ changes = 0 /\ pc = "off" /\ worst = "PASS"
        /\ persisted = {} /\ missing = {}
    BY DEF Init
  <2>2. cancelled \in BOOLEAN
    BY DEF Init
  <2>3. site \in Nat /\ nth \in Nat \ {0} /\ changes \in 0..MaxChanges
    BY <2>1, BringupAssumption
  <2>. QED BY <2>1, <2>2, <2>3 DEF DoctorTypes
<1>3. IsFile(file)
  BY EmptyIsFile DEF Init
<1>4. /\ env \in Environments /\ origin \in {"none", "wizard", "hand"} /\ pc = "off"
      /\ pc \in {"off", "init", "basebackup", "conninfo", "doctor", "report"}
  BY DEF Init
<1>5. SlotKnown
  BY <1>4 DEF SlotKnown
<1>. QED BY <1>1, <1>2, <1>3, <1>4, <1>5, TypeParts, Zenon DEF TypeInv

\* The results of pg setup have their type.
LEMMA SetupReturnsTypes ==
    ASSUME SetupTypes, SlotKnown, pc \in {"basebackup", "conninfo"},
           NEW res \in {"ok", "error"}, SetupReturns(res)
    PROVE  /\ reported' \in [Names -> [result : {"none", "ok", "error"}, slot : Slots \cup {NoText}]]
           /\ pc' = "off" /\ who' = {}
<1>. DEFINE R == [result : {"none", "ok", "error"}, slot : Slots \cup {NoText}]
            g(n) == IF n \notin who THEN reported[n]
                    ELSE IF res = "ok" THEN [result |-> "ok", slot |-> SlotName] ELSE Quiet("error")
<1>1. reported' = [n \in Names |-> g(n)] /\ pc' = "off" /\ who' = {}
  BY DEF SetupReturns
<1>2. Quiet("error") \in R
  BY QuietType
<1>3. [result |-> "ok", slot |-> SlotName] \in R
  BY DEF SlotKnown
<1>4. \A n \in Names : reported[n] \in R
  BY DEF SetupTypes
<1>. HIDE DEF R
<1>5. \A n \in Names : g(n) \in R
  BY <1>2, <1>3, <1>4, Zenon
<1>. HIDE DEF g
<1>. QED BY <1>1, <1>5 DEF R

\* The steps of pg setup, and of cleaning up after it.
LEMMA SetupTypesStep ==
    ASSUME TypeInv, FileShape,
           \/ \E n \in Names : CleanUp(n) \/ SetupStart(n)
           \/ RunBasebackup \/ AppendConnInfoAppname
    PROVE  /\ SetupTypes' /\ SlotKnown'
           /\ pc' \in {"off", "basebackup", "conninfo"}
<1>. DEFINE R == [result : {"none", "ok", "error"}, slot : Slots \cup {NoText}]
<1>1. SetupTypes /\ SlotKnown
  BY TypeParts DEF TypeInv
<1>2. ASSUME NEW n \in Names, CleanUp(n)
      PROVE  SetupTypes' /\ SlotKnown' /\ pc' = "off"
  <2>1. Quiet("none") \in R
    BY QuietType
  <2>2. reported' \in [Names -> R]
    BY <1>1, <1>2, <2>1 DEF SetupTypes, CleanUp
  <2>. QED BY <1>1, <1>2, <2>2 DEF SetupTypes, SlotKnown, CleanUp
<1>3. ASSUME NEW n \in Names, SetupStart(n)
      PROVE  SetupTypes' /\ SlotKnown' /\ pc' \in {"off", "basebackup"}
  <2>1. CASE pc' = "basebackup" /\ who' = {n} /\ UNCHANGED reported /\ FindSecondary(file, n) # {}
    <3>1. SetupTypes'
      BY <1>1, <1>3, <2>1 DEF SetupTypes, SetupStart
    <3>2. SlotName' = SlotOf(file, {n})
      BY <1>3, <2>1 DEF SlotName, SetupStart
    <3>. QED BY <2>1, <3>1, <3>2, FoundSlot DEF SlotKnown
  <2>2. CASE UNCHANGED <<pc, who, reported>>
    BY <1>1, <1>3, <2>2 DEF SetupTypes, SlotKnown, SetupStart
  <2>3. CASE reported' = [reported EXCEPT ![n].result = "error"] /\ UNCHANGED <<pc, who>>
    <3>1. reported' \in [Names -> R]
      BY <1>1, <2>3 DEF SetupTypes
    <3>. QED BY <1>1, <1>3, <2>3, <3>1 DEF SetupTypes, SlotKnown, SetupStart
  <2>. QED BY <1>3, <2>1, <2>2, <2>3, Zenon DEF SetupStart
<1>4. CASE RunBasebackup
  <2>1. pc = "basebackup" /\ SlotName \in Slots \cup {NoText}
    BY <1>1, <1>4 DEF RunBasebackup, SlotKnown
  <2>2. ASSUME NEW S, S \in {slots, slots \cup ({SlotName} \ {NoText})}
        PROVE  S \in SUBSET Slots
    BY <1>1, <2>1, <2>2 DEF SetupTypes
  <2>3. CASE Basebackup /\ pc' = "conninfo" /\ UNCHANGED <<who, reported>>
    <3>1. slots' \in SUBSET Slots
      BY <2>2, <2>3 DEF Basebackup
    <3>2. pgdata' \in [Names -> {"empty", "partial", "standby", "other"}]
      BY <1>1, <2>3 DEF SetupTypes, Basebackup
    <3>3. SlotName' = SlotName
      BY <1>4, <2>3, SlotNameKept DEF RunBasebackup
    <3>. QED BY <1>1, <2>1, <2>3, <3>1, <3>2, <3>3 DEF SetupTypes, SlotKnown
  <2>4. CASE BasebackupEndsBadly /\ SetupReturns("error")
    <3>1. slots' \in SUBSET Slots
      BY <2>2, <2>4 DEF BasebackupEndsBadly
    <3>2. pgdata' \in [Names -> {"empty", "partial", "standby", "other"}]
      BY <1>1, <2>4 DEF SetupTypes, BasebackupEndsBadly
    <3>3. reported' \in [Names -> R] /\ pc' = "off" /\ who' = {}
      BY <1>1, <2>1, <2>4, SetupReturnsTypes
    <3>. QED BY <3>1, <3>2, <3>3 DEF SetupTypes, SlotKnown
  <2>. QED BY <1>4, <2>3, <2>4, Zenon DEF RunBasebackup
<1>5. CASE AppendConnInfoAppname
  <2>1. PICK res \in {"ok", "error"} : SetupReturns(res)
    BY <1>5 DEF AppendConnInfoAppname
  <2>2. reported' \in [Names -> R] /\ pc' = "off" /\ who' = {}
    BY <1>1, <1>5, <2>1, SetupReturnsTypes DEF AppendConnInfoAppname
  <2>. QED BY <1>1, <1>5, <2>2 DEF SetupTypes, SlotKnown, AppendConnInfoAppname
<1>. QED BY <1>2, <1>3, <1>4, <1>5, Zenon

\* While doctor does not run, its state does not change.
LEMMA DoctorIdle ==
    ASSUME DoctorTypes, UNCHANGED doc, pc' \notin {"doctor", "report"}
    PROVE  DoctorTypes'
BY DEF DoctorTypes, doc

LEMMA DoctorTypesStep ==
    ASSUME TypeInv, DoctorStart \/ DoctorCheck \/ MissingChange \/ Cancel \/ DoctorReport
    PROVE  DoctorTypes' /\ pc' \in {"doctor", "report", "off"}
           /\ UNCHANGED <<file, env, origin, pgdata, slots, who, reported>>
<1>1. DoctorTypes /\ IsFile(file)
  BY TypeParts DEF TypeInv
<1>2. Len(file.secondaries) \in Nat
  BY <1>1 DEF IsFile
<1>3. UNCHANGED <<file, env, origin, pgdata, slots, who, reported>>
  BY DEF DoctorStart, DoctorCheck, MissingChange, Cancel, DoctorReport
<1>4. CASE DoctorStart
  <2>1. 0 \in Stations /\ 1 \in 1..Len(SiteChecks(0))
    <3>1. 0 \in Stations
      BY <1>2 DEF Stations
    <3>. QED BY <1>2, <3>1, SiteChecksFacts
  <2>2. Stations' = Stations /\ SiteChecks(0)' = SiteChecks(0)
    BY <1>3, ChecksKept
  <2>3. pc' = "doctor" /\ site' = 0 /\ nth' = 1 /\ UNCHANGED <<changes, cancelled, worst>>
        /\ persisted' = missing'
    BY <1>4 DEF DoctorStart
  <2>4. SiteChecks(site)' = SiteChecks(0)
    BY <1>3, <2>3 DEF SiteChecks, PrimaryChecks
  <2>5. IsCheck(site, nth)'
    BY <2>1, <2>2, <2>3, <2>4 DEF IsCheck
  <2>. QED BY <1>1, <1>3, <2>3, <2>5 DEF DoctorTypes
<1>5. CASE DoctorCheck
  <2>1. /\ pc = "doctor"
        /\ IF nth < Len(SiteChecks(site)) THEN site' = site /\ nth' = nth + 1
                                          ELSE site' = site + 1 /\ nth' = 1
        /\ pc' = IF IsCheck(site', nth') THEN "doctor" ELSE "report"
        /\ UNCHANGED <<missing, changes, cancelled, persisted>>
    BY <1>5 DEF DoctorCheck
  <2>2. IsCheck(site, nth)
    BY <1>1, <2>1 DEF DoctorTypes
  <2>3. /\ site' \in Nat /\ nth' \in Nat \ {0}
        /\ ~IsCheck(site', nth') => site' > Len(file.secondaries)
    BY <1>2, <2>1, <2>2, OnToNext
  <2>4. IsCheck(site', nth') => IsCheck(site, nth)'
    BY <1>3 DEF IsCheck, Stations, SiteChecks, PrimaryChecks, SecondaryChecks, StorageChecks, HasSSH, SiteOf
  <2>5. worst' \in {"PASS", "WARN", "FAIL"}
    BY <1>5 DEF DoctorCheck, Worse
  <2>6. pc' \in {"doctor", "report"} /\ (pc' = "doctor" => IsCheck(site', nth'))
        /\ (pc' = "report" => ~IsCheck(site', nth'))
    BY <2>1
  <2>. QED BY <1>1, <1>3, <2>1, <2>3, <2>4, <2>5, <2>6 DEF DoctorTypes
<1>6. CASE MissingChange \/ Cancel
  <2>1. pc = "doctor" /\ UNCHANGED <<pc, site, nth, worst>>
    BY <1>6 DEF MissingChange, Cancel
  <2>2. IsCheck(site, nth)'
    BY <1>1, <1>3, <2>1 DEF DoctorTypes, IsCheck, Stations, SiteChecks, PrimaryChecks,
       SecondaryChecks, StorageChecks, HasSSH, SiteOf
  <2>3. changes' \in 0..MaxChanges
    BY <1>1, <1>6, BringupAssumption DEF DoctorTypes, MissingChange, Cancel
  <2>4. persisted' \subseteq missing'
    BY <1>1, <1>6 DEF DoctorTypes, MissingChange, Cancel
  <2>5. cancelled' \in BOOLEAN
    BY <1>1, <1>6 DEF DoctorTypes, MissingChange, Cancel
  <2>. QED BY <1>1, <1>3, <2>1, <2>2, <2>3, <2>4, <2>5 DEF DoctorTypes
<1>7. CASE DoctorReport
  <2>1. /\ pc' = "off" /\ worst' = "PASS" /\ site' = 0 /\ nth' = 1
        /\ missing' = {} /\ persisted' = {} /\ changes' = 0 /\ cancelled' = FALSE
    BY <1>7 DEF DoctorReport
  <2>2. site' \in Nat /\ nth' \in Nat \ {0} /\ changes' \in 0..MaxChanges
    BY <2>1, BringupAssumption
  <2>3. cancelled' \in BOOLEAN
    BY <2>1, Zenon
  <2>. QED BY <1>3, <2>1, <2>2, <2>3 DEF DoctorTypes
<1>. QED BY <1>3, <1>4, <1>5, <1>6, <1>7

LEMMA TypeStep == TypeInv /\ FileShape /\ FileShape' /\ [Next]_vars => TypeInv'
<1>. SUFFICES ASSUME TypeInv, FileShape, FileShape', [Next]_vars
              PROVE  TypeInv'
  OBVIOUS
<1>1. /\ IsFile(file) /\ env \in Environments /\ origin \in {"none", "wizard", "hand"}
      /\ pc \in {"off", "init", "basebackup", "conninfo", "doctor", "report"}
      /\ SetupTypes /\ DoctorTypes /\ SlotKnown
  BY TypeParts, Zenon DEF TypeInv
<1>2. IsFile(file)'
  BY DEF FileShape
<1>3. ASSUME env' \in Environments, origin' \in {"none", "wizard", "hand"},
             pc' \in {"off", "init", "basebackup", "conninfo", "doctor", "report"},
             SetupTypes', DoctorTypes', SlotKnown'
      PROVE  TypeInv'
  BY <1>2, <1>3, Zenon DEF TypeInv, TypeOK, SetupTypes, DoctorTypes
<1>4. ASSUME UNCHANGED <<pgdata, slots, who, reported>>, pc' \notin {"basebackup", "conninfo"},
             pc \notin {"basebackup", "conninfo"}
      PROVE  SetupTypes' /\ SlotKnown'
  BY <1>1, <1>4 DEF SetupTypes, SlotKnown
<1>5. CASE EditFile \/ Export \/ InitCreate \/ InitWrite
  <2>1. /\ pc \in {"off", "init"} /\ pc' \in {"off", "init"}
        /\ UNCHANGED <<pgdata, slots, who, reported, doc>>
    BY <1>5 DEF EditFile, Export, InitCreate, InitWrite
  <2>2. env' \in Environments /\ origin' \in {"none", "wizard", "hand"}
    BY <1>1, <1>5 DEF EditFile, Export, InitCreate, InitWrite
  <2>. QED BY <1>1, <1>3, <1>4, <2>1, <2>2, DoctorIdle
<1>6. CASE (\E n \in Names : CleanUp(n) \/ SetupStart(n)) \/ RunBasebackup \/ AppendConnInfoAppname
  <2>1. SetupTypes' /\ SlotKnown' /\ pc' \in {"off", "basebackup", "conninfo"}
    BY <1>6, SetupTypesStep, Zenon
  <2>2. UNCHANGED <<env, origin, doc>>
    BY <1>6 DEF CleanUp, SetupStart, RunBasebackup, AppendConnInfoAppname
  <2>3. DoctorTypes'
    BY <1>1, <2>1, <2>2, DoctorIdle
  <2>. QED BY <1>1, <1>3, <2>1, <2>2, <2>3
<1>7. CASE DoctorStart \/ DoctorCheck \/ MissingChange \/ Cancel \/ DoctorReport
  <2>1. /\ DoctorTypes' /\ pc' \in {"doctor", "report", "off"}
        /\ UNCHANGED <<file, env, origin, pgdata, slots, who, reported>>
    BY <1>7, DoctorTypesStep, Zenon
  <2>2. pc \in {"off", "doctor", "report"}
    BY <1>7 DEF DoctorStart, DoctorCheck, MissingChange, Cancel, DoctorReport
  <2>. QED BY <1>1, <1>3, <1>4, <2>1, <2>2
<1>8. CASE UNCHANGED vars
  <2>1. UNCHANGED <<file, origin, env, pgdata, slots, pc, who, reported, doc>>
    BY <1>8 DEF vars
  <2>2. SetupTypes' /\ SlotKnown'
    BY <1>1, <2>1, SlotNameKept DEF SetupTypes, SlotKnown
  <2>3. IsCheck(site, nth)' = IsCheck(site, nth)
    BY <2>1 DEF doc, IsCheck, Stations, SiteChecks, PrimaryChecks, SecondaryChecks, StorageChecks,
       HasSSH, SiteOf
  <2>4. DoctorTypes'
    BY <1>1, <2>1, <2>3 DEF DoctorTypes, doc
  <2>. QED BY <1>1, <1>3, <2>1, <2>2, <2>4
<1>. QED BY <1>5, <1>6, <1>7, <1>8, Zenon DEF Next

LEMMA TypeInvariance == Spec => []TypeInv
<1>. QED BY TypeInit, TypeStep, FileShapeInvariance, PTL DEF Spec

\* The state of the commands is well formed for every file and environment: the
\* wizard's file has the shape that Load expects, pg setup only names slots of
\* the file, and doctor does not report before it has been at every site.
THEOREM TypeCorrect == Spec => []TypeOK
<1>1. TypeInv => TypeOK
  BY DEF TypeInv
<1>. QED BY <1>1, TypeInvariance, PTL

-----------------------------------------------------------------------------
(* doctor *)

\* What a check that passed says until the report is printed.
Passed(k, x) ==
    /\ <<k, x>> \notin persisted
    /\ x = "recovery" => InRecovery(k)
    /\ x = "ssh" => HasSSH(k)

\* What has been missing since doctor began is the subject of one of its
\* checks, one that cannot pass; as long as nothing but PASS has been said,
\* every check made so far still holds; and the report comes after the last.
DoctorInv ==
    /\ pc \notin {"doctor", "report"} => worst = "PASS"
    /\ pc \in {"doctor", "report"} =>
          \A c \in persisted :
             c[2] \in Faults /\ \E k \in Stations : \E j \in 1..Len(SiteChecks(k)) : c = <<k, SiteChecks(k)[j]>>
    /\ pc \in {"doctor", "report"} /\ worst = "PASS" =>
          \A k \in Stations : \A j \in 1..Len(SiteChecks(k)) :
             Before(k, j) => Passed(k, SiteChecks(k)[j])
    /\ pc = "report" => ~IsCheck(site, nth) /\ nth = 1 /\ site > Len(file.secondaries)

\* A check that passes: its subject is there, the standby is in recovery, the
\* site has an ssh_host.
LEMMA StatusPass ==
    ASSUME NEW k, NEW x, Status(<<k, x>>) = "PASS"
    PROVE  /\ x \in Faults => <<k, x>> \notin missing
           /\ x = "recovery" => InRecovery(k)
           /\ x = "ssh" => HasSSH(k)
<1>1. Faults \subseteq {"ssh", "control", "role", "walLevel", "walSenders", "key", "rsync", "git",
                        "recovery", "parity", "path"}
  BY BringupAssumption
<1>2. CASE x = "parity"
  <2>1. DBKeyParityCheck(k) = "PASS"
    BY <1>2 DEF Status
  <2>2. missing \cap {<<0, "key">>, <<k, "key">>, <<k, "parity">>} = {}
    BY <2>1 DEF DBKeyParityCheck
  <2>. QED BY <1>2, <2>2
<1>3. CASE x \in {"control", "role", "walLevel", "walSenders"}
  BY <1>3 DEF Status
<1>4. CASE x = "recovery"
  BY <1>4 DEF Status
<1>5. CASE x = "path"
  BY <1>5 DEF Status
<1>6. CASE x \in {"ssh", "key", "rsync", "git"}
  BY <1>6 DEF Status
<1>. QED BY <1>1, <1>2, <1>3, <1>4, <1>5, <1>6

\* Only PASS and PASS make PASS.
LEMMA WorsePass ==
    ASSUME NEW a, NEW b, Worse(a, b) = "PASS", a \in {"PASS", "WARN", "FAIL"}
    PROVE  a = "PASS" /\ b \notin {"WARN", "FAIL"}
BY DEF Worse

\* A status is one of three.
LEMMA StatusType ==
    ASSUME NEW k, NEW x
    PROVE  Status(<<k, x>>) \in {"PASS", "WARN", "FAIL"}
<1>1. CASE x = "s3"
  BY <1>1 DEF Status, S3BucketCheck
<1>2. CASE x = "parity"
  BY <1>2 DEF Status, DBKeyParityCheck
<1>3. CASE x \in {"control", "role", "walLevel", "walSenders"}
  BY <1>3 DEF Status
<1>4. CASE x = "recovery"
  BY <1>4 DEF Status
<1>5. CASE x = "path"
  BY <1>5 DEF Status
<1>6. CASE x \notin {"s3", "parity", "control", "role", "walLevel", "walSenders", "recovery", "path"}
  BY <1>6 DEF Status
<1>. QED BY <1>1, <1>2, <1>3, <1>4, <1>5, <1>6

LEMMA DoctorInit == Init => DoctorInv
BY DEF Init, DoctorInv

LEMMA DoctorStartKeeps ==
    ASSUME TypeInv, DoctorInv, DoctorStart
    PROVE  DoctorInv'
<1>1. /\ pc = "off" /\ pc' = "doctor" /\ site' = 0 /\ nth' = 1 /\ missing' \in Missing
      /\ persisted' = missing' /\ UNCHANGED <<file, pgdata, worst>>
  BY DEF DoctorStart
<1>2. \A k : SiteChecks(k)' = SiteChecks(k)
  BY <1>1, ChecksKept
<1>3. Stations' = Stations
  BY <1>1, ChecksKept
<1>4. ASSUME NEW c \in persisted'
      PROVE  c[2] \in Faults /\ \E k \in Stations : \E j \in 1..Len(SiteChecks(k)) : c = <<k, SiteChecks(k)[j]>>
  <2>1. c \in AllChecks /\ c[2] \in Faults
    BY <1>1, <1>4 DEF Missing
  <2>. QED BY <2>1, Zenon DEF AllChecks
<1>5. ASSUME NEW k \in Stations, NEW j \in 1..Len(SiteChecks(k))
      PROVE  ~Before(k, j)'
  <2>1. k \in Nat /\ Len(SiteChecks(k)) \in Nat
    <3>1. Len(file.secondaries) \in Nat
      BY TypeParts DEF TypeInv, IsFile
    <3>. QED BY <3>1, SiteChecksFacts DEF Stations
  <2>2. j \in Nat \ {0}
    BY <2>1
  <2>. QED BY <1>1, <2>1, <2>2 DEF Before
<1>6. pc' = "doctor" /\ pc' # "report"
  BY <1>1
<1>. QED BY <1>2, <1>3, <1>4, <1>5, <1>6, Zenon DEF DoctorInv

\* What has passed stays passed while doctor runs.
LEMMA PassedStays ==
    ASSUME UNCHANGED <<file, pgdata>>, persisted' \subseteq persisted, NEW k, NEW x, Passed(k, x)
    PROVE  Passed(k, x)'
BY DEF Passed, InRecovery, HasSSH, SiteOf

LEMMA DoctorCheckKeeps ==
    ASSUME TypeInv, DoctorInv, DoctorCheck
    PROVE  DoctorInv'
<1>1. DoctorTypes /\ Len(file.secondaries) \in Nat
  BY TypeParts, Zenon DEF TypeInv, IsFile
<1>2. /\ pc = "doctor"
      /\ worst' = Worse(worst, Status(<<site, SiteChecks(site)[nth]>>))
      /\ IF nth < Len(SiteChecks(site)) THEN site' = site /\ nth' = nth + 1
                                        ELSE site' = site + 1 /\ nth' = 1
      /\ pc' = IF IsCheck(site', nth') THEN "doctor" ELSE "report"
      /\ UNCHANGED <<file, pgdata, missing, persisted>>
  BY DEF DoctorCheck
<1>3. IsCheck(site, nth) /\ worst \in {"PASS", "WARN", "FAIL"} /\ persisted \subseteq missing
  BY <1>1, <1>2 DEF DoctorTypes
<1>4. /\ ~IsCheck(site', nth') => site' > Len(file.secondaries) /\ nth' = 1
      /\ \A k \in Stations : \A j \in 1..Len(SiteChecks(k)) :
            k < site' \/ (k = site' /\ j < nth') => Before(k, j) \/ (k = site /\ j = nth)
  BY <1>1, <1>2, <1>3, OnToNext
<1>5. \A k : SiteChecks(k)' = SiteChecks(k)
  BY <1>2, ChecksKept
<1>6. Stations' = Stations
  BY <1>2, ChecksKept
<1>7. \A c \in persisted' :
         c[2] \in Faults /\ \E k \in Stations : \E j \in 1..Len(SiteChecks(k)) : c = <<k, SiteChecks(k)[j]>>
  BY <1>2, Zenon DEF DoctorInv
<1>8. ASSUME worst' = "PASS", NEW k \in Stations, NEW j \in 1..Len(SiteChecks(k)), Before(k, j)'
      PROVE  Passed(k, SiteChecks(k)[j])'
  <2>. DEFINE x == SiteChecks(site)[nth]
  <2>1. worst = "PASS" /\ Status(<<site, x>>) = "PASS"
    BY <1>2, <1>3, <1>8, WorsePass, StatusType
  <2>2. Before(k, j) \/ (k = site /\ j = nth)
    BY <1>4, <1>8 DEF Before
  <2>3. CASE Before(k, j)
    <3>1. Passed(k, SiteChecks(k)[j])
      BY <1>2, <2>1, <2>3 DEF DoctorInv
    <3>2. \A y : Passed(k, y) => Passed(k, y)'
      BY <1>2, PassedStays
    <3>3. SiteChecks(k)[j]' = SiteChecks(k)[j]
      BY <1>5
    <3>. QED BY <3>1, <3>2, <3>3, <1>2 DEF Passed, InRecovery, HasSSH, SiteOf
  <2>4. CASE k = site /\ j = nth
    <3>1. /\ x \in Faults => <<k, x>> \notin missing
          /\ x = "recovery" => InRecovery(k)
          /\ x = "ssh" => HasSSH(k)
      BY <2>1, <2>4, StatusPass
    <3>2. <<k, x>> \notin persisted
      <4>1. <<k, x>>[2] = x
        OBVIOUS
      <4>2. <<k, x>> \in persisted => x \in Faults
        BY <1>2, <4>1 DEF DoctorInv
      <4>. QED BY <1>3, <3>1, <4>2
    <3>3. Passed(k, SiteChecks(k)[j])
      BY <2>4, <3>1, <3>2 DEF Passed
    <3>4. SiteChecks(k)[j]' = SiteChecks(k)[j]
      BY <1>5
    <3>. QED BY <3>3, <3>4, <1>2 DEF Passed, InRecovery, HasSSH, SiteOf
  <2>. QED BY <2>2, <2>3, <2>4
<1>9. pc' = "report" => ~IsCheck(site, nth)' /\ nth' = 1 /\ site' > Len(file'.secondaries)
  <2>1. IsCheck(site, nth)' = IsCheck(site', nth')
    BY <1>2 DEF IsCheck, Stations, SiteChecks, PrimaryChecks, SecondaryChecks, StorageChecks, HasSSH, SiteOf
  <2>. QED BY <1>2, <1>4, <2>1
<1>10. pc' \in {"doctor", "report"}
  BY <1>2
<1>. QED BY <1>5, <1>6, <1>7, <1>8, <1>9, <1>10, Zenon DEF DoctorInv

\* A change, a cancellation or nothing at all, while doctor may be running.
LEMMA DoctorWaitKeeps ==
    ASSUME DoctorInv, UNCHANGED <<file, pgdata, pc, site, nth, worst>>, persisted' \subseteq persisted
    PROVE  DoctorInv'
<1>1. \A k : SiteChecks(k)' = SiteChecks(k)
  BY ChecksKept
<1>2. Stations' = Stations
  BY ChecksKept
<1>3. \A k, j : Before(k, j)' = Before(k, j)
  BY DEF Before
<1>4. \A k, x : Passed(k, x) => Passed(k, x)'
  BY PassedStays
<1>5. IsCheck(site, nth)' = IsCheck(site, nth)
  BY DEF IsCheck, Stations, SiteChecks, PrimaryChecks, SecondaryChecks, StorageChecks, HasSSH, SiteOf
<1>6. pc \in {"doctor", "report"} /\ worst = "PASS" =>
        \A k \in Stations : \A j \in 1..Len(SiteChecks(k)) :
           Before(k, j) => Passed(k, SiteChecks(k)[j])'
  <2>1. ASSUME pc \in {"doctor", "report"}, worst = "PASS",
               NEW k \in Stations, NEW j \in 1..Len(SiteChecks(k)), Before(k, j)
        PROVE  Passed(k, SiteChecks(k)[j])'
    <3>1. Passed(k, SiteChecks(k)[j])
      BY <2>1, Zenon DEF DoctorInv
    <3>2. SiteChecks(k)[j]' = SiteChecks(k)[j]
      BY <1>1
    <3>. QED BY <3>1, <3>2 DEF Passed, InRecovery, HasSSH, SiteOf
  <2>. QED BY <2>1, Zenon
<1>7. \A c \in persisted' : c \in persisted
  OBVIOUS
<1>. QED BY <1>1, <1>2, <1>3, <1>5, <1>6, <1>7, Zenon DEF DoctorInv

LEMMA DoctorStep == TypeInv /\ DoctorInv /\ [Next]_vars => DoctorInv'
<1>. SUFFICES ASSUME TypeInv, DoctorInv, [Next]_vars
              PROVE  DoctorInv'
  OBVIOUS
<1>1. CASE DoctorStart
  BY <1>1, DoctorStartKeeps
<1>2. CASE DoctorCheck
  BY <1>2, DoctorCheckKeeps
<1>3. CASE MissingChange \/ Cancel
  BY <1>3, DoctorWaitKeeps DEF MissingChange, Cancel
<1>4. CASE DoctorReport
  <2>1. pc' = "off" /\ worst' = "PASS"
    BY <1>4 DEF DoctorReport
  <2>. QED BY <2>1 DEF DoctorInv
<1>5. CASE EditFile \/ Export \/ InitCreate \/ InitWrite \/ (\E n \in Names : CleanUp(n) \/ SetupStart(n))
           \/ RunBasebackup \/ AppendConnInfoAppname
  <2>1. /\ pc \notin {"doctor", "report"} /\ pc' \notin {"doctor", "report"}
        /\ UNCHANGED doc
    BY <1>5 DEF EditFile, Export, InitCreate, InitWrite, CleanUp, SetupStart, RunBasebackup,
       AppendConnInfoAppname, SetupReturns
  <2>. QED BY <2>1 DEF DoctorInv, doc
<1>6. CASE UNCHANGED vars
  BY <1>6, DoctorWaitKeeps DEF vars, doc
<1>. QED BY <1>1, <1>2, <1>3, <1>4, <1>5, <1>6, Zenon DEF Next

LEMMA DoctorInvariance == Spec => []DoctorInv
BY DoctorInit, DoctorStep, TypeInvariance, PTL DEF Spec

\* "Ready to sync!" is only said when nothing that doctor looks for was missing
\* all along, every secondary is a standby and every site can be logged into,
\* for any number of secondaries and however often things break and are
\* repaired while doctor runs.  (Result.checks, Print)
THEOREM ReadyTheorem == Spec => []ReadyMeansNoFault
<1>1. ASSUME TypeInv, DoctorInv PROVE ReadyMeansNoFault
  <2>. SUFFICES ASSUME pc = "report", worst = "PASS"
                PROVE  /\ persisted = {}
                       /\ \A k \in 1..Len(file.secondaries) : InRecovery(k)
                       /\ \A k \in 0..Len(file.secondaries) : HasSSH(k)
    BY DEF ReadyMeansNoFault
  <2>1. Len(file.secondaries) \in Nat /\ site \in Nat
    BY <1>1, TypeParts, Zenon DEF TypeInv, IsFile, DoctorTypes
  <2>2. ~IsCheck(site, nth) /\ nth = 1 /\ site > Len(file.secondaries)
    BY <1>1, Zenon DEF DoctorInv
  <2>3. ASSUME NEW k \in Stations, NEW j \in 1..Len(SiteChecks(k)) PROVE Passed(k, SiteChecks(k)[j])
    <3>1. k \in Nat /\ Len(SiteChecks(k)) \in Nat /\ k <= Len(file.secondaries) + 1
      BY <2>1, SiteChecksFacts DEF Stations
    <3>2. k = site => IsCheck(site, nth)
      BY <2>2, <3>1 DEF IsCheck
    <3>3. k < site
      BY <2>1, <2>2, <3>1, <3>2
    <3>. QED BY <1>1, <3>3, Zenon DEF DoctorInv, Before
  <2>4. ASSUME NEW c \in persisted PROVE FALSE
    <3>1. PICK k \in Stations : \E j \in 1..Len(SiteChecks(k)) : c = <<k, SiteChecks(k)[j]>>
      BY <1>1, <2>4, Zenon DEF DoctorInv
    <3>2. PICK j \in 1..Len(SiteChecks(k)) : c = <<k, SiteChecks(k)[j]>>
      BY <3>1
    <3>. QED BY <2>3, <2>4, <3>2, Zenon DEF Passed
  <2>5. ASSUME NEW k \in 1..Len(file.secondaries) PROVE InRecovery(k)
    <3>1. k \in Stations
      BY <2>1 DEF Stations
    <3>2. 3 \in 1..Len(SiteChecks(k)) /\ SiteChecks(k)[3] = "recovery"
      BY <2>1, <3>1, SiteChecksFacts
    <3>. QED BY <2>3, <3>1, <3>2, Zenon DEF Passed
  <2>6. ASSUME NEW k \in 0..Len(file.secondaries) PROVE HasSSH(k)
    <3>1. k \in Stations /\ k <= Len(file.secondaries)
      BY <2>1 DEF Stations
    <3>2. 1 \in 1..Len(SiteChecks(k)) /\ SiteChecks(k)[1] = "ssh"
      BY <2>1, <3>1, SiteChecksFacts
    <3>. QED BY <2>3, <3>1, <3>2, Zenon DEF Passed
  <2>. QED BY <2>4, <2>5, <2>6, Zenon
<1>. QED BY <1>1, TypeInvariance, DoctorInvariance, PTL

=============================================================================
