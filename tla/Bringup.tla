------------------------------ MODULE Bringup ------------------------------
(***************************************************************************)
(* Bringing a pair of sites up: the commands init, pg setup and doctor of  *)
(* cmd/syncctl, with internal/initcmd, internal/pgsetup, internal/doctor   *)
(* and, before any of them does anything, config.Load.                     *)
(*                                                                         *)
(* The operator runs them one at a time and may edit the file, change the  *)
(* environment and clean up in between; each of them may be interrupted.   *)
(* pg setup drives pg_basebackup, which may fail or be killed at any time  *)
(* and may have created its replication slot by then.  The prerequisites   *)
(* that doctor looks for may come and go while it runs.                    *)
(***************************************************************************)
EXTENDS Config

CONSTANTS
    Names,       \* names of secondaries
    Slots,       \* names of replication slots
    Answers,     \* answers to the wizard considered
    HandFiles,   \* files written by hand considered
    Environments,\* sets of exported variables considered
    Faults,      \* bound: the checks of doctor, by name, whose subject may be missing
    MaxChanges   \* bound: changes of what is missing during one doctor

ASSUME BringupAssumption ==
    /\ NoText \notin Names \cup Slots
    /\ Answers # {} /\ \A a \in Answers : IsAnswers(a)
    /\ NextSteps \subseteq Vars
    /\ \A f \in HandFiles :
          /\ IsFile(f)
          /\ \A i \in 1..Len(f.secondaries) : f.secondaries[i].slot \in Slots \cup {NoText}
    /\ Environments \subseteq SUBSET Vars
    /\ Faults \subseteq {"ssh", "control", "role", "walLevel", "walSenders", "key", "rsync", "git",
                     "recovery", "parity", "path"}   \* s3 asks nobody
    /\ MaxChanges \in Nat

VARIABLES
    file,       \* the configuration file
    env,        \* exported variables that are not empty
    pgdata,     \* [Names -> what --data-dir holds on that secondary]
    slots,      \* replication slots of the primary
    pc,         \* what is running
    who,        \* the secondary that pg setup works on, as a set
    missing,    \* prerequisites that are not met while doctor runs
    changes, cancelled,
    site, nth,  \* the check that doctor makes next: the nth at that site
    worst,      \* the worst status so far
    \* History, read by no action:
    origin,     \* where the file comes from
    reported,   \* [Names -> what the last pg setup returned, after success its slot]
    persisted   \* what has been missing since doctor began

doc == <<missing, changes, cancelled, site, nth, worst, persisted>>
vars == <<file, origin, env, pgdata, slots, pc, who, reported, doc>>

\* What a file looks like that has been created and not yet written.
EmptyFile == [GenerateYAML(CHOOSE a \in Answers : TRUE) EXCEPT !.decodes = FALSE]

Quiet(res) == [result |-> res, slot |-> NoText]

(* The checks of doctor.  A site is known by its position in the file, since *)
(* it is the sites that are looked at and not their names.                   *)

SiteOf(k) == IF k = 0 THEN file.primary ELSE file.secondaries[k]
HasSSH(k) == SiteOf(k).ssh # {}

PrimaryChecks == <<"ssh", "control", "role", "walLevel", "walSenders", "key", "rsync", "git">>
SecondaryChecks(k) ==
    <<"ssh", "control", "recovery", "key">>
    \o (IF HasSSH(0) /\ HasSSH(k) THEN <<"parity">> ELSE <<>>)
    \o <<"rsync", "git">> \o (IF SiteOf(k).reposPath THEN <<"path">> ELSE <<>>)
StorageChecks == IF file.primary.s3 # {} THEN <<"s3">> ELSE <<>>

\* Mutant: of the secondaries only the first is looked at.
SiteChecksFirstSecondary(k) ==
    IF k = 0 THEN PrimaryChecks ELSE IF k = 1 THEN SecondaryChecks(k) ELSE StorageChecks

\* Result.checks: the primary, the secondaries, the object storage.
SiteChecks(k) ==
    IF k = 0 THEN PrimaryChecks
    ELSE IF k <= Len(file.secondaries) THEN SecondaryChecks(k) ELSE StorageChecks

\* Where doctor stops on its way, the object storage last.
Stations == 0..(Len(file.secondaries) + 1)
IsCheck(k, j) == k \in Stations /\ j \in 1..Len(SiteChecks(k))

TypeOK ==
    /\ IsFile(file)
    /\ env \in Environments
    /\ pgdata \in [Names -> {"empty", "partial", "standby", "other"}]
    /\ slots \in SUBSET Slots
    /\ pc \in {"off", "init", "basebackup", "conninfo", "doctor", "report"}
    /\ who \in SUBSET Names /\ (who # {} <=> pc \in {"basebackup", "conninfo"})
    /\ site \in Nat /\ nth \in Nat \ {0}
    /\ pc = "doctor" => IsCheck(site, nth)
    /\ pc = "report" => site > Len(file.secondaries)   \* not before all have been looked at
    /\ changes \in 0..MaxChanges /\ cancelled \in BOOLEAN
    /\ worst \in {"PASS", "WARN", "FAIL"}
    /\ origin \in {"none", "wizard", "hand"}
    /\ reported \in [Names -> [result : {"none", "ok", "error"}, slot : Slots \cup {NoText}]]
    /\ persisted \subseteq missing

Init ==
    /\ file = EmptyFile /\ origin = "none"
    /\ env \in Environments
    /\ pgdata \in [Names -> {"empty", "other"}]
    /\ slots = {}
    /\ pc = "off" /\ who = {}
    /\ missing = {} /\ changes = 0 /\ cancelled = FALSE
    /\ site = 0 /\ nth = 1 /\ worst = "PASS"
    /\ reported = [n \in Names |-> Quiet("none")]
    /\ persisted = {}

-----------------------------------------------------------------------------
(* The operator. *)

EditFile ==
    /\ pc = "off"
    /\ file' \in HandFiles /\ origin' = "hand"
    /\ UNCHANGED <<env, pgdata, slots, pc, who, reported, doc>>

Export ==
    /\ pc = "off"
    /\ env' \in Environments
    /\ UNCHANGED <<file, origin, pgdata, slots, pc, who, reported, doc>>

\* Removes a data directory, and may drop the slots that no other standby uses.
CleanUp(n) ==
    /\ pc = "off"
    /\ pgdata' = [pgdata EXCEPT ![n] = "empty"]
    /\ slots' \in {slots, slots \cap {reported[m].slot : m \in Names \ {n}}}
    /\ reported' = [reported EXCEPT ![n] = Quiet("none")]
    /\ UNCHANGED <<file, origin, env, pc, who, doc>>

-----------------------------------------------------------------------------
(* init *)

\* os.Create truncates the file before anything is written to it.
InitCreate ==
    /\ pc = "off"
    /\ file' = EmptyFile /\ origin' = "none"
    /\ pc' = "init"
    /\ UNCHANGED <<env, pgdata, slots, who, reported, doc>>

InitWrite ==
    /\ pc = "init"
    /\ \/ /\ \E a \in Answers : file' = GenerateYAML(a)
          /\ origin' = "wizard"
       \/ UNCHANGED <<file, origin>>     \* killed, or the disk is full
    /\ pc' = "off"
    /\ UNCHANGED <<env, pgdata, slots, who, reported, doc>>

-----------------------------------------------------------------------------
(* pg setup *)

\* findSecondary: the first one of that name, as a set.
FindSecondary(f, n) ==
    LET found == {i \in 1..Len(f.secondaries) : f.secondaries[i].name = n}
    IN  {f.secondaries[i] : i \in {j \in found : \A k \in found : j <= k}}

SlotOf(f, names) == (CHOOSE s \in UNION {FindSecondary(f, n) : n \in names} : TRUE).slot
SlotName == SlotOf(file, who)

\* checkDataDir: it is empty, or not there yet.
CheckDataDir(n) == pgdata[n] = "empty"

\* Run up to pg_basebackup.  Without the secondary, or with a directory that
\* holds anything or cannot be read, it returns an error; a dry run prints the
\* command line and returns.
SetupStart(n) ==
    /\ pc = "off"
    /\ \E allow, dry \in BOOLEAN :
          LET ready == Loads(file, env, allow) /\ FindSecondary(file, n) # {} /\ CheckDataDir(n)
          IN  \/ /\ ready /\ ~dry
                 /\ pc' = "basebackup" /\ who' = {n}
                 /\ UNCHANGED reported
              \/ /\ ready /\ dry
                 /\ UNCHANGED <<pc, who, reported>>
              \/ /\ ~ready
                 /\ reported' = [reported EXCEPT ![n].result = "error"]
                 /\ UNCHANGED <<pc, who>>
    /\ UNCHANGED <<file, origin, env, pgdata, slots, doc>>

SetupReturns(res) ==
    /\ pc' = "off" /\ who' = {}
    /\ reported' = [n \in Names |->
          IF n \notin who THEN reported[n]
          ELSE IF res = "ok" THEN [result |-> "ok", slot |-> SlotName] ELSE Quiet("error")]

\* pg_basebackup -R: a standby, and the slot if one is named; --create-slot
\* fails if there is one of that name.
Basebackup ==
    /\ SlotName \notin slots
    /\ pgdata' = [n \in Names |-> IF n \in who THEN "standby" ELSE pgdata[n]]
    /\ slots' = slots \cup ({SlotName} \ {NoText})

\* It fails and removes what it has written, or it is killed and cannot; the
\* slot stays, if it got that far.
BasebackupEndsBadly ==
    /\ \E d \in {"empty", "partial"} :
          pgdata' = [n \in Names |-> IF n \in who THEN d ELSE pgdata[n]]
    /\ slots' \in {slots, slots \cup ({SlotName} \ {NoText})}

\* Mutant: the exit status of pg_basebackup is not looked at.
RunBasebackupIgnored ==
    /\ pc = "basebackup"
    /\ Basebackup \/ BasebackupEndsBadly
    /\ pc' = "conninfo"
    /\ UNCHANGED <<who, reported>>
    /\ UNCHANGED <<file, origin, env, doc>>

RunBasebackup ==
    /\ pc = "basebackup"
    /\ \/ /\ Basebackup
          /\ pc' = "conninfo"
          /\ UNCHANGED <<who, reported>>
       \/ /\ BasebackupEndsBadly
          /\ SetupReturns("error")
    /\ UNCHANGED <<file, origin, env, doc>>

\* appendConnInfoAppname: without a slot nothing is done, otherwise
\* postgresql.auto.conf is read and written.
AppendConnInfoAppname ==
    /\ pc = "conninfo"
    /\ \/ SetupReturns("ok")
       \/ SlotName # NoText /\ SetupReturns("error")
    /\ UNCHANGED <<file, origin, env, pgdata, slots, doc>>

-----------------------------------------------------------------------------
(* doctor *)

\* What may be missing: nothing, or the subject of one check.
AllChecks == UNION {{<<k, SiteChecks(k)[j]>> : j \in 1..Len(SiteChecks(k))} : k \in Stations}
Missing == {{}} \cup {{c} : c \in {c \in AllChecks : c[2] \in Faults}}

\* The site's ssh, and its PostgreSQL, are there to be asked.
Reached(k) == ~cancelled /\ <<k, "ssh">> \notin missing
AnswersPG(k) ==
    /\ ~cancelled /\ <<k, "control">> \notin missing
    /\ k # 0 => pgdata[SiteOf(k).name] \in {"standby", "other"}
InRecovery(k) == pgdata[SiteOf(k).name] = "standby"

\* dbKeyParityCheck: keys that cannot be read are no match.
DBKeyParityCheck(k) ==
    IF Reached(0) /\ Reached(k) /\ missing \cap {<<0, "key">>, <<k, "key">>, <<k, "parity">>} = {}
    THEN "PASS" ELSE "FAIL"

S3BucketCheck ==
    IF \A x \in file.primary.s3 : x.buckets /\ x.keys # "" THEN "PASS" ELSE "FAIL"

\* The status of one check.
Status(c) ==
    LET k == c[1]
        met == c \notin missing
    IN  CASE c[2] = "s3" -> S3BucketCheck
          [] c[2] = "parity" -> DBKeyParityCheck(k)
          [] c[2] \in {"control", "role", "walLevel", "walSenders"} ->
                IF AnswersPG(k) /\ met THEN "PASS" ELSE "FAIL"
          [] c[2] = "recovery" ->
                IF AnswersPG(k) /\ InRecovery(k) /\ met THEN "PASS" ELSE "WARN"
          [] c[2] = "path" -> IF HasSSH(k) /\ Reached(k) /\ met THEN "PASS" ELSE "WARN"
          [] OTHER -> IF ~HasSSH(k) THEN "WARN"
                      ELSE IF Reached(k) /\ met THEN "PASS" ELSE "FAIL"

Worse(a, b) ==
    IF "FAIL" \in {a, b} THEN "FAIL" ELSE IF "WARN" \in {a, b} THEN "WARN" ELSE "PASS"

DoctorStart ==
    /\ pc = "off"
    /\ \E allow \in BOOLEAN : Loads(file, env, allow)
    /\ pc' = "doctor" /\ site' = 0 /\ nth' = 1
    /\ missing' \in Missing
    /\ persisted' = missing'
    /\ UNCHANGED <<file, origin, env, pgdata, slots, who, reported, changes, cancelled, worst>>

\* Mutant: the first check that fails is the last.
DoctorCheckStopsAtFail ==
    /\ pc = "doctor"
    /\ worst' = Worse(worst, Status(<<site, SiteChecks(site)[nth]>>))
    /\ IF nth < Len(SiteChecks(site))
       THEN nth' = nth + 1 /\ UNCHANGED site
       ELSE nth' = 1 /\ site' = site + 1
    /\ pc' = IF IsCheck(site', nth') /\ worst' # "FAIL" THEN "doctor" ELSE "report"
    /\ UNCHANGED <<file, origin, env, pgdata, slots, who, reported,
                   missing, changes, cancelled, persisted>>

\* One check, and on to the next one, at this site or the next.
DoctorCheck ==
    /\ pc = "doctor"
    /\ worst' = Worse(worst, Status(<<site, SiteChecks(site)[nth]>>))
    /\ IF nth < Len(SiteChecks(site))
       THEN nth' = nth + 1 /\ UNCHANGED site
       ELSE nth' = 1 /\ site' = site + 1
    /\ pc' = IF IsCheck(site', nth') THEN "doctor" ELSE "report"
    /\ UNCHANGED <<file, origin, env, pgdata, slots, who, reported,
                   missing, changes, cancelled, persisted>>

\* Something breaks or is repaired meanwhile.
MissingChange ==
    /\ pc = "doctor" /\ changes < MaxChanges /\ ~cancelled
    /\ missing' \in Missing \ {missing}
    /\ persisted' = persisted \cap missing'
    /\ changes' = changes + 1
    /\ UNCHANGED <<file, origin, env, pgdata, slots, pc, who, reported, cancelled, site, nth, worst>>

\* SIGTERM, or the two minutes.
Cancel ==
    /\ pc = "doctor" /\ ~cancelled
    /\ cancelled' = TRUE
    /\ UNCHANGED <<file, origin, env, pgdata, slots, pc, who, reported,
                   missing, changes, site, nth, worst, persisted>>

\* Print, and the exit status.
DoctorReport ==
    /\ pc = "report"
    /\ pc' = "off" /\ worst' = "PASS" /\ site' = 0 /\ nth' = 1
    /\ missing' = {} /\ persisted' = {} /\ changes' = 0 /\ cancelled' = FALSE
    /\ UNCHANGED <<file, origin, env, pgdata, slots, who, reported>>

-----------------------------------------------------------------------------
Next ==
    \/ EditFile \/ Export \/ InitCreate \/ InitWrite
    \/ \E n \in Names : CleanUp(n) \/ SetupStart(n)
    \/ RunBasebackup \/ AppendConnInfoAppname
    \/ DoctorStart \/ DoctorCheck \/ MissingChange \/ Cancel \/ DoctorReport

Spec == Init /\ [][Next]_vars

-----------------------------------------------------------------------------
(* Properties *)

\* The file that init writes loads once the variables are exported that init
\* lists, for every set of answers that make sense.  (GenerateYAML, the list
\* of newInitCmd, Load)
SensibleAnswers(f) ==
    /\ f.decodes /\ f.mode # "other" /\ f.pgPort # 0
    /\ \A s \in Sites(f) :
          /\ s.url \in {"https", "http"}
          /\ \A h \in s.ssh :
                h.user \in {"none", "good"} /\ h.host = "good" /\ h.port \subseteq Ports
WizardFileLoads ==
    origin = "wizard" /\ SensibleAnswers(file) /\ NextSteps \subseteq env => Loads(file, env, FALSE)

\* pg setup tells the truth: after success the directory holds a standby and
\* the slot it was given exists, whatever later setups of this and of other
\* secondaries do, the same slot name included; a broken directory is only left
\* behind by one that returned an error.  (Run, checkDataDir)
SetupReportsTruth ==
    \A n \in Names :
        /\ reported[n].result = "ok" =>
              pgdata[n] = "standby" /\ reported[n].slot \in slots \cup {NoText}
        /\ pgdata[n] = "partial" => reported[n].result = "error"
        /\ n \notin who /\ reported[n].result = "none" => pgdata[n] \in {"empty", "other"}

\* pg setup writes only into a directory that was empty, and neither there nor
\* on the primary unless from a configuration that was written to its end: an
\* init killed after it has truncated the file leaves nothing to set up from,
\* whatever the file held before.  (newInitCmd, Load, checkDataDir)
SetupFillsOnlyEmpty ==
    [][/\ \A n \in Names :
             pgdata'[n] \notin {pgdata[n], "empty"} => pgdata[n] = "empty" /\ origin # "none"
       /\ ~(slots' \subseteq slots) => origin # "none"]_vars

\* "All checks passed. Ready to sync!" is only said when nothing that doctor
\* looks for has been missing all along, every secondary is a standby and
\* every site can be logged into.  (Result.checks, Print)
ReadyMeansNoFault ==
    pc = "report" /\ worst = "PASS" =>
        /\ persisted = {}
        /\ \A k \in 1..Len(file.secondaries) : InRecovery(k)
        /\ \A k \in 0..Len(file.secondaries) : HasSSH(k)

\* What the comment of resolveEnvInStruct says ("expands ${VAR} references in
\* every string field") and the example configuration shows: a file with every
\* section filled in is taken in.
CompleteFileLoads == "panic" \notin Load(file, env, FALSE)

=============================================================================
