---------------------------- MODULE SweepProofs -----------------------------
(***************************************************************************)
(* Proofs that the verdict of a reconciler is earned, whatever reads fail, *)
(* commands hang and contents change on the way, for any secondaries,      *)
(* configurations and items, and that each listing of a bucket has its     *)
(* three tries.                                                            *)
(***************************************************************************)
EXTENDS Sweep, FiniteSetTheorems, TLAPS

-----------------------------------------------------------------------------
(* The inductive invariant. *)

\* What the current reconciler may have in its queue: the items it begins with
\* and, later, the images of the catalog or the repositories it samples.
Mine ==
    Items(Rec)
    \cup (IF Rec.kind = "registry" THEN Images(Rec, Things["registry"]) ELSE {})
    \cup (IF Rec.kind = "consistency" THEN Repos(Rec) ELSE {})

\* The contents are a table of the items.
ValShape == val = [side \in {"p", "s"} |-> [i \in AllItems(recs) |-> val[side][i]]]

Visiting == {"visit", "second", "hung", "held"}

\* The item in hand is of the current reconciler, and what was read of it comes
\* from something its side may hold.  registry visits its images once it is
\* done with the catalog.
LoopInv ==
    /\ pc \in {"idle", "next", "stopped"} => bad = 0 /\ outcome = NoOutcome
    /\ pc \in Visiting => queue \subseteq Mine
    /\ pc \in {"second", "hung", "held"} => item \in queue
    /\ pc = "second" => /\ Rec.kind \notin CopyKinds
                        /\ \E v \in Contents(FirstSide, item) : seen = <<ReadOf(item, v)>>
                        /\ item[1] = "registry" => seen = <<listed>>
    /\ pc \in {"hung", "held"} => Rec.kind \in CopyKinds
    /\ pc \in Visiting /\ Rec.kind = "registry" =>
          queue = Items(Rec) \/ Items(Rec) \cap queue = {}

\* While nothing counts against OK: nothing differs and, for a strict
\* reconciler, what is not in the queue any more has been found the same.
EarnedInv ==
    bad = 0 =>
        /\ \A i \in DOMAIN outcome : outcome[i] # "differs"
        /\ Rec.kind \in Strict =>
              /\ \A i \in DOMAIN outcome : outcome[i] \in {"same", "missing"}
              /\ pc \in Visiting => Items(Rec) \subseteq DOMAIN outcome \cup queue
              /\ pc = "finish" => Items(Rec) \subseteq DOMAIN outcome
              /\ Rec.kind = "registry" =>
                    /\ pc \in Visiting => \/ Items(Rec) \subseteq queue
                                           \/ Images(Rec, listed) \subseteq DOMAIN outcome \cup queue
                    /\ pc = "finish" => Images(Rec, listed) \subseteq DOMAIN outcome

\* While s3 has its bucket to list, nothing has been found yet and the tries
\* that have failed are the attempts before this one.
RetryInv ==
    /\ pc \in {"idle", "next", "stopped"} => fails = 0
    /\ IF Rec.kind = "s3" /\ pc \in Visiting /\ queue # {}
       THEN fails + 1 = attempt /\ outcome = NoOutcome
       ELSE attempt = 1

IInv == TypeOK /\ ValShape /\ LoopInv /\ EarnedInv /\ RetryInv

-----------------------------------------------------------------------------
(* The reconcilers built, and their items. *)

\* A secondary gets at least one reconciler, of the kinds that exist.
LEMMA SiteKinds ==
    ASSUME NEW c \in Configs
    PROVE  BuildSiteReconcilers(c) \in Seq(Kinds) /\ Len(BuildSiteReconcilers(c)) \in Nat \ {0}
<1> DEFINE a == When(c.git = "rsync", "gitrsync") \o When(c.git = "fetch", "gitfetch")
                \o When(c.backend = "s3", "s3") \o When(c.backend = "fs", "fs")
                \o When(c.registry = "url", "registry")
           z == When(c.api, "apivalidator")
<1>1. \A b, kind : kind \in Kinds => When(b, kind) \in Seq(Kinds)
  BY DEF When
<1>2. a \in Seq(Kinds) /\ z \in Seq(Kinds)
  <2>1. {"gitrsync", "gitfetch", "s3", "fs", "registry", "apivalidator", "consistency"} \subseteq Kinds
    BY DEF Kinds, CopyKinds
  <2> QED BY <1>1, <2>1
<1>3. <<"consistency">> \in Seq(Kinds) /\ Len(<<"consistency">>) = 1
  BY DEF Kinds
<1> HIDE DEF a, z
<1>4. (a \o <<"consistency">>) \o z \in Seq(Kinds)
      /\ Len((a \o <<"consistency">>) \o z) = Len(a) + 1 + Len(z)
  BY <1>2, <1>3
<1>5. Len(a) \in Nat /\ Len(z) \in Nat
  BY <1>2
<1> QED BY <1>4, <1>5 DEF BuildSiteReconcilers, a, z

\* There is at least one reconciler, postgres, and each has a kind.
LEMMA RecsFacts ==
    ASSUME NEW c \in Configs, NEW rs, rs = BuildReconcilers(c)
    PROVE  /\ Len(rs) \in Nat \ {0}
           /\ \A k \in 1..Len(rs) : rs[k].kind \in Kinds
<1> DEFINE kinds == BuildSiteReconcilers(c)
           n == Len(kinds)
           m == Len(SiteList)
<1>1. kinds \in Seq(Kinds) /\ n \in Nat \ {0} /\ m \in Nat
  BY SiteKinds, SweepAssumption
<1>2. \A k \in 1..n : kinds[k] \in Kinds
  BY <1>1
<1> DEFINE size == 1 + n * m
<1>3. size \in Nat \ {0}
  BY <1>1
<1>4. \A k \in Int : 1 + ((k - 2) % n) \in 1..n
  BY <1>1
<1> DEFINE f == [k \in 1..size |->
                    IF k = 1 THEN [kind |-> "postgres", site |-> "*"]
                    ELSE [kind |-> kinds[1 + ((k - 2) % n)], site |-> SiteList[1 + ((k - 2) \div n)]]]
<1>5. rs = f
  BY DEF BuildReconcilers
<1> HIDE DEF kinds, n, m, size
<1>6. Len(rs) = size
  BY <1>3, <1>5
<1>7. ASSUME NEW k \in 1..size PROVE rs[k].kind \in Kinds
  <2>1. CASE k = 1
    BY <2>1, <1>5 DEF Kinds
  <2>2. CASE k # 1
    <3>1. rs[k].kind = kinds[1 + ((k - 2) % n)]
      BY <2>2, <1>5
    <3> QED BY <3>1, <1>2, <1>3, <1>4
  <2> QED BY <2>1, <2>2
<1> QED BY <1>3, <1>6, <1>7

\* An item names the kind of its reconciler.
LEMMA ItemKind ==
    ASSUME NEW rec, rec.kind \in Kinds, NEW i \in Items(rec)
    PROVE  i[1] = rec.kind
<1>1. CASE rec.kind = "postgres"
  BY <1>1 DEF Items
<1>2. CASE rec.kind \in {"gitrsync", "s3"}
  BY <1>2 DEF Items
<1>3. CASE rec.kind = "registry"
  BY <1>3 DEF Items
<1>4. CASE rec.kind \notin {"postgres", "gitrsync", "s3", "registry"}
  <2>1. Items(rec) = {<<rec.kind, rec.site, x>> : x \in Things[rec.kind]}
    BY <1>4 DEF Items
  <2> QED BY <2>1
<1> QED BY <1>1, <1>2, <1>3, <1>4

\* The current reconciler is one of those built.
LEMMA RecFacts ==
    ASSUME TypeOK
    PROVE  /\ Len(recs) \in Nat \ {0} /\ cur \in 1..Len(recs)
           /\ Rec = recs[cur] /\ Rec.kind \in Kinds
<1>1. cfg \in Configs /\ recs = BuildReconcilers(cfg) /\ cur \in 1..Len(recs)
  BY DEF TypeOK
<1> QED BY <1>1, RecsFacts DEF Rec

\* The reconcilers that begin with a single item.
LEMMA SingleItem ==
    ASSUME NEW rec, rec.kind \in {"gitrsync", "s3", "registry"},
           NEW i \in Items(rec), NEW j \in Items(rec)
    PROVE  i = j
<1>1. CASE rec.kind = "registry"
  BY <1>1 DEF Items
<1>2. CASE rec.kind \in {"gitrsync", "s3"}
  BY <1>2 DEF Items
<1> QED BY <1>1, <1>2

\* What the current reconciler visits are items of the run, and their kind
\* tells in which part of Reconcile they are visited.
LEMMA MineFacts ==
    ASSUME TypeOK
    PROVE  /\ Mine \subseteq AllItems(recs)
           /\ Items(Rec) \subseteq Mine
           /\ Rec.kind = "registry" => Images(Rec, Things["registry"]) \subseteq Mine
           /\ Rec.kind = "consistency" => Repos(Rec) \subseteq Mine
           /\ \A i \in Mine : \/ i[1] = Rec.kind /\ i \in Items(Rec)
                              \/ i[1] = "tags" /\ Rec.kind = "registry"
                              \/ i[1] = "fsck" /\ Rec.kind = "consistency"
<1> DEFINE Of(kind) == {j \in 1..Len(recs) : recs[j].kind = kind}
           its == {Items(recs[i]) : i \in 1..Len(recs)}
           images == {Images(recs[i], Things["registry"]) : i \in Of("registry")}
           repos == {Repos(recs[i]) : i \in Of("consistency")}
<1>1. Len(recs) \in Nat \ {0} /\ cur \in 1..Len(recs) /\ Rec = recs[cur] /\ Rec.kind \in Kinds
  BY RecFacts
<1>2. Items(Rec) \in its
  BY <1>1
<1>3. Rec.kind = "registry" => Images(Rec, Things["registry"]) \in images
  BY <1>1
<1>4. Rec.kind = "consistency" => Repos(Rec) \in repos
  BY <1>1
<1>5. AllItems(recs) = (UNION its) \cup (UNION images) \cup (UNION repos)
  BY DEF AllItems
<1>6. \A i \in Items(Rec) : i[1] = Rec.kind
  BY <1>1, ItemKind
<1>7. \A i \in Images(Rec, Things["registry"]) : i[1] = "tags"
  BY DEF Images
<1>8. \A i \in Repos(Rec) : i[1] = "fsck"
  BY DEF Repos
<1> HIDE DEF its, images, repos
<1>9. Mine \subseteq AllItems(recs)
  <2>1. Items(Rec) \subseteq AllItems(recs)
    BY <1>2, <1>5
  <2>2. Rec.kind = "registry" => Images(Rec, Things["registry"]) \subseteq AllItems(recs)
    BY <1>3, <1>5
  <2>3. Rec.kind = "consistency" => Repos(Rec) \subseteq AllItems(recs)
    BY <1>4, <1>5
  <2> QED BY <2>1, <2>2, <2>3 DEF Mine
<1> QED BY <1>6, <1>7, <1>8, <1>9 DEF Mine

\* Remaining is a number when fsstorage is broken off.
LEMMA PathsFinite ==
    ASSUME NEW rec, rec.kind = "fs"
    PROVE  Cardinality(Items(rec)) \in Nat
<1> DEFINE f == [x \in Things["fs"] |-> <<"fs", rec.site, x>>]
<1>1. IsFiniteSet(Things["fs"])
  BY SweepAssumption
<1>2. Items(rec) = {<<"fs", rec.site, x>> : x \in Things["fs"]}
  BY DEF Items
<1>3. f \in Surjection(Things["fs"], Items(rec))
  BY <1>2 DEF Surjection
<1>4. IsFiniteSet(Items(rec))
  BY <1>1, <1>3, FS_Surjection
<1> QED BY <1>4, FS_CardinalityType

\* Remaining is a number when two catalogs differ.
LEMMA CatalogsDiffer ==
    ASSUME NEW a \in SUBSET Things["registry"], NEW b \in SUBSET Things["registry"]
    PROVE  Cardinality(SymDiff(a, b)) \in Nat
<1>1. IsFiniteSet(Things["registry"])
  BY SweepAssumption
<1>2. SymDiff(a, b) \subseteq Things["registry"]
  BY DEF SymDiff
<1>3. IsFiniteSet(SymDiff(a, b))
  BY <1>1, <1>2, FS_Subset
<1> QED BY <1>3, FS_CardinalityType

\* What replication brings is something the secondary may hold.
LEMMA ReplicaContents ==
    ASSUME NEW i, i[1] \in {"s3", "registry", "tags", "consistency", "apivalidator"}
    PROVE  Contents("p", i) = Contents("s", i)
BY DEF Contents

\* An item of a table or an endpoint names one.
LEMMA ItemThing ==
    ASSUME NEW c \in Configs, NEW rs, rs = BuildReconcilers(c), NEW i \in AllItems(rs),
           i[1] \in {"consistency", "apivalidator"}
    PROVE  i[3] \in Things["consistency"] \cup Things["apivalidator"]
<1>1. \A k \in 1..Len(rs) : rs[k].kind \in Kinds
  BY RecsFacts
<1>2. PICK k \in 1..Len(rs) : i \in Items(rs[k])
  <2>1. \A rec, x : i \notin Images(rec, x)
    BY DEF Images
  <2>2. \A rec : i \notin Repos(rec)
    BY DEF Repos
  <2> QED BY <2>1, <2>2 DEF AllItems
<1>3. rs[k].kind = i[1]
  BY <1>1, <1>2, ItemKind
<1>4. Items(rs[k]) = {<<rs[k].kind, rs[k].site, x>> : x \in Things[rs[k].kind]}
  BY <1>3 DEF Items
<1> QED BY <1>2, <1>3, <1>4

\* The sites begin with something they may hold.
LEMMA SyncedContents ==
    ASSUME NEW c \in Configs, NEW rs, rs = BuildReconcilers(c),
           NEW side \in {"p", "s"}, NEW i \in AllItems(rs)
    PROVE  Synced(side, i) \in Contents(side, i)
<1>2. CASE i[1] \in {"consistency", "apivalidator"}
  <2>1. Counts[i[3]] \cap Nat # {}
    BY <1>2, ItemThing, SweepAssumption
  <2>2. (CHOOSE n \in Counts[i[3]] \cap Nat : TRUE) \in Counts[i[3]] \cap Nat
    BY <2>1
  <2> QED BY <1>2, <2>2 DEF Contents, Synced
<1>3. CASE i[1] \in {"postgres", "s3", "registry", "tags", "fsck"}
  BY <1>3 DEF Contents, Synced, Buckets, TagLists
<1>4. CASE i[1] \notin {"postgres", "s3", "registry", "tags", "fsck", "consistency", "apivalidator"}
  BY <1>4 DEF Contents, Synced
<1> QED BY <1>2, <1>3, <1>4

\* A page of the catalog is a part of it.
LEMMA ListedPart == \A catalog : Listed(catalog) \subseteq catalog
BY DEF Listed

-----------------------------------------------------------------------------
(* The item loop: an item that is dealt with. *)

\* What is left in the queue when item i is dealt with, for b reasons against
\* OK: s3 is done, and registry, done with the catalog, keeps the images that
\* it has not visited.
Sound(i, b, rest) ==
    /\ Rec.kind = "s3" => rest = {}
    /\ Rec.kind = "registry" =>
          /\ Items(Rec) \cap rest = {}
          /\ b = 0 /\ bad = 0 => Images(Rec, listed) \subseteq DOMAIN outcome \cup rest \cup {i}

\* Any item other than a bucket or a catalog just leaves the queue.
LEMMA PlainSound ==
    ASSUME IInv, pc \in Visiting, NEW i \in queue, i[1] \notin {"s3", "registry"}, NEW b
    PROVE  Sound(i, b, queue \ {i})
<1>1. TypeOK /\ LoopInv /\ EarnedInv /\ i \in Mine
  BY DEF IInv, LoopInv
<1>2. Rec.kind # "s3" /\ (Rec.kind = "registry" => i \notin Items(Rec))
  BY <1>1, MineFacts, RecFacts, ItemKind
<1>3. Rec.kind = "registry" => \E j : j \in Items(Rec)
  BY DEF Items
<1>4. Rec.kind = "registry" => Items(Rec) \cap queue = {}
  BY <1>1, <1>2 DEF LoopInv
<1>5. Rec.kind = "registry" /\ bad = 0 => Images(Rec, listed) \subseteq DOMAIN outcome \cup queue
  BY <1>1, <1>3, <1>4 DEF EarnedInv, Strict
<1> QED BY <1>2, <1>4, <1>5 DEF Sound

\* An item of the current reconciler is dealt with.  If that adds no reason
\* against OK then the item was not found different and, for a strict
\* reconciler, it was found the same and no item was dropped from the queue.
LEMMA VisitedInv ==
    ASSUME IInv, UNCHANGED <<world, cur, watch>>, listed' = listed, fails' \in Nat, pc \in Visiting,
           NEW i \in Mine, NEW what, NEW b \in Nat, NEW r \in Nat, NEW rest \in SUBSET Mine,
           Visited(i, what, b, r, rest), Sound(i, b, rest),
           b = 0 => what # "differs",
           b = 0 /\ Rec.kind \in Strict =>
              what \in {"same", "missing"} /\ Items(Rec) \cap queue \subseteq rest \cup {i}
    PROVE  IInv'
<1>1. TypeOK /\ ValShape /\ EarnedInv /\ RetryInv
  BY DEF IInv
<1>2. recs' = recs /\ Rec' = Rec /\ Mine' = Mine /\ val' = val /\ cur' = cur
  BY DEF world, Rec, Mine
<1>3. Mine \subseteq AllItems(recs)
  BY <1>1, MineFacts
<1>4. /\ outcome' = [j \in DOMAIN outcome \cup {i} |-> IF j = i THEN what ELSE outcome[j]]
      /\ bad' = bad + b /\ remaining' = remaining + r /\ queue' = rest
      /\ item' = NoItem /\ seen' = <<>> /\ attempt' = 1 /\ pc' = "visit" /\ fsckDone' = fsckDone
  BY DEF Visited
<1>5. bad \in Nat /\ remaining \in Nat
  BY <1>1 DEF TypeOK
<1>6. TypeOK'
  <2>1. bad' \in Nat /\ remaining' \in Nat
    BY <1>4, <1>5
  <2>2. queue' \in SUBSET AllItems(recs') /\ DOMAIN outcome' \subseteq AllItems(recs')
    BY <1>1, <1>2, <1>3, <1>4 DEF TypeOK
  <2>3. Len(seen') <= 1 /\ attempt' \in 1..MaxAttempts
    BY <1>4 DEF MaxAttempts
  <2> QED BY <1>1, <1>2, <1>4, <2>1, <2>2, <2>3 DEF TypeOK, world, watch
<1>7. ValShape'
  BY <1>1, <1>2 DEF ValShape
<1>8. LoopInv'
  BY <1>2, <1>4 DEF LoopInv, Visiting, Sound
<1>9. EarnedInv'
  <2> SUFFICES ASSUME bad' = 0 PROVE EarnedInv'
    BY DEF EarnedInv
  <2>1. bad = 0 /\ b = 0
    BY <1>4, <1>5
  <2>2. DOMAIN outcome' = DOMAIN outcome \cup {i}
        /\ \A j \in DOMAIN outcome' : outcome'[j] = IF j = i THEN what ELSE outcome[j]
    BY <1>4
  <2>3. \A j \in DOMAIN outcome' : outcome'[j] # "differs"
    BY <1>1, <2>1, <2>2 DEF EarnedInv
  <2>4. Rec.kind \in Strict =>
          /\ \A j \in DOMAIN outcome' : outcome'[j] \in {"same", "missing"}
          /\ Items(Rec) \subseteq DOMAIN outcome' \cup queue'
    BY <1>1, <1>4, <2>1, <2>2 DEF EarnedInv
  <2>5. Rec.kind = "registry" => Images(Rec, listed) \subseteq DOMAIN outcome' \cup queue'
    BY <1>4, <2>1, <2>2 DEF Sound
  <2> QED BY <1>2, <1>4, <2>3, <2>4, <2>5 DEF EarnedInv
<1>10. RetryInv'
  BY <1>2, <1>4 DEF RetryInv, Sound
<1> QED BY <1>6, <1>7, <1>8, <1>9, <1>10 DEF IInv

\* A listing of the bucket fails and is tried again.
LEMMA AttemptInv ==
    ASSUME IInv, UNCHANGED <<world, cur, watch, listed>>, pc \in Visiting,
           NEW i \in queue, i[1] = "s3", attempt < MaxAttempts, attempt' = attempt + 1,
           fails' = fails + 1,
           UNCHANGED <<pc, queue, item, seen, bad, remaining, fsckDone, outcome>>
    PROVE  IInv'
<1>1. TypeOK /\ ValShape /\ LoopInv /\ EarnedInv /\ RetryInv
  BY DEF IInv
<1>2. recs' = recs /\ Rec' = Rec /\ Mine' = Mine /\ FirstSide' = FirstSide /\ val' = val
  BY DEF world, Rec, Mine, FirstSide
<1>3. attempt' \in 1..MaxAttempts /\ attempt \in Nat /\ fails \in Nat /\ fails' \in Nat
  <2>1. attempt \in 1..MaxAttempts /\ fails \in Nat
    BY <1>1 DEF TypeOK
  <2> QED BY <2>1 DEF MaxAttempts
<1>4. TypeOK'
  BY <1>1, <1>2, <1>3 DEF TypeOK, world, watch
<1>5. ValShape'
  BY <1>1, <1>2 DEF ValShape
<1>6. LoopInv'
  BY <1>1, <1>2 DEF LoopInv
<1>7. EarnedInv'
  BY <1>1, <1>2 DEF EarnedInv
<1>8. RetryInv'
  <2>1. Rec.kind = "s3" /\ queue # {}
    BY <1>1, MineFacts DEF LoopInv
  <2>2. fails + 1 = attempt /\ outcome = NoOutcome
    BY <1>1, <2>1 DEF RetryInv
  <2> QED BY <1>2, <1>3, <2>1, <2>2 DEF RetryInv, Visiting
<1> QED BY <1>4, <1>5, <1>6, <1>7, <1>8 DEF IInv

\* A read fails for good.
LEMMA ReadErrorInv ==
    ASSUME IInv, UNCHANGED <<world, cur, watch>>, listed' = listed, fails' \in Nat, pc \in Visiting,
           NEW i \in queue, ReadError(i)
    PROVE  IInv'
<1>1. TypeOK /\ LoopInv
  BY DEF IInv
<1>2. queue \subseteq Mine /\ i \in Mine /\ queue \ {i} \in SUBSET Mine /\ {} \in SUBSET Mine
  BY <1>1 DEF LoopInv
<1>3. 0 \in Nat /\ 1 \in Nat /\ 1 # 0
  OBVIOUS
<1>4. CASE i[1] \in {"consistency", "apivalidator"}
  <2>1. Rec.kind \notin Strict
    BY <1>1, <1>2, <1>4, MineFacts DEF Strict
  <2>2. Visited(i, "unread", 0, 1, queue \ {i}) /\ Sound(i, 0, queue \ {i})
    BY <1>4, PlainSound DEF ReadError
  <2> QED BY <1>2, <1>3, <2>1, <2>2, VisitedInv
<1>5. CASE i[1] \in {"s3", "registry"}
  <2>1. Visited(i, "unread", 1, 1, {}) /\ Sound(i, 1, {})
    BY <1>5 DEF ReadError, Sound
  <2> QED BY <1>2, <1>3, <2>1, VisitedInv
<1>6. CASE i[1] = "fsck"
  <2>1. Visited(i, "differs", 1, 0, queue \ {i}) /\ Sound(i, 1, queue \ {i})
    BY <1>6, PlainSound DEF ReadError
  <2> QED BY <1>2, <1>3, <2>1, VisitedInv
<1>7. CASE i[1] \notin {"consistency", "apivalidator", "s3", "registry", "fsck"}
  <2>1. Visited(i, "unread", 1, 1, queue \ {i}) /\ Sound(i, 1, queue \ {i})
    BY <1>7, PlainSound DEF ReadError
  <2> QED BY <1>2, <1>3, <2>1, VisitedInv
<1> QED BY <1>4, <1>5, <1>6, <1>7

LEMMA RetryOrErrorInv ==
    ASSUME IInv, UNCHANGED <<world, cur, watch>>, pc \in Visiting, NEW i \in queue, RetryOrError(i)
    PROVE  IInv'
<1>1. listed' = listed
  BY DEF RetryOrError
<1>2. fails' \in Nat
  BY DEF RetryOrError, IInv, TypeOK
<1> QED BY <1>1, <1>2, AttemptInv, ReadErrorInv DEF RetryOrError

-----------------------------------------------------------------------------
(* One lemma per action. *)

LEMMA InitInv == Init => IInv
<1> SUFFICES ASSUME Init PROVE IInv
  OBVIOUS
<1>1. cfg \in Configs /\ recs = BuildReconcilers(cfg)
  BY DEF Init
<1>2. Len(recs) \in Nat \ {0}
  BY <1>1, RecsFacts
<1>3. val = [side \in {"p", "s"} |-> [i \in AllItems(recs) |-> Synced(side, i)]]
  BY DEF Init
<1>4. \A side \in {"p", "s"}, i \in AllItems(recs) : val[side][i] = Synced(side, i)
  BY <1>3
<1>5. ValShape
  BY <1>3 DEF ValShape
<1>6. TypeOK
  <2>1. \A side \in {"p", "s"}, i \in AllItems(recs) : val[side][i] \in Contents(side, i)
    BY <1>1, <1>4, SyncedContents
  <2>2. DOMAIN outcome = {} /\ Len(seen) = 0
    BY DEF Init, NoOutcome
  <2>7. fails \in Nat /\ listed \subseteq Things["registry"]
    BY DEF Init
  <2>3. /\ changes \in 0..MaxChanges /\ cur \in 1..Len(recs) /\ attempt \in 1..MaxAttempts
        /\ bad \in Nat /\ remaining \in Nat
    BY <1>2, SweepAssumption DEF Init, MaxAttempts
  <2>4. Len(seen) <= 1
    BY <2>2
  <2>5. cancelled \in BOOLEAN /\ fsckDone \in BOOLEAN
    BY DEF Init
  <2>6. /\ outage \in {{}, {"p"}, {"s"}}
        /\ pc \in {"idle", "next", "visit", "second", "hung", "held", "finish", "stopped"}
        /\ queue \in SUBSET AllItems(recs) /\ item \in AllItems(recs) \cup {NoItem}
        /\ watched \in 1..Len(recs) /\ last \in {"none", "ok", "drift"}
    BY DEF Init
  <2> QED BY <1>1, <2>1, <2>2, <2>3, <2>4, <2>5, <2>6, <2>7 DEF TypeOK
<1>7. LoopInv
  BY DEF Init, LoopInv, Visiting
<1>8. EarnedInv
  BY DEF Init, EarnedInv, NoOutcome, Visiting
<1>9. RetryInv
  BY DEF Init, RetryInv, Visiting
<1> QED BY <1>5, <1>6, <1>7, <1>8, <1>9 DEF IInv

\* The sites' contents are not part of the sweep's state.
LEMMA ContentsInv ==
    ASSUME IInv, UNCHANGED <<cfg, recs, pc, cur, loop, note, watch>>,
           NEW side \in {"p", "s"}, NEW i \in AllItems(recs), NEW v \in Contents(side, i),
           val' = [val EXCEPT ![side][i] = v],
           changes' \in 0..MaxChanges, outage' = outage, cancelled' = cancelled
    PROVE  IInv'
<1>1. TypeOK /\ ValShape /\ LoopInv /\ EarnedInv /\ RetryInv
  BY DEF IInv
<1>2. recs' = recs /\ Rec' = Rec /\ Mine' = Mine /\ FirstSide' = FirstSide
  BY DEF Rec, Mine, FirstSide
<1>3. /\ val = [sd \in {"p", "s"} |-> [j \in AllItems(recs) |-> val[sd][j]]]
      /\ \A sd \in {"p", "s"}, j \in AllItems(recs) : val[sd][j] \in Contents(sd, j)
  BY <1>1 DEF TypeOK, ValShape
<1>4. \A sd \in {"p", "s"}, j \in AllItems(recs) :
        val'[sd][j] = IF sd = side /\ j = i THEN v ELSE val[sd][j]
  BY <1>3
<1>5. val' = [sd \in {"p", "s"} |-> [j \in AllItems(recs) |-> val'[sd][j]]]
  BY <1>3
<1>6. \A sd \in {"p", "s"}, j \in AllItems(recs) : val'[sd][j] \in Contents(sd, j)
  BY <1>3, <1>4
<1>7. TypeOK'
  BY <1>1, <1>2, <1>6 DEF TypeOK, loop, note, watch
<1>8. ValShape'
  BY <1>2, <1>5 DEF ValShape
<1>9. LoopInv'
  BY <1>1, <1>2 DEF LoopInv, loop, note
<1>10. EarnedInv'
  BY <1>1, <1>2 DEF EarnedInv, loop, note
<1>11. RetryInv'
  BY <1>1, <1>2 DEF RetryInv, loop, note
<1> QED BY <1>7, <1>8, <1>9, <1>10, <1>11 DEF IInv

LEMMA ChangeInv ==
    ASSUME IInv, NEW side \in {"p", "s"}, NEW i \in AllItems(recs), Change(side, i)
    PROVE  IInv'
<1>1. PICK v \in Contents(side, i) : val' = [val EXCEPT ![side][i] = v]
  BY DEF Change
<1>2. changes' \in 0..MaxChanges
  BY SweepAssumption DEF IInv, TypeOK, Change
<1> QED BY <1>1, <1>2, ContentsInv DEF Change

LEMMA ReplicateInv ==
    ASSUME IInv, NEW i \in AllItems(recs), Replicate(i)
    PROVE  IInv'
<1>1. val["p"][i] \in Contents("p", i) /\ changes \in 0..MaxChanges
  BY DEF IInv, TypeOK
<1>2. val["p"][i] \in Contents("s", i)
  BY <1>1, ReplicaContents DEF Replicate
<1>3. "s" \in {"p", "s"} /\ val' = [val EXCEPT !["s"][i] = val["p"][i]]
  BY DEF Replicate
<1> QED BY <1>1, <1>2, <1>3, ContentsInv DEF Replicate

\* An outage, a cancellation, or a step that changes nothing.
LEMMA OutsideInv ==
    ASSUME IInv, UNCHANGED <<cfg, recs, val, changes, pc, cur, loop, note, watch>>,
           outage' \in {{}, {"p"}, {"s"}}, cancelled' \in BOOLEAN
    PROVE  IInv'
<1>1. TypeOK /\ ValShape /\ LoopInv /\ EarnedInv /\ RetryInv
  BY DEF IInv
<1>2. recs' = recs /\ Rec' = Rec /\ Mine' = Mine /\ FirstSide' = FirstSide
  BY DEF Rec, Mine, FirstSide
<1>3. TypeOK'
  BY <1>1 DEF TypeOK, loop, note, watch
<1>4. ValShape'
  BY <1>1 DEF ValShape
<1>5. LoopInv'
  BY <1>1, <1>2 DEF LoopInv, loop, note
<1>6. EarnedInv'
  BY <1>1, <1>2 DEF EarnedInv, loop, note
<1>7. RetryInv'
  BY <1>1, <1>2 DEF RetryInv, loop, note
<1> QED BY <1>3, <1>4, <1>5, <1>6, <1>7 DEF IInv

LEMMA OutageInv == IInv /\ Outage => IInv'
BY OutsideInv DEF Outage, IInv, TypeOK

LEMMA CancelInv == IInv /\ Cancel => IInv'
BY OutsideInv DEF Cancel, IInv, TypeOK

LEMMA StutterInv == IInv /\ UNCHANGED vars => IInv'
BY OutsideInv DEF IInv, TypeOK, vars, world

\* A sweep begins or ends between two reconcilers, when no tally is kept.
LEMMA BetweenInv ==
    ASSUME IInv, UNCHANGED <<world, loop, note, watch>>, pc \in {"idle", "next"},
           pc' \in {"idle", "next", "stopped"}, cur' \in 1..Len(recs)
    PROVE  IInv'
<1>1. TypeOK /\ ValShape /\ LoopInv /\ RetryInv
  BY DEF IInv
<1>2. bad = 0 /\ outcome = NoOutcome /\ bad' = 0 /\ outcome' = NoOutcome
  BY <1>1 DEF LoopInv, loop
<1>3. TypeOK'
  BY <1>1 DEF TypeOK, world, loop, note, watch
<1>4. ValShape'
  BY <1>1 DEF ValShape, world
<1>5. LoopInv'
  BY <1>2 DEF LoopInv, Visiting
<1>6. EarnedInv'
  BY <1>2 DEF EarnedInv, NoOutcome, Visiting
<1>7. RetryInv'
  BY <1>1 DEF RetryInv, loop, note, Visiting
<1> QED BY <1>3, <1>4, <1>5, <1>6, <1>7 DEF IInv

LEMMA TickInv == IInv /\ Tick => IInv'
<1> SUFFICES ASSUME IInv, Tick PROVE IInv'
  OBVIOUS
<1>1. 1 \in 1..Len(recs)
  BY RecFacts DEF IInv
<1> QED BY <1>1, BetweenInv DEF Tick

LEMMA StopInv == IInv /\ Stop => IInv'
<1> SUFFICES ASSUME IInv, Stop PROVE IInv'
  OBVIOUS
<1>1. cur \in 1..Len(recs)
  BY RecFacts DEF IInv
<1> QED BY <1>1, BetweenInv DEF Stop

LEMMA BeginInv == IInv /\ Begin => IInv'
<1> SUFFICES ASSUME IInv, Begin PROVE IInv'
  OBVIOUS
<1>1. TypeOK /\ ValShape /\ LoopInv /\ RetryInv /\ cur \in 1..Len(recs)
  BY RecFacts DEF IInv
<1>2. CASE cfg.cmd = "serve" /\ cancelled
  BY <1>1, <1>2, BetweenInv DEF Begin, loop
<1>3. CASE ~(cfg.cmd = "serve" /\ cancelled)
  <2>1. pc = "next" /\ pc' = "visit" /\ queue' = Items(Rec)
        /\ UNCHANGED <<world, cur, item, seen, attempt, bad, remaining, fsckDone, outcome, note, watch>>
    BY <1>3 DEF Begin
  <2>2. bad' = 0 /\ outcome' = NoOutcome
    BY <1>1, <2>1 DEF LoopInv
  <2>3. recs' = recs /\ Rec' = Rec /\ Mine' = Mine
    BY <2>1 DEF Rec, Mine, world
  <2>4. Items(Rec) \subseteq Mine /\ Mine \subseteq AllItems(recs)
    BY <1>1, MineFacts
  <2>5. TypeOK'
    BY <1>1, <2>1, <2>3, <2>4 DEF TypeOK, world, note, watch
  <2>6. ValShape'
    BY <1>1, <2>1 DEF ValShape, world
  <2>7. LoopInv'
    BY <2>1, <2>3, <2>4 DEF LoopInv, Visiting
  <2>8. EarnedInv'
    BY <2>1, <2>2, <2>3 DEF EarnedInv, NoOutcome
  <2>9. RetryInv'
    <3>1. fails' = 0 /\ attempt' = 1
      BY <1>1, <2>1 DEF RetryInv, note, Visiting
    <3> QED BY <2>1, <2>2, <3>1 DEF RetryInv
  <2> QED BY <2>5, <2>6, <2>7, <2>8, <2>9 DEF IInv
<1> QED BY <1>2, <1>3

LEMMA FinishInv == IInv /\ Finish => IInv'
<1> SUFFICES ASSUME IInv, Finish PROVE IInv'
  OBVIOUS
<1>1. TypeOK /\ ValShape /\ RetryInv /\ cur \in 1..Len(recs) /\ Len(recs) \in Nat \ {0}
  BY RecFacts DEF IInv
<1>2. /\ bad' = 0 /\ remaining' = 0 /\ fsckDone' = FALSE
      /\ pc = "finish" /\ outcome' = NoOutcome /\ fails' = 0 /\ listed' = {}
      /\ last' = IF cur # watched THEN last ELSE IF bad = 0 THEN "ok" ELSE "drift"
      /\ UNCHANGED <<world, queue, item, seen, attempt, watched>>
  BY DEF Finish
<1>3. pc' \in {"idle", "next", "stopped"} /\ cur' \in 1..Len(recs)
  BY <1>1 DEF Finish
<1>4. TypeOK'
  <2>1. last' \in {"none", "ok", "drift"}
    BY <1>1, <1>2 DEF TypeOK
  <2>2. bad' \in Nat /\ remaining' \in Nat /\ DOMAIN outcome' = {}
    BY <1>2 DEF NoOutcome
  <2> QED BY <1>1, <1>2, <1>3, <2>1, <2>2 DEF TypeOK, world
<1>5. ValShape'
  BY <1>1, <1>2 DEF ValShape, world
<1>6. LoopInv'
  BY <1>2, <1>3 DEF LoopInv, Visiting
<1>7. EarnedInv'
  BY <1>2, <1>3 DEF EarnedInv, NoOutcome, Visiting
<1>8. RetryInv'
  BY <1>1, <1>2, <1>3 DEF RetryInv, Visiting
<1> QED BY <1>4, <1>5, <1>6, <1>7, <1>8 DEF IInv

LEMMA SampleGitFsckInv == IInv /\ SampleGitFsck => IInv'
<1> SUFFICES ASSUME IInv, SampleGitFsck PROVE IInv'
  OBVIOUS
<1>1. TypeOK /\ ValShape /\ LoopInv /\ EarnedInv /\ RetryInv
  BY DEF IInv
<1>2. /\ pc = "visit" /\ Rec.kind = "consistency" /\ queue' \subseteq Repos(Rec)
      /\ fsckDone' = TRUE
      /\ UNCHANGED <<world, pc, cur, item, seen, attempt, bad, remaining, outcome, note, watch>>
  BY DEF SampleGitFsck
<1>3. recs' = recs /\ Rec' = Rec /\ Mine' = Mine
  BY <1>2 DEF Rec, Mine, world
<1>4. queue' \subseteq Mine /\ Mine \subseteq AllItems(recs)
  BY <1>1, <1>2, MineFacts
<1>5. TypeOK'
  BY <1>1, <1>2, <1>3, <1>4 DEF TypeOK, world, note, watch
<1>6. ValShape'
  BY <1>1, <1>2 DEF ValShape, world
<1>7. LoopInv'
  BY <1>2, <1>3, <1>4 DEF LoopInv
<1>8. EarnedInv'
  BY <1>1, <1>2, <1>3 DEF EarnedInv, Strict
<1>9. RetryInv'
  BY <1>1, <1>2, <1>3 DEF RetryInv, Visiting
<1> QED BY <1>5, <1>6, <1>7, <1>8, <1>9 DEF IInv

LEMMA VerdictInv == IInv /\ Verdict => IInv'
<1> SUFFICES ASSUME IInv, Verdict PROVE IInv'
  OBVIOUS
<1>1. TypeOK /\ ValShape /\ LoopInv /\ EarnedInv /\ RetryInv
  BY DEF IInv
<1>2. pc = "visit" /\ queue = {} /\ pc' = "finish" /\ UNCHANGED <<world, cur, loop, note, watch>>
  BY DEF Verdict
<1>3. recs' = recs /\ Rec' = Rec
  BY <1>2 DEF Rec, world
<1>4. TypeOK'
  BY <1>1, <1>2 DEF TypeOK, world, loop, note, watch
<1>5. ValShape'
  BY <1>1, <1>2 DEF ValShape, world
<1>6. LoopInv'
  BY <1>2 DEF LoopInv, Visiting
<1>7. EarnedInv'
  BY <1>1, <1>2, <1>3 DEF EarnedInv, Visiting, loop, note, Items
<1>8. RetryInv'
  BY <1>1, <1>2 DEF RetryInv, Visiting, loop
<1> QED BY <1>4, <1>5, <1>6, <1>7, <1>8 DEF IInv

\* fsstorage broken off is not OK, and gitfetch is not strict.
LEMMA CopyBrokenOffInv == IInv /\ CopyBrokenOff => IInv'
<1> SUFFICES ASSUME IInv, CopyBrokenOff PROVE IInv'
  OBVIOUS
<1>1. TypeOK /\ ValShape /\ LoopInv /\ EarnedInv /\ RetryInv
  BY DEF IInv
<1>2. /\ pc = "visit" /\ Rec.kind \in {"gitfetch", "fs"} /\ pc' = "finish" /\ queue' = {}
      /\ UNCHANGED <<world, cur, item, seen, attempt, fsckDone, outcome, note, watch>>
  BY DEF CopyBrokenOff
<1>3. recs' = recs /\ Rec' = Rec
  BY <1>2 DEF Rec, world
<1>4. \/ Rec.kind = "fs" /\ bad' = 1 /\ remaining' = Cardinality(Items(Rec))
      \/ Rec.kind = "gitfetch" /\ bad' = bad /\ remaining' = remaining
  BY <1>2 DEF CopyBrokenOff
<1>5. bad' \in Nat /\ remaining' \in Nat
  BY <1>1, <1>4, PathsFinite DEF TypeOK
<1>6. TypeOK'
  BY <1>1, <1>2, <1>5 DEF TypeOK, world, note, watch
<1>7. ValShape'
  BY <1>1, <1>2 DEF ValShape, world
<1>8. LoopInv'
  BY <1>2 DEF LoopInv, Visiting
<1>9. EarnedInv'
  BY <1>1, <1>2, <1>3, <1>4 DEF EarnedInv, Strict
<1>10. RetryInv'
  BY <1>1, <1>2, <1>3 DEF RetryInv, Visiting
<1> QED BY <1>6, <1>7, <1>8, <1>9, <1>10 DEF IInv

LEMMA CopyInv ==
    ASSUME IInv, NEW i \in queue, Copy(i)
    PROVE  IInv'
<1>1. pc = "visit" /\ pc \in Visiting /\ UNCHANGED <<world, cur, watch>>
      /\ listed' = listed /\ fails' \in Nat /\ Rec.kind \in CopyKinds
  BY DEF Copy, Visiting, note, IInv, TypeOK
<1>2. queue \subseteq Mine /\ i \in Mine /\ queue \ {i} \in SUBSET Mine
  BY <1>1 DEF IInv, LoopInv
<1>3. 0 \in Nat /\ 1 \in Nat /\ 1 # 0 /\ Items(Rec) \cap queue \subseteq (queue \ {i}) \cup {i}
  OBVIOUS
<1>4. PICK what \in {"same", "missing", "unread"}, b \in {0, 1} :
        Visited(i, what, b, b, queue \ {i}) /\ (b = 0 => what # "unread")
  BY DEF Copy
<1>5. b \in Nat
  OBVIOUS
<1>6. Sound(i, b, queue \ {i})
  BY <1>1 DEF Sound, CopyKinds
<1> QED BY <1>1, <1>2, <1>3, <1>4, <1>5, <1>6, VisitedInv

LEMMA HangInv ==
    ASSUME IInv, NEW i \in queue, Hang(i)
    PROVE  IInv'
<1>1. TypeOK /\ ValShape /\ LoopInv /\ EarnedInv /\ RetryInv
  BY DEF IInv
<1>2. /\ pc = "visit" /\ Rec.kind \in CopyKinds /\ pc' = "hung" /\ item' = i
      /\ UNCHANGED <<world, cur, queue, seen, attempt, bad, remaining, fsckDone, outcome, note, watch>>
  BY DEF Hang
<1>3. recs' = recs /\ Rec' = Rec /\ Mine' = Mine
  BY <1>2 DEF Rec, Mine, world
<1>4. TypeOK'
  BY <1>1, <1>2, <1>3 DEF TypeOK, world, note, watch
<1>5. ValShape'
  BY <1>1, <1>2 DEF ValShape, world
<1>6. LoopInv'
  BY <1>1, <1>2, <1>3 DEF LoopInv, Visiting
<1>7. EarnedInv'
  BY <1>1, <1>2, <1>3 DEF EarnedInv, Visiting, note
<1>8. RetryInv'
  BY <1>1, <1>2, <1>3 DEF RetryInv, Visiting, note
<1> QED BY <1>4, <1>5, <1>6, <1>7, <1>8 DEF IInv

LEMMA KilledInv == IInv /\ Killed => IInv'
<1> SUFFICES ASSUME IInv, Killed PROVE IInv'
  OBVIOUS
<1>1. TypeOK /\ ValShape /\ LoopInv /\ EarnedInv /\ RetryInv
  BY DEF IInv
<1>2. pc = "hung" /\ pc' = "held" /\ UNCHANGED <<world, cur, loop, note, watch>>
  BY DEF Killed
<1>3. recs' = recs /\ Rec' = Rec /\ Mine' = Mine
  BY <1>2 DEF Rec, Mine, world
<1>4. TypeOK'
  BY <1>1, <1>2 DEF TypeOK, world, loop, note, watch
<1>5. ValShape'
  BY <1>1, <1>2 DEF ValShape, world
<1>6. LoopInv'
  BY <1>1, <1>2, <1>3 DEF LoopInv, Visiting, loop, note
<1>7. EarnedInv'
  BY <1>1, <1>2, <1>3 DEF EarnedInv, Visiting, loop, note
<1>8. RetryInv'
  BY <1>1, <1>2, <1>3 DEF RetryInv, Visiting, loop, note
<1> QED BY <1>4, <1>5, <1>6, <1>7, <1>8 DEF IInv

LEMMA HangBreaksInv == IInv /\ HangBreaks => IInv'
<1> SUFFICES ASSUME IInv, HangBreaks PROVE IInv'
  OBVIOUS
<1>1. /\ pc \in {"hung", "held"} /\ pc \in Visiting /\ UNCHANGED <<world, cur, watch>>
      /\ Visited(item, "unread", 1, 1, queue \ {item})
      /\ listed' = listed /\ fails' \in Nat
  BY DEF HangBreaks, Visiting, note, IInv, TypeOK
<1>2. item \in Mine /\ queue \ {item} \in SUBSET Mine
  BY <1>1 DEF IInv, LoopInv
<1>3. 1 \in Nat /\ 1 # 0
  OBVIOUS
<1>4. Sound(item, 1, queue \ {item})
  BY <1>1 DEF Sound, IInv, LoopInv, CopyKinds
<1> QED BY <1>1, <1>2, <1>3, <1>4, VisitedInv

\* The first of two reads has brought what i holds.
LEMMA FirstIsReadInv ==
    ASSUME IInv, UNCHANGED <<world, cur, watch>>, pc = "visit", Rec.kind \notin CopyKinds,
           NEW i \in queue, NEW u \in Contents(FirstSide, i), FirstIsRead(i, ReadOf(i, u))
    PROVE  IInv'
<1> DEFINE v == ReadOf(i, u)
<1>1. TypeOK /\ ValShape /\ LoopInv /\ EarnedInv /\ RetryInv
  BY DEF IInv
<1>2. /\ item' = i /\ seen' = <<v>> /\ pc' = "second" /\ attempt' = 1 /\ fails' = 0
      /\ listed' = IF i[1] = "registry" THEN v ELSE listed
      /\ UNCHANGED <<queue, bad, remaining, fsckDone, outcome>>
  BY DEF FirstIsRead
<1>3. recs' = recs /\ Rec' = Rec /\ Mine' = Mine /\ FirstSide' = FirstSide
  BY DEF Rec, Mine, FirstSide, world
<1>4. queue \subseteq Mine /\ i \in Mine /\ Mine \subseteq AllItems(recs)
  BY <1>1, MineFacts DEF LoopInv, Visiting
<1>5. listed' \subseteq Things["registry"]
  <2>1. CASE i[1] = "registry"
    <3>1. u \subseteq Things["registry"] /\ v = Listed(u)
      BY <2>1 DEF Contents, ReadOf
    <3> QED BY <1>2, <2>1, <3>1, ListedPart
  <2>2. CASE i[1] # "registry"
    BY <1>1, <1>2, <2>2 DEF TypeOK
  <2> QED BY <2>1, <2>2
<1>6. i[1] = "registry" => Items(Rec) \subseteq queue
  <2> SUFFICES ASSUME i[1] = "registry" PROVE Items(Rec) \subseteq queue
    OBVIOUS
  <2>1. Rec.kind = "registry" /\ i \in Items(Rec)
    BY <1>1, <1>4, MineFacts
  <2> QED BY <1>1, <2>1 DEF LoopInv, Visiting
<1>7. TypeOK'
  <2>1. Len(seen') <= 1 /\ attempt' \in 1..MaxAttempts /\ fails' \in Nat
    BY <1>2 DEF MaxAttempts
  <2> QED BY <1>1, <1>2, <1>3, <1>4, <1>5, <2>1 DEF TypeOK, world, watch
<1>8. ValShape'
  BY <1>1 DEF ValShape, world
<1>9. LoopInv'
  <2>1. \E x \in Contents(FirstSide', item') : seen' = <<ReadOf(item', x)>>
    BY <1>2, <1>3
  <2>2. item'[1] = "registry" => seen' = <<listed'>>
    BY <1>2
  <2> QED BY <1>1, <1>2, <1>3, <1>4, <2>1, <2>2 DEF LoopInv, Visiting
<1>10. EarnedInv'
  BY <1>1, <1>2, <1>3, <1>6 DEF EarnedInv, Visiting
<1>11. RetryInv'
  BY <1>1, <1>2, <1>3 DEF RetryInv, Visiting
<1> QED BY <1>7, <1>8, <1>9, <1>10, <1>11 DEF IInv

LEMMA ReadFirstInv ==
    ASSUME IInv, NEW i \in queue, ReadFirst(i)
    PROVE  IInv'
<1> DEFINE v == ReadOf(i, val[FirstSide][i])
<1>1. TypeOK /\ ValShape /\ LoopInv /\ EarnedInv /\ RetryInv
  BY DEF IInv
<1>2. /\ pc = "visit" /\ pc \in Visiting /\ UNCHANGED <<world, cur, watch>>
      /\ Rec.kind \notin CopyKinds
  BY DEF ReadFirst, Visiting
<1>3. queue \subseteq Mine /\ i \in Mine /\ queue \ {i} \in SUBSET Mine /\ Mine \subseteq AllItems(recs)
  BY <1>1, <1>2, MineFacts DEF LoopInv
<1>4. val[FirstSide][i] \in Contents(FirstSide, i)
  BY <1>1, <1>3 DEF TypeOK, FirstSide
<1>5. 0 \in Nat /\ 1 \in Nat /\ 1 # 0
  OBVIOUS
<1>6. UNCHANGED note => listed' = listed /\ fails' \in Nat
  BY <1>1 DEF note, TypeOK
<1>7. CASE i[1] = "consistency" /\ Visited(i, "unknown", 0, 0, queue \ {i}) /\ UNCHANGED note
  <2>1. Rec.kind \notin Strict
    BY <1>1, <1>3, <1>7, MineFacts DEF Strict
  <2>2. Sound(i, 0, queue \ {i})
    BY <1>2, <1>7, PlainSound
  <2> QED BY <1>2, <1>3, <1>5, <1>6, <1>7, <2>1, <2>2, VisitedInv
<1>8. CASE i[1] = "postgres" /\ Visited(i, "differs", 1, 1, queue \ {i}) /\ UNCHANGED note
  <2>1. Sound(i, 1, queue \ {i})
    BY <1>2, <1>8, PlainSound
  <2> QED BY <1>2, <1>3, <1>5, <1>6, <1>8, <2>1, VisitedInv
<1>9. CASE FirstIsRead(i, v)
  BY <1>2, <1>4, <1>9, FirstIsReadInv
<1>10. CASE RetryOrError(i)
  BY <1>2, <1>10, RetryOrErrorInv
<1> QED BY <1>7, <1>8, <1>9, <1>10 DEF ReadFirst

LEMMA CompareInv ==
    ASSUME IInv, UNCHANGED <<world, cur, note, watch>>, pc = "second",
           NEW x \in Contents(SecondSide, item), Compare(item, ReadOf(item, x))
    PROVE  IInv'
<1> DEFINE v == ReadOf(item, x)
<1>1. TypeOK /\ LoopInv /\ pc \in Visiting /\ Rec.kind \in Kinds
      /\ UNCHANGED <<world, cur, watch>> /\ listed' = listed /\ fails' \in Nat
  BY RecFacts DEF IInv, Visiting, note, TypeOK
<1>2. queue \subseteq Mine /\ item \in queue /\ item \in Mine
      /\ queue \ {item} \in SUBSET Mine /\ {} \in SUBSET Mine
  BY <1>1 DEF LoopInv
<1>3. PICK y \in Contents(FirstSide, item) : seen = <<ReadOf(item, y)>>
  BY <1>1 DEF LoopInv
<1> DEFINE u == ReadOf(item, y)
<1>4. seen[1] = u
  BY <1>3
<1>5. 0 \in Nat /\ 1 \in Nat /\ 1 # 0
      /\ Items(Rec) \cap queue \subseteq (queue \ {item}) \cup {item}
  OBVIOUS
<1> HIDE DEF u, v
<1>6. ASSUME item[1] \notin {"s3", "registry"}, Visited(item, "same", 0, 0, queue \ {item}) PROVE IInv'
  <2>1. Sound(item, 0, queue \ {item})
    BY <1>1, <1>2, <1>6, PlainSound
  <2> QED BY <1>1, <1>2, <1>5, <1>6, <2>1, VisitedInv
<1>7. ASSUME NEW r \in Nat, NEW rest \in SUBSET Mine, Visited(item, "differs", 1, r, rest),
             Sound(item, 1, rest)
      PROVE  IInv'
  BY <1>1, <1>2, <1>5, <1>7, VisitedInv
<1>8. ASSUME item[1] \in {"s3", "registry"}
      PROVE  item[1] = Rec.kind /\ Items(Rec) \cap queue \subseteq {item}
  <2>1. item[1] = Rec.kind /\ item \in Items(Rec)
    BY <1>1, <1>2, <1>8, MineFacts
  <2> QED BY <1>8, <2>1, SingleItem
<1>9. item[1] \notin {"s3", "registry"} => Sound(item, 1, queue \ {item})
  BY <1>1, <1>2, PlainSound
<1>10. Sound(item, 1, {})
  BY <1>5 DEF Sound
<1>11. CASE item[1] = "consistency" /\ v = -1
  <2>1. Visited(item, "unknown", 0, 0, queue \ {item})
    BY <1>11 DEF Compare, v
  <2>2. Rec.kind \notin Strict
    BY <1>1, <1>2, <1>11, MineFacts DEF Strict
  <2>3. Sound(item, 0, queue \ {item})
    BY <1>1, <1>2, <1>11, PlainSound
  <2> QED BY <1>1, <1>2, <1>5, <2>1, <2>2, <2>3, VisitedInv
<1>12. CASE item[1] = "postgres"
  <2>1. \/ Visited(item, "same", 0, 0, queue \ {item})
        \/ Visited(item, "differs", 1, 1, queue \ {item})
    BY <1>12 DEF Compare, v
  <2> QED BY <1>2, <1>5, <1>6, <1>7, <1>9, <1>12, <2>1
<1>13. CASE item[1] = "s3"
  <2>1. u \in Buckets /\ v \in Buckets
    BY <1>13 DEF Contents, ReadOf, u, v
  <2>2. Abs(u.count - v.count) \in Nat
    BY <2>1 DEF Abs, Buckets
  <2>3. \/ Visited(item, "same", 0, 0, {})
        \/ Visited(item, "differs", 1, Abs(u.count - v.count), {})
    BY <1>4, <1>13 DEF Compare, v
  <2>4. CASE Visited(item, "same", 0, 0, {})
    <3>1. Sound(item, 0, {})
      BY <1>8, <1>13 DEF Sound
    <3> QED BY <1>1, <1>2, <1>5, <1>8, <1>13, <2>4, <3>1, VisitedInv
  <2> QED BY <1>2, <1>7, <1>10, <2>2, <2>3, <2>4
<1>14. CASE item[1] = "registry"
  <2>1. u \in SUBSET Things["registry"] /\ v \in SUBSET Things["registry"]
    BY <1>14, ListedPart DEF Contents, ReadOf, u, v
  <2>2. Cardinality(SymDiff(u, v)) \in Nat
    BY <2>1, CatalogsDiffer
  <2>3. \/ u = v /\ Visited(item, "same", 0, 0, Images(Rec, v))
        \/ Visited(item, "differs", 1, Cardinality(SymDiff(u, v)), {})
    BY <1>4, <1>14 DEF Compare, v
  <2>4. CASE u = v /\ Visited(item, "same", 0, 0, Images(Rec, v))
    <3>1. Images(Rec, v) \subseteq Images(Rec, Things["registry"])
      BY <2>1 DEF Images
    <3>2. Images(Rec, v) \in SUBSET Mine
      BY <1>1, <1>8, <1>14, <3>1, MineFacts
    <3>3. v = listed
      <4>1. seen = <<listed>>
        BY <1>1, <1>14 DEF LoopInv
      <4> QED BY <1>4, <2>4, <4>1
    <3>4. Items(Rec) \cap Images(Rec, v) = {}
      <4>1. \A i \in Images(Rec, v) : i[1] = "tags"
        BY DEF Images
      <4>2. \A i \in Items(Rec) : i[1] = "registry"
        BY <1>1, <1>8, <1>14, ItemKind
      <4> QED BY <4>1, <4>2
    <3>5. Sound(item, 0, Images(Rec, v))
      BY <1>8, <1>14, <3>3, <3>4 DEF Sound
    <3> QED BY <1>1, <1>2, <1>5, <1>8, <1>14, <2>4, <3>2, <3>5, VisitedInv
  <2> QED BY <1>2, <1>7, <1>10, <2>2, <2>3, <2>4
<1>15. CASE item[1] \notin {"postgres", "s3", "registry"} /\ ~(item[1] = "consistency" /\ v = -1)
  <2>1. \/ Visited(item, "same", 0, 0, queue \ {item})
        \/ Visited(item, "differs", 1, 1, queue \ {item})
    BY <1>15 DEF Compare, v
  <2> QED BY <1>2, <1>5, <1>6, <1>7, <1>9, <1>15, <2>1
<1> QED BY <1>11, <1>12, <1>13, <1>14, <1>15

LEMMA ReadSecondInv == IInv /\ ReadSecond => IInv'
<1> SUFFICES ASSUME IInv, ReadSecond PROVE IInv'
  OBVIOUS
<1>1. pc = "second" /\ pc \in Visiting /\ UNCHANGED <<world, cur, watch>>
  BY DEF ReadSecond, Visiting
<1>2. item \in queue /\ item \in Mine /\ Mine \subseteq AllItems(recs)
  BY <1>1, MineFacts DEF IInv, LoopInv
<1>3. val[SecondSide][item] \in Contents(SecondSide, item)
  BY <1>2 DEF IInv, TypeOK, SecondSide
<1>4. CASE Compare(item, ReadOf(item, val[SecondSide][item])) /\ UNCHANGED note
  BY <1>1, <1>3, <1>4, CompareInv
<1>5. CASE RetryOrError(item)
  BY <1>1, <1>2, <1>5, RetryOrErrorInv
<1> QED BY <1>4, <1>5 DEF ReadSecond

LEMMA GitFsckInv ==
    ASSUME IInv, NEW i \in queue, GitFsck(i)
    PROVE  IInv'
<1>1. pc = "visit" /\ pc \in Visiting /\ UNCHANGED <<world, cur, watch>>
      /\ listed' = listed /\ fails' \in Nat /\ i[1] = "fsck"
  BY DEF GitFsck, Visiting, note, IInv, TypeOK
<1>2. queue \subseteq Mine /\ i \in Mine /\ queue \ {i} \in SUBSET Mine
  BY <1>1 DEF IInv, LoopInv
<1>3. 0 \in Nat /\ 1 \in Nat /\ 1 # 0 /\ Items(Rec) \cap queue \subseteq (queue \ {i}) \cup {i}
  OBVIOUS
<1>4. CASE ReadError(i)
  BY <1>1, <1>2, <1>4, ReadErrorInv
<1>7. Sound(i, 0, queue \ {i}) /\ Sound(i, 1, queue \ {i})
  BY <1>1, PlainSound
<1>5. CASE Visited(i, "same", 0, 0, queue \ {i})
  BY <1>1, <1>2, <1>3, <1>5, <1>7, VisitedInv
<1>6. CASE Visited(i, "differs", 1, 0, queue \ {i})
  BY <1>1, <1>2, <1>3, <1>6, <1>7, VisitedInv
<1> QED BY <1>4, <1>5, <1>6 DEF GitFsck

-----------------------------------------------------------------------------
(* The theorems. *)

LEMMA NextInv == IInv /\ [Next]_vars => IInv'
<1> SUFFICES ASSUME IInv, [Next]_vars PROVE IInv'
  OBVIOUS
<1>1. ASSUME NEW side \in {"p", "s"}, NEW i \in AllItems(recs), Change(side, i) PROVE IInv'
  BY <1>1, ChangeInv
<1>2. ASSUME NEW i \in AllItems(recs), Replicate(i) PROVE IInv'
  BY <1>2, ReplicateInv
<1>3. ASSUME NEW i \in queue, Hang(i) \/ Copy(i) \/ ReadFirst(i) \/ GitFsck(i) PROVE IInv'
  BY <1>3, HangInv, CopyInv, ReadFirstInv, GitFsckInv
<1>4. CASE HangBreaks \/ Killed
  BY <1>4, HangBreaksInv, KilledInv
<1>5. CASE Outage \/ Cancel \/ Deadline
  BY <1>5, OutageInv, CancelInv DEF Deadline
<1>6. CASE Tick \/ Stop \/ Begin \/ Finish
  BY <1>6, TickInv, StopInv, BeginInv, FinishInv
<1>7. CASE SampleGitFsck \/ Verdict \/ CopyBrokenOff \/ ReadSecond
  BY <1>7, SampleGitFsckInv, VerdictInv, CopyBrokenOffInv, ReadSecondInv
<1>8. CASE UNCHANGED vars
  BY <1>8, StutterInv
<1> QED BY <1>1, <1>2, <1>3, <1>4, <1>5, <1>6, <1>7, <1>8 DEF Next, Work

LEMMA Invariance == Spec => []IInv
BY InitInv, NextInv, PTL DEF Spec

\* The state of a sweep is well formed: what is read is something a site may
\* hold, the attempts stay within their limit, and the tallies are numbers
\* whatever they are computed from. (Runner.sweep and the reconcilers)
THEOREM TypeCorrect == Spec => []TypeOK
<1>1. IInv => TypeOK
  BY DEF IInv
<1> QED BY <1>1, Invariance, PTL

\* An OK is earned, for any secondaries, configurations and items, whatever
\* changes, fails, is retried or is cancelled during the sweep. (the
\* Reconcile methods)
THEOREM EarnedTheorem == Spec => []OKIsEarned
<1>1. IInv => OKIsEarned
  BY DEF IInv, EarnedInv, OKIsEarned
<1> QED BY <1>1, Invariance, PTL

\* Each listing of a bucket has MaxAttempts tries of its own, and giving up
\* follows at once on the last of them, or on a failed one whose context is
\* done. (reconciler.Retry)
THEOREM RetryTheorem == Spec => ThreeTriesPerListing
<1> DEFINE Right == /\ fails' <= MaxAttempts
                    /\ DOMAIN outcome' # DOMAIN outcome <=> (fails' = MaxAttempts \/ cancelled)
<1>1. ASSUME IInv, pc \in Visiting, NEW i \in queue, RetryOrError(i), fails' > fails PROVE Right
  <2>1. TypeOK /\ LoopInv /\ RetryInv
    BY <1>1 DEF IInv
  <2>2. fails \in Nat /\ attempt \in 1..MaxAttempts /\ i \in Mine
    BY <1>1, <2>1 DEF TypeOK, LoopInv
  <2>3. i[1] = "s3" /\ fails' = fails + 1
    BY <1>1, <2>2 DEF RetryOrError
  <2>4. Rec.kind = "s3" /\ queue # {}
    BY <1>1, <2>1, <2>2, <2>3, MineFacts
  <2>5. fails' = attempt /\ DOMAIN outcome = {}
    BY <1>1, <2>1, <2>3, <2>4 DEF RetryInv, NoOutcome
  <2>6. CASE attempt < MaxAttempts /\ ~cancelled /\ UNCHANGED outcome
    BY <2>2, <2>5, <2>6 DEF MaxAttempts
  <2>7. CASE (attempt = MaxAttempts \/ cancelled) /\ ReadError(i)
    <3>1. Visited(i, "unread", 1, 1, {})
      BY <2>3, <2>7 DEF ReadError
    <3>2. i \in DOMAIN outcome'
      BY <3>1 DEF Visited
    <3> QED BY <2>2, <2>5, <2>7, <3>2 DEF MaxAttempts
  <2> QED BY <1>1, <2>3, <2>6, <2>7 DEF RetryOrError
<1>2. ASSUME IInv, [Next]_vars, fails' > fails PROVE Right
  <2>1. fails \in Nat /\ fails' # fails /\ ~UNCHANGED note
    BY <1>2 DEF IInv, TypeOK, note
  <2>2. ~Finish
    BY <1>2, <2>1 DEF Finish
  <2>3. ASSUME NEW i \in queue, ReadFirst(i) PROVE Right
    <3>1. RetryOrError(i) /\ pc \in Visiting
      BY <1>2, <2>1, <2>3 DEF ReadFirst, FirstIsRead, Visiting
    <3> QED BY <1>1, <1>2, <3>1
  <2>4. CASE ReadSecond
    <3>1. RetryOrError(item) /\ pc = "second" /\ pc \in Visiting
      BY <2>1, <2>4 DEF ReadSecond, Visiting
    <3>2. item \in queue
      BY <1>2, <3>1 DEF IInv, LoopInv
    <3> QED BY <1>1, <1>2, <3>1, <3>2
  <2>5. ReadSecond \/ \E i \in queue : ReadFirst(i)
    BY <1>2, <2>1, <2>2 DEF Next, Work, Change, Replicate, Hang, HangBreaks, Killed, Outage, Cancel,
       Deadline, Tick, Stop, Begin, SampleGitFsck, Verdict, CopyBrokenOff, Copy, GitFsck, vars
  <2> QED BY <2>3, <2>4, <2>5
<1>3. IInv /\ [Next]_vars =>
        [fails' > fails =>
            /\ fails' <= MaxAttempts
            /\ DOMAIN outcome' # DOMAIN outcome <=> (fails' = MaxAttempts \/ cancelled)]_vars
  BY <1>2
<1> QED BY <1>3, Invariance, PTL DEF Spec, ThreeTriesPerListing

=============================================================================
