--------------------------- MODULE WebhookProofs ---------------------------
(***************************************************************************)
(* Proofs that debouncing and the concurrency cap of Webhook are right for *)
(* any number of deliveries, projects and slots.                           *)
(***************************************************************************)
EXTENDS Webhook, FiniteSetTheorems, TLAPS

BusySet == {r \in Deliveries : state[r] \in Busy}

\* sem cannot be typed without knowing what it counts, so types, the count
\* and the ownership of the pending map are proved together.
IInv == TypeOK /\ SlotsAccounted /\ NewestOwnsEntry

-----------------------------------------------------------------------------
(* The count of busy goroutines. *)

\* Finitely many deliveries have a goroutine, so their number is a natural
\* number.
LEMMA BusySetFinite ==
    IsFiniteSet(BusySet) /\ Cardinality(BusySet) \in Nat
  <1>1. BusySet \subseteq Deliveries
    BY DEF BusySet
  <1> QED
    BY <1>1, WebhookAssumption, FS_Subset, FS_CardinalityType

\* A goroutine that stays busy, or stays idle, does not change the count.
LEMMA BusySame ==
    ASSUME TypeOK, NEW r \in Deliveries, NEW l,
           state' = [state EXCEPT ![r] = l],
           state[r] \in Busy <=> l \in Busy
    PROVE  BusySet' = BusySet
  BY DEF BusySet, TypeOK

\* Accepting a delivery adds one goroutine.
LEMMA BusyMore ==
    ASSUME TypeOK, NEW r \in Deliveries, NEW l \in Busy, state[r] \notin Busy,
           state' = [state EXCEPT ![r] = l]
    PROVE  Cardinality(BusySet') = Cardinality(BusySet) + 1
  <1>1. BusySet' = BusySet \cup {r} /\ r \notin BusySet
    BY DEF BusySet, TypeOK
  <1> QED
    BY <1>1, BusySetFinite, FS_AddElement

\* A goroutine that returns takes one away.
LEMMA BusyLess ==
    ASSUME TypeOK, NEW r \in Deliveries, NEW l, l \notin Busy, state[r] \in Busy,
           state' = [state EXCEPT ![r] = l]
    PROVE  /\ Cardinality(BusySet') = Cardinality(BusySet) - 1
           /\ Cardinality(BusySet) >= 1
  <1>1. BusySet' = BusySet \ {r} /\ r \in BusySet
    BY DEF BusySet, TypeOK
  <1>2. Cardinality(BusySet') = Cardinality(BusySet) - 1
    BY <1>1, BusySetFinite, FS_RemoveElement
  <1>3. BusySet # {}
    BY <1>1
  <1>4. Cardinality(BusySet) # 0
    BY <1>3, BusySetFinite, FS_EmptySet
  <1> QED
    BY <1>2, <1>4, BusySetFinite

-----------------------------------------------------------------------------
(* One lemma per action: answering a request, and the steps of a trigger. *)

\* The handler answering a delivery (rejected, dropped or accepted) keeps the
\* invariant; only an accepted one takes a slot.
LEMMA AnswerInv ==
    ASSUME IInv, NEW r \in Deliveries, Reject(r) \/ Drop(r) \/ Accept(r)
    PROVE  IInv'
  <1> USE DEF Busy
  <1>1. PICK l \in {"rejected", "dropped", "spawned"} :
           /\ Answer(r, l)
           /\ IF l = "spawned" THEN sem < SemCap /\ sem' = sem + 1 ELSE sem' = sem
    BY DEF Reject, Drop, Accept
  <1>2. state[r] = "new" /\ state' = [state EXCEPT ![r] = l]
        /\ UNCHANGED <<mode, project, done, pending, shutdown, covers, synced, failed>>
    BY <1>1 DEF Answer
  <1>3. TypeOK'
    BY <1>1, <1>2 DEF IInv, TypeOK
  <1>4. NewestOwnsEntry'
    BY <1>1, <1>2 DEF IInv, TypeOK, NewestOwnsEntry, Registered
  <1>5. SlotsAccounted'
    <2>0. sem = Cardinality(BusySet) /\ sem <= SemCap
      BY DEF IInv, SlotsAccounted, BusySet
    <2>1. CASE l = "spawned"
      <3>1. Cardinality(BusySet') = Cardinality(BusySet) + 1
        BY <1>2, <2>1, BusyMore DEF IInv
      <3> QED
        BY <1>1, <2>0, <2>1, <3>1, BusySetFinite, WebhookAssumption
        DEF SlotsAccounted, BusySet
    <2>2. CASE l # "spawned"
      <3>1. BusySet' = BusySet
        BY <1>1, <1>2, <2>2, BusySame DEF IInv
      <3> QED
        BY <1>1, <2>0, <2>2, <3>1 DEF SlotsAccounted, BusySet
    <2> QED
      BY <2>1, <2>2
  <1> QED
    BY <1>3, <1>4, <1>5 DEF IInv

\* Trigger entering itself in the pending map, cancelling the one it finds
\* there, keeps the invariant.
LEMMA InstallInv ==
    ASSUME IInv, NEW r \in Deliveries, Install(r)
    PROVE  IInv'
  <1> DEFINE p == project[r]
  <1> USE DEF Busy
  <1>1. /\ state[r] = "spawned" /\ state' = [state EXCEPT ![r] = "debounce"]
        /\ pending' = [pending EXCEPT ![p] = r]
        /\ done' = IF pending[p] # NoDelivery
                   THEN [done EXCEPT ![pending[p]] = TRUE] ELSE done
        /\ UNCHANGED <<mode, project, sem, shutdown, covers, synced, failed>>
    BY DEF Install
  <1>2. p \in Projects /\ pending[p] \in Deliveries \cup {NoDelivery}
    BY DEF IInv, TypeOK
  <1>3. TypeOK'
    BY <1>1, <1>2 DEF IInv, TypeOK
  <1>4. NewestOwnsEntry'
    <2>1. ASSUME NEW q \in Deliveries, state'[q] \in Registered, ~done'[q]
          PROVE  pending'[project[q]] = q
      <3>1. CASE q = r
        BY <1>1, <1>2, <3>1 DEF IInv, TypeOK
      <3>2. CASE q # r
        <4>1. state[q] \in Registered
          BY <1>1, <2>1, <3>2 DEF IInv, TypeOK
        <4>2. ~done[q] /\ q # pending[p]
          BY <1>1, <1>2, <2>1, WebhookAssumption DEF IInv, TypeOK
        <4>3. pending[project[q]] = q
          BY <4>1, <4>2 DEF IInv, NewestOwnsEntry
        <4> QED
          BY <1>1, <4>2, <4>3 DEF IInv, TypeOK
      <3> QED
        BY <3>1, <3>2
    <2>2. ASSUME NEW o \in Projects, pending'[o] # NoDelivery
          PROVE  project[pending'[o]] = o /\ state'[pending'[o]] \in Registered
      <3>1. CASE o = p
        BY <1>1, <1>2, <3>1 DEF IInv, TypeOK, Registered
      <3>2. CASE o # p
        BY <1>1, <1>2, <2>2, <3>2 DEF IInv, TypeOK, NewestOwnsEntry, Registered
      <3> QED
        BY <3>1, <3>2
    <2> QED
      BY <1>1, <2>1, <2>2 DEF NewestOwnsEntry
  <1>5. SlotsAccounted'
    <2>1. BusySet' = BusySet
      BY <1>1, BusySame DEF IInv
    <2> QED
      BY <1>1, <2>1 DEF IInv, SlotsAccounted, BusySet
  <1> QED
    BY <1>3, <1>4, <1>5 DEF IInv

\* The debounce select and the end of the fetch: the trigger stays registered.
LEMMA FetchInv ==
    ASSUME IInv, NEW r \in Deliveries,
           Preempted(r) \/ DebounceOver(r) \/ FetchSucceeds(r) \/ FetchFails(r)
    PROVE  IInv'
  <1> USE DEF Busy
  <1>1. PICK l \in {"fetch", "unregister"} :
           state[r] \in Registered /\ state' = [state EXCEPT ![r] = l]
    BY DEF Preempted, DebounceOver, FetchSucceeds, FetchFails, Registered
  <1>2. UNCHANGED <<mode, project, done, pending, sem, shutdown>>
    BY DEF Preempted, DebounceOver, FetchSucceeds, FetchFails
  <1>3. /\ covers' \in [Deliveries -> SUBSET Deliveries]
        /\ synced' \in SUBSET Deliveries /\ failed' \in SUBSET Projects
    <2>1. CASE DebounceOver(r)
      <3>1. {q \in Deliveries : project[q] = project[r] /\ state[q] # "new"}
               \in SUBSET Deliveries
        OBVIOUS
      <3> QED
        BY <2>1, <3>1 DEF DebounceOver, IInv, TypeOK
    <2>2. CASE ~DebounceOver(r)
      BY <2>2 DEF Preempted, FetchSucceeds, FetchFails, IInv, TypeOK
    <2> QED
      BY <2>1, <2>2
  <1>4. TypeOK'
    BY <1>1, <1>2, <1>3 DEF IInv, TypeOK
  <1>5. NewestOwnsEntry'
    BY <1>1, <1>2 DEF IInv, TypeOK, NewestOwnsEntry, Registered
  <1>6. SlotsAccounted'
    <2>1. BusySet' = BusySet
      BY <1>1, BusySame DEF IInv, Registered
    <2> QED
      BY <1>2, <2>1 DEF IInv, SlotsAccounted, BusySet
  <1> QED
    BY <1>4, <1>5, <1>6 DEF IInv

\* The deferred function of Trigger, which removes only its own entry, keeps
\* the invariant.
LEMMA UnregisterInv ==
    ASSUME IInv, NEW r \in Deliveries, Unregister(r)
    PROVE  IInv'
  <1> DEFINE p == project[r]
  <1> USE DEF Busy
  <1>1. /\ state[r] = "unregister" /\ state' = [state EXCEPT ![r] = "release"]
        /\ pending' = IF pending[p] = r
                      THEN [pending EXCEPT ![p] = NoDelivery] ELSE pending
        /\ done' = [done EXCEPT ![r] = TRUE]
        /\ UNCHANGED <<mode, project, sem, shutdown, covers, synced, failed>>
    BY DEF Unregister, RemoveOwn
  <1>2. TypeOK'
    BY <1>1 DEF IInv, TypeOK
  <1>3. NewestOwnsEntry'
    <2>1. ASSUME NEW q \in Deliveries, state'[q] \in Registered, ~done'[q]
          PROVE  pending'[project[q]] = q
      <3>1. q # r /\ state[q] \in Registered /\ ~done[q]
        BY <1>1, <2>1 DEF IInv, TypeOK, Registered
      <3>2. pending[project[q]] = q
        BY <3>1 DEF IInv, NewestOwnsEntry
      <3> QED
        BY <1>1, <3>1, <3>2 DEF IInv, TypeOK
    <2>2. ASSUME NEW o \in Projects, pending'[o] # NoDelivery
          PROVE  project[pending'[o]] = o /\ state'[pending'[o]] \in Registered
      <3>1. pending'[o] = pending[o]
        BY <1>1, <2>2 DEF IInv, TypeOK
      <3>2. /\ pending[o] \in Deliveries
            /\ project[pending[o]] = o /\ state[pending[o]] \in Registered
        BY <2>2, <3>1 DEF IInv, TypeOK, NewestOwnsEntry
      <3>3. pending[o] # r
        BY <1>1, <2>2, <3>2 DEF IInv, TypeOK
      <3> QED
        BY <1>1, <3>1, <3>2, <3>3 DEF IInv, TypeOK
    <2> QED
      BY <1>1, <2>1, <2>2 DEF NewestOwnsEntry
  <1>4. SlotsAccounted'
    <2>1. BusySet' = BusySet
      BY <1>1, BusySame DEF IInv
    <2> QED
      BY <1>1, <2>1 DEF IInv, SlotsAccounted, BusySet
  <1> QED
    BY <1>2, <1>3, <1>4 DEF IInv

\* The goroutine giving its slot back keeps the invariant.
LEMMA ReleaseInv ==
    ASSUME IInv, NEW r \in Deliveries, Release(r)
    PROVE  IInv'
  <1> USE DEF Busy
  <1>1. /\ state[r] = "release" /\ state' = [state EXCEPT ![r] = "ended"]
        /\ sem' = sem - 1
        /\ UNCHANGED <<mode, project, done, pending, shutdown, covers, synced, failed>>
    BY DEF Release
  <1>2. /\ Cardinality(BusySet') = Cardinality(BusySet) - 1
        /\ Cardinality(BusySet) >= 1
    BY <1>1, BusyLess DEF IInv
  <1>3. sem = Cardinality(BusySet) /\ sem <= SemCap /\ sem \in Nat
    BY DEF IInv, TypeOK, SlotsAccounted, BusySet
  <1>4. SlotsAccounted'
    BY <1>1, <1>2, <1>3, WebhookAssumption DEF SlotsAccounted, BusySet
  <1>5. sem' \in Nat
    BY <1>1, <1>2, <1>3
  <1>6. TypeOK'
    BY <1>1, <1>5 DEF IInv, TypeOK
  <1>7. NewestOwnsEntry'
    BY <1>1 DEF IInv, TypeOK, NewestOwnsEntry, Registered
  <1> QED
    BY <1>4, <1>6, <1>7 DEF IInv

\* The deadline of the goroutine only sets its context to done.
LEMMA TimeoutInv ==
    ASSUME IInv, NEW r \in Deliveries, Timeout(r)
    PROVE  IInv'
  <1>1. /\ done' = [done EXCEPT ![r] = TRUE] /\ failed' \in SUBSET Projects
        /\ UNCHANGED <<mode, state, project, pending, sem, shutdown, covers, synced>>
    BY DEF Timeout, IInv, TypeOK
  <1> QED
    BY <1>1 DEF IInv, TypeOK, NewestOwnsEntry, SlotsAccounted

-----------------------------------------------------------------------------

\* A receiver that has seen no delivery satisfies the invariant.
LEMMA InitInv == Init => IInv
  <1> SUFFICES ASSUME Init PROVE IInv
    OBVIOUS
  <1>1. TypeOK
    BY DEF Init, TypeOK
  <1>2. NewestOwnsEntry
    BY DEF Init, NewestOwnsEntry, Registered
  <1>3. SlotsAccounted
    <2>1. {r \in Deliveries : state[r] \in Busy} = {}
      BY DEF Init, Busy
    <2>2. sem = 0
      BY DEF Init
    <2> QED
      BY <2>1, <2>2, FS_EmptySet, WebhookAssumption DEF SlotsAccounted
  <1> QED
    BY <1>1, <1>2, <1>3 DEF IInv

\* Every step of every delivery, and the shutdown, keeps the invariant.
LEMMA NextInv == IInv /\ [Next]_vars => IInv'
  <1> SUFFICES ASSUME IInv, [Next]_vars PROVE IInv'
    OBVIOUS
  <1>1. ASSUME NEW r \in Deliveries,
               \/ Reject(r) \/ Drop(r) \/ Accept(r) \/ Timeout(r)
               \/ Step(r) \/ FetchReturns(r)
        PROVE  IInv'
    BY <1>1, AnswerInv, InstallInv, FetchInv, UnregisterInv, ReleaseInv, TimeoutInv
    DEF Step, FetchReturns
  <1>2. CASE Shutdown
    BY <1>2 DEF Shutdown, IInv, TypeOK, NewestOwnsEntry, SlotsAccounted
  <1>3. CASE UNCHANGED vars
    BY <1>3 DEF vars, IInv, TypeOK, NewestOwnsEntry, SlotsAccounted
  <1> QED
    BY <1>1, <1>2, <1>3 DEF Next

\* The inductive invariant holds in every reachable state.
THEOREM Invariance == Spec => []IInv
  BY InitInv, NextInv, PTL DEF Spec

\* The variables of the receiver keep their types; in particular sem never
\* goes below zero.
THEOREM TypeCorrect == Spec => []TypeOK
  <1>1. IInv => TypeOK
    BY DEF IInv
  <1> QED
    BY <1>1, Invariance, PTL

\* The newest trigger of a project owns its entry of the pending map, for
\* any number of deliveries in any order.
THEOREM NewestOwnsEntryTheorem == Spec => []NewestOwnsEntry
  <1>1. IInv => NewestOwnsEntry
    BY DEF IInv
  <1> QED
    BY <1>1, Invariance, PTL

\* Two fetches of a project never run at once unless one was cancelled.
THEOREM OneLiveFetchTheorem == Spec => []OneLiveFetch
  <1>1. IInv => OneLiveFetch
    BY DEF IInv, NewestOwnsEntry, OneLiveFetch, Registered
  <1> QED
    BY <1>1, Invariance, PTL

\* sem always counts the live goroutines and never exceeds its capacity.
THEOREM SlotsAccountedTheorem == Spec => []SlotsAccounted
  <1>1. IInv => SlotsAccounted
    BY DEF IInv
  <1> QED
    BY <1>1, Invariance, PTL

=============================================================================
