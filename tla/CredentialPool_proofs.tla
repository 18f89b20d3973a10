------------------------- MODULE CredentialPool_proofs -------------------------
(***************************************************************************)
(* Proofs about CredentialPool for every pool, every set of requests and   *)
(* every bound: its types, the accounting of slots, the concurrency limit, *)
(* the choice of a credential and the semaphores that rest on it, which    *)
(* credentials come back and that they start afresh, and that whoever      *)
(* waits is counted.                                                       *)
(*                                                                         *)
(* SlotAccounting is not inductive by itself: a guard on a deleted         *)
(* credential may release a slot of a new one that has its id.  OrphansOut *)
(* says when that can be, and that only requests with guards are orphans.  *)
(***************************************************************************)
EXTENDS CredentialPool, FiniteSetTheorems, TLAPS

-----------------------------------------------------------------------------
(* What the operations on entries preserve: every one maps pools to pools, *)
(* only taking and releasing a slot changes a count of active slots, and a *)
(* credential is disabled for a reason and enabled with its counts reset.  *)

IsPool(es) == /\ DOMAIN es \subseteq Ids
              /\ es \in [DOMAIN es -> Entry]

\* fs has the credentials of es, each with as many active slots.
SameSlots(es, fs) == /\ IsPool(fs)
                     /\ DOMAIN fs = DOMAIN es
                     /\ \A d \in DOMAIN es : fs[d].active = es[d].active

\* Replacing an entry by one with as many active slots (the shape of every edit
\* of an entry but those of its slots).
LEMMA PutSameSlots ==
  ASSUME NEW es, IsPool(es), NEW c, NEW e,
         c \in DOMAIN es => e \in Entry /\ e.active = es[c].active
  PROVE  SameSlots(es, Put(es, c, e))
BY DEF IsPool, SameSlots, Put

\* Waiting for a credential and ceasing to wait touch no slot.
LEMMA WaitingSameSlots ==
  ASSUME NEW es, IsPool(es), NEW c
  PROVE  SameSlots(es, StartWaiting(es, c)) /\ SameSlots(es, StopWaiting(es, c))
<1>1. ASSUME c \in DOMAIN es, NEW w \in Nat
      PROVE  /\ [es[c] EXCEPT !.waiting = w] \in Entry
             /\ [es[c] EXCEPT !.waiting = w].active = es[c].active
  BY <1>1 DEF IsPool, Entry
<1>2. ASSUME c \in DOMAIN es
      PROVE  es[c].waiting \in Nat
  BY <1>2 DEF IsPool, Entry
<1>3. SameSlots(es, StartWaiting(es, c))
  <2>1. c \in DOMAIN es => /\ es[c].waiting + 1 \in Nat
    BY <1>2
  <2> QED
    BY <1>1, <2>1, PutSameSlots DEF StartWaiting
<1>4. SameSlots(es, StopWaiting(es, c))
  <2>1. c \in DOMAIN es =>
          (IF es[c].waiting > 0 THEN es[c].waiting - 1 ELSE 0) \in Nat
    BY <1>2
  <2> QED
    BY <1>1, <2>1, PutSameSlots DEF StopWaiting
<1> QED
  BY <1>3, <1>4

\* Disabling and enabling an entry touch no slot.
LEMMA DisableEnable ==
  ASSUME NEW e \in Entry, NEW why \in Reasons
  PROVE  /\ Disable(e, why) \in Entry /\ Disable(e, why).active = e.active
         /\ Enable(e) \in Entry /\ Enable(e).active = e.active
BY DEF Entry, Disable, Enable, Reasons, None

\* Neither does any report of how a refresh or a call went.
LEMMA ReportSameSlots ==
  ASSUME NEW es, IsPool(es), NEW c
  PROVE  /\ SameSlots(es, Succeed(es, c))
         /\ SameSlots(es, Fail(es, c))
         /\ SameSlots(es, FailRefresh(es, c))
         /\ SameSlots(es, ExhaustQuota(es, c))
         /\ SameSlots(es, InvalidateRefreshToken(es, c))
         /\ SameSlots(es, Throttle(es, c))
         /\ SameSlots(es, Reload(es, c))
<1>0. SameSlots(es, es)
  BY DEF SameSlots, IsPool
<1>1. c \in DOMAIN es => es[c] \in Entry
  BY DEF IsPool
<1>2. Enabled(es) \subseteq DOMAIN es
  BY DEF Enabled
<1>3. {"TooManyFailures", "TooManyRefreshFailures", "QuotaExceeded",
       "InvalidRefreshToken"} \subseteq Reasons
  BY DEF Reasons
<1>4. SameSlots(es, Succeed(es, c))
  <2> DEFINE e == [es[c] EXCEPT !.failures = 0, !.refreshFailures = 0,
                                !.successes = @ + 1, !.throttled = FALSE]
  <2>1. ASSUME NEW x \in Entry, NEW n \in Nat
        PROVE  LET y == [x EXCEPT !.failures = 0, !.refreshFailures = 0,
                                  !.successes = n, !.throttled = FALSE]
               IN  y \in Entry /\ y.active = x.active
    BY DEF Entry
  <2>2. c \in DOMAIN es => es[c].successes + 1 \in Nat
    BY <1>1 DEF Entry
  <2>3. c \in DOMAIN es => e \in Entry /\ e.active = es[c].active
    BY <1>1, <2>1, <2>2
  <2> QED
    BY <2>3, PutSameSlots DEF Succeed
<1>5. SameSlots(es, Fail(es, c))
  <2> DEFINE e == [es[c] EXCEPT !.failures = @ + 1]
             f == IF e.failures >= MaxFailures
                  THEN Disable(e, "TooManyFailures") ELSE e
  <2>1. c \in DOMAIN es => e \in Entry /\ e.active = es[c].active
    BY <1>1 DEF Entry
  <2> HIDE DEF e
  <2>2. c \in DOMAIN es => f \in Entry /\ f.active = es[c].active
    BY <2>1, <1>3, DisableEnable
  <2>3. Fail(es, c) = IF c \notin Enabled(es) THEN es ELSE Put(es, c, f)
    BY DEF Fail, e
  <2> HIDE DEF f
  <2> QED
    BY <1>0, <2>2, <2>3, PutSameSlots
<1>6. SameSlots(es, FailRefresh(es, c))
  <2> DEFINE e == [es[c] EXCEPT !.refreshFailures = @ + 1]
             f == IF e.refreshFailures >= MaxFailures
                  THEN Disable(e, "TooManyRefreshFailures") ELSE e
  <2>1. c \in DOMAIN es => e \in Entry /\ e.active = es[c].active
    BY <1>1 DEF Entry
  <2> HIDE DEF e
  <2>2. c \in DOMAIN es => f \in Entry /\ f.active = es[c].active
    BY <2>1, <1>3, DisableEnable
  <2>3. FailRefresh(es, c) = IF c \notin Enabled(es) THEN es ELSE Put(es, c, f)
    BY DEF FailRefresh, e
  <2> HIDE DEF f
  <2> QED
    BY <1>0, <2>2, <2>3, PutSameSlots
<1>7. SameSlots(es, ExhaustQuota(es, c))
  <2> DEFINE e == [es[c] EXCEPT !.failures = MaxFailures]
             f == Disable(e, "QuotaExceeded")
  <2>1. c \in DOMAIN es => e \in Entry /\ e.active = es[c].active
    BY <1>1, MaxFailuresAssumption DEF Entry
  <2> HIDE DEF e
  <2>2. c \in DOMAIN es => f \in Entry /\ f.active = es[c].active
    BY <2>1, <1>3, DisableEnable
  <2>3. ExhaustQuota(es, c) = IF c \notin Enabled(es) THEN es ELSE Put(es, c, f)
    BY DEF ExhaustQuota, e
  <2> HIDE DEF f
  <2> QED
    BY <1>0, <2>2, <2>3, PutSameSlots
<1>8. SameSlots(es, InvalidateRefreshToken(es, c))
  BY <1>0, <1>1, <1>3, DisableEnable, PutSameSlots DEF InvalidateRefreshToken
<1>9. SameSlots(es, Throttle(es, c))
  <2> DEFINE e == [es[c] EXCEPT !.throttled = TRUE]
  <2>1. c \in DOMAIN es => e \in Entry /\ e.active = es[c].active
    BY <1>1 DEF Entry
  <2> QED
    BY <2>1, PutSameSlots DEF Throttle
<1>10. SameSlots(es, Reload(es, c))
  BY <1>1, <1>3, DisableEnable, PutSameSlots DEF Reload
<1> QED
  BY <1>4, <1>5, <1>6, <1>7, <1>8, <1>9, <1>10

\* Self-healing gives an entry of its own back.
LEMMA HealedEntry ==
  ASSUME NEW e \in Entry
  PROVE  LET h == [e EXCEPT !.disabled = FALSE, !.reason = None, !.failures = 0]
         IN  h \in Entry /\ h.active = e.active
BY DEF Entry, Reasons, None

\* Nor does self-healing.
LEMMA AutohealSameSlots ==
  ASSUME NEW es, IsPool(es)
  PROVE  SameSlots(es, Autoheal(es))
<1>1. ASSUME NEW c \in DOMAIN es
      PROVE  LET e == [es[c] EXCEPT !.disabled = FALSE, !.reason = None,
                                    !.failures = 0]
             IN  e \in Entry /\ e.active = es[c].active
  <2>1. es[c] \in Entry
    BY DEF IsPool
  <2> QED
    BY ONLY <2>1, HealedEntry
<1> QED
  BY <1>1 DEF Autoheal, SameSlots, IsPool

\* Taking a slot adds one to the credential it is taken of.
LEMMA OccupyCounts ==
  ASSUME NEW es, IsPool(es), NEW c \in DOMAIN es
  PROVE  /\ IsPool(Occupy(es, c))
         /\ DOMAIN Occupy(es, c) = DOMAIN es
         /\ \A d \in DOMAIN es : Occupy(es, c)[d].active =
              IF d = c THEN es[d].active + 1 ELSE es[d].active
<1> DEFINE e == [es[c] EXCEPT !.active = @ + 1]
<1>1. e \in Entry /\ e.active = es[c].active + 1
  BY DEF IsPool, Entry
<1> HIDE DEF e
<1>2. Occupy(es, c) = Put(es, c, e)
  BY DEF Occupy, e
<1> QED
  BY <1>1, <1>2 DEF IsPool, Put

\* Releasing one takes one from it if it is there and has any.
LEMMA ReleaseCounts ==
  ASSUME NEW es, IsPool(es), NEW c
  PROVE  /\ IsPool(ReleaseSlot(es, c))
         /\ DOMAIN ReleaseSlot(es, c) = DOMAIN es
         /\ \A d \in DOMAIN es : ReleaseSlot(es, c)[d].active =
              IF d = c /\ es[d].active > 0 THEN es[d].active - 1
              ELSE es[d].active
<1> DEFINE e == [es[c] EXCEPT !.active = IF @ > 0 THEN @ - 1 ELSE 0]
<1>1. c \in DOMAIN es =>
        /\ e \in Entry
        /\ e.active = IF es[c].active > 0 THEN es[c].active - 1
                      ELSE es[c].active
  BY DEF IsPool, Entry
<1> HIDE DEF e
<1>2. ReleaseSlot(es, c) = Put(es, c, e)
  BY DEF ReleaseSlot, e
<1> QED
  BY <1>1, <1>2 DEF IsPool, Put

\* A new entry has no slot taken.
LEMMA NewEntryType ==
  ASSUME NEW k \in Config, NEW off \in BOOLEAN, NEW why \in Reasons
  PROVE  NewEntry(k, off, why) \in Entry /\ NewEntry(k, off, why).active = 0
BY DEF Config, NewEntry, Entry

-----------------------------------------------------------------------------
(* Why entries are disabled, and how near they are to it. *)

\* What self-healing needs in order not to enable a credential that has failed
\* too often: one disabled for failed calls still has refreshes to fail.
Sane(e) ==
  /\ e.disabled <=> e.reason # None
  /\ e.reason \in {None, "TooManyFailures"} => e.refreshFailures < MaxFailures
  /\ e.reason = None => e.failures < MaxFailures

SanePool(es) == IsPool(es) /\ \A c \in DOMAIN es : Sane(es[c])

LEMMA SanePut ==
  ASSUME NEW es, SanePool(es), NEW c, NEW e,
         c \in DOMAIN es => e \in Entry /\ Sane(e)
  PROVE  SanePool(Put(es, c, e))
BY DEF SanePool, IsPool, Put

\* The fields that have nothing to do with it.
LEMMA SaneFields ==
  ASSUME NEW e \in Entry, Sane(e), NEW n \in Nat, NEW b \in BOOLEAN,
         NEW gs \in SUBSET Groups
  PROVE  /\ [e EXCEPT !.active = n] \in Entry /\ Sane([e EXCEPT !.active = n])
         /\ [e EXCEPT !.waiting = n] \in Entry /\ Sane([e EXCEPT !.waiting = n])
         /\ [e EXCEPT !.priority = n] \in Entry /\ Sane([e EXCEPT !.priority = n])
         /\ [e EXCEPT !.max = n] \in Entry /\ Sane([e EXCEPT !.max = n])
         /\ [e EXCEPT !.groups = gs] \in Entry /\ Sane([e EXCEPT !.groups = gs])
         /\ [e EXCEPT !.throttled = b] \in Entry
         /\ Sane([e EXCEPT !.throttled = b])
BY DEF Entry, Sane

\* Disabling for a reason that self-healing does not look at, and enabling.
LEMMA SaneDisableEnable ==
  ASSUME NEW e \in Entry, NEW why \in Reasons \ {None, "TooManyFailures"}
  PROVE  Sane(Disable(e, why)) /\ Sane(Enable(e))
BY MaxFailuresAssumption DEF Sane, Entry, Disable, Enable, Reasons, None

\* Slots and waiting.
LEMMA SaneSlots ==
  ASSUME NEW es, SanePool(es), NEW c
  PROVE  /\ SanePool(Occupy(es, c)) /\ SanePool(ReleaseSlot(es, c))
         /\ SanePool(StartWaiting(es, c)) /\ SanePool(StopWaiting(es, c))
<1>1. ASSUME c \in DOMAIN es
      PROVE  es[c] \in Entry /\ Sane(es[c])
  BY <1>1 DEF SanePool, IsPool
<1>2. ASSUME c \in DOMAIN es
      PROVE  es[c].active \in Nat /\ es[c].waiting \in Nat
  BY <1>1, <1>2 DEF Entry
<1>3. SanePool(Occupy(es, c))
  <2>1. c \in DOMAIN es => es[c].active + 1 \in Nat
    BY <1>2
  <2> QED
    BY <1>1, <2>1, SanePut, SaneFields DEF Occupy
<1>4. SanePool(ReleaseSlot(es, c))
  <2>1. c \in DOMAIN es => (IF es[c].active > 0 THEN es[c].active - 1 ELSE 0) \in Nat
    BY <1>2
  <2> QED
    BY <1>1, <2>1, SanePut, SaneFields DEF ReleaseSlot
<1>5. SanePool(StartWaiting(es, c))
  <2>1. c \in DOMAIN es => es[c].waiting + 1 \in Nat
    BY <1>2
  <2> QED
    BY <1>1, <2>1, SanePut, SaneFields DEF StartWaiting
<1>6. SanePool(StopWaiting(es, c))
  <2>1. c \in DOMAIN es => (IF es[c].waiting > 0 THEN es[c].waiting - 1 ELSE 0) \in Nat
    BY <1>2
  <2> QED
    BY <1>1, <2>1, SanePut, SaneFields DEF StopWaiting
<1> QED
  BY <1>3, <1>4, <1>5, <1>6

\* Reports, reloading and self-healing.
LEMMA SaneReports ==
  ASSUME NEW es, SanePool(es), NEW c
  PROVE  /\ SanePool(Succeed(es, c)) /\ SanePool(Fail(es, c))
         /\ SanePool(FailRefresh(es, c)) /\ SanePool(ExhaustQuota(es, c))
         /\ SanePool(InvalidateRefreshToken(es, c)) /\ SanePool(Throttle(es, c))
         /\ SanePool(Reload(es, c)) /\ SanePool(Autoheal(es))
<1>1. ASSUME NEW d \in DOMAIN es
      PROVE  es[d] \in Entry /\ Sane(es[d])
  BY DEF SanePool, IsPool
<1>2. /\ IsPool(es)
      /\ SameSlots(es, Succeed(es, c)) /\ SameSlots(es, Fail(es, c))
      /\ SameSlots(es, FailRefresh(es, c)) /\ SameSlots(es, ExhaustQuota(es, c))
      /\ SameSlots(es, Autoheal(es))
  BY ReportSameSlots, AutohealSameSlots DEF SanePool
<1>3. Enabled(es) \subseteq DOMAIN es
  BY DEF Enabled
<1>4. ASSUME NEW n \in Nat, NEW e \in Entry
      PROVE  Sane([e EXCEPT !.failures = 0, !.refreshFailures = 0,
                            !.successes = n, !.throttled = FALSE]) \/ ~Sane(e)
  BY MaxFailuresAssumption DEF Sane, Entry
<1>5. ASSUME NEW fs, IsPool(fs), DOMAIN fs = DOMAIN es,
             \A d \in DOMAIN es : Sane(fs[d])
      PROVE  SanePool(fs)
  BY <1>5 DEF SanePool
<1>6. SanePool(Succeed(es, c))
  <2>1. ASSUME NEW d \in DOMAIN es
        PROVE  Sane(Succeed(es, c)[d])
    <3>1. es[d].successes + 1 \in Nat
      BY <1>1 DEF Entry
    <3> QED
      BY <1>1, <1>4, <3>1 DEF Succeed, Put
  <2> QED
    BY <1>2, <1>5, <2>1 DEF SameSlots
<1>7. SanePool(Fail(es, c))
  <2>1. ASSUME NEW d \in DOMAIN es
        PROVE  Sane(Fail(es, c)[d])
    BY <1>1, MaxFailuresAssumption
       DEF Fail, Put, Enabled, Sane, Entry, Disable, None
  <2> QED
    BY <1>2, <1>5, <2>1 DEF SameSlots
<1>8. SanePool(FailRefresh(es, c))
  <2>1. ASSUME NEW d \in DOMAIN es
        PROVE  Sane(FailRefresh(es, c)[d])
    BY <1>1, MaxFailuresAssumption
       DEF FailRefresh, Put, Enabled, Sane, Entry, Disable, None
  <2> QED
    BY <1>2, <1>5, <2>1 DEF SameSlots
<1>9. SanePool(ExhaustQuota(es, c))
  <2>1. ASSUME NEW d \in DOMAIN es
        PROVE  Sane(ExhaustQuota(es, c)[d])
    BY <1>1, MaxFailuresAssumption
       DEF ExhaustQuota, Put, Sane, Entry, Disable, None
  <2> QED
    BY <1>2, <1>5, <2>1 DEF SameSlots
<1>10. SanePool(Autoheal(es))
  <2>1. ASSUME NEW d \in DOMAIN es
        PROVE  Sane(Autoheal(es)[d])
    BY <1>1, MaxFailuresAssumption DEF Autoheal, AutoDisabled, Sane, Entry, None
  <2> QED
    BY <1>2, <1>5, <2>1 DEF SameSlots
<1>11. SanePool(InvalidateRefreshToken(es, c)) /\ SanePool(Reload(es, c))
  <2>1. ASSUME NEW d \in DOMAIN es
        PROVE  /\ Disable(es[d], "InvalidRefreshToken") \in Entry
               /\ Enable(es[d]) \in Entry
               /\ Sane(Disable(es[d], "InvalidRefreshToken"))
               /\ Sane(Enable(es[d]))
    BY <1>1, DisableEnable, SaneDisableEnable DEF Reasons, None
  <2> QED
    BY <1>3, <2>1, SanePut DEF InvalidateRefreshToken, Reload
<1>12. SanePool(Throttle(es, c))
  BY <1>1, SanePut, SaneFields DEF Throttle
<1> QED
  BY <1>6, <1>7, <1>8, <1>9, <1>10, <1>11, <1>12

\* What is added or loaded, and nothing has happened to yet.
LEMMA SaneNewEntry ==
  ASSUME NEW k \in Config, NEW off \in BOOLEAN, NEW why \in Reasons,
         off <=> why # None
  PROVE  Sane(NewEntry(k, off, why))
BY MaxFailuresAssumption DEF Sane, NewEntry, None

-----------------------------------------------------------------------------
(* Slots and their guards. *)

OrphansOut ==
  /\ \A r \in orphans : guard[r] # NoId
  /\ \A c \in DOMAIN entries \ stale : Holders(c) \cap orphans = {}

\* The inductive invariant.
Inv == TypeOK /\ OrphansOut /\ SlotAccounting

\* The types of everything but the entries, and where guards are held.
TypeRest ==
  /\ currentId \in Ids \cup {NoId}
  /\ affinity \in [Sessions -> Ids \cup {NoId}]
  /\ mode \in Modes
  /\ pc \in [Requests -> PCs]
  /\ guard \in [Requests -> Ids \cup {NoId}]
  /\ target \in [Requests -> Ids \cup {NoId}]
  /\ late \in [Requests -> BOOLEAN]
  /\ attempts \in [Requests -> Nat]
  /\ budget \in [Requests -> Nat]
  /\ left \in [Requests -> Nat]
  /\ adminLeft \in Nat /\ reloadsLeft \in Nat
  /\ stale \subseteq Ids /\ orphans \subseteq Requests
  /\ \A r \in Requests :
       guard[r] # NoId <=> pc[r] \in {"ensure", "bind", "call", "held"}

LEMMA TypeSplit == TypeOK <=> IsPool(entries) /\ TypeRest
BY DEF TypeOK, IsPool, TypeRest

-----------------------------------------------------------------------------
(* Counting. *)

LEMMA GuardsFinite ==
  ASSUME NEW c
  PROVE  /\ IsFiniteSet(Guards(c))
         /\ Cardinality(Guards(c)) \in Nat
<1>1. Guards(c) \subseteq Requests
  BY DEF Guards, Holders
<1> QED
  BY <1>1, RequestsAssumption, FS_Subset, FS_CardinalityType

LEMMA TotalIsNat ==
  ASSUME IsPool(entries), NEW g
  PROVE  TotalInGroup(g) \in Nat
<1>1. {c \in DOMAIN entries : GroupMatches(entries[c], g)} \subseteq Ids
  BY DEF IsPool
<1> QED
  BY <1>1, IdsAssumption, FS_Subset, FS_CardinalityType DEF TotalInGroup

\* A step that takes or releases no slot and moves no guard keeps the accounts.
LEMMA QuietStep ==
  ASSUME SlotAccounting, OrphansOut, SameSlots(entries, entries'),
         UNCHANGED <<guard, orphans, stale>>
  PROVE  SlotAccounting' /\ OrphansOut'
<1>1. \A c : Guards(c)' = Guards(c) /\ Holders(c)' = Holders(c)
  BY DEF Guards, Holders
<1>2. DOMAIN entries' = DOMAIN entries
      /\ \A c \in DOMAIN entries : entries'[c].active = entries[c].active
  BY DEF SameSlots
<1>3. SlotAccounting'
  BY <1>1, <1>2 DEF SlotAccounting
<1>4. OrphansOut'
  BY <1>1, <1>2 DEF OrphansOut
<1> QED
  BY <1>3, <1>4

\* Taking a slot of a credential in the pool, with a guard.
LEMMA TakeStep ==
  ASSUME Inv, NEW r \in Requests, NEW c \in DOMAIN entries, guard[r] = NoId,
         SameSlots(Occupy(entries, c), entries'),
         guard' = [guard EXCEPT ![r] = c],
         UNCHANGED <<orphans, stale>>
  PROVE  SlotAccounting' /\ OrphansOut'
<1>1. /\ IsPool(entries) /\ c \in Ids /\ c # NoId
      /\ guard \in [Requests -> Ids \cup {NoId}]
  BY TypeSplit, IdsAssumption DEF Inv, IsPool, TypeRest
<1>2. r \notin orphans
  BY DEF Inv, OrphansOut
<1>3. \A d : Holders(d)' = IF d = c THEN Holders(d) \cup {r}
                           ELSE Holders(d) \ {r}
  BY <1>1 DEF Holders
<1>4. \A d \in Ids : r \notin Holders(d)
  BY <1>1, IdsAssumption DEF Holders
<1>5. \A d \in Ids : Guards(d)' = IF d = c THEN Guards(d) \cup {r} ELSE Guards(d)
  BY <1>2, <1>3, <1>4 DEF Guards
<1>6. Cardinality(Guards(c)') = Cardinality(Guards(c)) + 1
  <2>1. Guards(c)' = Guards(c) \cup {r}
    BY <1>1, <1>5
  <2>2. r \notin Guards(c)
    BY <1>1, <1>4 DEF Guards
  <2>3. IsFiniteSet(Guards(c))
    BY GuardsFinite
  <2> QED
    BY ONLY <2>1, <2>2, <2>3, FS_AddElement
<1>7. /\ DOMAIN entries' = DOMAIN entries
      /\ \A d \in DOMAIN entries : entries'[d].active =
           IF d = c THEN entries[d].active + 1 ELSE entries[d].active
  BY <1>1, OccupyCounts DEF SameSlots
<1>8. \A d \in DOMAIN entries : d \in Ids /\ entries[d].active \in Nat
  BY <1>1 DEF IsPool, Entry
<1>9. SlotAccounting'
  <2> SUFFICES ASSUME NEW d \in DOMAIN entries
               PROVE  /\ entries'[d].active <= Cardinality(Guards(d)')
                      /\ d \notin stale =>
                           entries'[d].active = Cardinality(Guards(d)')
    BY <1>7 DEF SlotAccounting
  <2>1. /\ entries[d].active <= Cardinality(Guards(d))
        /\ d \notin stale => entries[d].active = Cardinality(Guards(d))
    BY DEF Inv, SlotAccounting
  <2>2. CASE d = c
    BY <2>1, <2>2, <1>6, <1>7, <1>8, GuardsFinite
  <2>3. CASE d # c
    <3>1. Guards(d)' = Guards(d)
      BY <2>3, <1>5, <1>8
    <3> QED
      BY <2>1, <2>3, <3>1, <1>7
  <2> QED
    BY <2>2, <2>3
<1>10. OrphansOut'
  <2>1. \A q \in orphans : guard'[q] # NoId
    BY <1>1, <1>2, TypeSplit DEF Inv, OrphansOut, TypeRest
  <2>2. ASSUME NEW d \in DOMAIN entries \ stale
        PROVE  Holders(d)' \cap orphans = {}
    BY <1>2, <1>3 DEF Inv, OrphansOut
  <2> QED
    BY <2>1, <2>2, <1>7 DEF OrphansOut
<1> QED
  BY <1>9, <1>10

\* Dropping a guard.
LEMMA DropStep ==
  ASSUME Inv, NEW r \in Requests, guard[r] # NoId, DropGuard(r),
         UNCHANGED stale
  PROVE  IsPool(entries') /\ SlotAccounting' /\ OrphansOut'
<1> DEFINE c == guard[r]
<1>1. /\ IsPool(entries) /\ c \in Ids
      /\ guard \in [Requests -> Ids \cup {NoId}]
  BY TypeSplit DEF Inv, TypeRest
<1>2. /\ IsPool(entries')
      /\ DOMAIN entries' = DOMAIN entries
      /\ \A d \in DOMAIN entries : entries'[d].active =
           IF d = c /\ entries[d].active > 0 THEN entries[d].active - 1
           ELSE entries[d].active
  BY <1>1, ReleaseCounts DEF DropGuard
<1>3. \A d \in Ids : Holders(d)' = Holders(d) \ {r}
  BY <1>1, IdsAssumption DEF Holders, DropGuard
<1>4. \A d \in Ids : Guards(d)' = Guards(d) \ {r}
  BY <1>3 DEF Guards, DropGuard
<1>5. \A d \in Ids : r \in Guards(d) <=> d = c /\ r \notin orphans
  BY <1>1 DEF Guards, Holders
<1>6. \A d \in DOMAIN entries : d \in Ids /\ entries[d].active \in Nat
  BY <1>1 DEF IsPool, Entry
<1>7. SlotAccounting'
  <2> SUFFICES ASSUME NEW d \in DOMAIN entries
               PROVE  /\ entries'[d].active <= Cardinality(Guards(d)')
                      /\ d \notin stale =>
                           entries'[d].active = Cardinality(Guards(d)')
    BY <1>2 DEF SlotAccounting
  <2>1. /\ entries[d].active <= Cardinality(Guards(d))
        /\ d \notin stale => entries[d].active = Cardinality(Guards(d))
    BY DEF Inv, SlotAccounting
  <2>2. CASE r \in Guards(d)
    <3>1. Guards(d)' = Guards(d) \ {r}
      BY <1>4, <1>6
    <3>2. IsFiniteSet(Guards(d)) /\ Cardinality(Guards(d)) \in Nat
      BY GuardsFinite
    <3>3. Cardinality(Guards(d)') = Cardinality(Guards(d)) - 1
      BY ONLY <2>2, <3>1, <3>2, FS_RemoveElement
    <3>4. Cardinality(Guards(d)) # 0
      BY ONLY <2>2, <3>2, FS_EmptySet
    <3>5. d = c
      BY <2>2, <1>5, <1>6
    <3> HIDE DEF c
    <3> QED
      BY <2>1, <3>2, <3>3, <3>4, <3>5, <1>2, <1>6
  <2>3. CASE r \notin Guards(d)
    <3>1. Guards(d)' = Guards(d)
      BY <2>3, <1>4, <1>6
    <3>2. d \notin stale => d # c
      BY <2>3, <1>5, <1>6 DEF Inv, OrphansOut, Holders
    <3> QED
      BY <2>1, <3>1, <3>2, <1>2, <1>6, GuardsFinite
  <2> QED
    BY <2>2, <2>3
<1>8. OrphansOut'
  <2>1. ASSUME NEW q \in orphans'
        PROVE  guard'[q] # NoId
    <3>1. q \in orphans /\ q # r /\ q \in Requests
      BY TypeSplit DEF Inv, DropGuard, TypeRest
    <3> QED
      BY <3>1, <1>1 DEF Inv, OrphansOut, DropGuard
  <2>2. ASSUME NEW d \in DOMAIN entries \ stale
        PROVE  Holders(d)' \cap orphans' = {}
    BY <1>3, <1>6 DEF Inv, OrphansOut, DropGuard
  <2> QED
    BY <2>1, <2>2, <1>2 DEF OrphansOut
<1> QED
  BY <1>2, <1>7, <1>8

\* Deleting a credential makes orphans of the requests that hold its slots.
LEMMA DeleteStep ==
  ASSUME Inv, NEW c \in DOMAIN entries, DeleteCredential(c)
  PROVE  IsPool(entries') /\ SlotAccounting' /\ OrphansOut'
<1>1. /\ IsPool(entries) /\ c \in Ids
      /\ guard \in [Requests -> Ids \cup {NoId}]
  BY TypeSplit DEF Inv, TypeRest, IsPool
<1>2. /\ entries' = [d \in DOMAIN entries \ {c} |-> entries[d]]
      /\ orphans' = orphans \cup Holders(c)
      /\ UNCHANGED <<guard, stale>>
  BY DEF DeleteCredential, Admin, request
<1>3. IsPool(entries') /\ DOMAIN entries' = DOMAIN entries \ {c}
  BY <1>1, <1>2 DEF IsPool
<1>4. \A d : Holders(d)' = Holders(d)
  BY <1>2 DEF Holders
<1>5. \A d : d # c => Holders(d) \cap Holders(c) = {}
  BY DEF Holders
<1>6. \A d : d # c => Guards(d)' = Guards(d)
  BY <1>2, <1>4, <1>5 DEF Guards
<1>7. SlotAccounting'
  BY <1>2, <1>3, <1>6 DEF Inv, SlotAccounting
<1>8. OrphansOut'
  <2>1. ASSUME NEW q \in orphans'
        PROVE  guard'[q] # NoId
    BY <1>1, <1>2, IdsAssumption DEF Inv, OrphansOut, Holders
  <2>2. ASSUME NEW d \in DOMAIN entries' \ stale'
        PROVE  Holders(d)' \cap orphans' = {}
    BY <1>2, <1>3, <1>4, <1>5 DEF Inv, OrphansOut
  <2> QED
    BY <2>1, <2>2 DEF OrphansOut
<1> QED
  BY <1>3, <1>7, <1>8

\* A credential added under an id that no guard and no waiter uses starts with
\* clean accounts; under any other id it is stale from the start.
LEMMA AddStep ==
  ASSUME Inv, NEW k \in Catalogue, AddCredential(k)
  PROVE  IsPool(entries') /\ SlotAccounting' /\ OrphansOut'
<1>1. IsPool(entries)
  BY TypeSplit DEF Inv
<1>2. PICK c \in Ids :
        /\ c \notin DOMAIN entries
        /\ entries' = [d \in DOMAIN entries \cup {c} |->
                         IF d = c THEN NewEntry(k, FALSE, None) ELSE entries[d]]
        /\ stale' = IF Holders(c) \cup Waiters(c) = {} THEN stale \ {c}
                    ELSE stale \cup {c}
  <2>1. PICK c \in Ids :
        /\ IF DOMAIN entries = {} THEN c = 1
           ELSE c - 1 \in DOMAIN entries /\ \A d \in DOMAIN entries : d < c
        /\ entries' = [d \in DOMAIN entries \cup {c} |->
                         IF d = c THEN NewEntry(k, FALSE, None) ELSE entries[d]]
        /\ stale' = IF Holders(c) \cup Waiters(c) = {} THEN stale \ {c}
                    ELSE stale \cup {c}
    BY DEF AddCredential
  <2>2. c \notin DOMAIN entries
    BY <2>1, IdsAssumption
  <2> QED
    BY <2>1, <2>2
<1>3. UNCHANGED <<guard, orphans>>
  BY DEF AddCredential, Admin, request
<1>4. /\ NewEntry(k, FALSE, None) \in Entry
      /\ NewEntry(k, FALSE, None).active = 0
  BY NewEntryType, CatalogueAssumption DEF Reasons
<1>5. IsPool(entries') /\ DOMAIN entries' = DOMAIN entries \cup {c}
  BY <1>1, <1>2, <1>4 DEF IsPool
<1>6. \A d : Holders(d)' = Holders(d) /\ Guards(d)' = Guards(d)
  BY <1>3 DEF Holders, Guards
<1>7. SlotAccounting'
  <2> SUFFICES ASSUME NEW d \in DOMAIN entries'
               PROVE  /\ entries'[d].active <= Cardinality(Guards(d))
                      /\ d \notin stale' =>
                           entries'[d].active = Cardinality(Guards(d))
    BY <1>6 DEF SlotAccounting
  <2>1. CASE d = c
    <3>1. entries'[d].active = 0
      BY <2>1, <1>2, <1>4
    <3>2. d \notin stale' => Guards(d) = {}
      BY <2>1, <1>2 DEF Guards
    <3> QED
      BY <3>1, <3>2, GuardsFinite, FS_EmptySet
  <2>2. CASE d # c
    BY <2>2, <1>2, <1>5 DEF Inv, SlotAccounting
  <2> QED
    BY <2>1, <2>2
<1>8. OrphansOut'
  <2>1. ASSUME NEW d \in DOMAIN entries' \ stale'
        PROVE  Holders(d) \cap orphans = {}
    BY <1>2, <1>5 DEF Inv, OrphansOut
  <2> QED
    BY <2>1, <1>3, <1>6 DEF Inv, OrphansOut
<1> QED
  BY <1>5, <1>7, <1>8

-----------------------------------------------------------------------------
(* Types. *)

\* Every operation on a pool that edits entries without touching slots.
LEMMA EditSameSlots ==
  ASSUME Inv, NEW c \in DOMAIN entries, NEW e \in Entry,
         e.active = entries[c].active
  PROVE  SameSlots(entries, Put(entries, c, e))
BY TypeSplit, PutSameSlots DEF Inv

LEMMA HighestInIds ==
  ASSUME NEW es, IsPool(es)
  PROVE  HighestPriority(es) \subseteq Ids
BY DEF HighestPriority, Enabled, IsPool

LEMMA ForgetType ==
  ASSUME TypeRest, NEW r \in Requests
  PROVE  Forget(r) \in [Sessions -> Ids \cup {NoId}]
BY DEF TypeRest, Forget

LEMMA UnboundType ==
  ASSUME TypeRest, NEW c
  PROVE  Unbound(c) \in [Sessions -> Ids \cup {NoId}]
BY DEF TypeRest, Unbound

\* What candidates and choices are made of.
LEMMA ChoicesInPool ==
  ASSUME NEW es, NEW q, NEW m
  PROVE  /\ AvailableIds(es, q) \subseteq DOMAIN es
         /\ Candidates(es, q) \subseteq AvailableIds(es, q)
         /\ BestChoices(es, q, m) \subseteq Candidates(es, q)
         /\ WaitTargets(es, q) \subseteq DOMAIN es
BY DEF AvailableIds, Candidates, BestChoices, WaitTargets

-----------------------------------------------------------------------------
(* The invariant. *)

\* What a step must show: that it keeps the types and the accounts.
LEMMA InvIs ==
  Inv <=> TypeRest /\ IsPool(entries) /\ SlotAccounting /\ OrphansOut
BY TypeSplit DEF Inv

\* A step that changes no entry, no guard and none of the history.
LEMMA IdleStep ==
  ASSUME Inv, TypeRest', UNCHANGED <<entries, guard, orphans, stale>>
  PROVE  Inv'
<1>1. SameSlots(entries, entries')
  BY InvIs DEF SameSlots
<1>2. SlotAccounting' /\ OrphansOut' /\ IsPool(entries')
  BY <1>1, QuietStep, InvIs DEF SameSlots
<1>3. Inv'
  BY <1>2 DEF Inv, TypeOK, IsPool, TypeRest
<1> QED
  BY <1>3

\* A step that edits entries and nothing else that is counted.
LEMMA EditStep ==
  ASSUME Inv, TypeRest', SameSlots(entries, entries'),
         UNCHANGED <<guard, orphans, stale>>
  PROVE  Inv'
<1>1. SlotAccounting' /\ OrphansOut' /\ IsPool(entries')
  BY QuietStep, InvIs DEF SameSlots
<1> QED
  BY <1>1 DEF Inv, TypeOK, IsPool, TypeRest

\* The steps of a request that take no slot and edit no entry.
LEMMA ControlSteps ==
  ASSUME Inv, NEW r \in Requests,
         \/ Begin(r) \/ AttemptsExhausted(r) \/ ReserveContext(r)
         \/ CheckBinding(r) \/ Unbind(r) \/ CountWaiting(r) \/ Bind(r)
         \/ ForgetSession(r) \/ CallUnreported(r) \/ WaitBudgetEnds(r)
  PROVE  Inv'
<1>1. TypeRest /\ IsPool(entries)
  BY InvIs
<1>2. Session[r] # NoSession => Session[r] \in Sessions
  BY RequestAssumption
<1>3. UNCHANGED <<entries, guard, orphans, stale>>
  BY DEF Begin, AttemptsExhausted, ReserveContext, CheckBinding, Unbind,
         CountWaiting, Bind, ForgetSession, CallUnreported, WaitBudgetEnds,
         pool, env
<1>4. CASE Begin(r)
  <2>1. MaxOf(TotalInGroup(Group[r]) * MaxFailures, 1) \in Nat
    BY <1>1, TotalIsNat, MaxFailuresAssumption DEF MaxOf
  <2>2. left[r] - 1 \in Nat
    BY <1>1, <1>4 DEF TypeRest, Begin
  <2>3. TypeRest'
    BY <1>1, <1>4, <2>1, <2>2 DEF TypeRest, Begin, Goto, PCs, pool, env
  <2> QED
    BY <1>3, <2>3, IdleStep
<1>5. CASE AttemptsExhausted(r)
  <2>1. TypeRest'
    BY <1>1, <1>5 DEF TypeRest, AttemptsExhausted, GiveUp, Return, Goto, PCs,
                      pool, env
  <2> QED
    BY <1>3, <2>1, IdleStep
<1>6. CASE ReserveContext(r)
  <2>1. /\ guard[r] = NoId /\ target \in [Requests -> Ids \cup {NoId}]
        /\ pc \in [Requests -> PCs] /\ late \in [Requests -> BOOLEAN]
    BY <1>1, <1>6 DEF TypeRest, ReserveContext
  <2>2. Session[r] # NoSession => affinity[Session[r]] \in Ids \cup {NoId}
    BY <1>1, <1>2 DEF TypeRest
  <2>3. PICK l \in {"check", "best"}, t \in Ids \cup {NoId}, b \in BOOLEAN :
          /\ pc' = [pc EXCEPT ![r] = l] /\ target' = [target EXCEPT ![r] = t]
          /\ late' = [late EXCEPT ![r] = b]
    <3>1. CASE /\ Session[r] # NoSession /\ Goto(r, "check") /\ UNCHANGED late
               /\ target' = [target EXCEPT ![r] = affinity[Session[r]]]
      <4>1. late' = [late EXCEPT ![r] = late[r]] /\ late[r] \in BOOLEAN
        BY ONLY <2>1, <3>1
      <4> QED
        BY ONLY <2>2, <3>1, <4>1 DEF Goto
    <3>2. CASE EnterBest(r)
      BY ONLY <3>2 DEF EnterBest, Goto
    <3> QED
      BY ONLY <1>6, <3>1, <3>2 DEF ReserveContext
  <2>4. /\ pc' \in [Requests -> PCs] /\ target' \in [Requests -> Ids \cup {NoId}]
        /\ late' \in [Requests -> BOOLEAN]
        /\ pc'[r] \in {"check", "best"} /\ \A q \in Requests : q # r => pc'[q] = pc[q]
    BY ONLY <2>1, <2>3 DEF PCs
  <2>5. UNCHANGED <<currentId, affinity, mode, guard, attempts, budget, left,
                    adminLeft, reloadsLeft, stale, orphans>>
    BY ONLY <1>6 DEF ReserveContext, pool, env
  <2>6. TypeRest'
    BY ONLY <1>1, <2>1, <2>4, <2>5 DEF TypeRest
  <2> QED
    BY <1>3, <2>6, IdleStep
<1>7. CASE CheckBinding(r) \/ CountWaiting(r)
  <2>1. TypeRest'
    BY <1>1, <1>7 DEF TypeRest, CheckBinding, CountWaiting, Goto, PCs, pool, env
  <2> QED
    BY <1>3, <2>1, IdleStep
<1>8. CASE Unbind(r)
  <2>1. TypeRest'
    BY <1>1, <1>8, ForgetType DEF TypeRest, Unbind, EnterBest, Goto, PCs, env
  <2> QED
    BY <1>3, <2>1, IdleStep
<1>9. CASE Bind(r)
  <2>1. TypeRest'
    BY <1>1, <1>2, <1>9 DEF TypeRest, Bind, Return, Goto, PCs, env
  <2> QED
    BY <1>3, <2>1, IdleStep
<1>10. CASE ForgetSession(r)
  <2>1. TypeRest'
    BY <1>1, <1>10, ForgetType DEF TypeRest, ForgetSession, Goto, PCs, env
  <2> QED
    BY <1>3, <2>1, IdleStep
<1>11. CASE CallUnreported(r) \/ WaitBudgetEnds(r)
  <2>1. TypeRest'
    BY <1>1, <1>11 DEF TypeRest, CallUnreported, WaitBudgetEnds, Goto, PCs,
                       pool, env
  <2> QED
    BY <1>3, <2>1, IdleStep
<1> QED
  BY <1>4, <1>5, <1>6, <1>7, <1>8, <1>9, <1>10, <1>11

\* SameSlots is an equivalence between pools.
LEMMA SameSlotsTrans ==
  ASSUME NEW es, NEW fs, NEW gs, SameSlots(es, fs), SameSlots(fs, gs)
  PROVE  SameSlots(es, gs)
BY DEF SameSlots

LEMMA SameSlotsRefl ==
  ASSUME NEW es, IsPool(es)
  PROVE  SameSlots(es, es)
BY DEF SameSlots

\* Giving an acquisition up, without a guard.
LEMMA GiveUpType ==
  ASSUME TypeRest, NEW r \in Requests, GiveUp(r), guard[r] = NoId,
         currentId' \in Ids \cup {NoId},
         affinity' \in [Sessions -> Ids \cup {NoId}],
         UNCHANGED <<mode, guard, left, env>>
  PROVE  TypeRest'
BY DEF TypeRest, GiveUp, Return, Goto, PCs, env

\* The steps of a request around waiting, healing and refreshing.
LEMMA WaitingSteps ==
  ASSUME Inv, NEW r \in Requests,
         \/ JoinWaiting(r) \/ WaitForBest(r) \/ GiveUpBusy(r) \/ FindNone(r)
         \/ TryAutoheal(r) \/ EnsureToken(r) \/ ReloadFromFile(r)
  PROVE  Inv'
<1>1. TypeRest /\ IsPool(entries)
  BY InvIs
<1>2. UNCHANGED <<guard, orphans, stale>>
  BY DEF JoinWaiting, WaitForBest, GiveUpBusy, FindNone, TryAutoheal,
         EnsureToken, ReloadFromFile, env
<1>3. SameSlots(entries, entries)
  BY <1>1, SameSlotsRefl
<1>4. CASE JoinWaiting(r)
  <2>1. TypeRest'
    BY <1>1, <1>4 DEF TypeRest, JoinWaiting, Goto, PCs, env
  <2>2. SameSlots(entries, entries')
    BY <1>1, <1>4, WaitingSameSlots DEF JoinWaiting
  <2> QED
    BY <1>2, <2>1, <2>2, EditStep
<1>5. CASE WaitForBest(r)
  <2>1. PICK c \in WaitTargets(entries, Q(r)) :
          /\ entries' = StartWaiting(StopWaiting(entries, target[r]), c)
          /\ target' = [target EXCEPT ![r] = c]
    BY <1>5 DEF WaitForBest
  <2>2. c \in Ids
    BY <1>1, <2>1, ChoicesInPool DEF IsPool
  <2>3. TypeRest'
    BY <1>1, <1>5, <2>1, <2>2 DEF TypeRest, WaitForBest, env
  <2>4. SameSlots(entries, StopWaiting(entries, target[r]))
    BY <1>1, WaitingSameSlots
  <2>5. IsPool(StopWaiting(entries, target[r]))
    BY <2>4 DEF SameSlots
  <2>6. SameSlots(StopWaiting(entries, target[r]), entries')
    BY <2>1, <2>5, WaitingSameSlots
  <2>7. SameSlots(entries, entries')
    BY <2>4, <2>6, SameSlotsTrans
  <2> QED
    BY <1>2, <2>3, <2>7, EditStep
<1>6. CASE GiveUpBusy(r) \/ FindNone(r)
  <2>1. TypeRest'
    <3>1. CASE GiveUpBusy(r)
      <4>1. guard[r] = NoId
        BY <1>1, <3>1 DEF TypeRest, GiveUpBusy
      <4> QED
        BY <1>1, <3>1, <4>1, GiveUpType DEF GiveUpBusy, TypeRest
    <3>2. CASE FindNone(r)
      BY <1>1, <3>2 DEF TypeRest, FindNone, Goto, PCs, env
    <3> QED
      BY <1>6, <3>1, <3>2
  <2>2. SameSlots(entries, entries')
    BY <1>1, <1>6, WaitingSameSlots DEF GiveUpBusy, FindNone
  <2> QED
    BY <1>2, <2>1, <2>2, EditStep
<1>7. CASE TryAutoheal(r)
  <2>1. TypeRest'
    <3>1. CASE AutoDisabled(entries) # {}
      BY <1>1, <1>7, <3>1 DEF TypeRest, TryAutoheal, Goto, PCs, env
    <3>2. CASE AutoDisabled(entries) = {}
      <4>1. guard[r] = NoId
        BY <1>1, <1>7 DEF TypeRest, TryAutoheal
      <4> QED
        BY <1>1, <1>7, <3>2, <4>1, GiveUpType DEF TryAutoheal, TypeRest
    <3> QED
      BY <3>1, <3>2
  <2>2. SameSlots(entries, entries')
    BY <1>1, <1>3, <1>7, AutohealSameSlots DEF TryAutoheal
  <2> QED
    BY <1>2, <2>1, <2>2, EditStep
<1>8. CASE EnsureToken(r)
  <2>1. TypeRest'
    BY <1>1, <1>8 DEF TypeRest, EnsureToken, Goto, PCs, env
  <2> DEFINE c == guard[r]
             e == [entries[c] EXCEPT !.refreshFailures = 0]
  <2>2. c \in DOMAIN entries => e \in Entry /\ e.active = entries[c].active
    BY <1>1 DEF IsPool, Entry
  <2>3. SameSlots(entries, Put(entries, c, e))
    BY <1>1, <2>2, PutSameSlots
  <2>4. SameSlots(entries, entries')
    BY <1>3, <1>8, <2>3 DEF EnsureToken
  <2> QED
    BY <1>2, <2>1, <2>4, EditStep
<1>9. CASE ReloadFromFile(r)
  <2>1. reloadsLeft - 1 \in Nat
    BY <1>1, <1>9 DEF TypeRest, ReloadFromFile
  <2>2. TypeRest'
    BY <1>1, <1>9, <2>1 DEF TypeRest, ReloadFromFile, Goto, PCs, env
  <2>3. SameSlots(entries, entries')
    BY <1>1, <1>9, ReportSameSlots DEF ReloadFromFile
  <2> QED
    BY <1>2, <2>2, <2>3, EditStep
<1> QED
  BY <1>4, <1>5, <1>6, <1>7, <1>8, <1>9

\* The common tail of the reports.
LEMMA AfterReportType ==
  ASSUME TypeRest, NEW es, SameSlots(entries, es), NEW c, AfterReport(es, c)
  PROVE  /\ currentId' \in Ids \cup {NoId}
         /\ affinity' \in [Sessions -> Ids \cup {NoId}]
<1>1. IsPool(es)
  BY DEF SameSlots
<1> QED
  BY <1>1, HighestInIds, UnboundType DEF AfterReport, TypeRest

\* The reports of a request.
LEMMA ReportSteps ==
  ASSUME Inv, NEW r \in Requests,
         \/ ReportRefreshFailure(r) \/ ReportRefreshTokenInvalid(r)
         \/ ReportSuccess(r) \/ ReportFailure(r) \/ ReportQuotaExhausted(r)
         \/ ReportAccountThrottled(r)
  PROVE  Inv'
<1>1. TypeRest /\ IsPool(entries)
  BY InvIs
<1>2. ASSUME NEW es, SameSlots(entries, es), ReportRefresh(r, es),
             pc[r] \in {"report", "reload"}
      PROVE  Inv'
  <2>1. /\ currentId' \in Ids \cup {NoId}
        /\ affinity' \in [Sessions -> Ids \cup {NoId}]
    BY <1>1, <1>2, AfterReportType DEF ReportRefresh
  <2>2. guard[r] = NoId
    BY <1>1, <1>2 DEF TypeRest
  <2>3. CASE AnyEnabled(es)
    <3>0. /\ attempts' = [attempts EXCEPT ![r] = attempts[r] + 1]
          /\ target' = [target EXCEPT ![r] = NoId]
          /\ pc' = [pc EXCEPT ![r] = "reserve"]
          /\ UNCHANGED <<late, budget, mode, guard, left, adminLeft,
                         reloadsLeft, stale, orphans>>
      BY <1>2, <2>3 DEF ReportRefresh, Goto, env
    <3>1. TypeRest'
      <4>1. attempts' \in [Requests -> Nat]
        BY <1>1, <3>0 DEF TypeRest
      <4>2. pc' \in [Requests -> PCs] /\ target' \in [Requests -> Ids \cup {NoId}]
        BY <1>1, <3>0 DEF TypeRest, PCs
      <4>3. \A q \in Requests :
              guard'[q] # NoId <=> pc'[q] \in {"ensure", "bind", "call", "held"}
        BY <1>1, <2>2, <3>0 DEF TypeRest
      <4> QED
        BY <1>1, <2>1, <3>0, <4>1, <4>2, <4>3 DEF TypeRest
    <3>2. SameSlots(entries, entries') /\ UNCHANGED <<guard, orphans, stale>>
      BY <1>2 DEF ReportRefresh, AfterReport, env
    <3> QED
      BY <3>1, <3>2, EditStep
  <2>4. CASE ~AnyEnabled(es)
    <3>1. TypeRest'
      BY <1>1, <1>2, <2>1, <2>2, <2>4, GiveUpType DEF ReportRefresh
    <3>2. SameSlots(entries, entries') /\ UNCHANGED <<guard, orphans, stale>>
      BY <1>2 DEF ReportRefresh, AfterReport, env
    <3> QED
      BY <3>1, <3>2, EditStep
  <2> QED
    BY <2>3, <2>4
<1>3. ASSUME NEW es, SameSlots(entries, es), ReportCall(r, es)
      PROVE  Inv'
  <2>1. TypeRest'
    BY <1>1, <1>3, AfterReportType DEF TypeRest, ReportCall, Goto, PCs, env
  <2>2. SameSlots(entries, entries') /\ UNCHANGED <<guard, orphans, stale>>
    BY <1>3 DEF ReportCall, AfterReport, env
  <2> QED
    BY <2>1, <2>2, EditStep
<1>4. CASE ReportRefreshFailure(r) \/ ReportRefreshTokenInvalid(r)
  BY <1>1, <1>2, <1>4, ReportSameSlots
     DEF ReportRefreshFailure, ReportRefreshTokenInvalid
<1>5. CASE ReportFailure(r) \/ ReportQuotaExhausted(r)
  BY <1>1, <1>3, <1>5, ReportSameSlots DEF ReportFailure, ReportQuotaExhausted
<1>6. CASE ReportSuccess(r) \/ ReportAccountThrottled(r)
  <2>1. TypeRest'
    <3>1. CASE ReportSuccess(r)
      BY <1>1, <3>1 DEF TypeRest, ReportSuccess, Goto, PCs, env
    <3>2. CASE ReportAccountThrottled(r)
      BY <1>1, <3>2, UnboundType
         DEF TypeRest, ReportAccountThrottled, Goto, PCs, env
    <3> QED
      BY <1>6, <3>1, <3>2
  <2>2. SameSlots(entries, entries') /\ UNCHANGED <<guard, orphans, stale>>
    BY <1>1, <1>6, ReportSameSlots
       DEF ReportSuccess, ReportAccountThrottled, env
  <2> QED
    BY <2>1, <2>2, EditStep
<1> QED
  BY <1>4, <1>5, <1>6

\* The steps that take a slot, or try to.
LEMMA TakingSteps ==
  ASSUME Inv, NEW r \in Requests,
         ReserveOne(r) \/ PollSticky(r) \/ ReserveBest(r)
  PROVE  Inv'
<1>1. TypeRest /\ IsPool(entries)
  BY InvIs
<1>2. UNCHANGED <<orphans, stale>>
  BY DEF ReserveOne, PollSticky, ReserveBest, env
<1>3. guard[r] = NoId
  BY <1>1 DEF TypeRest, ReserveOne, PollSticky, ReserveBest
<1>4. ASSUME NEW c \in DOMAIN entries, NEW es, Take(r, c, es),
             SameSlots(Occupy(entries, c), es),
             currentId' \in Ids \cup {NoId},
             UNCHANGED <<affinity, mode, attempts, budget, left, env>>
      PROVE  Inv'
  <2>1. c \in Ids /\ c # NoId
    BY <1>1, IdsAssumption DEF IsPool
  <2>2. TypeRest'
    BY <1>1, <1>4, <2>1 DEF TypeRest, Take, Goto, PCs, env
  <2>3. SlotAccounting' /\ OrphansOut'
    BY <1>3, <1>4, TakeStep DEF Take, env
  <2>4. IsPool(entries')
    BY <1>4 DEF Take, SameSlots
  <2> QED
    BY <2>2, <2>3, <2>4 DEF Inv, TypeOK, IsPool, TypeRest
<1>5. ASSUME NEW c \in DOMAIN entries, NEW d
      PROVE  /\ SameSlots(Occupy(entries, c), Occupy(entries, c))
             /\ SameSlots(Occupy(entries, c), StopWaiting(Occupy(entries, c), d))
  BY <1>1, OccupyCounts, WaitingSameSlots, SameSlotsRefl
<1>6. CASE ReserveOne(r)
  <2>1. CASE target[r] \in Candidates(entries, Q(r))
    <3>1. target[r] \in DOMAIN entries
      BY <2>1, ChoicesInPool
    <3> QED
      BY <1>1, <1>4, <1>5, <1>6, <2>1, <3>1 DEF ReserveOne, TypeRest
  <2>2. CASE target[r] \notin Candidates(entries, Q(r))
    <3>1. TypeRest'
      BY <1>1, <1>6, <2>2 DEF TypeRest, ReserveOne, Goto, PCs, env
    <3> QED
      BY <1>2, <1>6, <2>2, <3>1, IdleStep DEF ReserveOne
  <2> QED
    BY <2>1, <2>2
<1>7. CASE PollSticky(r)
  <2>1. CASE target[r] \in Candidates(entries, Q(r))
    <3>1. target[r] \in DOMAIN entries
      BY <2>1, ChoicesInPool
    <3>2. Take(r, target[r], StopWaiting(Occupy(entries, target[r]), target[r]))
      BY <1>7, <2>1 DEF PollSticky
    <3>3. UNCHANGED <<currentId, affinity, mode, attempts, budget, left, env>>
      BY <1>7 DEF PollSticky
    <3> QED
      BY <1>1, <1>4, <1>5, <3>1, <3>2, <3>3 DEF TypeRest
  <2>2. CASE target[r] \notin Candidates(entries, Q(r))
    <3>1. TypeRest'
      BY <1>1, <1>7, <2>2 DEF TypeRest, PollSticky, Goto, PCs, env
    <3>2. SameSlots(entries, entries') /\ UNCHANGED guard
      BY <1>1, <1>7, <2>2, WaitingSameSlots, SameSlotsRefl DEF PollSticky
    <3> QED
      BY <1>2, <3>1, <3>2, EditStep
  <2> QED
    BY <2>1, <2>2
<1>8. CASE ReserveBest(r)
  <2>1. PICK c \in BestChoices(entries, Q(r), mode) :
          /\ Take(r, c, StopWaiting(Occupy(entries, c), target[r]))
          /\ currentId' = c
    BY <1>8 DEF ReserveBest
  <2>2. c \in DOMAIN entries /\ c \in Ids
    BY <1>1, ChoicesInPool DEF IsPool
  <2>3. UNCHANGED <<affinity, mode, attempts, budget, left, env>>
    BY <1>8 DEF ReserveBest
  <2> QED
    BY <1>4, <1>5, <2>1, <2>2, <2>3
<1> QED
  BY <1>6, <1>7, <1>8

\* The steps that drop a guard, and the end of a request that has none.
LEMMA DroppingSteps ==
  ASSUME Inv, NEW r \in Requests,
         \/ \E why \in {"refresh error", "invalid_grant"} : EnsureTokenFails(r, why)
         \/ Finish(r) \/ Cancel(r)
  PROVE  Inv'
<1>1. TypeRest /\ IsPool(entries)
  BY InvIs
<1>2. UNCHANGED stale
  BY DEF EnsureTokenFails, Finish, Cancel
<1>3. ASSUME guard[r] # NoId, DropGuard(r), TypeRest'
      PROVE  Inv'
  BY <1>2, <1>3, DropStep DEF Inv, TypeOK, IsPool, TypeRest
<1>4. CASE Finish(r)
  <2>1. guard[r] # NoId /\ DropGuard(r)
    BY <1>1, <1>4 DEF TypeRest, Finish
  <2>2. TypeRest'
    BY <1>1, <1>4 DEF TypeRest, Finish, DropGuard, Goto, PCs
  <2> QED
    BY <1>3, <2>1, <2>2
<1>5. ASSUME NEW why \in {"refresh error", "invalid_grant"},
             EnsureTokenFails(r, why)
      PROVE  Inv'
  <2>1. guard[r] # NoId /\ DropGuard(r)
    BY <1>1, <1>5 DEF TypeRest, EnsureTokenFails
  <2>2. TypeRest'
    BY <1>1, <1>5 DEF TypeRest, EnsureTokenFails, DropGuard, Goto, PCs
  <2> QED
    BY <1>3, <2>1, <2>2
<1>6. CASE Cancel(r)
  <2>1. CASE guard[r] # NoId
    <3>1. DropGuard(r)
      BY <1>6, <2>1 DEF Cancel
    <3>2. TypeRest'
      BY <1>1, <1>6, <2>1, <3>1
         DEF TypeRest, Cancel, DropGuard, GiveUp, Return, Goto, PCs
    <3> QED
      BY <1>3, <2>1, <3>1, <3>2
  <2>2. CASE guard[r] = NoId
    <3>1. UNCHANGED <<entries, guard, orphans>>
      BY <1>6, <2>2 DEF Cancel
    <3>2. TypeRest'
      BY <1>1, <1>6, <2>2, <3>1, GiveUpType DEF Cancel, env, TypeRest
    <3> QED
      BY <1>2, <3>1, <3>2, IdleStep
  <2> QED
    BY <2>1, <2>2
<1> QED
  BY <1>4, <1>5, <1>6

\* Time.
LEMMA ClockSteps ==
  ASSUME Inv, \/ \E c \in Ids : CooldownEnds(c)
              \/ \E s \in Sessions : BindingExpires(s)
  PROVE  Inv'
<1>1. TypeRest /\ IsPool(entries)
  BY InvIs
<1>2. ASSUME NEW c \in Ids, CooldownEnds(c)
      PROVE  Inv'
  <2> DEFINE e == [entries[c] EXCEPT !.throttled = FALSE]
  <2>1. c \in DOMAIN entries /\ e \in Entry /\ e.active = entries[c].active
    BY <1>1, <1>2 DEF CooldownEnds, IsPool, Entry
  <2>2. SameSlots(entries, entries')
    BY <1>2, <2>1, EditSameSlots DEF CooldownEnds
  <2>3. TypeRest' /\ UNCHANGED <<guard, orphans, stale>>
    BY <1>1, <1>2 DEF TypeRest, CooldownEnds, request, env
  <2> QED
    BY <2>2, <2>3, EditStep
<1>3. ASSUME NEW s \in Sessions, BindingExpires(s)
      PROVE  Inv'
  <2>1. TypeRest' /\ UNCHANGED <<entries, guard, orphans, stale>>
    BY <1>1, <1>3 DEF TypeRest, BindingExpires, request, env
  <2> QED
    BY <2>1, IdleStep
<1> QED
  BY <1>2, <1>3

\* What all the operator's actions leave alone.
LEMMA AdminType ==
  ASSUME TypeRest, NEW op, Admin(op), UNCHANGED <<stale, orphans>>,
         currentId' \in Ids \cup {NoId},
         affinity' \in [Sessions -> Ids \cup {NoId}], mode' \in Modes
  PROVE  TypeRest'
<1>1. adminLeft' \in Nat
  BY DEF TypeRest, Admin
<1> QED
  BY <1>1 DEF TypeRest, Admin, request

\* The operator edits one credential.
LEMMA EditSteps ==
  ASSUME Inv, NEW c \in DOMAIN entries,
         \/ \E off \in BOOLEAN : SetDisabled(c, off)
         \/ ResetAndEnable(c) \/ DisableQuotaExceeded(c) \/ ClearThrottle(c)
         \/ \E k \in Catalogue : \/ SetPriority(c, k.priority)
                                 \/ SetMaxConcurrency(c, k.max)
                                 \/ SetGroups(c, k.groups)
  PROVE  Inv'
<1>1. TypeRest /\ IsPool(entries) /\ entries[c] \in Entry
  BY InvIs DEF IsPool
<1>2. ASSUME NEW op, Admin(op), NEW e \in Entry, e.active = entries[c].active,
             NEW aff \in {affinity, Unbound(c)}, Edit(c, e, aff),
             currentId' = currentId \/ SelectHighestPriority(entries')
      PROVE  Inv'
  <2>1. SameSlots(entries, entries')
    BY <1>2, EditSameSlots DEF Edit
  <2>2. currentId' \in Ids \cup {NoId}
    BY <1>1, <1>2, <2>1, HighestInIds
       DEF TypeRest, SelectHighestPriority, SameSlots
  <2>3. affinity' \in [Sessions -> Ids \cup {NoId}] /\ mode' \in Modes
    BY <1>1, <1>2, UnboundType DEF Edit, TypeRest
  <2>4. UNCHANGED <<guard, stale, orphans>>
    BY <1>2 DEF Edit, Admin, request
  <2>5. TypeRest'
    BY <1>1, <1>2, <2>2, <2>3, <2>4, AdminType
  <2> QED
    BY <2>1, <2>4, <2>5, EditStep
<1>3. ASSUME NEW e \in Entry
      PROVE  /\ [e EXCEPT !.throttled = FALSE] \in Entry
             /\ [e EXCEPT !.throttled = FALSE].active = e.active
  BY DEF Entry
<1>4. ASSUME NEW off \in BOOLEAN, SetDisabled(c, off)
      PROVE  Inv'
  <2> DEFINE e == IF off THEN Disable(entries[c], "Manual")
                  ELSE [Enable(entries[c]) EXCEPT !.throttled = FALSE]
  <2>1. e \in Entry /\ e.active = entries[c].active
    BY <1>1, <1>3, DisableEnable DEF Reasons
  <2>2. Admin("set_disabled") /\ Edit(c, e, Unbound(c))
        /\ (currentId' = currentId \/ SelectHighestPriority(entries'))
    BY <1>4 DEF SetDisabled
  <2> HIDE DEF e
  <2> QED
    BY <1>2, <2>1, <2>2
<1>5. CASE ResetAndEnable(c)
  BY <1>1, <1>2, <1>3, <1>5, DisableEnable DEF ResetAndEnable, Reasons
<1>6. CASE DisableQuotaExceeded(c)
  BY <1>1, <1>2, <1>6, DisableEnable DEF DisableQuotaExceeded, Reasons
<1>7. CASE ClearThrottle(c)
  BY <1>1, <1>2, <1>3, <1>7 DEF ClearThrottle
<1>8. ASSUME NEW k \in Catalogue,
             \/ SetPriority(c, k.priority) \/ SetMaxConcurrency(c, k.max)
             \/ SetGroups(c, k.groups)
      PROVE  Inv'
  <2>1. k.priority \in Nat /\ k.max \in Nat /\ k.groups \in SUBSET Groups
    BY CatalogueAssumption DEF Config
  <2>2. LET e == [entries[c] EXCEPT !.priority = k.priority]
            f == [entries[c] EXCEPT !.max = k.max]
            g == [entries[c] EXCEPT !.groups = k.groups]
        IN  /\ e \in Entry /\ e.active = entries[c].active
            /\ f \in Entry /\ f.active = entries[c].active
            /\ g \in Entry /\ g.active = entries[c].active
    BY <1>1, <2>1 DEF Entry
  <2>3. CASE SetPriority(c, k.priority)
    BY <1>2, <2>2, <2>3 DEF SetPriority
  <2>4. CASE SetMaxConcurrency(c, k.max)
    BY <1>2, <2>2, <2>4 DEF SetMaxConcurrency
  <2>5. CASE SetGroups(c, k.groups)
    BY <1>2, <2>2, <2>5 DEF SetGroups
  <2> QED
    BY <1>8, <2>3, <2>4, <2>5
<1> QED
  BY <1>4, <1>5, <1>6, <1>7, <1>8

\* The operator changes the pool as a whole.
LEMMA PoolSteps ==
  ASSUME Inv, \/ \E c \in DOMAIN entries : DeleteCredential(c)
              \/ \E g \in Groups : RemoveGroup(g)
              \/ \E m \in Modes : SetMode(m)
              \/ \E k \in Catalogue : AddCredential(k)
  PROVE  Inv'
<1>1. TypeRest /\ IsPool(entries)
  BY InvIs
<1>2. ASSUME NEW c \in DOMAIN entries, DeleteCredential(c)
      PROVE  Inv'
  <2>1. IsPool(entries') /\ SlotAccounting' /\ OrphansOut'
    BY <1>2, DeleteStep
  <2>2. /\ entries' = [d \in DOMAIN entries \ {c} |-> entries[d]]
        /\ affinity' = Unbound(c)
        /\ currentId' \in HighestPriority(entries') \cup {currentId, NoId}
        /\ mode' = mode /\ stale' = stale
        /\ orphans' = orphans \cup Holders(c)
        /\ adminLeft' = adminLeft - 1 /\ adminLeft > 0
        /\ UNCHANGED <<request, reloadsLeft>>
    BY <1>2 DEF DeleteCredential, Admin, SelectHighestPriority
  <2>3. /\ currentId' \in Ids \cup {NoId} /\ adminLeft' \in Nat
        /\ affinity' \in [Sessions -> Ids \cup {NoId}]
        /\ orphans' \subseteq Requests
    BY <1>1, <2>1, <2>2, HighestInIds, UnboundType DEF TypeRest, Holders
  <2>4. TypeRest'
    BY <1>1, <2>2, <2>3 DEF TypeRest, request
  <2> QED
    BY <2>1, <2>4 DEF Inv, TypeOK, IsPool, TypeRest
<1>3. ASSUME NEW g \in Groups, RemoveGroup(g)
      PROVE  Inv'
  <2>1. ASSUME NEW c \in DOMAIN entries
        PROVE  LET e == [entries[c] EXCEPT !.groups = @ \ {g}]
               IN  e \in Entry /\ e.active = entries[c].active
    BY <1>1 DEF IsPool, Entry
  <2>2. SameSlots(entries, entries')
    BY <1>1, <1>3, <2>1 DEF RemoveGroup, SameSlots, IsPool
  <2>3. UNCHANGED <<guard, stale, orphans>>
    BY <1>3 DEF RemoveGroup, Admin, request
  <2>4. affinity' \in [Sessions -> Ids \cup {NoId}] /\ UNCHANGED <<currentId, mode>>
    BY <1>3 DEF RemoveGroup
  <2>5. TypeRest'
    BY <1>1, <1>3, <2>3, <2>4, AdminType DEF RemoveGroup, TypeRest
  <2> QED
    BY <2>2, <2>3, <2>5, EditStep
<1>4. ASSUME NEW m \in Modes, SetMode(m)
      PROVE  Inv'
  <2>1. TypeRest'
    BY <1>1, <1>4, AdminType DEF SetMode, TypeRest
  <2>2. UNCHANGED <<entries, guard, stale, orphans>>
    BY <1>4 DEF SetMode, Admin, request
  <2> QED
    BY <2>1, <2>2, IdleStep
<1>5. ASSUME NEW k \in Catalogue, AddCredential(k)
      PROVE  Inv'
  <2>1. IsPool(entries') /\ SlotAccounting' /\ OrphansOut'
    BY <1>5, AddStep
  <2>2. /\ adminLeft' = adminLeft - 1 /\ adminLeft > 0
        /\ UNCHANGED <<currentId, affinity, mode, request, reloadsLeft, orphans>>
        /\ \E c \in Ids : stale' \in {stale \cup {c}, stale \ {c}}
    BY <1>5 DEF AddCredential, Admin
  <2>3. adminLeft' \in Nat /\ stale' \subseteq Ids
    BY <1>1, <2>2 DEF TypeRest
  <2>4. TypeRest'
    BY <1>1, <2>2, <2>3 DEF TypeRest, request
  <2> QED
    BY <2>1, <2>4 DEF Inv, TypeOK, IsPool, TypeRest
<1> QED
  BY <1>2, <1>3, <1>4, <1>5

\* Inv holds of every pool the file may describe.
LEMMA InitInv == Init => Inv
<1> SUFFICES ASSUME Init PROVE Inv
  OBVIOUS
<1>1. IsPool(entries) /\ \A c \in DOMAIN entries : entries[c].active = 0
  <2>1. ASSUME NEW c \in DOMAIN entries
        PROVE  entries[c] \in Entry /\ entries[c].active = 0
    <3>1. PICK k \in Catalogue, off \in BOOLEAN : entries[c] = LoadedEntry(k, off)
      BY InitialPoolsAssumption DEF Init
    <3> QED
      BY <3>1, CatalogueAssumption, NewEntryType DEF LoadedEntry, Reasons
  <2>2. DOMAIN entries \subseteq Ids
    BY InitialPoolsAssumption DEF Init
  <2>3. entries = [c \in DOMAIN entries |-> entries[c]]
    BY InitialPoolsAssumption DEF Init
  <2> QED
    BY <2>1, <2>2, <2>3 DEF IsPool
<1>2. currentId \in Ids \cup {NoId}
  BY <1>1, HighestInIds DEF Init
<1>3. TypeRest
  BY <1>2, BoundsAssumption DEF Init, TypeRest, PCs
<1>4. \A c : c # NoId => Holders(c) = {}
  BY DEF Init, Holders
<1>5. OrphansOut
  BY DEF Init, OrphansOut
<1>6. SlotAccounting
  <2>1. \A c \in DOMAIN entries : Guards(c) = {}
    BY <1>1, <1>4, IdsAssumption DEF IsPool, Guards
  <2> QED
    BY <1>1, <2>1, FS_EmptySet DEF SlotAccounting
<1> QED
  BY <1>1, <1>3, <1>5, <1>6, InvIs

\* Inv is inductive.
LEMMA NextInv == Inv /\ [Next]_vars => Inv'
<1> SUFFICES ASSUME Inv, [Next]_vars PROVE Inv'
  OBVIOUS
<1>1. CASE UNCHANGED vars
  BY <1>1 DEF vars, pool, request, env, Inv, TypeOK, OrphansOut, SlotAccounting,
              Guards, Holders
<1>2. ASSUME NEW r \in Requests,
             \/ Begin(r) \/ Run(r) \/ Refreshed(r) \/ Answered(r)
             \/ Finish(r) \/ Cancel(r) \/ WaitBudgetEnds(r)
      PROVE  Inv'
  <2>1. CASE Run(r)
    BY <2>1, ControlSteps, WaitingSteps, TakingSteps, ReportSteps DEF Run
  <2>2. CASE Refreshed(r)
    BY <2>2, WaitingSteps, DroppingSteps DEF Refreshed
  <2>3. CASE Answered(r)
    BY <2>3, ReportSteps, ControlSteps DEF Answered
  <2> QED
    BY <1>2, <2>1, <2>2, <2>3, ControlSteps, DroppingSteps
<1>3. CASE Operator
  BY <1>3, EditSteps, PoolSteps DEF Operator
<1> QED
  BY <1>1, <1>2, <1>3, ClockSteps DEF Next, Done

-----------------------------------------------------------------------------
(* Who gets a slot. *)

\* Taking a slot moves one guard only, and only from nowhere to a credential.
LEMMA TakesOne ==
  ASSUME Inv, NEW r \in Requests, NEW c, NEW es, Take(r, c, es), NEW q \in Requests
  PROVE  guard'[q] = IF q = r THEN c ELSE guard[q]
BY InvIs DEF Take, TypeRest

\* A step moves no guard, drops it, or hands out a slot of a credential that
\* suits the request and is not full.  An orphan remains one while it has its
\* guard.
LEMMA GuardMoves ==
  ASSUME Inv, [Next]_vars, NEW q \in Requests
  PROVE  \/ guard'[q] = guard[q] /\ (q \in orphans => q \in orphans')
         \/ guard'[q] = NoId
         \/ guard[q] = NoId /\ guard'[q] \in Candidates(entries, Q(q))
<1> DEFINE Goal == \/ guard'[q] = guard[q] /\ (q \in orphans => q \in orphans')
                   \/ guard'[q] = NoId
                   \/ guard[q] = NoId /\ guard'[q] \in Candidates(entries, Q(q))
<1>0. TypeRest
  BY InvIs
<1>1. ASSUME guard' = guard, orphans \subseteq orphans'
      PROVE  Goal
  BY <1>1
<1>2. CASE UNCHANGED vars
  BY <1>1, <1>2 DEF vars, request, env
<1>3. ASSUME NEW r \in Requests, DropGuard(r)
      PROVE  Goal
  BY <1>0, <1>3 DEF DropGuard, TypeRest
<1>4. ASSUME NEW r \in Requests, pc[r] \in {"one", "poll", "asleep", "best"},
             NEW c \in Candidates(entries, Q(r)), NEW es, Take(r, c, es),
             UNCHANGED orphans
      PROVE  Goal
  <2>1. guard[r] = NoId
    BY <1>0, <1>4 DEF TypeRest
  <2> QED
    BY <1>4, <2>1, TakesOne
<1>5. ASSUME NEW r \in Requests, Run(r)
      PROVE  Goal
  <2>1. CASE ReserveOne(r)
    BY <1>1, <1>4, <2>1 DEF ReserveOne, env
  <2>2. CASE PollSticky(r)
    BY <1>1, <1>4, <2>2 DEF PollSticky, env
  <2>3. CASE ReserveBest(r)
    BY <1>4, <2>3, ChoicesInPool DEF ReserveBest, env
  <2>4. CASE \/ AttemptsExhausted(r) \/ ReserveContext(r) \/ CheckBinding(r)
             \/ Unbind(r) \/ CountWaiting(r) \/ JoinWaiting(r) \/ WaitForBest(r)
             \/ GiveUpBusy(r) \/ FindNone(r) \/ TryAutoheal(r) \/ Bind(r)
             \/ ReloadFromFile(r)
    BY <1>1, <2>4 DEF AttemptsExhausted, ReserveContext, CheckBinding, Unbind,
         CountWaiting, JoinWaiting, WaitForBest, GiveUpBusy, FindNone,
         TryAutoheal, Bind, ReloadFromFile, env
  <2>5. CASE ReportRefreshFailure(r) \/ ReportRefreshTokenInvalid(r)
    BY <1>1, <2>5 DEF ReportRefreshFailure, ReportRefreshTokenInvalid,
                      ReportRefresh, env
  <2>6. CASE ForgetSession(r)
    <3>1. UNCHANGED <<guard, env>>
      BY <2>6, Zenon DEF ForgetSession
    <3> QED
      BY <1>1, <3>1 DEF env
  <2> QED
    BY <1>5, <2>1, <2>2, <2>3, <2>4, <2>5, <2>6 DEF Run
<1>6. ASSUME NEW r \in Requests, Refreshed(r) \/ Finish(r) \/ Cancel(r)
      PROVE  Goal
  <2>1. CASE EnsureToken(r)
    BY <1>1, <2>1 DEF EnsureToken, env
  <2>2. ASSUME NEW why, EnsureTokenFails(r, why)
        PROVE  Goal
    <3>1. DropGuard(r)
      BY <2>2, Zenon DEF EnsureTokenFails
    <3> QED
      BY <1>3, <3>1
  <2>3. CASE Finish(r)
    BY <1>3, <2>3 DEF Finish
  <2>4. CASE Cancel(r)
    BY <1>1, <1>3, <2>4 DEF Cancel
  <2> QED
    BY <1>6, <2>1, <2>2, <2>3, <2>4, Zenon DEF Refreshed
<1>7. ASSUME NEW r \in Requests, Begin(r) \/ Answered(r) \/ WaitBudgetEnds(r)
      PROVE  Goal
  <2>1. UNCHANGED <<guard, env>>
    BY <1>7, Zenon
       DEF Begin, Answered, ReportSuccess, ReportFailure, ReportQuotaExhausted,
           ReportAccountThrottled, ReportCall, CallUnreported, WaitBudgetEnds
  <2> QED
    BY <1>1, <2>1 DEF env
<1>8. CASE \/ \E c \in Ids : CooldownEnds(c)
           \/ \E s \in Sessions : BindingExpires(s)
  BY <1>1, <1>8 DEF CooldownEnds, BindingExpires, request, env
<1>9. CASE Operator
  <2>1. UNCHANGED guard /\ \E c : orphans' \in {orphans, orphans \cup Holders(c)}
    <3>1. ASSUME NEW op, Admin(op)
          PROVE  UNCHANGED guard
      BY <3>1 DEF Admin, request
    <3>2. ASSUME NEW c \in DOMAIN entries,
                 \/ \E off \in BOOLEAN : SetDisabled(c, off)
                 \/ ResetAndEnable(c) \/ DisableQuotaExceeded(c)
                 \/ ClearThrottle(c)
                 \/ \E k \in Catalogue : \/ SetPriority(c, k.priority)
                                         \/ SetMaxConcurrency(c, k.max)
                                         \/ SetGroups(c, k.groups)
          PROVE  UNCHANGED <<guard, orphans>>
      BY <3>1, <3>2, Zenon
         DEF SetDisabled, ResetAndEnable, DisableQuotaExceeded, ClearThrottle,
             SetPriority, SetMaxConcurrency, SetGroups, Edit
    <3>3. ASSUME \/ \E g \in Groups : RemoveGroup(g)
                 \/ \E m \in Modes : SetMode(m)
                 \/ \E k \in Catalogue : AddCredential(k)
          PROVE  UNCHANGED <<guard, orphans>>
      BY <3>1, <3>3, Zenon DEF RemoveGroup, SetMode, AddCredential
    <3>4. ASSUME NEW c, DeleteCredential(c)
          PROVE  UNCHANGED guard /\ orphans' = orphans \cup Holders(c)
      BY <3>1, <3>4 DEF DeleteCredential
    <3> QED
      BY <1>9, <3>2, <3>3, <3>4 DEF Operator
  <2> QED
    BY <1>1, <2>1
<1> QED
  BY <1>2, <1>5, <1>6, <1>7, <1>8, <1>9 DEF Next, Done

\* A new guard on a credential whose accounts are clean means it was not full.
LEMMA LimitStep ==
  ASSUME Inv, [Next]_vars, NEW c \in DOMAIN entries \ stale,
         Guards(c)' \ Guards(c) # {}
  PROVE  entries[c].max = 0 \/ Cardinality(Guards(c)) < entries[c].max
<1>1. /\ c \in Ids /\ c # NoId
      /\ entries[c].max \in Nat /\ entries[c].active \in Nat
  BY InvIs, IdsAssumption DEF IsPool, Entry
<1>2. PICK q \in Requests : /\ guard'[q] = c /\ q \notin orphans'
                            /\ guard[q] # c \/ q \in orphans
  BY DEF Guards, Holders
<1>3. c \in Candidates(entries, Q(q))
  BY <1>1, <1>2, GuardMoves
<1>4. ~IsFull(entries[c])
  BY <1>3 DEF Candidates
<1>5. entries[c].active = Cardinality(Guards(c))
  BY DEF Inv, SlotAccounting
<1> QED
  BY <1>1, <1>4, <1>5 DEF IsFull

-----------------------------------------------------------------------------
(* Where a new guard goes. *)

\* A request that searches takes the best candidate or nothing.
LEMMA BestTaken ==
  ASSUME Inv, [Next]_vars, NEW q \in Requests, pc[q] = "best", guard'[q] # NoId
  PROVE  guard'[q] \in BestChoices(entries, Q(q), mode)
<1> DEFINE Goal == guard'[q] = NoId \/ guard'[q] \in BestChoices(entries, Q(q), mode)
<1> SUFFICES Goal
  OBVIOUS
<1>0. TypeRest
  BY InvIs
<1>1. ASSUME UNCHANGED guard PROVE Goal
  BY <1>0, <1>1 DEF TypeRest
<1>2. ASSUME NEW r \in Requests, r # q, NEW c, guard' = [guard EXCEPT ![r] = c] PROVE Goal
  BY <1>0, <1>2 DEF TypeRest
<1>3. ASSUME NEW r \in Requests, Run(r) PROVE Goal
  <2>1. CASE ReserveOne(r)
    BY <1>1, <1>2, <2>1 DEF ReserveOne, Take
  <2>2. CASE PollSticky(r)
    BY <1>1, <1>2, <2>2 DEF PollSticky, Take
  <2>3. CASE ReserveBest(r)
    <3>1. CASE r = q
      BY <1>0, <2>3, <3>1 DEF ReserveBest, Take, TypeRest
    <3>2. CASE r # q
      BY <1>2, <2>3, <3>2 DEF ReserveBest, Take
    <3> QED
      BY <3>1, <3>2
  <2>4. CASE \/ AttemptsExhausted(r) \/ ReserveContext(r) \/ CheckBinding(r)
             \/ Unbind(r) \/ CountWaiting(r) \/ JoinWaiting(r) \/ WaitForBest(r)
             \/ GiveUpBusy(r) \/ FindNone(r) \/ TryAutoheal(r) \/ Bind(r)
             \/ ReloadFromFile(r)
    BY <1>1, <2>4 DEF AttemptsExhausted, ReserveContext, CheckBinding, Unbind,
         CountWaiting, JoinWaiting, WaitForBest, GiveUpBusy, FindNone,
         TryAutoheal, Bind, ReloadFromFile
  <2>5. CASE ReportRefreshFailure(r) \/ ReportRefreshTokenInvalid(r)
    BY <1>1, <2>5 DEF ReportRefreshFailure, ReportRefreshTokenInvalid, ReportRefresh
  <2>6. CASE ForgetSession(r)
    <3>1. UNCHANGED guard
      BY <2>6, Zenon DEF ForgetSession
    <3> QED
      BY <1>1, <3>1
  <2> QED
    BY <1>3, <2>1, <2>2, <2>3, <2>4, <2>5, <2>6 DEF Run
<1>4. ASSUME NEW r \in Requests, DropGuard(r) PROVE Goal
  BY <1>0, <1>4 DEF DropGuard, TypeRest
<1>5. ASSUME NEW r \in Requests, Refreshed(r) \/ Finish(r) \/ Cancel(r) PROVE Goal
  <2>1. UNCHANGED guard \/ DropGuard(r)
    BY <1>5, Zenon DEF Refreshed, EnsureToken, EnsureTokenFails, Finish, Cancel
  <2> QED
    BY <1>1, <1>4, <2>1
<1>6. ASSUME NEW r \in Requests, Begin(r) \/ Answered(r) \/ WaitBudgetEnds(r) PROVE Goal
  <2>1. UNCHANGED guard
    BY <1>6, Zenon
       DEF Begin, Answered, ReportSuccess, ReportFailure, ReportQuotaExhausted,
           ReportAccountThrottled, ReportCall, CallUnreported, WaitBudgetEnds
  <2> QED
    BY <1>1, <2>1
<1>7. CASE \/ \E c \in Ids : CooldownEnds(c)
           \/ \E s \in Sessions : BindingExpires(s)
           \/ UNCHANGED vars
  BY <1>1, <1>7 DEF CooldownEnds, BindingExpires, vars, request
<1>8. CASE Operator
  <2>1. \E op : Admin(op)
    BY <1>8, Zenon
       DEF Operator, SetDisabled, ResetAndEnable, DisableQuotaExceeded,
           ClearThrottle, SetPriority, SetMaxConcurrency, SetGroups,
           DeleteCredential, RemoveGroup, SetMode, AddCredential
  <2> QED
    BY <1>1, <2>1 DEF Admin, request
<1> QED
  BY <1>1, <1>3, <1>5, <1>6, <1>7, <1>8 DEF Next, Done

\* What the best candidate is, told by the guards that are out.
LEMMA BestIsIdlest ==
  ASSUME Inv, NEW q, NEW c \in BestChoices(entries, q, mode), c \notin stale,
         NEW d \in AvailableIds(entries, q) \ stale,
         entries[d].max = 0 \/ Cardinality(Guards(d)) < entries[d].max,
         mode = "balanced" \/ entries[d].priority <= entries[c].priority
  PROVE  /\ mode = "balanced" \/ entries[d].priority = entries[c].priority
         /\ Cardinality(Guards(c)) <= Cardinality(Guards(d))
<1>1. /\ c \in DOMAIN entries /\ d \in DOMAIN entries
      /\ c \in Candidates(entries, q)
  BY ChoicesInPool
<1>2. /\ entries[c].active = Cardinality(Guards(c))
      /\ entries[d].active = Cardinality(Guards(d))
  BY <1>1 DEF Inv, SlotAccounting
<1>3. \A x \in DOMAIN entries :
        entries[x].active \in Nat /\ entries[x].max \in Nat /\ entries[x].priority \in Nat
  BY InvIs DEF IsPool, Entry
<1>4. d \in Candidates(entries, q)
  BY <1>1, <1>2, <1>3 DEF Candidates, IsFull
<1>5. Candidates(entries, q) \subseteq DOMAIN entries
  BY ChoicesInPool
<1>6. CASE mode = "balanced"
  <2>1. ~LessLoaded(entries[d], entries[c])
    BY <1>4, <1>6 DEF BestChoices
  <2> QED
    BY <1>1, <1>2, <1>3, <1>6, <2>1 DEF LessLoaded
<1>7. CASE mode # "balanced"
  <2> DEFINE tier == {x \in Candidates(entries, q) :
                        \A y \in Candidates(entries, q) :
                          entries[x].priority <= entries[y].priority}
  <2>1. c \in tier /\ \A y \in tier : entries[c].active <= entries[y].active
    BY <1>7 DEF BestChoices
  <2>2. entries[d].priority = entries[c].priority
    BY <1>1, <1>3, <1>4, <1>7, <2>1
  <2>3. d \in tier
    BY <1>4, <2>1, <2>2
  <2> QED
    BY <1>2, <2>1, <2>2, <2>3
<1> QED
  BY <1>6, <1>7

-----------------------------------------------------------------------------
(* The semaphores. *)

\* fs has the credentials of es, each with the same limit.
SameLimits(es, fs) == /\ DOMAIN fs = DOMAIN es
                      /\ \A d \in DOMAIN es : fs[d].max = es[d].max

\* Taking or releasing a slot, or counting who waits, changes no limit.
LEMMA PutSameLimits ==
  ASSUME NEW es, IsPool(es), NEW c
  PROVE  /\ SameLimits(es, Occupy(es, c)) /\ SameLimits(es, ReleaseSlot(es, c))
         /\ SameLimits(es, StopWaiting(es, c))
         /\ \A d : SameLimits(es, StopWaiting(Occupy(es, c), d))
<1>1. ASSUME NEW fs, SameLimits(es, fs), IsPool(fs), NEW d, NEW e,
             d \in DOMAIN fs => e.max = fs[d].max
      PROVE  SameLimits(es, Put(fs, d, e))
  BY <1>1 DEF SameLimits, Put
<1>2. SameLimits(es, es)
  BY DEF SameLimits
<1>3. ASSUME NEW fs, SameLimits(es, fs), IsPool(fs), NEW d
      PROVE  /\ SameLimits(es, Occupy(fs, d)) /\ SameLimits(es, ReleaseSlot(fs, d))
             /\ SameLimits(es, StopWaiting(fs, d))
  <2>1. d \in DOMAIN fs => fs[d] \in Entry
    BY <1>3 DEF IsPool
  <2>2. d \in DOMAIN fs => [fs[d] EXCEPT !.active = @ + 1].max = fs[d].max
    BY <2>1 DEF Entry
  <2>3. d \in DOMAIN fs =>
          [fs[d] EXCEPT !.active = IF @ > 0 THEN @ - 1 ELSE 0].max = fs[d].max
    BY <2>1 DEF Entry
  <2>4. d \in DOMAIN fs =>
          [fs[d] EXCEPT !.waiting = IF @ > 0 THEN @ - 1 ELSE 0].max = fs[d].max
    BY <2>1 DEF Entry
  <2> QED
    BY <1>1, <1>3, <2>2, <2>3, <2>4, Zenon DEF Occupy, ReleaseSlot, StopWaiting
<1>4. CASE c \in DOMAIN es
  <2>1. IsPool(Occupy(es, c))
    BY <1>4, OccupyCounts
  <2> QED
    BY <1>2, <1>3, <2>1
<1>5. CASE c \notin DOMAIN es
  <2>1. Occupy(es, c) = es
    BY <1>5 DEF IsPool, Occupy, Put
  <2> QED
    BY <1>2, <1>3, <2>1
<1> QED
  BY <1>4, <1>5

\* One request at a time takes a slot or gives it back, and no limit changes
\* in such a step.
GuardStep ==
  \/ UNCHANGED guard
  \/ /\ SameLimits(entries, entries')
     /\ \E r \in Requests :
          \/ /\ guard[r] # NoId
             /\ guard' = [guard EXCEPT ![r] = NoId]
          \/ /\ guard[r] = NoId
             /\ \E c \in Candidates(entries, Q(r)) : guard' = [guard EXCEPT ![r] = c]

LEMMA NextGuards == ASSUME Inv, [Next]_vars PROVE GuardStep
<1>0. TypeRest /\ IsPool(entries)
  BY InvIs
<1>1. ASSUME NEW r \in Requests, guard[r] # NoId, DropGuard(r) PROVE GuardStep
  BY <1>0, <1>1, PutSameLimits DEF DropGuard, GuardStep
<1>2. ASSUME NEW r \in Requests, pc[r] \in {"one", "poll", "asleep", "best"},
             NEW c \in Candidates(entries, Q(r)), NEW d,
             \/ Take(r, c, Occupy(entries, c))
             \/ Take(r, c, StopWaiting(Occupy(entries, c), d))
      PROVE  GuardStep
  <2>1. guard[r] = NoId
    BY <1>0, <1>2 DEF TypeRest
  <2>2. SameLimits(entries, entries') /\ guard' = [guard EXCEPT ![r] = c]
    BY <1>0, <1>2, PutSameLimits DEF Take
  <2> QED
    BY <2>1, <2>2 DEF GuardStep
<1>3. ASSUME NEW r \in Requests, Run(r) PROVE GuardStep
  <2>1. CASE ReserveOne(r)
    BY <1>2, <2>1 DEF ReserveOne, GuardStep
  <2>2. CASE PollSticky(r)
    BY <1>2, <2>2 DEF PollSticky, GuardStep
  <2>3. CASE ReserveBest(r)
    BY <1>2, <2>3, ChoicesInPool DEF ReserveBest
  <2>4. CASE \/ AttemptsExhausted(r) \/ ReserveContext(r) \/ CheckBinding(r)
             \/ Unbind(r) \/ CountWaiting(r) \/ JoinWaiting(r) \/ WaitForBest(r)
             \/ GiveUpBusy(r) \/ FindNone(r) \/ TryAutoheal(r) \/ Bind(r)
             \/ ReloadFromFile(r)
    BY <2>4 DEF AttemptsExhausted, ReserveContext, CheckBinding, Unbind,
         CountWaiting, JoinWaiting, WaitForBest, GiveUpBusy, FindNone,
         TryAutoheal, Bind, ReloadFromFile, GuardStep
  <2>5. CASE ReportRefreshFailure(r) \/ ReportRefreshTokenInvalid(r)
    BY <2>5 DEF ReportRefreshFailure, ReportRefreshTokenInvalid, ReportRefresh,
                GuardStep
  <2>6. CASE ForgetSession(r)
    <3>1. UNCHANGED guard
      BY <2>6, Zenon DEF ForgetSession
    <3> QED
      BY <3>1 DEF GuardStep
  <2> QED
    BY <1>3, <2>1, <2>2, <2>3, <2>4, <2>5, <2>6 DEF Run
<1>4. ASSUME NEW r \in Requests, Refreshed(r) \/ Finish(r) \/ Cancel(r)
      PROVE  GuardStep
  <2>1. CASE EnsureToken(r)
    BY <2>1 DEF EnsureToken, GuardStep
  <2>2. ASSUME NEW why, EnsureTokenFails(r, why)
        PROVE  GuardStep
    <3>1. DropGuard(r) /\ pc[r] = "ensure"
      BY <2>2, Zenon DEF EnsureTokenFails
    <3>2. guard[r] # NoId
      BY <1>0, <3>1 DEF TypeRest
    <3> QED
      BY <1>1, <3>1, <3>2
  <2>3. CASE Finish(r)
    <3>1. guard[r] # NoId
      BY <1>0, <2>3 DEF Finish, TypeRest
    <3> QED
      BY <1>1, <2>3, <3>1 DEF Finish
  <2>4. CASE Cancel(r)
    BY <1>1, <2>4 DEF Cancel, GuardStep
  <2> QED
    BY <1>4, <2>1, <2>2, <2>3, <2>4, Zenon DEF Refreshed
<1>5. ASSUME NEW r \in Requests, Begin(r) \/ Answered(r) \/ WaitBudgetEnds(r)
      PROVE  UNCHANGED guard
  BY <1>5, Zenon
     DEF Begin, Answered, ReportSuccess, ReportFailure, ReportQuotaExhausted,
         ReportAccountThrottled, ReportCall, CallUnreported, WaitBudgetEnds
<1>6. CASE \/ \E c \in Ids : CooldownEnds(c)
           \/ \E s \in Sessions : BindingExpires(s)
           \/ UNCHANGED vars
  BY <1>6 DEF CooldownEnds, BindingExpires, vars, request, GuardStep
<1>7. CASE Operator
  <2>1. \E op : Admin(op)
    BY <1>7, Zenon
       DEF Operator, SetDisabled, ResetAndEnable, DisableQuotaExceeded,
           ClearThrottle, SetPriority, SetMaxConcurrency, SetGroups,
           DeleteCredential, RemoveGroup, SetMode, AddCredential
  <2> QED
    BY <2>1 DEF Admin, request, GuardStep
<1> QED
  BY <1>3, <1>4, <1>5, <1>6, <1>7 DEF Next, Done, GuardStep

HoldersNow == [c \in Ids |-> Holders(c)]
LimitNow == [c \in Ids |-> IF c \in DOMAIN entries THEN entries[c].max ELSE 0]

LEMMA LimitNowType == ASSUME IsPool(entries) PROVE LimitNow \in [Ids -> Nat]
  BY DEF IsPool, Entry, LimitNow

LEMMA SemaphoresInit == Init => Semaphores!Init
<1> SUFFICES ASSUME Init PROVE Semaphores!Init
  OBVIOUS
<1>1. HoldersNow = [c \in Ids |-> {}]
  BY IdsAssumption DEF Init, HoldersNow, Holders
<1>2. LimitNow \in [Ids -> Nat]
  BY InitInv, InvIs, LimitNowType
<1> QED
  BY <1>1, <1>2 DEF Semaphores!Init, HoldersNow, LimitNow

\* While every id in the pool is its credential's own, a slot is taken of a
\* semaphore that is not full, and nobody takes two.
LEMMA SemaphoresStep ==
  ASSUME Inv, Inv', stale = {}, [Next]_vars
  PROVE  [Semaphores!Next]_<<HoldersNow, LimitNow>>
<1>0. /\ TypeRest /\ IsPool(entries)
      /\ guard \in [Requests -> Ids \cup {NoId}]
  BY InvIs DEF TypeRest
<1>1. GuardStep
  BY NextGuards
<1>2. LimitNow' \in [Ids -> Nat]
  <2>1. IsPool(entries)'
    BY InvIs DEF Inv, TypeOK, IsPool
  <2> QED
    BY <2>1 DEF IsPool, Entry, LimitNow
<1>3. CASE UNCHANGED guard
  <2>1. HoldersNow' = HoldersNow
    BY <1>3 DEF HoldersNow, Holders
  <2>2. Semaphores!ChangeLimits
    BY <1>2, <2>1 DEF Semaphores!ChangeLimits, HoldersNow, LimitNow
  <2> QED
    BY <2>2 DEF Semaphores!Next
<1>4. ASSUME SameLimits(entries, entries') PROVE LimitNow' = LimitNow
  BY <1>0, <1>4 DEF SameLimits, LimitNow
<1>5. ASSUME SameLimits(entries, entries'), NEW r \in Requests, guard[r] # NoId,
             guard' = [guard EXCEPT ![r] = NoId]
      PROVE  Semaphores!Release(r, guard[r]) /\ guard[r] \in Ids
  <2>1. r \in HoldersNow[guard[r]] /\ guard[r] \in Ids
    BY <1>0, <1>5 DEF HoldersNow, Holders
  <2>2. HoldersNow' = [HoldersNow EXCEPT ![guard[r]] = @ \ {r}]
    BY <1>0, <1>5, IdsAssumption DEF HoldersNow, Holders
  <2> QED
    BY <1>4, <1>5, <2>1, <2>2 DEF Semaphores!Release, HoldersNow, LimitNow
<1>6. ASSUME SameLimits(entries, entries'), NEW r \in Requests, guard[r] = NoId,
             NEW c \in Candidates(entries, Q(r)), guard' = [guard EXCEPT ![r] = c]
      PROVE  Semaphores!Acquire(r, c) /\ c \in Ids
  <2>1. c \in DOMAIN entries /\ c \in Ids /\ ~IsFull(entries[c])
    BY <1>0, <1>6, ChoicesInPool DEF Candidates, IsPool
  <2>2. \A d \in Ids : r \notin HoldersNow[d]
    BY <1>6, IdsAssumption DEF HoldersNow, Holders
  <2>3. HoldersNow' = [HoldersNow EXCEPT ![c] = @ \cup {r}]
    BY <1>0, <1>6, <2>1, IdsAssumption DEF HoldersNow, Holders
  <2>4. entries[c].max = 0 \/ Cardinality(Holders(c)) < entries[c].max
    <3>1. Guards(c) = Holders(c)
      BY <2>1 DEF Inv, OrphansOut, Guards
    <3>2. entries[c].active = Cardinality(Guards(c))
      BY <2>1 DEF Inv, SlotAccounting
    <3>3. entries[c].max \in Nat /\ entries[c].active \in Nat
      BY <1>0, <2>1 DEF IsPool, Entry
    <3> QED
      BY <2>1, <3>1, <3>2, <3>3 DEF IsFull
  <2>5. HoldersNow[c] = Holders(c) /\ LimitNow[c] = entries[c].max
    BY <2>1 DEF HoldersNow, LimitNow
  <2>6. LimitNow[c] = 0 \/ Cardinality(HoldersNow[c]) < LimitNow[c]
    BY <2>4, <2>5
  <2>7. UNCHANGED LimitNow
    BY <1>4, <1>6
  <2>8. Semaphores!Cardinality(HoldersNow[c]) = Cardinality(HoldersNow[c])
    BY DEF Semaphores!Cardinality, Cardinality
  <2> QED
    BY <2>1, <2>2, <2>3, <2>6, <2>7, <2>8
       DEF Semaphores!Acquire, HoldersNow, LimitNow
<1> QED
  BY <1>1, <1>3, <1>5, <1>6 DEF GuardStep, Semaphores!Next

-----------------------------------------------------------------------------
(* Why credentials are disabled. *)

\* The steps of a request that touch entries.
LEMMA SaneRequestSteps ==
  ASSUME SanePool(entries), NEW r \in Requests,
         \/ Begin(r) \/ Run(r) \/ Refreshed(r) \/ Answered(r)
         \/ Finish(r) \/ Cancel(r) \/ WaitBudgetEnds(r)
  PROVE  SanePool(entries')
<1>1. ASSUME entries' = entries
      PROVE  SanePool(entries')
  BY <1>1
<1>2. ASSUME NEW c, NEW d, entries' = StopWaiting(Occupy(entries, c), d)
      PROVE  SanePool(entries')
  BY <1>2, SaneSlots
<1>3. ASSUME NEW es, SanePool(es), NEW c, AfterReport(es, c)
      PROVE  SanePool(entries')
  BY <1>3 DEF AfterReport
<1>4. CASE Run(r)
  <2>1. CASE ReserveOne(r)
    <3>1. entries' = Occupy(entries, target[r]) \/ entries' = entries
      BY <2>1 DEF ReserveOne, Take
    <3> QED
      BY <1>1, <3>1, SaneSlots
  <2>2. CASE PollSticky(r)
    BY <1>1, <1>2, <2>2, SaneSlots, Zenon DEF PollSticky, Take
  <2>3. CASE ReserveBest(r)
    BY <1>2, <2>3, Zenon DEF ReserveBest, Take
  <2>4. CASE JoinWaiting(r) \/ GiveUpBusy(r) \/ FindNone(r)
    BY <2>4, SaneSlots, Zenon DEF JoinWaiting, GiveUpBusy, FindNone
  <2>5. CASE WaitForBest(r)
    <3>1. PICK c : entries' = StartWaiting(StopWaiting(entries, target[r]), c)
      BY ONLY <2>5, Zenon DEF WaitForBest
    <3>2. SanePool(StopWaiting(entries, target[r]))
      BY SaneSlots
    <3> QED
      BY ONLY <3>1, <3>2, SaneSlots
  <2>6. CASE TryAutoheal(r) \/ ReloadFromFile(r)
    BY <1>1, <2>6, SaneReports, Zenon DEF TryAutoheal, ReloadFromFile
  <2>7. CASE ReportRefreshFailure(r) \/ ReportRefreshTokenInvalid(r)
    BY <1>3, <2>7, SaneReports, Zenon
       DEF ReportRefreshFailure, ReportRefreshTokenInvalid, ReportRefresh
  <2>8. CASE \/ AttemptsExhausted(r) \/ ReserveContext(r) \/ CheckBinding(r)
             \/ Unbind(r) \/ CountWaiting(r) \/ Bind(r) \/ ForgetSession(r)
    BY <1>1, <2>8
       DEF AttemptsExhausted, ReserveContext, CheckBinding, Unbind,
           CountWaiting, Bind, ForgetSession, pool
  <2> QED
    BY <1>4, <2>1, <2>2, <2>3, <2>4, <2>5, <2>6, <2>7, <2>8 DEF Run
<1>5. CASE Refreshed(r)
  <2>1. CASE EnsureToken(r)
    <3> DEFINE c == guard[r]
               e == [entries[c] EXCEPT !.refreshFailures = 0]
    <3>1. c \in DOMAIN entries => e \in Entry /\ Sane(e)
      BY MaxFailuresAssumption DEF SanePool, IsPool, Sane, Entry
    <3>2. SanePool(Put(entries, c, e))
      BY <3>1, SanePut
    <3> QED
      BY <2>1, <3>2 DEF EnsureToken
  <2>2. ASSUME NEW why, EnsureTokenFails(r, why)
        PROVE  SanePool(entries')
    BY <2>2, SaneSlots, Zenon DEF EnsureTokenFails, DropGuard
  <2> QED
    BY <1>5, <2>1, <2>2, Zenon DEF Refreshed
<1>6. CASE Answered(r)
  <2>1. CASE ReportSuccess(r) \/ ReportAccountThrottled(r)
    BY <2>1, SaneReports, Zenon DEF ReportSuccess, ReportAccountThrottled
  <2>2. CASE ReportFailure(r) \/ ReportQuotaExhausted(r)
    BY <1>3, <2>2, SaneReports, Zenon
       DEF ReportFailure, ReportQuotaExhausted, ReportCall
  <2>3. CASE CallUnreported(r)
    BY <1>1, <2>3 DEF CallUnreported, pool
  <2> QED
    BY <1>6, <2>1, <2>2, <2>3 DEF Answered
<1>7. CASE Finish(r) \/ Cancel(r)
  BY <1>1, <1>7, SaneSlots, Zenon DEF Finish, Cancel, DropGuard
<1>8. CASE Begin(r) \/ WaitBudgetEnds(r)
  BY <1>1, <1>8 DEF Begin, WaitBudgetEnds, pool
<1> QED
  BY <1>4, <1>5, <1>6, <1>7, <1>8

\* The operator's, and the end of a cooldown.
LEMMA SaneOtherSteps ==
  ASSUME SanePool(entries), IsPool(entries'),
         \/ \E c \in Ids : CooldownEnds(c)
         \/ \E s \in Sessions : BindingExpires(s)
         \/ Operator
  PROVE  SanePool(entries')
<1>1. ASSUME NEW c \in DOMAIN entries, NEW e \in Entry, Sane(e),
             entries' = Put(entries, c, e)
      PROVE  SanePool(entries')
  BY <1>1, SanePut
<1>2. ASSUME NEW c \in DOMAIN entries
      PROVE  entries[c] \in Entry /\ Sane(entries[c])
  BY DEF SanePool, IsPool
<1>3. ASSUME NEW c \in Ids, CooldownEnds(c)
      PROVE  SanePool(entries')
  BY <1>1, <1>2, <1>3, SaneFields, Zenon DEF CooldownEnds
<1>4. ASSUME NEW s \in Sessions, BindingExpires(s)
      PROVE  SanePool(entries')
  BY <1>4 DEF BindingExpires
<1>5. ASSUME NEW c \in DOMAIN entries, NEW off \in BOOLEAN, SetDisabled(c, off)
      PROVE  SanePool(entries')
  <2>1. /\ Enable(entries[c]) \in Entry /\ Sane(Enable(entries[c]))
        /\ Disable(entries[c], "Manual") \in Entry
        /\ Sane(Disable(entries[c], "Manual"))
    BY <1>2, DisableEnable, SaneDisableEnable DEF Reasons, None
  <2>2. /\ [Enable(entries[c]) EXCEPT !.throttled = FALSE] \in Entry
        /\ Sane([Enable(entries[c]) EXCEPT !.throttled = FALSE])
    BY <2>1, SaneFields
  <2> QED
    BY <1>1, <1>5, <2>1, <2>2, Zenon DEF SetDisabled, Edit
<1>6. ASSUME NEW c \in DOMAIN entries,
             ResetAndEnable(c) \/ DisableQuotaExceeded(c) \/ ClearThrottle(c)
      PROVE  SanePool(entries')
  <2>1. /\ Enable(entries[c]) \in Entry /\ Sane(Enable(entries[c]))
        /\ Disable(entries[c], "QuotaExceeded") \in Entry
        /\ Sane(Disable(entries[c], "QuotaExceeded"))
    BY <1>2, DisableEnable, SaneDisableEnable DEF Reasons, None
  <2>2. /\ [Enable(entries[c]) EXCEPT !.throttled = FALSE] \in Entry
        /\ Sane([Enable(entries[c]) EXCEPT !.throttled = FALSE])
        /\ [entries[c] EXCEPT !.throttled = FALSE] \in Entry
        /\ Sane([entries[c] EXCEPT !.throttled = FALSE])
    BY <1>2, <2>1, SaneFields
  <2> QED
    BY <1>1, <1>6, <2>1, <2>2, Zenon
       DEF ResetAndEnable, DisableQuotaExceeded, ClearThrottle, Edit
<1>7. ASSUME NEW c \in DOMAIN entries, NEW k \in Catalogue,
             \/ SetPriority(c, k.priority) \/ SetMaxConcurrency(c, k.max)
             \/ SetGroups(c, k.groups)
      PROVE  SanePool(entries')
  <2>1. k.priority \in Nat /\ k.max \in Nat /\ k.groups \in SUBSET Groups
    BY CatalogueAssumption DEF Config
  <2> QED
    BY <1>1, <1>2, <1>7, <2>1, SaneFields, Zenon
       DEF SetPriority, SetMaxConcurrency, SetGroups, Edit
<1>8. ASSUME NEW g \in Groups, RemoveGroup(g)
      PROVE  SanePool(entries')
  <2>1. ASSUME NEW c \in DOMAIN entries
        PROVE  Sane([entries[c] EXCEPT !.groups = @ \ {g}])
    <3>1. entries[c].groups \ {g} \in SUBSET Groups
      BY <1>2 DEF Entry
    <3> QED
      BY <1>2, <3>1, SaneFields
  <2> QED
    BY <1>8, <2>1 DEF RemoveGroup, SanePool
<1>9. ASSUME NEW c \in DOMAIN entries, DeleteCredential(c)
      PROVE  SanePool(entries')
  BY <1>2, <1>9 DEF DeleteCredential, SanePool
<1>10. ASSUME NEW m \in Modes, SetMode(m)
       PROVE  SanePool(entries')
  BY <1>10 DEF SetMode
<1>11. ASSUME NEW k \in Catalogue, AddCredential(k)
       PROVE  SanePool(entries')
  <2>1. Sane(NewEntry(k, FALSE, None))
    BY CatalogueAssumption, SaneNewEntry DEF Reasons
  <2>2. PICK c \in Ids :
          entries' = [d \in DOMAIN entries \cup {c} |->
                        IF d = c THEN NewEntry(k, FALSE, None) ELSE entries[d]]
    BY <1>11 DEF AddCredential
  <2> QED
    BY <1>2, <2>1, <2>2 DEF SanePool
<1>12. CASE Operator
  BY <1>5, <1>6, <1>7, <1>8, <1>9, <1>10, <1>11, <1>12, Zenon DEF Operator
<1> QED
  BY <1>3, <1>4, <1>12

LEMMA SaneInit == Init => SanePool(entries)
<1> SUFFICES ASSUME Init PROVE SanePool(entries)
  OBVIOUS
<1>1. ASSUME NEW c \in DOMAIN entries
      PROVE  Sane(entries[c])
  <2>1. PICK k \in Catalogue, off \in BOOLEAN : entries[c] = LoadedEntry(k, off)
    BY InitialPoolsAssumption DEF Init
  <2> QED
    BY <2>1, CatalogueAssumption, SaneNewEntry DEF LoadedEntry, Reasons, None
<1> QED
  BY <1>1, InitInv, InvIs DEF SanePool

LEMMA SaneNext == Inv /\ SanePool(entries) /\ [Next]_vars => SanePool(entries)'
<1> SUFFICES ASSUME Inv, SanePool(entries), [Next]_vars PROVE SanePool(entries')
  OBVIOUS
<1>1. IsPool(entries')
  BY NextInv DEF Inv, TypeOK, IsPool
<1>2. CASE UNCHANGED vars
  BY <1>2 DEF vars, pool
<1>3. CASE Done
  BY <1>3 DEF Done, vars, pool
<1> QED
  BY <1>1, <1>2, <1>3, SaneRequestSteps, SaneOtherSteps DEF Next

-----------------------------------------------------------------------------
(* Who waits is counted. *)

\* fs has the credentials of es, each with as many that wait for it.
SameWaiting(es, fs) ==
  DOMAIN fs = DOMAIN es /\ \A d \in DOMAIN es : fs[d].waiting = es[d].waiting

\* Where a request waits for its target.
Waiting == {"poll", "asleep", "best"}

\* A request that is about to try self-healing waits for nobody, so that it
\* returns to its search as it entered it.
HealersWaitNot == \A r \in Requests : pc[r] = "heal" => target[r] = NoId

WaitInv == WaitingCovered /\ HealersWaitNot

LEMMA PutSameWaiting ==
  ASSUME NEW es, NEW c, NEW e, c \in DOMAIN es => e.waiting = es[c].waiting
  PROVE  SameWaiting(es, Put(es, c, e))
BY DEF SameWaiting, Put

LEMMA EditsKeepWaiting ==
  ASSUME NEW es, IsPool(es), NEW c
  PROVE  /\ SameWaiting(es, Occupy(es, c)) /\ SameWaiting(es, ReleaseSlot(es, c))
         /\ SameWaiting(es, Succeed(es, c)) /\ SameWaiting(es, Fail(es, c))
         /\ SameWaiting(es, FailRefresh(es, c)) /\ SameWaiting(es, ExhaustQuota(es, c))
         /\ SameWaiting(es, InvalidateRefreshToken(es, c))
         /\ SameWaiting(es, Throttle(es, c)) /\ SameWaiting(es, Reload(es, c))
         /\ SameWaiting(es, Autoheal(es)) /\ SameWaiting(es, es)
<1>1. c \in DOMAIN es => es[c] \in Entry
  BY DEF IsPool
<1>2. SameWaiting(es, es)
  BY DEF SameWaiting
<1>3. SameWaiting(es, Occupy(es, c)) /\ SameWaiting(es, ReleaseSlot(es, c))
  <2>1. c \in DOMAIN es =>
          /\ [es[c] EXCEPT !.active = @ + 1].waiting = es[c].waiting
          /\ [es[c] EXCEPT !.active = IF @ > 0 THEN @ - 1 ELSE 0].waiting = es[c].waiting
    BY <1>1 DEF Entry
  <2> QED
    BY <2>1, PutSameWaiting DEF Occupy, ReleaseSlot
<1>4. SameWaiting(es, Succeed(es, c)) /\ SameWaiting(es, Throttle(es, c))
      /\ SameWaiting(es, Reload(es, c))
  <2>1. c \in DOMAIN es =>
          /\ [es[c] EXCEPT !.failures = 0, !.refreshFailures = 0,
                           !.successes = @ + 1, !.throttled = FALSE].waiting = es[c].waiting
          /\ [es[c] EXCEPT !.throttled = TRUE].waiting = es[c].waiting
          /\ Enable(es[c]).waiting = es[c].waiting
    BY <1>1 DEF Entry, Enable
  <2> QED
    BY <2>1, PutSameWaiting DEF Succeed, Throttle, Reload
<1>5. ASSUME NEW e \in Entry, NEW why PROVE Disable(e, why).waiting = e.waiting
  BY DEF Disable, Entry
<1>6. SameWaiting(es, Fail(es, c)) /\ SameWaiting(es, FailRefresh(es, c))
  <2> DEFINE e == [es[c] EXCEPT !.failures = @ + 1]
             f == [es[c] EXCEPT !.refreshFailures = @ + 1]
  <2>1. c \in DOMAIN es => /\ e \in Entry /\ e.waiting = es[c].waiting
                           /\ f \in Entry /\ f.waiting = es[c].waiting
    BY <1>1 DEF Entry
  <2> HIDE DEF e, f
  <2>2. c \in DOMAIN es =>
          /\ (IF e.failures >= MaxFailures THEN Disable(e, "TooManyFailures")
              ELSE e).waiting = es[c].waiting
          /\ (IF f.refreshFailures >= MaxFailures THEN Disable(f, "TooManyRefreshFailures")
              ELSE f).waiting = es[c].waiting
    BY <1>5, <2>1
  <2>3. /\ SameWaiting(es, Put(es, c, IF e.failures >= MaxFailures
                                      THEN Disable(e, "TooManyFailures") ELSE e))
        /\ SameWaiting(es, Put(es, c, IF f.refreshFailures >= MaxFailures
                                      THEN Disable(f, "TooManyRefreshFailures") ELSE f))
    BY <2>2, PutSameWaiting, Zenon
  <2> QED
    BY <1>2, <2>3, Zenon DEF Fail, FailRefresh, e, f
<1>7. SameWaiting(es, ExhaustQuota(es, c)) /\ SameWaiting(es, InvalidateRefreshToken(es, c))
  <2> DEFINE e == [es[c] EXCEPT !.failures = MaxFailures]
  <2>1. c \in DOMAIN es => e \in Entry /\ e.waiting = es[c].waiting
    BY <1>1, MaxFailuresAssumption DEF Entry
  <2> HIDE DEF e
  <2>2. c \in DOMAIN es => /\ Disable(e, "QuotaExceeded").waiting = es[c].waiting
                           /\ Disable(es[c], "InvalidRefreshToken").waiting = es[c].waiting
    BY <1>1, <1>5, <2>1
  <2>3. /\ SameWaiting(es, Put(es, c, Disable(e, "QuotaExceeded")))
        /\ SameWaiting(es, Put(es, c, Disable(es[c], "InvalidRefreshToken")))
    BY <2>2, PutSameWaiting, Zenon
  <2> QED
    BY <1>2, <2>3, Zenon DEF ExhaustQuota, InvalidateRefreshToken, e
<1>8. SameWaiting(es, Autoheal(es))
  <2>1. \A d \in DOMAIN es : es[d] \in Entry
    BY DEF IsPool
  <2>2. \A d \in DOMAIN es :
          [es[d] EXCEPT !.disabled = FALSE, !.reason = None, !.failures = 0].waiting
             = es[d].waiting
    BY <2>1 DEF Entry
  <2> QED
    BY <2>2 DEF SameWaiting, Autoheal
<1> QED
  BY <1>2, <1>3, <1>4, <1>6, <1>7, <1>8

LEMMA WaitingCounts ==
  ASSUME NEW es, \A d \in DOMAIN es : es[d] \in Entry, NEW c
  PROVE  /\ DOMAIN StartWaiting(es, c) = DOMAIN es /\ DOMAIN StopWaiting(es, c) = DOMAIN es
         /\ \A d \in DOMAIN es :
              /\ StartWaiting(es, c)[d] \in Entry /\ StopWaiting(es, c)[d] \in Entry
              /\ StartWaiting(es, c)[d].waiting =
                   IF d = c THEN es[d].waiting + 1 ELSE es[d].waiting
              /\ StopWaiting(es, c)[d].waiting =
                   IF d = c /\ es[d].waiting > 0 THEN es[d].waiting - 1 ELSE es[d].waiting
<1>1. /\ DOMAIN StartWaiting(es, c) = DOMAIN es /\ DOMAIN StopWaiting(es, c) = DOMAIN es
  BY DEF StartWaiting, StopWaiting, Put
<1>2. ASSUME NEW d \in DOMAIN es
      PROVE  /\ StartWaiting(es, c)[d] \in Entry /\ StopWaiting(es, c)[d] \in Entry
             /\ StartWaiting(es, c)[d].waiting =
                  IF d = c THEN es[d].waiting + 1 ELSE es[d].waiting
             /\ StopWaiting(es, c)[d].waiting =
                  IF d = c /\ es[d].waiting > 0 THEN es[d].waiting - 1 ELSE es[d].waiting
  <2>1. es[d] \in Entry /\ es[d].waiting \in Nat
    BY DEF Entry
  <2>2. CASE d = c
    <3>1. /\ StartWaiting(es, c)[d] = [es[d] EXCEPT !.waiting = @ + 1]
          /\ StopWaiting(es, c)[d] = [es[d] EXCEPT !.waiting = IF @ > 0 THEN @ - 1 ELSE 0]
      BY <2>2 DEF StartWaiting, StopWaiting, Put
    <3> QED
      BY <2>1, <2>2, <3>1 DEF Entry
  <2>3. CASE d # c
    BY <2>1, <2>3 DEF StartWaiting, StopWaiting, Put
  <2> QED
    BY <2>2, <2>3
<1> QED
  BY <1>1, <1>2

LEMMA WaitersFinite ==
  ASSUME NEW c
  PROVE  IsFiniteSet(Waiters(c)) /\ Cardinality(Waiters(c)) \in Nat
<1>1. Waiters(c) \subseteq Requests
  BY DEF Waiters
<1> QED
  BY <1>1, RequestsAssumption, FS_Subset, FS_CardinalityType

\* A step of one request: it waits on, or its wait is over and no longer counted,
\* or a wait is counted that begins.
LEMMA WaitStep ==
  ASSUME Inv, WaitInv, NEW r \in Requests,
         \A q \in Requests \ {r} : pc'[q] = pc[q] /\ target'[q] = target[q],
         pc'[r] = "heal" => target'[r] = NoId,
         UNCHANGED stale, DOMAIN entries' = DOMAIN entries,
         \A d \in DOMAIN entries :
           \/ /\ entries'[d].waiting = entries[d].waiting
              /\ pc'[r] \in Waiting /\ target'[r] = d => pc[r] \in Waiting /\ target[r] = d
           \/ /\ pc[r] \in Waiting /\ target[r] = d
              /\ ~ (pc'[r] \in Waiting /\ target'[r] = d)
              /\ entries'[d].waiting =
                   IF entries[d].waiting > 0 THEN entries[d].waiting - 1 ELSE entries[d].waiting
           \/ entries'[d].waiting = entries[d].waiting + 1
  PROVE  WaitInv'
<1>1. HealersWaitNot'
  BY DEF WaitInv, HealersWaitNot
<1>2. ASSUME NEW d \in DOMAIN entries \ stale
      PROVE  entries'[d].waiting >= Cardinality(Waiters(d)')
  <2>1. entries[d].waiting \in Nat
    BY InvIs DEF IsPool, Entry
  <2>2. PICK W, V : W = Waiters(d) /\ V = Waiters(d)'
    OBVIOUS
  <2>3. IsFiniteSet(W) /\ Cardinality(W) \in Nat /\ entries[d].waiting >= Cardinality(W)
    BY <2>2, WaitersFinite DEF WaitInv, WaitingCovered
  <2>4. /\ V \subseteq W \cup {r} /\ r \in Requests
        /\ r \in W <=> pc[r] \in Waiting /\ target[r] = d
        /\ r \in V <=> pc'[r] \in Waiting /\ target'[r] = d
    BY <2>2 DEF Waiters, Waiting
  <2>5. CASE V \subseteq W /\ entries'[d].waiting = entries[d].waiting
    <3>1. Cardinality(V) \in Nat /\ Cardinality(V) <= Cardinality(W)
      BY <2>3, <2>5, FS_Subset, FS_CardinalityType
    <3> QED
      BY <2>1, <2>2, <2>3, <2>5, <3>1
  <2>6. CASE V \subseteq W \ {r} /\ r \in W
             /\ entries'[d].waiting =
                  IF entries[d].waiting > 0 THEN entries[d].waiting - 1 ELSE entries[d].waiting
    <3>1. IsFiniteSet(W \ {r}) /\ Cardinality(W \ {r}) = Cardinality(W) - 1
      BY <2>3, <2>6, FS_RemoveElement
    <3>2. Cardinality(V) \in Nat /\ Cardinality(V) <= Cardinality(W \ {r})
      BY <2>6, <3>1, FS_Subset, FS_CardinalityType
    <3> QED
      BY <2>1, <2>2, <2>3, <2>6, <3>1, <3>2
  <2>7. CASE entries'[d].waiting = entries[d].waiting + 1
    <3>1. /\ IsFiniteSet(W \cup {r}) /\ Cardinality(W \cup {r}) \in Nat
          /\ Cardinality(W \cup {r}) <= Cardinality(W) + 1
      <4>1. IsFiniteSet(W \cup {r}) /\ Cardinality(W \cup {r}) =
              IF r \in W THEN Cardinality(W) ELSE Cardinality(W) + 1
        BY ONLY <2>3, FS_AddElement
      <4> QED
        BY ONLY <2>3, <4>1
    <3>2. Cardinality(V) \in Nat /\ Cardinality(V) <= Cardinality(W \cup {r})
      BY <2>4, <3>1, FS_Subset, FS_CardinalityType
    <3> QED
      BY <2>1, <2>2, <2>3, <2>7, <3>1, <3>2
  <2>8. \/ V \subseteq W /\ entries'[d].waiting = entries[d].waiting
        \/ /\ V \subseteq W \ {r} /\ r \in W
           /\ entries'[d].waiting =
                IF entries[d].waiting > 0 THEN entries[d].waiting - 1 ELSE entries[d].waiting
        \/ entries'[d].waiting = entries[d].waiting + 1
    BY <2>4
  <2> QED
    BY <2>5, <2>6, <2>7, <2>8
<1> QED
  BY <1>1, <1>2 DEF WaitInv, WaitingCovered

\* Nobody comes or goes, but for the operator's credentials.
LEMMA WaitersStay ==
  ASSUME WaitInv, UNCHANGED <<pc, target>>,
         \A d \in DOMAIN entries' \ stale' :
           \/ d \in DOMAIN entries \ stale /\ entries'[d].waiting = entries[d].waiting
           \/ Waiters(d) = {} /\ entries'[d].waiting \in Nat
  PROVE  WaitInv'
<1>1. \A d : Waiters(d)' = Waiters(d)
  BY DEF Waiters
<1>2. Cardinality({}) = 0
  BY FS_EmptySet
<1>3. ASSUME NEW d \in DOMAIN entries' \ stale'
      PROVE  entries'[d].waiting >= Cardinality(Waiters(d)')
  <2>1. CASE d \in DOMAIN entries \ stale /\ entries'[d].waiting = entries[d].waiting
    <3>1. entries[d].waiting >= Cardinality(Waiters(d))
      BY <2>1 DEF WaitInv, WaitingCovered
    <3> QED
      BY <1>1, <2>1, <3>1
  <2>2. CASE Waiters(d) = {} /\ entries'[d].waiting \in Nat
    <3>1. Cardinality(Waiters(d)') = 0
      BY <1>1, <1>2, <2>2
    <3> QED
      BY <2>2, <3>1
  <2> QED
    BY <2>1, <2>2
<1>4. HealersWaitNot'
  BY DEF WaitInv, HealersWaitNot
<1> QED
  BY <1>3, <1>4 DEF WaitInv, WaitingCovered

\* A request that does not begin to wait, and leaves what is counted alone.
LEMMA WaitsNot ==
  ASSUME Inv, WaitInv, NEW r \in Requests,
         \A q \in Requests \ {r} : pc'[q] = pc[q] /\ target'[q] = target[q],
         pc'[r] # "heal", UNCHANGED stale, SameWaiting(entries, entries'),
         \/ pc'[r] \notin Waiting
         \/ target'[r] = NoId
         \/ pc[r] \in Waiting /\ target'[r] = target[r]
  PROVE  WaitInv'
<1>1. NoId \notin DOMAIN entries
  BY InvIs, IdsAssumption DEF IsPool
<1>2. \A d \in DOMAIN entries :
        /\ entries'[d].waiting = entries[d].waiting
        /\ pc'[r] \in Waiting /\ target'[r] = d => pc[r] \in Waiting /\ target[r] = d
  BY <1>1 DEF SameWaiting
<1> QED
  BY <1>2, WaitStep DEF SameWaiting

\* The steps of a request.
LEMMA WaitingRuns ==
  ASSUME Inv, WaitInv, NEW r \in Requests, Run(r)
  PROVE  WaitInv'
<1>1. TypeRest /\ IsPool(entries) /\ \A d \in DOMAIN entries : entries[d] \in Entry
  BY InvIs DEF IsPool
<1>2. NoId \notin DOMAIN entries
  BY <1>1, IdsAssumption DEF IsPool
<1>p. ASSUME NEW x, Goto(r, x)
      PROVE  pc'[r] = x /\ \A q \in Requests \ {r} : pc'[q] = pc[q]
  BY <1>1, <1>p DEF Goto, TypeRest
<1>t. ASSUME NEW x, target' = [target EXCEPT ![r] = x]
      PROVE  target'[r] = x /\ \A q \in Requests \ {r} : target'[q] = target[q]
  BY <1>1, <1>t DEF TypeRest
<1>u. ASSUME NEW x, Goto(r, x), NEW y, target' = [target EXCEPT ![r] = y], x # "heal",
             x \notin Waiting \/ y = NoId, UNCHANGED stale, SameWaiting(entries, entries')
      PROVE  WaitInv'
  <2>1. pc'[r] = x /\ \A q \in Requests \ {r} : pc'[q] = pc[q]
    BY <1>p, <1>u
  <2>2. target'[r] = y /\ \A q \in Requests \ {r} : target'[q] = target[q]
    BY <1>t, <1>u
  <2> QED
    BY <1>u, <2>1, <2>2, WaitsNot
<1>v. ASSUME NEW x, Goto(r, x), UNCHANGED target, x # "heal", x \notin Waiting,
             UNCHANGED stale, SameWaiting(entries, entries')
      PROVE  WaitInv'
  <2>1. pc'[r] = x /\ \A q \in Requests \ {r} : pc'[q] = pc[q]
    BY <1>p, <1>v
  <2> QED
    BY <1>v, <2>1, WaitsNot
<1>c. /\ \A x \in {"idle", "reserve", "check", "one", "count", "join", "unbind", "ensure",
                  "bind", "call", "held", "report", "reload"} : x # "heal" /\ x \notin Waiting
      /\ "best" # "heal"
  BY DEF Waiting
<1>s. SameWaiting(entries, entries)
  BY DEF SameWaiting
<1>3. CASE AttemptsExhausted(r) \/ ReserveContext(r) \/ Unbind(r)
  <2>1. UNCHANGED stale /\ entries' = entries
    BY <1>3 DEF AttemptsExhausted, ReserveContext, Unbind, env, pool
  <2>2. \/ Goto(r, "idle") /\ target' = [target EXCEPT ![r] = NoId]
        \/ Goto(r, "check") /\ target' = [target EXCEPT ![r] = affinity[Session[r]]]
        \/ Goto(r, "best") /\ target' = [target EXCEPT ![r] = NoId]
    BY <1>3, Zenon DEF AttemptsExhausted, ReserveContext, Unbind, GiveUp, EnterBest
  <2>3. UNCHANGED stale /\ SameWaiting(entries, entries')
    BY <1>s, <2>1
  <2>4. CASE Goto(r, "idle") /\ target' = [target EXCEPT ![r] = NoId]
    BY <1>c, <1>u, <2>3, <2>4
  <2>5. CASE Goto(r, "check") /\ target' = [target EXCEPT ![r] = affinity[Session[r]]]
    BY <1>c, <1>u, <2>3, <2>5
  <2>6. CASE Goto(r, "best") /\ target' = [target EXCEPT ![r] = NoId]
    BY <1>c, <1>u, <2>3, <2>6
  <2> QED
    BY <2>2, <2>4, <2>5, <2>6
<1>4. CASE CheckBinding(r) \/ CountWaiting(r) \/ Bind(r) \/ ForgetSession(r)
  <2>1. UNCHANGED <<stale, target>> /\ entries' = entries
    BY <1>4 DEF CheckBinding, CountWaiting, Bind, ForgetSession, env, pool
  <2>2. \E x \in {"one", "unbind", "join", "call", "reload", "report"} : Goto(r, x)
    <3>1. CASE CheckBinding(r)
      BY <3>1, Zenon DEF CheckBinding
    <3>2. CASE CountWaiting(r)
      BY <3>2 DEF CountWaiting
    <3>3. CASE Bind(r)
      BY <3>3, Zenon DEF Bind
    <3>4. CASE ForgetSession(r)
      BY <3>4 DEF ForgetSession
    <3> QED
      BY <1>4, <3>1, <3>2, <3>3, <3>4
  <2>3. UNCHANGED <<stale, target>> /\ SameWaiting(entries, entries')
    BY <1>s, <2>1
  <2> QED
    BY <1>c, <1>v, <2>2, <2>3
<1>5. CASE ReserveOne(r)
  <2>1. CASE Take(r, target[r], Occupy(entries, target[r]))
    <3>1. SameWaiting(entries, entries')
      BY <1>1, <2>1, EditsKeepWaiting DEF Take
    <3>2. UNCHANGED stale
      BY <1>5 DEF ReserveOne, env
    <3> QED
      BY <1>c, <1>u, <2>1, <3>1, <3>2 DEF Take
  <2>2. CASE UNCHANGED <<entries, guard, target, late>>
    <3>1. UNCHANGED stale
      BY <1>5 DEF ReserveOne, env
    <3>2. CASE \E x \in {"count", "unbind"} : Goto(r, x)
      BY <1>c, <1>s, <1>v, <2>2, <3>1, <3>2
    <3>3. \/ \E x \in {"count", "unbind"} : Goto(r, x)
          \/ Take(r, target[r], Occupy(entries, target[r]))
      BY <1>5 DEF ReserveOne
    <3> QED
      BY <2>1, <3>2, <3>3
  <2> QED
    BY <1>5, <2>1, <2>2 DEF ReserveOne
<1>6. CASE JoinWaiting(r)
  <2>1. /\ entries' = StartWaiting(entries, target[r]) /\ Goto(r, "poll")
        /\ UNCHANGED <<target, stale>>
    BY <1>6 DEF JoinWaiting, env
  <2>2. /\ DOMAIN entries' = DOMAIN entries
        /\ \A d \in DOMAIN entries : entries'[d].waiting =
             IF d = target[r] THEN entries[d].waiting + 1 ELSE entries[d].waiting
    BY <1>1, <2>1, WaitingCounts
  <2>3. pc'[r] = "poll" /\ \A q \in Requests \ {r} : pc'[q] = pc[q] /\ target'[q] = target[q]
    BY <1>p, <2>1
  <2>4. \A d \in DOMAIN entries :
          \/ entries'[d].waiting = entries[d].waiting /\ target'[r] # d
          \/ entries'[d].waiting = entries[d].waiting + 1
    BY <2>1, <2>2
  <2> QED
    BY <2>1, <2>2, <2>3, <2>4, WaitStep
\* It waited for t and does not any more.
<1>l. ASSUME NEW t, target[r] = t, pc[r] \in Waiting, NEW es, SameWaiting(entries, es),
             \A d \in DOMAIN es : es[d] \in Entry, entries' = StopWaiting(es, t),
             \A q \in Requests \ {r} : pc'[q] = pc[q] /\ target'[q] = target[q],
             pc'[r] \notin Waiting, pc'[r] = "heal" => target'[r] = NoId, UNCHANGED stale
      PROVE  WaitInv'
  <2>1. /\ DOMAIN entries' = DOMAIN entries
        /\ \A d \in DOMAIN entries : entries'[d].waiting =
             IF d = t /\ entries[d].waiting > 0 THEN entries[d].waiting - 1
             ELSE entries[d].waiting
    BY <1>l, WaitingCounts DEF SameWaiting
  <2>2. \A d \in DOMAIN entries :
          \/ entries'[d].waiting = entries[d].waiting /\ d # t
          \/ /\ d = t
             /\ entries'[d].waiting =
                  IF entries[d].waiting > 0 THEN entries[d].waiting - 1 ELSE entries[d].waiting
    BY <2>1
  <2> QED
    BY <1>l, <2>1, <2>2, WaitStep
<1>o. ASSUME NEW c
      PROVE  /\ SameWaiting(entries, Occupy(entries, c))
             /\ c \in DOMAIN entries =>
                  \A d \in DOMAIN Occupy(entries, c) : Occupy(entries, c)[d] \in Entry
  <2>1. SameWaiting(entries, Occupy(entries, c))
    BY <1>1, EditsKeepWaiting
  <2>2. c \in DOMAIN entries => IsPool(Occupy(entries, c))
    BY <1>1, OccupyCounts
  <2> QED
    BY <2>1, <2>2 DEF IsPool
<1>7. CASE PollSticky(r)
  <2>0. UNCHANGED stale /\ pc[r] \in {"poll", "asleep"}
    BY <1>7 DEF PollSticky, env
  <2>1. CASE target[r] \in Candidates(entries, Q(r)) /\
             Take(r, target[r], StopWaiting(Occupy(entries, target[r]), target[r]))
    <3>1. target[r] \in DOMAIN entries
      BY <2>1, ChoicesInPool
    <3>2. /\ Goto(r, "ensure") /\ target' = [target EXCEPT ![r] = NoId]
          /\ entries' = StopWaiting(Occupy(entries, target[r]), target[r])
      BY <2>1 DEF Take
    <3>3. /\ pc'[r] = "ensure"
          /\ \A q \in Requests \ {r} : pc'[q] = pc[q] /\ target'[q] = target[q]
      BY <1>p, <1>t, <3>2
    <3> QED
      BY <1>l, <1>o, <2>0, <3>1, <3>2, <3>3 DEF Waiting
  <2>2. CASE entries' = StopWaiting(entries, target[r]) /\ Goto(r, "unbind") /\ UNCHANGED target
    <3>1. /\ pc'[r] = "unbind"
          /\ \A q \in Requests \ {r} : pc'[q] = pc[q] /\ target'[q] = target[q]
      BY <1>p, <2>2
    <3> QED
      BY <1>1, <1>l, <1>s, <2>0, <2>2, <3>1 DEF Waiting
  <2>3. CASE Goto(r, "asleep") /\ UNCHANGED <<entries, target>>
    <3>1. /\ pc'[r] = "asleep"
          /\ \A q \in Requests \ {r} : pc'[q] = pc[q] /\ target'[q] = target[q]
      BY <1>p, <2>3
    <3> QED
      BY <1>s, <2>0, <2>3, <3>1, WaitsNot DEF Waiting
  <2> QED
    BY <1>7, <2>1, <2>2, <2>3, Zenon DEF PollSticky
<1>8. CASE ReserveBest(r)
  <2>1. PICK c : /\ c \in DOMAIN entries
                 /\ Take(r, c, StopWaiting(Occupy(entries, c), target[r]))
    BY <1>8, ChoicesInPool DEF ReserveBest
  <2>2. /\ Goto(r, "ensure") /\ target' = [target EXCEPT ![r] = NoId]
        /\ entries' = StopWaiting(Occupy(entries, c), target[r])
    BY <2>1 DEF Take
  <2>3. pc'[r] = "ensure" /\ \A q \in Requests \ {r} : pc'[q] = pc[q] /\ target'[q] = target[q]
    BY <1>p, <1>t, <2>2
  <2>4. UNCHANGED stale /\ pc[r] = "best"
    BY <1>8 DEF ReserveBest, env
  <2> QED
    BY <1>l, <1>o, <2>1, <2>2, <2>3, <2>4 DEF Waiting
<1>9. CASE WaitForBest(r)
  <2>1. PICK c : /\ c # target[r] /\ target' = [target EXCEPT ![r] = c]
                 /\ entries' = StartWaiting(StopWaiting(entries, target[r]), c)
    BY <1>9 DEF WaitForBest
  <2>2. UNCHANGED <<stale, pc>> /\ pc[r] = "best"
    BY <1>9 DEF WaitForBest, env
  <2>3. target'[r] = c /\ \A q \in Requests \ {r} : pc'[q] = pc[q] /\ target'[q] = target[q]
    BY <1>t, <2>1, <2>2
  <2>4. PICK t, es : t = target[r] /\ es = StopWaiting(entries, t)
    OBVIOUS
  <2>5. /\ DOMAIN es = DOMAIN entries
        /\ \A d \in DOMAIN entries :
             /\ es[d] \in Entry
             /\ es[d].waiting = IF d = t /\ entries[d].waiting > 0
                                THEN entries[d].waiting - 1 ELSE entries[d].waiting
    BY <1>1, <2>4, WaitingCounts
  <2>6. /\ DOMAIN entries' = DOMAIN es
        /\ \A d \in DOMAIN es :
             entries'[d].waiting = IF d = c THEN es[d].waiting + 1 ELSE es[d].waiting
    BY <2>1, <2>4, <2>5, WaitingCounts
  <2>7. ASSUME NEW d \in DOMAIN entries
        PROVE  \/ entries'[d].waiting = entries[d].waiting /\ d # c
               \/ /\ d = t /\ d # c
                  /\ entries'[d].waiting =
                       IF entries[d].waiting > 0 THEN entries[d].waiting - 1
                       ELSE entries[d].waiting
               \/ entries'[d].waiting = entries[d].waiting + 1
    BY <2>1, <2>4, <2>5, <2>6
  <2> QED
    BY <2>1, <2>2, <2>3, <2>4, <2>5, <2>6, <2>7, WaitStep DEF Waiting
<1>10. CASE GiveUpBusy(r)
  <2>1. /\ Goto(r, "idle") /\ target' = [target EXCEPT ![r] = NoId]
        /\ entries' = StopWaiting(entries, target[r]) /\ UNCHANGED stale /\ pc[r] = "best"
    BY <1>10 DEF GiveUpBusy, GiveUp, env
  <2>2. pc'[r] = "idle" /\ \A q \in Requests \ {r} : pc'[q] = pc[q] /\ target'[q] = target[q]
    BY <1>p, <1>t, <2>1
  <2> QED
    BY <1>1, <1>l, <1>s, <2>1, <2>2 DEF Waiting
<1>11. CASE FindNone(r)
  <2>1. /\ Goto(r, "heal") /\ target' = [target EXCEPT ![r] = NoId]
        /\ entries' = StopWaiting(entries, target[r]) /\ UNCHANGED stale /\ pc[r] = "best"
    BY <1>11 DEF FindNone, env
  <2>2. /\ pc'[r] = "heal" /\ target'[r] = NoId
        /\ \A q \in Requests \ {r} : pc'[q] = pc[q] /\ target'[q] = target[q]
    BY <1>p, <1>t, <2>1
  <2> QED
    BY <1>1, <1>l, <1>s, <2>1, <2>2 DEF Waiting
<1>12. CASE TryAutoheal(r)
  <2>1. UNCHANGED stale /\ SameWaiting(entries, entries')
    BY <1>1, <1>12, EditsKeepWaiting DEF TryAutoheal, env
  <2>2. CASE Goto(r, "best") /\ UNCHANGED target
    <3>1. target[r] = NoId
      BY <1>12 DEF TryAutoheal, WaitInv, HealersWaitNot
    <3>2. pc'[r] = "best" /\ \A q \in Requests \ {r} : pc'[q] = pc[q] /\ target'[q] = target[q]
      BY <1>p, <2>2
    <3> QED
      BY <2>1, <2>2, <3>1, <3>2, WaitsNot
  <2>3. CASE GiveUp(r)
    BY <1>c, <1>u, <2>1, <2>3 DEF GiveUp
  <2> QED
    BY <1>12, <2>2, <2>3 DEF TryAutoheal
<1>13. CASE ReloadFromFile(r)
  <2>1. /\ Goto(r, "reserve") /\ target' = [target EXCEPT ![r] = NoId]
        /\ UNCHANGED stale /\ SameWaiting(entries, entries')
    BY <1>1, <1>13, EditsKeepWaiting DEF ReloadFromFile
  <2> QED
    BY <1>c, <1>u, <2>1
<1>14. CASE ReportRefreshFailure(r) \/ ReportRefreshTokenInvalid(r)
  <2>1. PICK es : ReportRefresh(r, es) /\ SameWaiting(entries, es)
    BY <1>1, <1>14, EditsKeepWaiting DEF ReportRefreshFailure, ReportRefreshTokenInvalid
  <2>2. UNCHANGED stale /\ SameWaiting(entries, entries')
    BY <2>1 DEF ReportRefresh, AfterReport, env
  <2>3. /\ target' = [target EXCEPT ![r] = NoId]
        /\ Goto(r, "reserve") \/ Goto(r, "idle")
    BY <2>1 DEF ReportRefresh, GiveUp
  <2> QED
    BY <1>c, <1>u, <2>2, <2>3
<1> QED
  BY <1>3, <1>4, <1>5, <1>6, <1>7, <1>8, <1>9, <1>10, <1>11, <1>12, <1>13, <1>14 DEF Run

\* The answers of the servers, the ends of a request and of its patience.
LEMMA WaitingAnswers ==
  ASSUME Inv, WaitInv, NEW r \in Requests,
         \/ Begin(r) \/ Refreshed(r) \/ Answered(r) \/ Finish(r) \/ Cancel(r)
         \/ WaitBudgetEnds(r)
  PROVE  WaitInv'
<1>1. TypeRest /\ IsPool(entries) /\ \A d \in DOMAIN entries : entries[d] \in Entry
  BY InvIs DEF IsPool
<1>p. ASSUME NEW x, Goto(r, x)
      PROVE  pc'[r] = x /\ \A q \in Requests \ {r} : pc'[q] = pc[q]
  BY <1>1, <1>p DEF Goto, TypeRest
<1>t. ASSUME NEW x, target' = [target EXCEPT ![r] = x]
      PROVE  target'[r] = x /\ \A q \in Requests \ {r} : target'[q] = target[q]
  BY <1>1, <1>t DEF TypeRest
<1>u. ASSUME NEW x \in {"idle", "reserve", "bind", "held", "refresh error", "invalid_grant"},
             Goto(r, x), NEW y,
             UNCHANGED target \/ target' = [target EXCEPT ![r] = y],
             UNCHANGED stale, SameWaiting(entries, entries')
      PROVE  WaitInv'
  <2>1. /\ pc'[r] = x /\ \A q \in Requests \ {r} : pc'[q] = pc[q] /\ target'[q] = target[q]
        /\ x # "heal" /\ x \notin Waiting
    BY <1>p, <1>t, <1>u DEF Waiting
  <2> QED
    BY <1>u, <2>1, WaitsNot
<1>s. SameWaiting(entries, entries)
  BY DEF SameWaiting
<1>2. CASE Begin(r)
  <2>1. Goto(r, "reserve") /\ UNCHANGED <<target, stale, entries>>
    BY <1>2 DEF Begin, pool, env
  <2> QED
    BY <1>s, <1>u, <2>1
<1>3. CASE EnsureToken(r)
  <2>1. Goto(r, "bind") /\ UNCHANGED <<target, stale>>
    BY <1>3 DEF EnsureToken, env
  <2> DEFINE c == guard[r]
             e == [entries[c] EXCEPT !.refreshFailures = 0]
  <2>2. c \in DOMAIN entries => e.waiting = entries[c].waiting
    BY <1>1 DEF Entry
  <2>3. SameWaiting(entries, Put(entries, c, e))
    BY <2>2, PutSameWaiting
  <2>4. SameWaiting(entries, entries')
    BY <1>3, <1>s, <2>3 DEF EnsureToken
  <2> QED
    BY <1>u, <2>1, <2>4
<1>d. ASSUME DropGuard(r) PROVE SameWaiting(entries, entries')
  BY <1>1, <1>d, EditsKeepWaiting DEF DropGuard
<1>4. ASSUME NEW why \in {"refresh error", "invalid_grant"}, EnsureTokenFails(r, why)
      PROVE  WaitInv'
  <2>1. /\ Goto(r, why) /\ target' = [target EXCEPT ![r] = guard[r]]
        /\ UNCHANGED stale /\ DropGuard(r)
    BY <1>4, Zenon DEF EnsureTokenFails
  <2> QED
    BY <1>d, <1>u, <2>1
<1>5. CASE Answered(r)
  <2>1. Goto(r, "held") /\ UNCHANGED <<target, env>>
    BY <1>5, Zenon DEF Answered, ReportSuccess, ReportFailure, ReportQuotaExhausted,
         ReportAccountThrottled, ReportCall, CallUnreported
  <2>2. SameWaiting(entries, entries')
    <3>1. CASE ReportSuccess(r) \/ ReportAccountThrottled(r)
      BY <1>1, <3>1, EditsKeepWaiting, Zenon DEF ReportSuccess, ReportAccountThrottled
    <3>2. CASE ReportFailure(r) \/ ReportQuotaExhausted(r)
      BY <1>1, <3>2, EditsKeepWaiting, Zenon
         DEF ReportFailure, ReportQuotaExhausted, ReportCall, AfterReport
    <3>3. CASE CallUnreported(r)
      BY <1>s, <3>3 DEF CallUnreported, pool
    <3> QED
      BY <1>5, <3>1, <3>2, <3>3 DEF Answered
  <2> QED
    BY <1>u, <2>1, <2>2 DEF env
<1>6. CASE Finish(r)
  <2>1. Goto(r, "idle") /\ UNCHANGED <<target, stale>> /\ DropGuard(r)
    BY <1>6 DEF Finish
  <2> QED
    BY <1>d, <1>u, <2>1
<1>7. CASE Cancel(r)
  <2>1. /\ Goto(r, "idle") /\ target' = [target EXCEPT ![r] = NoId] /\ UNCHANGED stale
        /\ DropGuard(r) \/ UNCHANGED entries
    BY <1>7 DEF Cancel, GiveUp
  <2> QED
    BY <1>d, <1>s, <1>u, <2>1
<1>8. CASE WaitBudgetEnds(r)
  <2>1. UNCHANGED <<pc, target, stale, entries>> /\ pc[r] \in Waiting
    BY <1>8 DEF WaitBudgetEnds, pool, env, Waiting
  <2>2. pc[r] # "heal"
    BY <2>1 DEF Waiting
  <2> QED
    BY <1>s, <2>1, <2>2, WaitsNot
<1> QED
  BY <1>2, <1>3, <1>4, <1>5, <1>6, <1>7, <1>8 DEF Refreshed

LEMMA NextWaiting == Inv /\ WaitInv /\ [Next]_vars => WaitInv'
<1> SUFFICES ASSUME Inv, WaitInv, [Next]_vars PROVE WaitInv'
  OBVIOUS
<1>0. IsPool(entries) /\ \A d \in DOMAIN entries : entries[d] \in Entry
  BY InvIs DEF IsPool
<1>s. SameWaiting(entries, entries)
  BY DEF SameWaiting
<1>g. ASSUME UNCHANGED <<pc, target, stale>>, SameWaiting(entries, entries')
      PROVE  WaitInv'
  BY <1>g, WaitersStay DEF SameWaiting
<1>e. ASSUME NEW c \in DOMAIN entries, NEW e, e.waiting = entries[c].waiting,
             entries' = Put(entries, c, e), UNCHANGED <<pc, target, stale>>
      PROVE  WaitInv'
  BY <1>e, <1>g, PutSameWaiting
<1>1. ASSUME NEW r \in Requests,
             \/ Begin(r) \/ Run(r) \/ Refreshed(r) \/ Answered(r)
             \/ Finish(r) \/ Cancel(r) \/ WaitBudgetEnds(r)
      PROVE  WaitInv'
  BY <1>1, WaitingRuns, WaitingAnswers
<1>2. ASSUME NEW c \in Ids, CooldownEnds(c) PROVE WaitInv'
  <2>1. c \in DOMAIN entries /\ UNCHANGED <<pc, target, stale>>
        /\ entries' = Put(entries, c, [entries[c] EXCEPT !.throttled = FALSE])
    BY <1>2 DEF CooldownEnds, request, env
  <2>2. [entries[c] EXCEPT !.throttled = FALSE].waiting = entries[c].waiting
    BY <1>0, <2>1 DEF Entry
  <2> QED
    BY <1>e, <2>1, <2>2
<1>3. CASE UNCHANGED vars \/ \E s \in Sessions : BindingExpires(s)
  BY <1>3, <1>g, <1>s DEF vars, pool, request, env, BindingExpires
<1>4. CASE Operator
  <2>1. UNCHANGED <<pc, target>>
    <3>1. \E op : Admin(op)
      BY <1>4, Zenon
         DEF Operator, SetDisabled, ResetAndEnable, DisableQuotaExceeded,
             ClearThrottle, SetPriority, SetMaxConcurrency, SetGroups,
             DeleteCredential, RemoveGroup, SetMode, AddCredential
    <3> QED
      BY <3>1 DEF Admin, request
  <2>2. ASSUME NEW c \in DOMAIN entries,
               \/ \E off \in BOOLEAN : SetDisabled(c, off)
               \/ ResetAndEnable(c) \/ DisableQuotaExceeded(c) \/ ClearThrottle(c)
               \/ \E k \in Catalogue : \/ SetPriority(c, k.priority)
                                       \/ SetMaxConcurrency(c, k.max)
                                       \/ SetGroups(c, k.groups)
        PROVE  WaitInv'
    <3>1. PICK x : x = entries[c]
      OBVIOUS
    <3>2. x \in Entry
      BY <1>0, <3>1
    <3>3. /\ \A why : Disable(x, why).waiting = x.waiting
          /\ Enable(x).waiting = x.waiting
          /\ [Enable(x) EXCEPT !.throttled = FALSE].waiting = x.waiting
          /\ [x EXCEPT !.throttled = FALSE].waiting = x.waiting
          /\ \A y : /\ [x EXCEPT !.priority = y].waiting = x.waiting
                    /\ [x EXCEPT !.max = y].waiting = x.waiting
                    /\ [x EXCEPT !.groups = y].waiting = x.waiting
      BY <3>2 DEF Entry, Disable, Enable
    <3>4. ASSUME NEW off, SetDisabled(c, off) PROVE WaitInv'
      BY <1>e, <2>1, <3>1, <3>3, <3>4, Zenon DEF SetDisabled, Edit
    <3>5. CASE ResetAndEnable(c) \/ DisableQuotaExceeded(c) \/ ClearThrottle(c)
      BY <1>e, <2>1, <3>1, <3>3, <3>5, Zenon
         DEF ResetAndEnable, DisableQuotaExceeded, ClearThrottle, Edit
    <3>6. ASSUME NEW y, SetPriority(c, y) \/ SetMaxConcurrency(c, y) \/ SetGroups(c, y)
          PROVE  WaitInv'
      BY <1>e, <2>1, <3>1, <3>3, <3>6, Zenon
         DEF SetPriority, SetMaxConcurrency, SetGroups, Edit
    <3> QED
      BY <2>2, <3>4, <3>5, <3>6
  <2>3. ASSUME NEW c \in DOMAIN entries, DeleteCredential(c) PROVE WaitInv'
    <3>1. entries' = [d \in DOMAIN entries \ {c} |-> entries[d]] /\ UNCHANGED stale
      BY <2>3 DEF DeleteCredential
    <3> QED
      BY <2>1, <3>1, WaitersStay
  <2>4. ASSUME NEW g \in Groups, RemoveGroup(g) PROVE WaitInv'
    <3>1. entries' = [c \in DOMAIN entries |-> [entries[c] EXCEPT !.groups = @ \ {g}]]
          /\ UNCHANGED stale
      BY <2>4 DEF RemoveGroup
    <3>2. \A c \in DOMAIN entries :
            [entries[c] EXCEPT !.groups = @ \ {g}].waiting = entries[c].waiting
      BY <1>0 DEF Entry
    <3> QED
      BY <1>g, <2>1, <3>1, <3>2 DEF SameWaiting
  <2>5. ASSUME NEW m \in Modes, SetMode(m) PROVE WaitInv'
    BY <1>g, <1>s, <2>1, <2>5 DEF SetMode
  <2>6. ASSUME NEW k \in Catalogue, AddCredential(k) PROVE WaitInv'
    <3>1. PICK c \in Ids :
            /\ entries' = [d \in DOMAIN entries \cup {c} |->
                             IF d = c THEN NewEntry(k, FALSE, None) ELSE entries[d]]
            /\ stale' = IF Holders(c) \cup Waiters(c) = {} THEN stale \ {c}
                        ELSE stale \cup {c}
      BY <2>6 DEF AddCredential
    <3>2. NewEntry(k, FALSE, None).waiting = 0
      BY DEF NewEntry
    <3>3. ASSUME NEW d \in DOMAIN entries' \ stale'
          PROVE  \/ d \in DOMAIN entries \ stale /\ entries'[d].waiting = entries[d].waiting
                 \/ Waiters(d) = {} /\ entries'[d].waiting \in Nat
      <4>1. CASE d = c
        <5>1. entries'[d].waiting = 0
          BY <3>1, <3>2, <4>1
        <5>2. Holders(c) \cup Waiters(c) = {}
          <6>1. CASE Holders(c) \cup Waiters(c) # {}
            <7>1. c \in stale'
              BY <3>1, <6>1
            <7> QED
              BY <3>3, <4>1, <7>1
          <6> QED
            BY <6>1
        <5>3. Waiters(d) = {}
          BY <4>1, <5>2
        <5> QED
          BY <5>1, <5>3
      <4>2. CASE d # c
        BY <3>1, <3>3, <4>2
      <4> QED
        BY <4>1, <4>2
    <3> QED
      BY <2>1, <3>3, WaitersStay
  <2> QED
    BY <1>4, <2>2, <2>3, <2>4, <2>5, <2>6 DEF Operator
<1> QED
  BY <1>1, <1>2, <1>3, <1>4 DEF Next, Done

-----------------------------------------------------------------------------
(* Who comes back. *)

\* fs has the credentials of es, and what is disabled in es is disabled in fs.
StaysOff(es, fs) ==
  DOMAIN fs = DOMAIN es /\ \A d \in DOMAIN es : es[d].disabled => fs[d].disabled

LEMMA PutStaysOff ==
  ASSUME NEW es, NEW c, NEW e,
         c \in DOMAIN es /\ es[c].disabled => e.disabled
  PROVE  StaysOff(es, Put(es, c, e))
BY DEF StaysOff, Put

\* No report, and nothing that is done to a slot, enables a credential.
LEMMA EditsStayOff ==
  ASSUME NEW es, IsPool(es), NEW c
  PROVE  /\ StaysOff(es, Occupy(es, c)) /\ StaysOff(es, ReleaseSlot(es, c))
         /\ StaysOff(es, StartWaiting(es, c)) /\ StaysOff(es, StopWaiting(es, c))
         /\ StaysOff(es, Succeed(es, c)) /\ StaysOff(es, Throttle(es, c))
         /\ StaysOff(es, Fail(es, c)) /\ StaysOff(es, FailRefresh(es, c))
         /\ StaysOff(es, ExhaustQuota(es, c))
         /\ StaysOff(es, InvalidateRefreshToken(es, c))
<1> DEFINE e == es[c]
<1>1. ASSUME NEW f, c \in DOMAIN es => f.disabled = e.disabled
      PROVE  StaysOff(es, Put(es, c, f))
  BY <1>1, PutStaysOff
<1>2. c \in DOMAIN es =>
        /\ [e EXCEPT !.active = @ + 1].disabled = e.disabled
        /\ [e EXCEPT !.active = IF @ > 0 THEN @ - 1 ELSE 0].disabled = e.disabled
        /\ [e EXCEPT !.waiting = @ + 1].disabled = e.disabled
        /\ [e EXCEPT !.waiting = IF @ > 0 THEN @ - 1 ELSE 0].disabled = e.disabled
        /\ [e EXCEPT !.throttled = TRUE].disabled = e.disabled
        /\ [e EXCEPT !.failures = 0, !.refreshFailures = 0, !.successes = @ + 1,
                     !.throttled = FALSE].disabled = e.disabled
  BY DEF IsPool, Entry
<1>3. /\ StaysOff(es, Occupy(es, c)) /\ StaysOff(es, ReleaseSlot(es, c))
      /\ StaysOff(es, StartWaiting(es, c)) /\ StaysOff(es, StopWaiting(es, c))
      /\ StaysOff(es, Succeed(es, c)) /\ StaysOff(es, Throttle(es, c))
  <2>1. StaysOff(es, Occupy(es, c)) /\ StaysOff(es, ReleaseSlot(es, c))
    BY <1>1, <1>2, Zenon DEF Occupy, ReleaseSlot
  <2>2. StaysOff(es, StartWaiting(es, c)) /\ StaysOff(es, StopWaiting(es, c))
    BY <1>1, <1>2, Zenon DEF StartWaiting, StopWaiting
  <2>3. StaysOff(es, Succeed(es, c)) /\ StaysOff(es, Throttle(es, c))
    BY <1>1, <1>2, Zenon DEF Succeed, Throttle
  <2> QED
    BY <2>1, <2>2, <2>3
<1>4. StaysOff(es, es)
  BY DEF StaysOff
<1>5. ASSUME NEW f
      PROVE  c \in Enabled(es) => StaysOff(es, Put(es, c, f))
  BY PutStaysOff DEF Enabled
<1>6. /\ StaysOff(es, Fail(es, c)) /\ StaysOff(es, FailRefresh(es, c))
      /\ StaysOff(es, ExhaustQuota(es, c))
      /\ StaysOff(es, InvalidateRefreshToken(es, c))
  BY <1>4, <1>5 DEF Fail, FailRefresh, ExhaustQuota, InvalidateRefreshToken
<1> QED
  BY <1>3, <1>6

LEMMA StaysOffTwice ==
  ASSUME NEW es, NEW fs, NEW gs, StaysOff(es, fs), StaysOff(fs, gs)
  PROVE  StaysOff(es, gs)
BY DEF StaysOff

\* Only self-healing and a newer token in the file enable one in a request.
LEMMA RequestsStayOff ==
  ASSUME Inv, NEW r \in Requests,
         \/ Begin(r) \/ Run(r) \/ Refreshed(r) \/ Answered(r)
         \/ Finish(r) \/ Cancel(r) \/ WaitBudgetEnds(r)
  PROVE  \/ StaysOff(entries, entries')
         \/ entries' = Autoheal(entries)
         \/ ReloadFromFile(r)
<1>1. ASSUME entries' = entries
      PROVE  StaysOff(entries, entries')
  BY <1>1 DEF StaysOff
<1>2. IsPool(entries)
  BY InvIs
<1>3. ASSUME NEW c, NEW d, entries' = StopWaiting(Occupy(entries, c), d)
      PROVE  StaysOff(entries, entries')
  <2>1. IsPool(Occupy(entries, c)) /\ StaysOff(entries, Occupy(entries, c))
    <3>1. CASE c \in DOMAIN entries
      BY <1>2, <3>1, EditsStayOff, OccupyCounts
    <3>2. CASE c \notin DOMAIN entries
      <4>1. Occupy(entries, c) = entries
        BY <1>2, <3>2 DEF IsPool, Occupy, Put
      <4> QED
        BY <1>2, <4>1, EditsStayOff
    <3> QED
      BY <3>1, <3>2
  <2> QED
    BY ONLY <1>3, <2>1, EditsStayOff, StaysOffTwice
<1>4. CASE Run(r)
  <2>1. CASE ReserveOne(r)
    <3>1. entries' = Occupy(entries, target[r]) \/ entries' = entries
      BY <2>1 DEF ReserveOne, Take
    <3> QED
      BY <1>1, <1>2, <3>1, EditsStayOff
  <2>2. CASE PollSticky(r)
    BY <1>1, <1>2, <1>3, <2>2, EditsStayOff, Zenon DEF PollSticky, Take
  <2>3. CASE ReserveBest(r)
    BY <1>3, <2>3, Zenon DEF ReserveBest, Take
  <2>4. CASE JoinWaiting(r) \/ GiveUpBusy(r) \/ FindNone(r)
    BY <1>2, <2>4, EditsStayOff, Zenon DEF JoinWaiting, GiveUpBusy, FindNone
  <2>5. CASE WaitForBest(r)
    <3>1. PICK c : entries' = StartWaiting(StopWaiting(entries, target[r]), c)
      BY ONLY <2>5, Zenon DEF WaitForBest
    <3>2. /\ IsPool(StopWaiting(entries, target[r]))
          /\ StaysOff(entries, StopWaiting(entries, target[r]))
      BY <1>2, EditsStayOff, WaitingSameSlots DEF SameSlots
    <3> QED
      BY ONLY <3>1, <3>2, EditsStayOff, StaysOffTwice
  <2>6. CASE TryAutoheal(r) \/ ReloadFromFile(r)
    BY <1>1, <2>6, Zenon DEF TryAutoheal
  <2>7. CASE ReportRefreshFailure(r) \/ ReportRefreshTokenInvalid(r)
    BY <1>2, <2>7, EditsStayOff, Zenon
       DEF ReportRefreshFailure, ReportRefreshTokenInvalid, ReportRefresh, AfterReport
  <2>8. CASE \/ AttemptsExhausted(r) \/ ReserveContext(r) \/ CheckBinding(r)
             \/ Unbind(r) \/ CountWaiting(r) \/ Bind(r) \/ ForgetSession(r)
    BY <1>1, <2>8
       DEF AttemptsExhausted, ReserveContext, CheckBinding, Unbind,
           CountWaiting, Bind, ForgetSession, pool
  <2> QED
    BY <1>4, <2>1, <2>2, <2>3, <2>4, <2>5, <2>6, <2>7, <2>8 DEF Run
<1>5. CASE Refreshed(r)
  <2>1. CASE EnsureToken(r)
    <3>1. guard[r] \in DOMAIN entries =>
            [entries[guard[r]] EXCEPT !.refreshFailures = 0].disabled
              = entries[guard[r]].disabled
      BY <1>2 DEF IsPool, Entry
    <3>2. StaysOff(entries, Put(entries, guard[r],
                                [entries[guard[r]] EXCEPT !.refreshFailures = 0]))
      BY <3>1, PutStaysOff
    <3> QED
      BY <1>1, <2>1, <3>2, Zenon DEF EnsureToken
  <2>2. ASSUME NEW why, EnsureTokenFails(r, why)
        PROVE  StaysOff(entries, entries')
    BY <1>2, <2>2, EditsStayOff, Zenon DEF EnsureTokenFails, DropGuard
  <2> QED
    BY <1>5, <2>1, <2>2, Zenon DEF Refreshed
<1>6. CASE Answered(r)
  <2>1. CASE ReportSuccess(r) \/ ReportAccountThrottled(r)
    BY <1>2, <2>1, EditsStayOff, Zenon DEF ReportSuccess, ReportAccountThrottled
  <2>2. CASE ReportFailure(r) \/ ReportQuotaExhausted(r)
    BY <1>2, <2>2, EditsStayOff, Zenon
       DEF ReportFailure, ReportQuotaExhausted, ReportCall, AfterReport
  <2>3. CASE CallUnreported(r)
    BY <1>1, <2>3 DEF CallUnreported, pool
  <2> QED
    BY <1>6, <2>1, <2>2, <2>3 DEF Answered
<1>7. CASE Finish(r) \/ Cancel(r)
  BY <1>1, <1>2, <1>7, EditsStayOff, Zenon DEF Finish, Cancel, DropGuard
<1>8. CASE Begin(r) \/ WaitBudgetEnds(r)
  BY <1>1, <1>8 DEF Begin, WaitBudgetEnds, pool
<1> QED
  BY <1>4, <1>5, <1>6, <1>7, <1>8

LEMMA HealsAutoDisabled ==
  ASSUME Inv, [Next]_vars, adminLeft' = adminLeft, reloadsLeft' = reloadsLeft,
         NEW c \in DOMAIN entries \cap DOMAIN entries',
         entries[c].disabled, ~entries'[c].disabled
  PROVE  entries[c].reason = "TooManyFailures"
<1>1. adminLeft \in Nat /\ reloadsLeft \in Nat /\ IsPool(entries)
  BY InvIs DEF Inv, TypeOK
<1>2. ~StaysOff(entries, entries')
  BY DEF StaysOff
<1>3. entries' = entries => StaysOff(entries, entries')
  BY DEF StaysOff
<1>4. CASE UNCHANGED vars \/ Done \/ \E s \in Sessions : BindingExpires(s)
  BY <1>2, <1>3, <1>4 DEF vars, pool, Done, BindingExpires
<1>5. ~Operator
  <2>1. ASSUME NEW op, Admin(op)
        PROVE  FALSE
    BY <1>1, <2>1 DEF Admin
  <2> QED
    BY <2>1, Zenon DEF Operator, SetDisabled, ResetAndEnable, DisableQuotaExceeded,
         ClearThrottle, SetPriority, SetMaxConcurrency, SetGroups, RemoveGroup, SetMode,
         DeleteCredential, AddCredential
<1>6. ASSUME NEW d \in Ids, CooldownEnds(d)
      PROVE  FALSE
  <2>1. /\ d \in DOMAIN entries
        /\ entries' = Put(entries, d, [entries[d] EXCEPT !.throttled = FALSE])
    BY <1>6 DEF CooldownEnds
  <2>2. [entries[d] EXCEPT !.throttled = FALSE].disabled = entries[d].disabled
    BY <1>1, <2>1 DEF IsPool, Entry
  <2> QED
    BY <1>2, <2>1, <2>2, PutStaysOff
<1>7. ASSUME NEW r \in Requests, ReloadFromFile(r)
      PROVE  FALSE
  BY <1>1, <1>7 DEF ReloadFromFile
<1>8. CASE entries' = Autoheal(entries)
  <2>1. c \in AutoDisabled(entries)
    BY <1>8 DEF Autoheal
  <2> QED
    BY <2>1 DEF AutoDisabled
<1> QED
  BY <1>2, <1>4, <1>5, <1>6, <1>7, <1>8, RequestsStayOff, Zenon DEF Next

-----------------------------------------------------------------------------
(* Theorems. *)

\* The variables have their types, and a request holds a guard exactly while it
\* refreshes a token, calls upstream or reads the answer.
THEOREM TypeCorrect == Spec => []TypeOK
<1>1. Inv => TypeOK
  BY DEF Inv
<1> QED
  BY <1>1, InitInv, NextInv, PTL DEF Spec

\* `active` counts the guards that are out (ConcurrencyGuard, reserve_best,
\* reserve_one, release_active_slot), whatever requests and operator do.
THEOREM SlotsAccounted == Spec => []SlotAccounting
<1>1. Inv => SlotAccounting
  BY DEF Inv
<1> QED
  BY <1>1, InitInv, NextInv, PTL DEF Spec

\* A slot is given out only while fewer are out than max_concurrency, so however
\* requests interleave (the search and the count are one critical section) and
\* whenever the operator lowers the limit, nobody is let in beyond it.
THEOREM LimitHolds == Spec => LimitRespected
<1>1. Inv /\ [Next]_vars =>
        [\A c \in DOMAIN entries \ stale :
           Guards(c)' \ Guards(c) # {} =>
             entries[c].max = 0 \/ Cardinality(Guards(c)) < entries[c].max]_vars
  BY LimitStep
<1> QED
  BY <1>1, InitInv, NextInv, PTL DEF Spec, LimitRespected

\* Whatever the operator and other requests do between looking a credential up
\* and taking its slot, or during a wait for it, the credential taken suits the
\* request when it is taken (reserve_one, wait_for_sticky, reserve_best).
THEOREM SuitableTaken == Spec => OnlySuitableTaken
<1>1. ASSUME Inv, [Next]_vars, NEW r \in Requests,
             guard[r] = NoId, guard'[r] # NoId
      PROVE  guard'[r] \in AvailableIds(entries, Q(r))
  BY <1>1, GuardMoves DEF Candidates
<1>2. Inv /\ [Next]_vars =>
        [\A r \in Requests :
           guard[r] = NoId /\ guard'[r] # NoId
             => guard'[r] \in AvailableIds(entries, Q(r))]_vars
  BY <1>1
<1> QED
  BY <1>2, InitInv, NextInv, PTL DEF Spec, OnlySuitableTaken

\* Load is spread over the credentials a request may use, counted in guards that are
\* really out and whatever the operator edits meanwhile: in priority mode a lower tier
\* is used only when the slots of every higher one are out, and within a tier, or in
\* balanced mode, the idlest credential is (reserve_best).
THEOREM LoadIsSpread == Spec => LoadSpread
<1>1. ASSUME Inv, [Next]_vars, NEW r \in Requests, pc[r] = "best", guard'[r] # NoId
      PROVE  LET c == guard'[r]
                 free == {d \in AvailableIds(entries, Q(r)) \ stale :
                            entries[d].max = 0 \/ Cardinality(Guards(d)) < entries[d].max}
                 rivals == IF mode = "balanced" THEN free ELSE
                           {d \in free : entries[d].priority <= entries[c].priority}
             IN  c \notin stale => \A d \in rivals :
                   /\ mode = "balanced" \/ entries[d].priority = entries[c].priority
                   /\ Cardinality(Guards(c)) <= Cardinality(Guards(d))
  <2>1. guard'[r] \in BestChoices(entries, Q(r), mode)
    BY <1>1, BestTaken
  <2> QED
    BY <1>1, <2>1, BestIsIdlest
<1>2. Inv /\ [Next]_vars =>
        [\A r \in Requests :
           pc[r] = "best" /\ guard'[r] # NoId =>
             LET c == guard'[r]
                 free == {d \in AvailableIds(entries, Q(r)) \ stale :
                            entries[d].max = 0 \/ Cardinality(Guards(d)) < entries[d].max}
                 rivals == IF mode = "balanced" THEN free ELSE
                           {d \in free : entries[d].priority <= entries[c].priority}
             IN  c \notin stale => \A d \in rivals :
                   /\ mode = "balanced" \/ entries[d].priority = entries[c].priority
                   /\ Cardinality(Guards(c)) <= Cardinality(Guards(d))]_vars
  BY <1>1
<1> QED
  BY <1>2, InitInv, NextInv, PTL DEF Spec, LoadSpread

\* Whatever enables a credential (self-healing, a reload from the file, the
\* operator, a fresh start) leaves it below both thresholds, and an entry is
\* disabled exactly when it says why: what is enabled is never one failure from
\* being disabled with the failures of an earlier life.
THEOREM EnabledStartsAfresh == Spec => []EnabledBelowThreshold
<1>1. SanePool(entries) => EnabledBelowThreshold
  BY DEF SanePool, Sane, EnabledBelowThreshold
<1> QED
  BY <1>1, InitInv, NextInv, SaneInit, SaneNext, PTL DEF Spec

\* Self-healing gives back only what failed calls took away (try_autoheal): neither an
\* exhausted quota, nor a dead token, nor the operator's decision is undone by it, by a
\* success or a late report, however many requests run at once.  The operator and a newer
\* token in the file may enable anything.
THEOREM OnlyFailuresHeal == Spec => OnlyAutoDisabledHeals
<1>1. Inv /\ [Next]_vars =>
        [\A c \in DOMAIN entries \cap DOMAIN entries' :
           /\ adminLeft' = adminLeft /\ reloadsLeft' = reloadsLeft
           /\ entries[c].disabled /\ ~entries'[c].disabled
           => entries[c].reason = "TooManyFailures"]_vars
  BY HealsAutoDisabled
<1> QED
  BY <1>1, InitInv, NextInv, PTL DEF Spec, OnlyAutoDisabledHeals

\* `waiting` never misses a request that waits for a credential's slot, whatever other
\* requests and the operator do meanwhile (wait_for_sticky, reserve_best_with_wait): a
\* session gives its credential up when too many wait, and no later.  Cancelled
\* requests may be counted for ever, so equality does not hold.
THEOREM WaitersCounted == Spec => []WaitingCovered
<1>1. Init => WaitInv
  <2> SUFFICES ASSUME Init PROVE WaitInv
    OBVIOUS
  <2>1. \A r \in Requests : pc[r] = "idle"
    BY DEF Init
  <2>2. \A c : Waiters(c) = {}
    BY <2>1 DEF Waiters
  <2>3. Cardinality({}) = 0
    BY FS_EmptySet
  <2>4. \A c \in DOMAIN entries : entries[c].waiting \in Nat
    BY InitInv, InvIs DEF IsPool, Entry
  <2>5. \A c \in DOMAIN entries \ stale : entries[c].waiting >= Cardinality(Waiters(c))
    BY <2>2, <2>3, <2>4
  <2> QED
    BY <2>1, <2>5 DEF WaitInv, WaitingCovered, HealersWaitNot
<1>2. WaitInv => WaitingCovered
  BY DEF WaitInv
<1> QED
  BY <1>1, <1>2, InitInv, NextInv, NextWaiting, PTL DEF Spec

\* The pool is a semaphore for each credential, for every pool and whatever the
\* operator does: no step takes a slot beyond the limit, takes two, or gives one
\* back that is not out.  Only an id that was given out again while a request
\* still used it breaks this.
THEOREM PoolIsSemaphores == Spec /\ [](stale = {}) => ImplementsSlotPool
<1>1. Inv /\ Inv' /\ stale = {} /\ [Next]_vars
        => [Semaphores!Next]_<<HoldersNow, LimitNow>>
  BY SemaphoresStep
<1> QED
  BY <1>1, InitInv, NextInv, SemaphoresInit, PTL
     DEF Spec, ImplementsSlotPool, Semaphores!Spec, HoldersNow, LimitNow
=============================================================================
