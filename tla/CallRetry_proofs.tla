--------------------------- MODULE CallRetry_proofs ---------------------------
(***************************************************************************)
(* Proofs about CallRetry for every pool, every number of requests and     *)
(* every answer of the upstream: the count of each credential is the       *)
(* number of requests in the middle of an iteration on it.                 *)
(*                                                                         *)
(* Every action either takes a slot with a guard, leaves an iteration, or  *)
(* goes on without touching either; there is a lemma for each.             *)
(*                                                                         *)
(* The second part is about blame: the failures that a good credential is  *)
(* charged with, and the renewals of its token, are never more than the    *)
(* requests that have tried to renew it and gave up.                       *)
(*                                                                         *)
(* The last part is about failover: the attempts of a call are never more  *)
(* than the bad credentials have paid for, with failures counted against   *)
(* them and one renewal each, and that is less than its budget.            *)
(***************************************************************************)
EXTENDS CallRetry, FiniteSetTheorems, TLAPS

-----------------------------------------------------------------------------
(* What a report changes. *)

IsPool(es) == /\ DOMAIN es \subseteq Ids
              /\ es \in [DOMAIN es -> Entry]

\* fs has the credentials of es, each with as many active slots.
SameSlots(es, fs) == /\ IsPool(fs)
                     /\ DOMAIN fs = DOMAIN es
                     /\ \A d \in DOMAIN es : fs[d].active = es[d].active

\* And it is es, but for the entry of c.
Edited(es, fs, c) == SameSlots(es, fs) /\ \A d \in DOMAIN es : d # c => fs[d] = es[d]

LEMMA PutEdits ==
  ASSUME NEW es, IsPool(es), NEW c, NEW e,
         c \in DOMAIN es => e \in Entry /\ e.active = es[c].active
  PROVE  Edited(es, Put(es, c, e), c)
BY DEF IsPool, SameSlots, Edited, Put

\* A success clears what was counted against the credential.
LEMMA SucceedEdits ==
  ASSUME NEW es, IsPool(es), NEW c
  PROVE  /\ Edited(es, Succeed(es, c), c)
         /\ c \in DOMAIN es => /\ Succeed(es, c)[c].disabled = es[c].disabled
                               /\ Succeed(es, c)[c].throttled = FALSE
                               /\ Succeed(es, c)[c].failures = 0
<1> DEFINE e == [es[c] EXCEPT !.failures = 0, !.refreshFailures = 0,
                              !.successes = @ + 1, !.throttled = FALSE]
<1>1. ASSUME NEW x \in Entry, NEW n \in Nat
      PROVE  LET y == [x EXCEPT !.failures = 0, !.refreshFailures = 0,
                                !.successes = n, !.throttled = FALSE]
             IN  /\ y \in Entry /\ y.active = x.active
                 /\ y.disabled = x.disabled /\ y.throttled = FALSE /\ y.failures = 0
  BY DEF Entry
<1>2. c \in DOMAIN es => es[c] \in Entry /\ es[c].successes + 1 \in Nat
  BY DEF IsPool, Entry
<1>3. c \in DOMAIN es =>
        /\ e \in Entry /\ e.active = es[c].active
        /\ e.disabled = es[c].disabled /\ e.throttled = FALSE /\ e.failures = 0
  BY <1>1, <1>2
<1> HIDE DEF e
<1>4. Succeed(es, c) = Put(es, c, e)
  BY DEF Succeed, e
<1> QED
  BY <1>3, <1>4, PutEdits DEF Put

\* A failure adds one to them, and disables the credential if they are too many.
LEMMA FailEdits ==
  ASSUME NEW es, IsPool(es), NEW c
  PROVE  /\ Edited(es, Fail(es, c), c)
         /\ c \in DOMAIN es =>
              /\ Fail(es, c)[c].throttled = es[c].throttled
              /\ Fail(es, c)[c].failures \in Nat /\ es[c].failures \in Nat
              /\ Fail(es, c)[c].failures <= es[c].failures + 1
              /\ ~(es[c].failures + 1 >= MaxFailures) =>
                   Fail(es, c)[c].disabled = es[c].disabled
<1> DEFINE e == [es[c] EXCEPT !.failures = @ + 1]
           f == IF e.failures >= MaxFailures THEN Disable(e, "TooManyFailures") ELSE e
<1>0. Edited(es, es, c)
  BY DEF Edited, SameSlots, IsPool
<1>1. c \in DOMAIN es =>
        /\ es[c].failures \in Nat /\ e \in Entry /\ e.active = es[c].active
        /\ e.throttled = es[c].throttled /\ e.disabled = es[c].disabled
        /\ e.failures = es[c].failures + 1
  BY DEF IsPool, Entry
<1> HIDE DEF e
<1>2. \A x \in Entry : LET y == Disable(x, "TooManyFailures")
                       IN  /\ y \in Entry /\ y.active = x.active
                           /\ y.throttled = x.throttled /\ y.failures = x.failures
  BY DEF Entry, Disable, Reasons
<1>3. c \in DOMAIN es =>
        /\ f \in Entry /\ f.active = es[c].active /\ f.throttled = es[c].throttled
        /\ f.failures = es[c].failures + 1
        /\ ~(es[c].failures + 1 >= MaxFailures) => f.disabled = es[c].disabled
  BY <1>1, <1>2
<1>4. Fail(es, c) = IF c \notin Enabled(es) THEN es ELSE Put(es, c, f)
  BY DEF Fail, e
<1> HIDE DEF f
<1>5. CASE c \notin Enabled(es)
  BY <1>0, <1>1, <1>4, <1>5
<1>6. CASE c \in Enabled(es)
  <2>1. c \in DOMAIN es /\ Fail(es, c)[c] = f
    BY <1>4, <1>6 DEF Put, Enabled
  <2> QED
    BY <1>1, <1>3, <1>4, <1>6, <2>1, PutEdits
<1> QED
  BY <1>5, <1>6

\* The other reports concern their credential only.
LEMMA ReportsEdit ==
  ASSUME NEW es, IsPool(es), NEW c
  PROVE  /\ Edited(es, ExhaustQuota(es, c), c)
         /\ Edited(es, InvalidateRefreshToken(es, c), c)
         /\ Edited(es, Throttle(es, c), c)
<1>0. Edited(es, es, c)
  BY DEF Edited, SameSlots, IsPool
<1>1. c \in DOMAIN es => es[c] \in Entry
  BY DEF IsPool
<1>2. ASSUME NEW e \in Entry, NEW why \in {"QuotaExceeded", "InvalidRefreshToken"}
      PROVE  Disable(e, why) \in Entry /\ Disable(e, why).active = e.active
  BY DEF Entry, Disable, Reasons
<1>3. Edited(es, ExhaustQuota(es, c), c)
  <2> DEFINE e == [es[c] EXCEPT !.failures = MaxFailures]
  <2>1. c \in DOMAIN es => e \in Entry /\ e.active = es[c].active
    BY <1>1, MaxFailuresAssumption DEF Entry
  <2> HIDE DEF e
  <2>2. ExhaustQuota(es, c) = IF c \notin Enabled(es) THEN es
                              ELSE Put(es, c, Disable(e, "QuotaExceeded"))
    BY DEF ExhaustQuota, e
  <2> QED
    BY <1>0, <1>2, <2>1, <2>2, PutEdits
<1>4. Edited(es, InvalidateRefreshToken(es, c), c)
  BY <1>0, <1>1, <1>2, PutEdits DEF InvalidateRefreshToken
<1>5. Edited(es, Throttle(es, c), c)
  <2>1. c \in DOMAIN es => LET e == [es[c] EXCEPT !.throttled = TRUE]
                           IN  e \in Entry /\ e.active = es[c].active
    BY <1>1 DEF Entry
  <2> QED
    BY <2>1, PutEdits DEF Throttle
<1> QED
  BY <1>3, <1>4, <1>5

\* The failures of a renewal are counted apart from those of calls.
LEMMA RefreshEdits ==
  ASSUME NEW es, IsPool(es), NEW c
  PROVE  /\ Edited(es, FailRefresh(es, c), c)
         /\ Edited(es, Renewed(es, c), c)
         /\ c \in DOMAIN es => /\ Renewed(es, c)[c].disabled = es[c].disabled
                               /\ Renewed(es, c)[c].throttled = es[c].throttled
                               /\ Renewed(es, c)[c].failures = es[c].failures
                               /\ Renewed(es, c)[c].max = es[c].max
<1>1. ASSUME NEW x \in Entry, NEW n \in Nat
      PROVE  LET y == [x EXCEPT !.refreshFailures = n]
             IN  /\ y \in Entry /\ y.active = x.active /\ y.max = x.max
                 /\ y.disabled = x.disabled /\ y.throttled = x.throttled
                 /\ y.failures = x.failures
  BY DEF Entry
<1>2. \A x \in Entry : LET y == Disable(x, "TooManyRefreshFailures")
                       IN  y \in Entry /\ y.active = x.active
  BY DEF Entry, Disable, Reasons
<1>3. c \in DOMAIN es => es[c] \in Entry /\ es[c].refreshFailures + 1 \in Nat
  BY DEF IsPool, Entry
<1>4. Edited(es, FailRefresh(es, c), c)
  <2> DEFINE e == [es[c] EXCEPT !.refreshFailures = @ + 1]
             f == IF e.refreshFailures >= MaxFailures
                  THEN Disable(e, "TooManyRefreshFailures") ELSE e
  <2>1. c \in DOMAIN es => e \in Entry /\ e.active = es[c].active
    BY <1>1, <1>3
  <2>2. FailRefresh(es, c) = IF c \notin Enabled(es) THEN es ELSE Put(es, c, f)
    BY DEF FailRefresh
  <2> HIDE DEF e
  <2>3. c \in DOMAIN es => f \in Entry /\ f.active = es[c].active
    BY <1>2, <2>1
  <2>4. Edited(es, es, c)
    BY DEF Edited, SameSlots, IsPool
  <2> HIDE DEF f
  <2> QED
    BY <2>2, <2>3, <2>4, PutEdits
<1>5. /\ Edited(es, Renewed(es, c), c)
      /\ c \in DOMAIN es => LET y == Renewed(es, c)[c]
                            IN  /\ y.disabled = es[c].disabled /\ y.max = es[c].max
                                /\ y.throttled = es[c].throttled
                                /\ y.failures = es[c].failures
  <2> DEFINE e == [es[c] EXCEPT !.refreshFailures = 0]
  <2>1. c \in DOMAIN es =>
          /\ e \in Entry /\ e.active = es[c].active /\ e.max = es[c].max
          /\ e.disabled = es[c].disabled /\ e.throttled = es[c].throttled
          /\ e.failures = es[c].failures
    BY <1>1, <1>3
  <2>2. Renewed(es, c) = Put(es, c, e)
    BY DEF Renewed
  <2> HIDE DEF e
  <2> QED
    BY <2>1, <2>2, PutEdits DEF Put
<1> QED
  BY <1>4, <1>5

\* Self-healing of an entry.
LEMMA HealedEntry ==
  ASSUME NEW e \in Entry
  PROVE  LET h == [e EXCEPT !.disabled = FALSE, !.reason = None, !.failures = 0]
         IN  /\ h \in Entry /\ h.active = e.active
             /\ h.throttled = e.throttled /\ ~h.disabled /\ h.failures = 0
BY DEF Entry, Reasons, None

\* Self-healing makes no credential worse.
LEMMA AutohealSpares ==
  ASSUME NEW es, IsPool(es)
  PROVE  /\ SameSlots(es, Autoheal(es))
         /\ \A d \in DOMAIN es :
              /\ Autoheal(es)[d].throttled = es[d].throttled
              /\ Autoheal(es)[d].disabled => es[d].disabled
              /\ Autoheal(es)[d].failures \in {0, es[d].failures}
<1>1. ASSUME NEW d \in DOMAIN es
      PROVE  LET e == [es[d] EXCEPT !.disabled = FALSE, !.reason = None,
                                    !.failures = 0]
             IN  /\ e \in Entry /\ e.active = es[d].active
                 /\ e.throttled = es[d].throttled /\ ~e.disabled /\ e.failures = 0
  <2>1. es[d] \in Entry
    BY DEF IsPool
  <2> QED
    BY ONLY <2>1, HealedEntry
<1> QED
  BY <1>1 DEF Autoheal, SameSlots, IsPool

\* Taking a slot adds one to the credential it is taken of.
LEMMA OccupyCounts ==
  ASSUME NEW es, IsPool(es), NEW c \in DOMAIN es
  PROVE  /\ IsPool(Occupy(es, c))
         /\ DOMAIN Occupy(es, c) = DOMAIN es
         /\ \A d \in DOMAIN es : Occupy(es, c)[d].active =
              IF d = c THEN es[d].active + 1 ELSE es[d].active
<1> DEFINE e == [es[c] EXCEPT !.active = @ + 1]
<1>1. e \in Entry /\ e.active = es[c].active + 1
  BY DEF IsPool, Entry
<1> HIDE DEF e
<1>2. Occupy(es, c) = Put(es, c, e)
  BY DEF Occupy, e
<1> QED
  BY <1>1, <1>2 DEF IsPool, Put

\* Releasing one takes one from it if it is there and has any.
LEMMA ReleaseCounts ==
  ASSUME NEW es, IsPool(es), NEW c
  PROVE  /\ IsPool(ReleaseSlot(es, c))
         /\ DOMAIN ReleaseSlot(es, c) = DOMAIN es
         /\ \A d \in DOMAIN es : ReleaseSlot(es, c)[d].active =
              IF d = c /\ es[d].active > 0 THEN es[d].active - 1
              ELSE es[d].active
<1> DEFINE e == [es[c] EXCEPT !.active = IF @ > 0 THEN @ - 1 ELSE 0]
<1>1. c \in DOMAIN es =>
        /\ e \in Entry
        /\ e.active = IF es[c].active > 0 THEN es[c].active - 1
                      ELSE es[c].active
  BY DEF IsPool, Entry
<1> HIDE DEF e
<1>2. ReleaseSlot(es, c) = Put(es, c, e)
  BY DEF ReleaseSlot, e
<1> QED
  BY <1>1, <1>2 DEF IsPool, Put

-----------------------------------------------------------------------------
(* The accounts. *)

\* Where a request holds a slot.
Held == {"call", "refresh", "backoff", "stream"}

\* Who holds a slot of c.
HoldersOf(c) == {r \in Requests : guard[r] = c}

\* The inductive invariant: the accounts, and the types they rest on.
Inv ==
  /\ IsPool(entries)
  /\ pc \in [Requests -> PCs]
  /\ guard \in [Requests -> Ids \cup {NoId}]
  /\ \A r \in Requests : guard[r] # NoId <=> pc[r] \in Held
  /\ \A c \in DOMAIN entries : entries[c].active = Cardinality(HoldersOf(c))

LEMMA InvReturned == Inv => SlotsReturned
BY DEF Inv, SlotsReturned, HoldersOf, Held

-----------------------------------------------------------------------------
(* Counting. *)

LEMMA HoldersFinite ==
  ASSUME NEW c
  PROVE  IsFiniteSet(HoldersOf(c)) /\ Cardinality(HoldersOf(c)) \in Nat
<1>1. HoldersOf(c) \subseteq Requests
  BY DEF HoldersOf
<1> QED
  BY <1>1, CallAssumption, FS_Subset, FS_CardinalityType

\* A step that moves no guard and takes and returns no slot.
LEMMA QuietStep ==
  ASSUME Inv, NEW r \in Requests, NEW label \in PCs,
         SameSlots(entries, entries'), UNCHANGED guard,
         Goto(r, label), label \in Held <=> pc[r] \in Held
  PROVE  Inv'
<1>1. \A c : HoldersOf(c)' = HoldersOf(c)
  BY DEF HoldersOf
<1>2. /\ IsPool(entries') /\ DOMAIN entries' = DOMAIN entries
      /\ \A c \in DOMAIN entries : entries'[c].active = entries[c].active
  BY DEF SameSlots
<1>3. /\ pc' \in [Requests -> PCs]
      /\ \A q \in Requests : guard'[q] # NoId <=> pc'[q] \in Held
  BY DEF Inv, Goto
<1> QED
  BY <1>1, <1>2, <1>3 DEF Inv

\* Taking a slot of a credential in the pool, with a guard.
LEMMA TakeStep ==
  ASSUME Inv, NEW r \in Requests, NEW c \in DOMAIN entries, pc[r] = "acquire",
         NEW es, SameSlots(entries, es),
         entries' = Occupy(es, c), guard' = [guard EXCEPT ![r] = c],
         Goto(r, "call")
  PROVE  Inv'
<1>1. /\ IsPool(entries) /\ c \in Ids /\ c # NoId /\ guard[r] = NoId
      /\ guard \in [Requests -> Ids \cup {NoId}]
  BY IdsAssumption DEF Inv, IsPool, Held
<1>2. /\ pc' \in [Requests -> PCs]
      /\ guard' \in [Requests -> Ids \cup {NoId}]
      /\ \A q \in Requests : guard'[q] # NoId <=> pc'[q] \in Held
  BY <1>1 DEF Inv, Goto, Held, PCs
<1>3. /\ IsPool(entries') /\ DOMAIN entries' = DOMAIN entries
      /\ \A d \in DOMAIN entries : entries'[d].active =
           IF d = c THEN entries[d].active + 1 ELSE entries[d].active
  <2>1. /\ IsPool(es) /\ DOMAIN es = DOMAIN entries
        /\ \A d \in DOMAIN entries : es[d].active = entries[d].active
    BY DEF SameSlots
  <2>2. /\ IsPool(Occupy(es, c)) /\ DOMAIN Occupy(es, c) = DOMAIN es
        /\ \A d \in DOMAIN es : Occupy(es, c)[d].active =
             IF d = c THEN es[d].active + 1 ELSE es[d].active
    BY <2>1, OccupyCounts
  <2> QED
    BY <2>1, <2>2
<1>4. ASSUME NEW d \in DOMAIN entries
      PROVE  entries'[d].active = Cardinality(HoldersOf(d)')
  <2>1. entries[d].active = Cardinality(HoldersOf(d)) /\ d \in Ids /\ d # NoId
    BY <1>1, IdsAssumption DEF Inv, IsPool
  <2>2. CASE d = c
    <3>1. HoldersOf(d)' = HoldersOf(d) \cup {r} /\ r \notin HoldersOf(d)
      BY <2>1, <2>2, <1>1 DEF HoldersOf
    <3>2. Cardinality(HoldersOf(d)') = Cardinality(HoldersOf(d)) + 1
      BY ONLY <3>1, HoldersFinite, FS_AddElement
    <3> QED
      BY <2>1, <2>2, <3>2, <1>3
  <2>3. CASE d # c
    <3>1. HoldersOf(d)' = HoldersOf(d)
      BY <2>1, <2>3, <1>1 DEF HoldersOf
    <3> QED
      BY <2>1, <2>3, <3>1, <1>3
  <2> QED
    BY <2>2, <2>3
<1> QED
  BY <1>2, <1>3, <1>4 DEF Inv

\* Leaving an iteration, after a report that touches no slot.  Without a guard
\* there is nothing to return.
LEMMA LeaveStep ==
  ASSUME Inv, NEW r \in Requests, NEW es, SameSlots(entries, es),
         NEW label \in PCs \ Held, NEW n, Leave(r, es, label, n)
  PROVE  Inv'
<1> DEFINE g == guard[r]
<1>1. /\ g \in Ids \cup {NoId} /\ IsPool(entries)
      /\ guard \in [Requests -> Ids \cup {NoId}] /\ guard' = [guard EXCEPT ![r] = NoId]
      /\ entries' = ReleaseSlot(es, g) /\ pc' = [pc EXCEPT ![r] = label]
  BY DEF Inv, Leave, Goto
<1>2. /\ IsPool(es) /\ DOMAIN es = DOMAIN entries
      /\ \A c \in DOMAIN entries : es[c].active = entries[c].active
  BY DEF SameSlots
<1>3. /\ IsPool(entries') /\ DOMAIN entries' = DOMAIN entries
      /\ \A d \in DOMAIN entries : entries'[d].active =
           IF d = g /\ entries[d].active > 0 THEN entries[d].active - 1
           ELSE entries[d].active
  BY <1>1, <1>2, ReleaseCounts
<1>4. /\ pc' \in [Requests -> PCs]
      /\ guard' \in [Requests -> Ids \cup {NoId}]
      /\ \A q \in Requests : guard'[q] # NoId <=> pc'[q] \in Held
  BY <1>1 DEF Inv
<1> HIDE DEF g
<1>5. ASSUME NEW d \in DOMAIN entries
      PROVE  entries'[d].active = Cardinality(HoldersOf(d)')
  <2>1. entries[d].active = Cardinality(HoldersOf(d)) /\ d \in Ids /\ d # NoId
    BY <1>1, IdsAssumption DEF Inv, IsPool
  <2>2. CASE d = g
    <3>1. HoldersOf(d)' = HoldersOf(d) \ {r} /\ r \in HoldersOf(d)
      BY <2>1, <2>2, <1>1 DEF HoldersOf, g
    <3>2. Cardinality(HoldersOf(d)') = Cardinality(HoldersOf(d)) - 1
      BY ONLY <3>1, HoldersFinite, FS_RemoveElement
    <3>3. Cardinality(HoldersOf(d)) > 0
      <4>1. Cardinality(HoldersOf(d)) # 0
        BY <3>1, HoldersFinite, FS_EmptySet
      <4> QED
        BY <4>1, HoldersFinite
    <3> QED
      BY <2>1, <2>2, <3>2, <3>3, <1>3
  <2>3. CASE d # g
    <3>1. HoldersOf(d)' = HoldersOf(d)
      BY <2>1, <2>3, <1>1 DEF HoldersOf, g
    <3> QED
      BY <2>1, <2>3, <3>1, <1>3
  <2> QED
    BY <2>2, <2>3
<1> QED
  BY <1>3, <1>4, <1>5 DEF Inv

-----------------------------------------------------------------------------
(* The frame of the loop, whichever way an iteration ends. *)

LEMMA NextAttemptKeeps ==
  ASSUME Inv, NEW r \in Requests, NEW es, SameSlots(entries, es),
         NextAttempt(r, es)
  PROVE  Inv'
<1>1. "acquire" \in PCs \ Held
  BY DEF PCs, Held
<1> QED
  BY <1>1, LeaveStep DEF NextAttempt

LEMMA ReturnKeeps ==
  ASSUME Inv, NEW r \in Requests, NEW es, SameSlots(entries, es),
         NEW label \in Over, Return(r, es, label)
  PROVE  Inv'
<1>1. label \in PCs \ Held
  BY DEF PCs, Held, Over
<1> QED
  BY <1>1, LeaveStep DEF Return

LEMMA BlameKeeps ==
  ASSUME Inv, NEW r \in Requests, NEW es, SameSlots(entries, es), Blame(r, es)
  PROVE  Inv'
<1>1. "failed" \in Over
  BY DEF Over
<1> QED
  BY <1>1, NextAttemptKeeps, ReturnKeeps DEF Blame

\* A request that waits for a credential, and one that holds a slot.
LEMMA Places ==
  /\ \A x \in {"call", "refresh", "backoff", "stream"} : x \in PCs /\ x \in Held
  /\ \A x \in {"idle", "acquire"} : x \in PCs /\ x \notin Held
  /\ \A x \in {"failed", "busy", "rejected", "done"} : x \in Over
BY DEF PCs, Held, Over

\* A step that leaves the request where it is.
LEMMA StayKeeps ==
  ASSUME Inv, SameSlots(entries, entries'), UNCHANGED <<pc, guard>>
  PROVE  Inv'
<1>1. \A c : HoldersOf(c)' = HoldersOf(c)
  BY DEF HoldersOf
<1> QED
  BY <1>1 DEF Inv, SameSlots

LEMMA InitInv == Init => Inv
<1> SUFFICES ASSUME Init PROVE Inv
  OBVIOUS
<1>1. IsPool(entries) /\ \A c \in DOMAIN entries : c \in Ids /\ entries[c].active = 0
  BY PoolsAssumption DEF Init, IsPool
<1>2. \A r \in Requests : guard[r] = NoId /\ pc[r] \notin Held
  BY DEF Init, Held
<1>3. ASSUME NEW c \in DOMAIN entries
      PROVE  Cardinality(HoldersOf(c)) = 0
  <2>1. c # NoId
    BY <1>1, IdsAssumption
  <2>2. HoldersOf(c) = {}
    BY <1>2, <2>1 DEF HoldersOf
  <2> QED
    BY ONLY <2>2, FS_EmptySet
<1>4. pc \in [Requests -> PCs] /\ guard \in [Requests -> Ids \cup {NoId}]
  BY Places DEF Init
<1> QED
  BY <1>1, <1>2, <1>3, <1>4 DEF Inv

LEMMA NextInv == Inv /\ [Next]_vars => Inv'
<1> SUFFICES ASSUME Inv, [Next]_vars PROVE Inv'
  OBVIOUS
<1>same. SameSlots(entries, entries)
  BY DEF Inv, SameSlots
<1>reports. ASSUME NEW c
            PROVE  /\ SameSlots(entries, Fail(entries, c))
                   /\ SameSlots(entries, ExhaustQuota(entries, c))
                   /\ SameSlots(entries, InvalidateRefreshToken(entries, c))
                   /\ SameSlots(entries, Throttle(entries, c))
                   /\ SameSlots(entries, Succeed(entries, c))
                   /\ SameSlots(entries, FailRefresh(entries, c))
                   /\ SameSlots(entries, Renewed(entries, c))
  BY SucceedEdits, FailEdits, ReportsEdit, RefreshEdits DEF Inv, Edited
<1>1. CASE UNCHANGED vars
  <2>1. UNCHANGED <<entries, pc, guard>>
    BY <1>1 DEF vars, loop
  <2>2. \A c : HoldersOf(c)' = HoldersOf(c)
    BY <2>1 DEF HoldersOf
  <2> QED
    BY <2>1, <2>2 DEF Inv
<1>2. ASSUME NEW r \in Requests, Step(r)
      PROVE  Inv'
  <2>1. CASE Begin(r)
    <3>1. SameSlots(entries, entries') /\ UNCHANGED guard
      BY <2>1, <1>same DEF Begin
    <3>2. Goto(r, "acquire") /\ pc[r] = "idle"
      BY <2>1 DEF Begin
    <3> QED
      BY <3>1, <3>2, Places, QuietStep
  <2>2. CASE GiveUp(r)
    BY <2>2, <1>same, Places, ReturnKeeps DEF GiveUp
  <2>3. CASE Acquire(r)
    <3>1. PICK c \in Choices(r) : entries' = Occupy(Renewed(entries, c), c)
                                  /\ guard' = [guard EXCEPT ![r] = c]
      BY <2>3 DEF Acquire
    <3>2. Choices(r) \subseteq DOMAIN entries
      BY DEF Choices, BestChoices, Candidates, AvailableIds
    <3>3. pc[r] = "acquire" /\ Goto(r, "call")
      BY <2>3 DEF Acquire, Acquiring
    <3>4. SameSlots(entries, Renewed(entries, c))
      BY <1>reports
    <3> QED
      BY <3>1, <3>2, <3>3, <3>4, TakeStep
  <2>4. CASE AcquireFails(r)
    <3>1. PICK es : /\ \E c : es \in {InvalidateRefreshToken(entries, c),
                                      FailRefresh(entries, c)}
                    /\ IF AnyEnabled(es)
                       THEN entries' = es /\ UNCHANGED <<pc, attempt, guard, token>>
                       ELSE NextAttempt(r, es)
      BY <2>4, Zenon DEF AcquireFails
    <3>2. SameSlots(entries, es)
      BY <3>1, <1>reports
    <3>3. CASE AnyEnabled(es)
      <4>1. SameSlots(entries, entries') /\ UNCHANGED <<pc, guard>>
        BY <3>1, <3>2, <3>3
      <4> QED
        BY <4>1, StayKeeps
    <3>4. CASE ~AnyEnabled(es)
      BY <3>1, <3>2, <3>4, NextAttemptKeeps
    <3> QED
      BY <3>3, <3>4
  <2>5. CASE FindFull(r)
    BY <2>5, <1>same, Places, ReturnKeeps, NextAttemptKeeps DEF FindFull
  <2>6. CASE FindNone(r)
    <3>1. CASE AutoDisabled(entries) # {}
      <4>1. SameSlots(entries, entries') /\ UNCHANGED <<pc, guard>>
        BY <2>6, <3>1, AutohealSpares DEF FindNone, Inv
      <4> QED
        BY <4>1, StayKeeps
    <3>2. CASE AutoDisabled(entries) = {}
      BY <2>6, <3>2, <1>same, NextAttemptKeeps DEF FindNone
    <3> QED
      BY <3>1, <3>2
  <2>7. CASE Succeeds(r)
    <3>1. CASE Kind[r] = "mcp"
      BY <2>7, <3>1, <1>reports, Places, ReturnKeeps DEF Succeeds
    <3>2. CASE Kind[r] # "mcp"
      <4>1. SameSlots(entries, entries') /\ UNCHANGED guard
        BY <2>7, <3>2, <1>reports DEF Succeeds
      <4>2. Goto(r, "stream") /\ pc[r] = "call"
        BY <2>7, <3>2 DEF Succeeds, Answered
      <4> QED
        BY <4>1, <4>2, Places, QuietStep
    <3> QED
      BY <3>1, <3>2
  <2>8. CASE Rejected(r)
    BY <2>8, <1>same, Places, ReturnKeeps DEF Rejected
  <2>9. CASE QuotaExhausted(r)
    BY <2>9, <1>reports, BlameKeeps DEF QuotaExhausted
  <2>10. CASE Denied(r)
    BY <2>10, <1>reports, BlameKeeps DEF Denied
  <2>11. CASE NoEndpoint(r)
    BY <2>11, <1>reports, NextAttemptKeeps DEF NoEndpoint
  <2>12. CASE AccountThrottled(r)
    BY <2>12, <1>reports, Places, ReturnKeeps, NextAttemptKeeps DEF AccountThrottled
  <2>13. CASE ForceRefresh(r)
    <3>1. SameSlots(entries, entries') /\ UNCHANGED guard
      BY <2>13, <1>same DEF ForceRefresh
    <3>2. Goto(r, "refresh") /\ pc[r] = "call"
      BY <2>13 DEF ForceRefresh, Answered
    <3> QED
      BY <3>1, <3>2, Places, QuietStep
  <2>14. CASE Renew(r)
    BY <2>14, <1>reports, NextAttemptKeeps DEF Renew
  <2>15. CASE RenewFails(r)
    BY <2>15, <1>reports, BlameKeeps DEF RenewFails
  <2>16. CASE Stumble(r)
    <3>1. CASE attempt[r] + 1 < budget[r]
      <4>1. SameSlots(entries, entries') /\ UNCHANGED guard
        BY <2>16, <3>1, <1>same DEF Stumble
      <4>2. Goto(r, "backoff") /\ pc[r] = "call"
        BY <2>16, <3>1 DEF Stumble, Answered
      <4> QED
        BY <4>1, <4>2, Places, QuietStep
    <3>2. CASE ~(attempt[r] + 1 < budget[r])
      BY <2>16, <3>2, <1>same, Places, ReturnKeeps DEF Stumble
    <3> QED
      BY <3>1, <3>2
  <2>17. CASE Wake(r)
    BY <2>17, <1>same, NextAttemptKeeps DEF Wake
  <2>18. CASE Finish(r)
    BY <2>18, <1>same, Places, ReturnKeeps DEF Finish
  <2>19. CASE NoClient(r)
    BY <2>19, <1>same, Places, ReturnKeeps DEF NoClient
  <2> QED
    BY <1>2, <2>1, <2>2, <2>3, <2>4, <2>5, <2>6, <2>7, <2>8, <2>9, <2>10,
       <2>11, <2>12, <2>13, <2>14, <2>15, <2>16, <2>17, <2>18, <2>19 DEF Step
<1> QED
  BY <1>1, <1>2 DEF Next, Finished

\* Each path out of an iteration, of however many requests over however many
\* credentials, gives its slot back exactly once (provider.rs:568).
THEOREM EverySlotReturned == Spec => []SlotsReturned
<1>1. Spec => []Inv
  BY InitInv, NextInv, PTL DEF Spec
<1> QED
  BY <1>1, InvReturned, PTL

-----------------------------------------------------------------------------
(* Blame.  A good credential is failed by a request only where the renewal *)
(* of its token is refused, since another one was faster; once each, and   *)
(* the fastest not at all.  So MaxFailures requests are not enough to      *)
(* disable it (one more may be, see RevokedSurvives in MCCallRetry).  That *)
(* is so until a renewal fails that the server should have granted: then   *)
(* nothing is said of the credential any more (see OutagesForgiven).       *)

Good == {"ok", "flaky", "revoked", "lapsed"}

\* The pools a start leaves, as far as good credentials go.
FreshPools ==
  \A pool \in Pools : \A c \in DOMAIN pool :
    ~pool[c].disabled /\ ~pool[c].throttled /\ pool[c].failures = 0

\* Or nobody's access token is revoked.
FewCalls ==
  \/ Cardinality(Requests) <= MaxFailures
  \/ \A cast \in Casts : \A c \in Ids : cast[c] # "revoked"

\* The requests that have been through a renewal of the token of c.
Tried(c) == {r \in Requests : c \in refreshed[r] /\ ~(pc[r] = "refresh" /\ guard[r] = c)}

\* What a request knows of the token in its hands.
TokenKnown(r) ==
  /\ pc[r] \in {"call", "refresh"} => token[r] <= issued[guard[r]]
  /\ pc[r] = "refresh" => guard[r] \in refreshed[r]
  /\ \A c \in refreshed[r] : persona[c] \in {"revoked", "stuck"}

\* The token it comes back with from a renewal is not the old one.
TokenNew(r) ==
  pc[r] = "call" /\ guard[r] \in refreshed[r] /\ guard[r] \notin outages
  /\ persona[guard[r]] = "revoked" => token[r] # 0

\* A good credential is not disabled, and each failure counted against it and each
\* renewal of its token is by another request.
Spared(c) ==
  persona[c] \in Good /\ c \notin outages =>
    /\ ~entries[c].disabled /\ ~entries[c].throttled
    /\ IF persona[c] = "revoked"
       THEN /\ Tried(c) # {} => issued[c] # 0
            /\ entries[c].failures + issued[c] <= Cardinality(Tried(c))
       ELSE entries[c].failures = 0

\* The inductive invariant.
BlameInv ==
  /\ Inv
  /\ persona \in Casts
  /\ refreshed \in [Requests -> SUBSET Ids]
  /\ issued \in [Ids -> Nat] /\ token \in [Requests -> Nat]
  /\ \A r \in Requests : TokenKnown(r) /\ TokenNew(r)
  /\ \A c \in DOMAIN entries : Spared(c)

\* A step from es to fs counts nothing against good credentials.
Unharmed(es, fs) ==
  \A c \in DOMAIN es : persona[c] \in Good /\ c \notin outages' =>
    /\ fs[c].disabled => es[c].disabled
    /\ fs[c].throttled => es[c].throttled
    /\ fs[c].failures \in {0, es[c].failures}

\* Slots have nothing to do with blame.
LEMMA SlotsUnharmed ==
  ASSUME NEW es, IsPool(es), NEW c, NEW d \in DOMAIN es
  PROVE  /\ Occupy(es, c)[d].disabled = es[d].disabled
         /\ Occupy(es, c)[d].throttled = es[d].throttled
         /\ Occupy(es, c)[d].failures = es[d].failures
         /\ ReleaseSlot(es, c)[d].disabled = es[d].disabled
         /\ ReleaseSlot(es, c)[d].throttled = es[d].throttled
         /\ ReleaseSlot(es, c)[d].failures = es[d].failures
BY DEF IsPool, Entry, Occupy, ReleaseSlot, Put

LEMMA TriedFinite ==
  ASSUME NEW c
  PROVE  /\ IsFiniteSet(Tried(c)) /\ Cardinality(Tried(c)) \in Nat
         /\ Cardinality(Tried(c)) <= Cardinality(Requests)
<1>1. Tried(c) \subseteq Requests
  BY DEF Tried
<1> QED
  BY <1>1, CallAssumption, FS_Subset, FS_CardinalityType

\* Which answers say what of the credential.
LEMMA AnswersTell ==
  ASSUME BlameInv, NEW r \in Requests, pc[r] = "call"
  PROVE  /\ persona[guard[r]] \in Good =>
              Answers(r) \cap {"denied", "no endpoint", "quota", "suspicious"} = {}
         /\ "invalid token" \in Answers(r) =>
              \/ persona[guard[r]] = "stuck"
              \/ persona[guard[r]] = "revoked" /\ token[r] = 0
<1> DEFINE who == persona[guard[r]]
           fine == IF r \in malformed THEN "bad request" ELSE "success"
<1>1. who \in Personas
  <2>1. guard[r] \in Ids
    BY DEF BlameInv, Inv, Held
  <2> QED
    BY <2>1, CastAssumption DEF BlameInv
<1>2. /\ who = "flaky" => Answers(r) = {fine, "transient", "gateway timeout"}
      /\ who = "revoked" /\ token[r] = 0 => Answers(r) = {"invalid token"}
      /\ who = "revoked" /\ token[r] # 0 => Answers(r) = {fine}
      /\ who = "stuck" => Answers(r) = {"invalid token"}
      /\ who = "forbidden" => Answers(r) = {"denied"}
      /\ who = "no endpoint" => Answers(r) = {"no endpoint"}
      /\ who = "spent" => Answers(r) = {"quota"}
      /\ who = "limited" => Answers(r) = {"suspicious"}
      /\ who = "no client" => Answers(r) = {}
      /\ who \in {"ok", "lapsed", "dead"} => Answers(r) = {fine}
  BY <1>1 DEF Answers, Personas
<1>3. fine \in {"bad request", "success"}
  OBVIOUS
<1> HIDE DEF who, fine
<1>4. who \in Good => Answers(r) \cap {"denied", "no endpoint", "quota", "suspicious"} = {}
  BY <1>2, <1>3 DEF Good
<1>5. ASSUME "invalid token" \in Answers(r)
      PROVE  who = "stuck" \/ (who = "revoked" /\ token[r] = 0)
  <2>1. fine # "invalid token"
    BY <1>3
  <2>2. who \notin {"flaky", "ok", "lapsed", "dead", "no client"}
    <3>1. who # "flaky"
      BY <1>2, <1>5, <2>1
    <3>2. who \notin {"ok", "lapsed", "dead"}
      BY <1>2, <1>5, <2>1
    <3>3. who # "no client"
      BY <1>2, <1>5
    <3> QED
      BY <3>1, <3>2, <3>3
  <2>3. who \notin {"forbidden", "no endpoint", "spent", "limited"}
    <3>1. /\ "invalid token" # "denied" /\ "invalid token" # "no endpoint"
          /\ "invalid token" # "quota" /\ "invalid token" # "suspicious"
      OBVIOUS
    <3>2. who # "forbidden" /\ who # "no endpoint"
      BY <1>2, <1>5, <3>1
    <3>3. who # "spent" /\ who # "limited"
      BY <1>2, <1>5, <3>1
    <3> QED
      BY <3>2, <3>3
  <2>4. who = "stuck" \/ who = "revoked"
    BY <1>1, <2>2, <2>3 DEF Personas
  <2>5. who = "revoked" => token[r] = 0
    BY <1>2, <1>5, <2>1
  <2> QED
    BY <2>4, <2>5
<1> QED
  BY <1>4, <1>5 DEF who

\* What is counted against a good credential that is not harmed.
LEMMA SparedStays ==
  ASSUME BlameInv, NEW c \in DOMAIN entries, DOMAIN entries' = DOMAIN entries,
         Unharmed(entries, entries'), UNCHANGED persona, outages \subseteq outages',
         persona[c] = "revoked" => issued'[c] = issued[c], Tried(c)' = Tried(c)
  PROVE  Spared(c)'
<1>1. c \in Ids /\ entries[c].failures \in Nat /\ issued[c] \in Nat /\ Spared(c)
  BY DEF BlameInv, Inv, IsPool, Entry
<1>2. Cardinality(Tried(c)) \in Nat
  BY TriedFinite
<1>3. persona[c] \in Good /\ c \notin outages' =>
        /\ ~entries'[c].disabled /\ ~entries'[c].throttled
        /\ entries'[c].failures \in {0, entries[c].failures}
  BY <1>1 DEF Unharmed, Spared
<1>4. Cardinality(Tried(c)') = Cardinality(Tried(c))
  BY Zenon
<1>5. persona[c] \in Good /\ c \notin outages' =>
        IF persona[c] = "revoked"
        THEN entries'[c].failures + issued[c] <= Cardinality(Tried(c))
        ELSE entries'[c].failures = 0
  BY <1>1, <1>2, <1>3 DEF Spared
<1> QED
  BY <1>1, <1>3, <1>4, <1>5 DEF Spared

\* A step that harms nobody and neither begins nor ends a call or a renewal.
LEMMA MoveSpares ==
  ASSUME BlameInv, Inv', NEW r \in Requests, NEW label, label \notin {"call", "refresh"},
         pc[r] # "refresh", pc' = [pc EXCEPT ![r] = label],
         guard' \in {guard, [guard EXCEPT ![r] = NoId]},
         token' \in {token, [token EXCEPT ![r] = 0]},
         UNCHANGED <<persona, refreshed, issued>>, outages \subseteq outages',
         DOMAIN entries' = DOMAIN entries, Unharmed(entries, entries')
  PROVE  BlameInv'
<1>1. /\ pc \in [Requests -> PCs] /\ guard \in [Requests -> Ids \cup {NoId}]
      /\ token \in [Requests -> Nat]
  BY DEF BlameInv, Inv
<1>2. /\ pc'[r] \notin {"call", "refresh"}
      /\ \A q \in Requests \ {r} : pc'[q] = pc[q] /\ guard'[q] = guard[q] /\ token'[q] = token[q]
  BY <1>1
<1>3. ASSUME NEW q \in Requests
      PROVE  TokenKnown(q)' /\ TokenNew(q)'
  BY <1>2 DEF BlameInv, TokenKnown, TokenNew
<1>4. ASSUME NEW c
      PROVE  Tried(c)' = Tried(c)
  BY <1>2 DEF Tried
<1>5. ASSUME NEW c \in DOMAIN entries
      PROVE  Spared(c)'
  BY <1>4, SparedStays
<1>6. token' \in [Requests -> Nat]
  BY <1>1
<1> QED
  BY <1>3, <1>5, <1>6 DEF BlameInv

\* A step that leaves all requests where they are.
LEMMA StaySpares ==
  ASSUME BlameInv, Inv', UNCHANGED <<pc, guard, token, persona, refreshed, issued>>,
         outages \subseteq outages',
         DOMAIN entries' = DOMAIN entries, Unharmed(entries, entries')
  PROVE  BlameInv'
<1>1. ASSUME NEW c \in DOMAIN entries
      PROVE  Spared(c)'
  <2>1. Tried(c)' = Tried(c)
    BY DEF Tried
  <2> QED
    BY <2>1, SparedStays
<1>2. ASSUME NEW q \in Requests
      PROVE  TokenKnown(q)' /\ TokenNew(q)'
  BY DEF BlameInv, TokenKnown, TokenNew
<1> QED
  BY <1>1, <1>2 DEF BlameInv

\* The end of an iteration.
LEMMA LeaveSpares ==
  ASSUME BlameInv, Inv', NEW r \in Requests, NEW label, label \notin {"call", "refresh"}, NEW n,
         NEW es, SameSlots(entries, es), Unharmed(entries, es),
         pc[r] # "refresh", Leave(r, es, label, n), outages \subseteq outages',
         UNCHANGED <<persona, refreshed, issued>>
  PROVE  BlameInv'
<1>1. /\ entries' = ReleaseSlot(es, guard[r]) /\ pc' = [pc EXCEPT ![r] = label]
      /\ guard' = [guard EXCEPT ![r] = NoId] /\ token' = [token EXCEPT ![r] = 0]
  BY DEF Leave, Goto
<1>2. IsPool(es) /\ DOMAIN es = DOMAIN entries
  BY DEF SameSlots
<1>3. Unharmed(entries, entries')
  BY <1>1, <1>2, SlotsUnharmed DEF Unharmed
<1>4. DOMAIN entries' = DOMAIN entries
  BY <1>1, <1>2, ReleaseCounts
<1> QED
  BY <1>1, <1>3, <1>4, MoveSpares

LEMMA OnwardsSpares ==
  ASSUME BlameInv, Inv', NEW r \in Requests, NEW es, SameSlots(entries, es),
         Unharmed(entries, es), pc[r] # "refresh", outages \subseteq outages',
         UNCHANGED <<persona, refreshed, issued>>
  PROVE  /\ NextAttempt(r, es) => BlameInv'
         /\ \A label \in Over : Return(r, es, label) => BlameInv'
         /\ Blame(r, es) => BlameInv'
<1>1. /\ \A label \in Over : label \notin {"call", "refresh"}
      /\ "acquire" \notin {"call", "refresh"} /\ "failed" \in Over
  BY DEF Over
<1>2. NextAttempt(r, es) => BlameInv'
  BY <1>1, LeaveSpares DEF NextAttempt
<1>3. \A label \in Over : Return(r, es, label) => BlameInv'
  BY <1>1, LeaveSpares DEF Return
<1> QED
  BY <1>1, <1>2, <1>3 DEF Blame

\* A report on a credential that is not good, or not of an undisturbed one.
LEMMA ReportSpares ==
  ASSUME NEW fs, NEW c, Edited(entries, fs, c),
         c \in DOMAIN entries => persona[c] \notin Good \/ c \in outages'
  PROVE  SameSlots(entries, fs) /\ Unharmed(entries, fs)
BY DEF Edited, Unharmed

LEMMA AcquireSpares ==
  ASSUME BlameInv, Inv', NEW r \in Requests, Acquire(r)
  PROVE  BlameInv'
<1>c. PICK c \in Choices(r) :
            /\ persona[c] # "dead"
            /\ entries' = Occupy(Renewed(entries, c), c)
            /\ guard' = [guard EXCEPT ![r] = c]
            /\ issued' = [issued EXCEPT ![c] = IF Expired(c) THEN 1 ELSE issued[c]]
            /\ token' = [token EXCEPT ![r] = IF Expired(c) THEN 1 ELSE issued[c]]
  BY Zenon DEF Acquire
<1>m. PICK n : n = IF Expired(c) THEN 1 ELSE issued[c]
  OBVIOUS
<1>1. /\ n = IF Expired(c) THEN 1 ELSE issued[c]
      /\ persona[c] # "dead"
      /\ entries' = Occupy(Renewed(entries, c), c)
      /\ guard' = [guard EXCEPT ![r] = c]
      /\ issued' = [issued EXCEPT ![c] = n]
      /\ token' = [token EXCEPT ![r] = n]
  BY <1>c, <1>m
<1>2. /\ pc[r] = "acquire" /\ pc' = [pc EXCEPT ![r] = "call"]
      /\ UNCHANGED <<persona, refreshed, outages>>
  BY DEF Acquire, Acquiring, Goto
<1>3. c \in DOMAIN entries /\ c \in Ids
  BY DEF Choices, BestChoices, Candidates, AvailableIds, BlameInv, Inv, IsPool
<1>4. /\ IsPool(entries) /\ pc \in [Requests -> PCs] /\ guard \in [Requests -> Ids \cup {NoId}]
      /\ token \in [Requests -> Nat] /\ issued \in [Ids -> Nat]
  BY DEF BlameInv, Inv
<1>5. /\ pc'[r] = "call" /\ guard'[r] = c /\ token'[r] = n
      /\ \A q \in Requests \ {r} : pc'[q] = pc[q] /\ guard'[q] = guard[q] /\ token'[q] = token[q]
  BY <1>1, <1>2, <1>4
<1>n. /\ n \in Nat /\ issued[c] <= n /\ (persona[c] = "revoked" => n = issued[c])
      /\ issued' \in [Ids -> Nat] /\ issued'[c] = n
      /\ \A d \in Ids : /\ issued[d] <= issued'[d]
                        /\ persona[d] = "revoked" => issued'[d] = issued[d]
  BY <1>1, <1>3, <1>4 DEF Expired
<1>6. ASSUME NEW d
      PROVE  Tried(d)' = Tried(d)
  BY <1>2, <1>5 DEF Tried
<1>r. IsPool(Renewed(entries, c)) /\ DOMAIN Renewed(entries, c) = DOMAIN entries
  BY <1>4, RefreshEdits DEF Edited, SameSlots
<1>d. DOMAIN entries' = DOMAIN entries
  BY <1>1, <1>3, <1>r, OccupyCounts
<1>7. ASSUME NEW d \in DOMAIN entries
      PROVE  Spared(d)'
  <2>1. Unharmed(entries, entries')
    <3>1. \A x \in DOMAIN entries :
            LET e == Renewed(entries, c)[x]
            IN  /\ entries'[x].disabled = e.disabled
                /\ entries'[x].throttled = e.throttled /\ entries'[x].failures = e.failures
      BY <1>1, <1>r, SlotsUnharmed
    <3>2. \A x \in DOMAIN entries :
            LET e == Renewed(entries, c)[x]
            IN  /\ e.disabled = entries[x].disabled
                /\ e.throttled = entries[x].throttled /\ e.failures = entries[x].failures
      BY <1>4, RefreshEdits DEF Edited
    <3> QED
      BY <3>1, <3>2 DEF Unharmed
  <2>2. persona[d] = "revoked" => issued'[d] = issued[d]
    BY <1>4, <1>n DEF IsPool
  <2> QED
    BY <1>2, <1>6, <1>d, <2>1, <2>2, SparedStays
<1>8. TokenKnown(r)' /\ TokenNew(r)'
  <2>1. n <= issued'[c]
    BY <1>n
  <2>2. c \in refreshed[r] /\ c \notin outages /\ persona[c] = "revoked" => n # 0
    <3>1. c \in refreshed[r] => r \in Tried(c)
      BY <1>2 DEF Tried
    <3> QED
      BY <1>3, <1>n, <3>1 DEF BlameInv, Spared, Good
  <2> QED
    BY <1>2, <1>5, <2>1, <2>2 DEF BlameInv, TokenKnown, TokenNew
<1>9. ASSUME NEW q \in Requests, q # r
      PROVE  TokenKnown(q)' /\ TokenNew(q)'
  <2>1. pc[q] \in {"call", "refresh"} => guard[q] \in Ids
    BY DEF BlameInv, Inv, Held
  <2>2. pc[q] \in {"call", "refresh"} => token[q] <= issued'[guard[q]]
    <3>1. \A d \in Ids : issued[d] \in Nat /\ issued'[d] \in Nat /\ token[q] \in Nat
      BY <1>4, <1>n
    <3> QED
      BY <1>n, <2>1, <3>1 DEF BlameInv, TokenKnown
  <2>3. TokenKnown(q) /\ TokenNew(q)
    BY DEF BlameInv
  <2> QED
    BY <1>2, <1>5, <1>9, <2>2, <2>3 DEF TokenKnown, TokenNew
<1>10. token' \in [Requests -> Nat]
  BY <1>1, <1>4, <1>n
<1> QED
  BY <1>2, <1>7, <1>8, <1>9, <1>10, <1>n, <1>d DEF BlameInv

LEMMA ForceSpares ==
  ASSUME BlameInv, Inv', NEW r \in Requests, ForceRefresh(r)
  PROVE  BlameInv'
<1> DEFINE c == guard[r]
<1>1. /\ pc[r] = "call" /\ "invalid token" \in Answers(r) /\ c \notin refreshed[r]
      /\ refreshed' = [refreshed EXCEPT ![r] = @ \cup {c}]
      /\ token' = [token EXCEPT ![r] = issued[c]]
      /\ pc' = [pc EXCEPT ![r] = "refresh"]
      /\ UNCHANGED <<entries, guard, issued, persona, outages>>
  BY DEF ForceRefresh, Answered, Goto
<1>2. /\ pc \in [Requests -> PCs] /\ token \in [Requests -> Nat]
      /\ issued \in [Ids -> Nat] /\ refreshed \in [Requests -> SUBSET Ids]
      /\ c \in Ids
  BY <1>1 DEF BlameInv, Inv, Held
<1>3. persona[c] \in {"revoked", "stuck"}
  BY <1>1, AnswersTell
<1> HIDE DEF c
<1>4. /\ pc'[r] = "refresh" /\ guard'[r] = c /\ token'[r] = issued[c]
      /\ refreshed'[r] = refreshed[r] \cup {c}
      /\ \A q \in Requests \ {r} : /\ pc'[q] = pc[q] /\ guard'[q] = guard[q]
                                   /\ token'[q] = token[q] /\ refreshed'[q] = refreshed[q]
  BY <1>1, <1>2 DEF c
<1>5. ASSUME NEW d
      PROVE  Tried(d)' = Tried(d)
  <2>1. ASSUME NEW q \in Requests
        PROVE  q \in Tried(d)' <=> q \in Tried(d)
    <3>1. CASE q = r
      BY ONLY <1>1, <1>4, <3>1, q \in Requests DEF Tried, c
    <3>2. CASE q # r
      BY ONLY <1>4, <3>2, q \in Requests DEF Tried
    <3> QED
      BY ONLY <3>1, <3>2
  <2> QED
    BY ONLY <2>1 DEF Tried
<1>6. ASSUME NEW d \in DOMAIN entries
      PROVE  Spared(d)'
  <2>1. Unharmed(entries, entries') /\ DOMAIN entries' = DOMAIN entries
    BY <1>1 DEF Unharmed
  <2> QED
    BY <1>1, <1>5, <2>1, SparedStays
<1>7. TokenKnown(r)' /\ TokenNew(r)'
  <2>1. issued[c] \in Nat /\ issued[c] <= issued[c]
    BY <1>2
  <2> QED
    BY <1>1, <1>3, <1>4, <2>1 DEF BlameInv, TokenKnown, TokenNew
<1>8. ASSUME NEW q \in Requests, q # r
      PROVE  TokenKnown(q)' /\ TokenNew(q)'
  <2>1. /\ pc'[q] = pc[q] /\ guard'[q] = guard[q]
        /\ token'[q] = token[q] /\ refreshed'[q] = refreshed[q]
    BY <1>4, <1>8
  <2>2. TokenKnown(q) /\ TokenNew(q)
    BY DEF BlameInv
  <2> QED
    BY <1>1, <2>1, <2>2 DEF TokenKnown, TokenNew
<1>9. token' \in [Requests -> Nat] /\ refreshed' \in [Requests -> SUBSET Ids]
  BY <1>1, <1>2
<1> QED
  BY <1>1, <1>6, <1>7, <1>8, <1>9 DEF BlameInv

\* The end of a renewal is one more that was tried.
LEMMA RenewalTried ==
  ASSUME BlameInv, NEW r \in Requests, pc[r] = "refresh", NEW c, c = guard[r],
         NEW label, label # "refresh",
         pc' = [pc EXCEPT ![r] = label], guard' = [guard EXCEPT ![r] = NoId],
         UNCHANGED refreshed
  PROVE  /\ Tried(c)' = Tried(c) \cup {r}
         /\ Cardinality(Tried(c)') = Cardinality(Tried(c)) + 1
         /\ Cardinality(Tried(c)) + 1 <= Cardinality(Requests)
         /\ \A d : d # c => Tried(d)' = Tried(d)
<1>1. pc \in [Requests -> PCs] /\ guard \in [Requests -> Ids \cup {NoId}] /\ c \in refreshed[r]
  BY DEF BlameInv, Inv, TokenKnown
<1>2. /\ pc'[r] = label
      /\ \A q \in Requests \ {r} : pc'[q] = pc[q] /\ guard'[q] = guard[q]
  BY <1>1
<1>3. Tried(c)' = Tried(c) \cup {r}
  BY <1>1, <1>2 DEF Tried
<1>4. r \notin Tried(c) /\ Tried(c) \cup {r} \subseteq Requests
  BY DEF Tried
<1>5. Cardinality(Tried(c) \cup {r}) = Cardinality(Tried(c)) + 1
  BY <1>4, TriedFinite, FS_AddElement
<1>6. Cardinality(Tried(c) \cup {r}) <= Cardinality(Requests)
  BY <1>4, CallAssumption, FS_Subset
<1>7. ASSUME NEW d, d # c
      PROVE  Tried(d)' = Tried(d)
  BY <1>2, <1>7 DEF Tried
<1>8. Cardinality(Tried(c)') = Cardinality(Tried(c)) + 1
  BY <1>3, <1>5
<1> QED
  BY <1>3, <1>5, <1>6, <1>7, <1>8

\* The end of a renewal leaves the other credentials alone.
LEMMA RenewalSpares ==
  ASSUME BlameInv, Inv', NEW r \in Requests, pc[r] = "refresh", NEW c, c = guard[r],
         NEW label, label \notin {"call", "refresh"},
         NEW es, SameSlots(entries, es), \A d \in DOMAIN entries : d # c => es[d] = entries[d],
         NEW n, Leave(r, es, label, n),
         UNCHANGED <<persona, refreshed>>, outages \subseteq outages',
         issued' \in [Ids -> Nat],
         \A d \in Ids : issued[d] <= issued'[d] /\ (d # c => issued'[d] = issued[d]),
         c \in DOMAIN entries /\ persona[c] = "revoked" /\ c \notin outages' =>
           /\ issued'[c] # 0
           /\ ~es[c].disabled /\ ~es[c].throttled
           /\ es[c].failures + issued'[c] <= Cardinality(Tried(c)) + 1
  PROVE  BlameInv'
<1>1. /\ entries' = ReleaseSlot(es, c) /\ pc' = [pc EXCEPT ![r] = label]
      /\ guard' = [guard EXCEPT ![r] = NoId] /\ token' = [token EXCEPT ![r] = 0]
  BY DEF Leave, Goto
<1>2. /\ pc \in [Requests -> PCs] /\ guard \in [Requests -> Ids \cup {NoId}]
      /\ token \in [Requests -> Nat] /\ issued \in [Ids -> Nat] /\ DOMAIN entries \subseteq Ids
      /\ \A q \in Requests : guard[q] # NoId <=> pc[q] \in Held
  BY DEF BlameInv, Inv, IsPool
<1>3. /\ pc'[r] \notin {"call", "refresh"}
      /\ \A q \in Requests \ {r} : pc'[q] = pc[q] /\ guard'[q] = guard[q] /\ token'[q] = token[q]
  BY <1>1, <1>2
<1>4. /\ Tried(c)' = Tried(c) \cup {r}
      /\ Cardinality(Tried(c)') = Cardinality(Tried(c)) + 1
      /\ \A d : d # c => Tried(d)' = Tried(d)
  <2>1. /\ BlameInv /\ r \in Requests /\ pc[r] = "refresh" /\ c = guard[r]
        /\ label # "refresh" /\ UNCHANGED refreshed
        /\ pc' = [pc EXCEPT ![r] = label] /\ guard' = [guard EXCEPT ![r] = NoId]
    BY <1>1
  <2>2. Tried(c)' = Tried(c) \cup {r}
    BY ONLY <2>1, RenewalTried
  <2>3. Cardinality(Tried(c)') = Cardinality(Tried(c)) + 1
    BY ONLY <2>1, RenewalTried
  <2>4. \A d : d # c => Tried(d)' = Tried(d)
    BY ONLY <2>1, RenewalTried
  <2> QED
    BY <2>2, <2>3, <2>4
<1>5. DOMAIN entries' = DOMAIN entries /\ IsPool(es) /\ DOMAIN es = DOMAIN entries
  BY <1>1, ReleaseCounts DEF SameSlots
<1>6. \A d \in DOMAIN entries : /\ entries'[d].disabled = es[d].disabled
                                /\ entries'[d].throttled = es[d].throttled
                                /\ entries'[d].failures = es[d].failures
  BY <1>1, <1>5, SlotsUnharmed
<1>7. ASSUME NEW d \in DOMAIN entries
      PROVE  Spared(d)'
  <2>1. CASE d = c
    <3>1. persona[c] \in Good => persona[c] = "revoked"
      BY DEF BlameInv, TokenKnown, Good
    <3> QED
      BY <1>4, <1>6, <2>1, <3>1 DEF Spared
  <2>2. CASE d # c
    <3>1. d \in Ids /\ Tried(d)' = Tried(d) /\ issued'[d] = issued[d] /\ es[d] = entries[d]
      BY <1>2, <1>4, <2>2
    <3>2. Cardinality(Tried(d)') = Cardinality(Tried(d))
      BY <3>1
    <3>3. Spared(d)
      BY DEF BlameInv
    <3> QED
      BY <1>6, <3>1, <3>2, <3>3 DEF Spared
  <2> QED
    BY <2>1, <2>2
<1>8. ASSUME NEW q \in Requests
      PROVE  TokenKnown(q)' /\ TokenNew(q)'
  <2>1. CASE q = r
    BY <1>3, <2>1 DEF BlameInv, TokenKnown, TokenNew
  <2>2. CASE q # r
    <3>1. pc'[q] = pc[q] /\ guard'[q] = guard[q] /\ token'[q] = token[q]
      BY <1>3, <2>2
    <3>2. TokenKnown(q) /\ TokenNew(q)
      BY DEF BlameInv
    <3>3. pc[q] \in {"call", "refresh"} =>
            token[q] <= issued'[guard[q]]
      <4>1. pc[q] \in {"call", "refresh"} => guard[q] \in Ids
        BY <1>2 DEF Held
      <4>2. \A d \in Ids : issued[d] \in Nat /\ issued'[d] \in Nat
        BY <1>2
      <4>3. token[q] \in Nat
        BY <1>2
      <4> QED
        BY <3>2, <4>1, <4>2, <4>3 DEF TokenKnown
    <3> QED
      BY <3>1, <3>2, <3>3 DEF TokenKnown, TokenNew
  <2> QED
    BY <2>1, <2>2
<1>9. token' \in [Requests -> Nat]
  BY <1>1, <1>2
<1> QED
  BY <1>5, <1>7, <1>8, <1>9 DEF BlameInv

LEMMA RenewSpares ==
  ASSUME BlameInv, Inv', NEW r \in Requests, Renew(r)
  PROVE  BlameInv'
<1>1. PICK c : c = guard[r]
  OBVIOUS
<1> DEFINE es == Renewed(entries, c)
<1>2. /\ pc[r] = "refresh" /\ issued' = [issued EXCEPT ![c] = @ + 1]
      /\ Leave(r, es, "acquire", attempt[r] + 1)
      /\ UNCHANGED <<persona, refreshed, outages>>
  BY <1>1 DEF Renew, NextAttempt
<1>3. issued \in [Ids -> Nat] /\ c \in Ids /\ IsPool(entries)
  BY <1>1, <1>2 DEF BlameInv, Inv, Held
<1>4. /\ Edited(entries, es, c)
      /\ c \in DOMAIN entries => /\ es[c].disabled = entries[c].disabled
                                 /\ es[c].throttled = entries[c].throttled
                                 /\ es[c].failures = entries[c].failures
  BY <1>3, RefreshEdits
<1> HIDE DEF es
<1>5. /\ issued' \in [Ids -> Nat] /\ issued'[c] = issued[c] + 1 /\ issued'[c] # 0
      /\ \A d \in Ids : issued[d] <= issued'[d] /\ (d # c => issued'[d] = issued[d])
  BY <1>2, <1>3
<1>6. c \in DOMAIN entries /\ persona[c] = "revoked" /\ c \notin outages' =>
        /\ ~es[c].disabled /\ ~es[c].throttled
        /\ es[c].failures + issued'[c] <= Cardinality(Tried(c)) + 1
  <2>1. c \in DOMAIN entries => entries[c].failures \in Nat /\ Spared(c)
    BY DEF BlameInv, Inv, IsPool, Entry
  <2>2. Cardinality(Tried(c)) \in Nat /\ issued[c] \in Nat
    BY <1>3, TriedFinite
  <2> QED
    BY <1>2, <1>4, <1>5, <2>1, <2>2 DEF Spared, Good
<1>7. "acquire" \notin {"call", "refresh"}
  OBVIOUS
<1> QED
  BY <1>1, <1>2, <1>4, <1>5, <1>6, <1>7, RenewalSpares DEF Edited

\* Only a request that another one was faster than is refused the renewal of a
\* good credential.
LEMMA RenewFailsSpares ==
  ASSUME BlameInv, FewCalls, Inv', NEW r \in Requests, RenewFails(r)
  PROVE  BlameInv'
<1>1. PICK c : c = guard[r]
  OBVIOUS
<1> DEFINE es == Fail(entries, c)
<1>2. /\ pc[r] = "refresh" /\ (token[r] # issued[c] \/ c \in outages')
      /\ outages \subseteq outages' /\ Blame(r, es) /\ UNCHANGED <<persona, refreshed, issued>>
  BY <1>1 DEF RenewFails
<1>3. /\ issued \in [Ids -> Nat] /\ token[r] \in Nat /\ c \in Ids /\ IsPool(entries)
      /\ token[r] <= issued[c] /\ persona[c] \in {"revoked", "stuck"}
      /\ persona \in Casts
  BY <1>1, <1>2 DEF BlameInv, Inv, Held, TokenKnown
<1>4. PICK label, n : label \notin {"call", "refresh"} /\ Leave(r, es, label, n)
  BY <1>2 DEF Blame, NextAttempt, Return
<1>5. Edited(entries, es, c)
  BY <1>3, FailEdits
<1>6. \A d \in Ids : issued[d] <= issued'[d] /\ (d # c => issued'[d] = issued[d])
  BY <1>2, <1>3
<1>7. ASSUME c \in DOMAIN entries, persona[c] = "revoked", c \notin outages'
      PROVE  /\ issued'[c] # 0
             /\ ~es[c].disabled /\ ~es[c].throttled
             /\ es[c].failures + issued'[c] <= Cardinality(Tried(c)) + 1
  <2>1. c \notin outages
    BY <1>2, <1>7
  <2>2. issued[c] \in Nat \ {0}
    BY <1>2, <1>3, <1>7
  <2>3. Cardinality(Requests) <= MaxFailures
    BY <1>3, <1>7 DEF FewCalls
  <2>4. /\ es[c].throttled = entries[c].throttled
        /\ es[c].failures \in Nat /\ entries[c].failures \in Nat
        /\ es[c].failures <= entries[c].failures + 1
        /\ ~(entries[c].failures + 1 >= MaxFailures) => es[c].disabled = entries[c].disabled
    BY <1>3, <1>7, FailEdits
  <2> HIDE DEF es
  <2>5. /\ ~entries[c].disabled /\ ~entries[c].throttled
        /\ entries[c].failures + issued[c] <= Cardinality(Tried(c))
    BY <1>7, <2>1 DEF BlameInv, Spared, Good
  <2>6. /\ Cardinality(Tried(c)) + 1 <= Cardinality(Requests)
        /\ Cardinality(Tried(c)) \in Nat /\ Cardinality(Requests) \in Nat
    <3>1. pc' = [pc EXCEPT ![r] = label] /\ guard' = [guard EXCEPT ![r] = NoId]
      BY <1>4 DEF Leave, Goto
    <3>2. label # "refresh"
      BY <1>4
    <3>3. Cardinality(Tried(c)) + 1 <= Cardinality(Requests)
      BY <1>1, <1>2, <3>1, <3>2, RenewalTried
    <3> QED
      BY <3>3, TriedFinite, CallAssumption, FS_CardinalityType
  <2>7. ~(entries[c].failures + 1 >= MaxFailures)
    BY <2>2, <2>3, <2>4, <2>5, <2>6, MaxFailuresAssumption
  <2>8. es[c].failures + issued[c] <= Cardinality(Tried(c)) + 1
    BY <2>2, <2>4, <2>5, <2>6
  <2> QED
    BY <1>2, <2>2, <2>4, <2>5, <2>7, <2>8
<1> HIDE DEF es
<1>8. issued' \in [Ids -> Nat]
  BY <1>2, <1>3
<1> QED
  BY <1>1, <1>2, <1>4, <1>5, <1>6, <1>7, <1>8, RenewalSpares DEF Edited

LEMMA InitSpares == ASSUME FreshPools PROVE Init => BlameInv
<1> SUFFICES ASSUME Init PROVE BlameInv
  OBVIOUS
<1>1. Inv
  BY InitInv
<1>2. /\ \A r \in Requests : pc[r] = "idle" /\ refreshed[r] = {}
      /\ refreshed \in [Requests -> SUBSET Ids]
      /\ issued \in [Ids -> Nat] /\ token \in [Requests -> Nat] /\ persona \in Casts
      /\ \A c \in Ids : issued[c] = 0
  BY DEF Init
<1>3. ASSUME NEW c
      PROVE  Tried(c) = {}
  BY <1>2 DEF Tried
<1>4. ASSUME NEW c \in DOMAIN entries
      PROVE  Spared(c)
  <2>1. Cardinality(Tried(c)) = 0
    BY <1>3, FS_EmptySet
  <2>2. c \in Ids /\ ~entries[c].disabled /\ ~entries[c].throttled /\ entries[c].failures = 0
    BY <1>1 DEF Init, FreshPools, Inv, IsPool
  <2> QED
    BY <1>2, <1>3, <2>1, <2>2 DEF Spared
<1>5. ASSUME NEW r \in Requests
      PROVE  TokenKnown(r) /\ TokenNew(r)
  BY <1>2 DEF TokenKnown, TokenNew
<1> QED
  BY <1>1, <1>2, <1>4, <1>5 DEF BlameInv

LEMMA NextSpares == ASSUME FewCalls PROVE BlameInv /\ [Next]_vars => BlameInv'
<1> SUFFICES ASSUME BlameInv, [Next]_vars PROVE BlameInv'
  OBVIOUS
<1>inv. Inv' /\ Inv /\ IsPool(entries)
  BY NextInv DEF BlameInv, Inv
<1>same. SameSlots(entries, entries) /\ Unharmed(entries, entries)
  BY <1>inv DEF Inv, SameSlots, Unharmed
<1>over. {"failed", "busy", "rejected", "done"} \subseteq Over
  BY DEF Over
<1>labels. \A x \in {"acquire", "backoff", "stream"} : x \notin {"call", "refresh"}
  OBVIOUS
<1>1. CASE UNCHANGED vars
  <2>1. UNCHANGED <<pc, guard, token, persona, refreshed, issued, outages, entries>>
    BY <1>1 DEF vars, loop
  <2> QED
    BY <1>inv, <1>same, <2>1, StaySpares
<1>2. ASSUME NEW r \in Requests, Step(r)
      PROVE  BlameInv'
  <2> DEFINE c == guard[r]
  <2>known. pc[r] = "call" =>
              /\ persona[c] \in Good =>
                   Answers(r) \cap {"denied", "no endpoint", "quota", "suspicious"} = {}
              /\ "invalid token" \in Answers(r) =>
                   persona[c] = "stuck" \/ (persona[c] = "revoked" /\ token[r] = 0)
    BY AnswersTell
  <2>fail. persona[c] \notin Good \/ c \in outages' =>
             SameSlots(entries, Fail(entries, c)) /\ Unharmed(entries, Fail(entries, c))
    BY <1>inv, FailEdits, ReportSpares
  <2>1. CASE Begin(r)
    <3>1. /\ pc[r] = "idle" /\ pc' = [pc EXCEPT ![r] = "acquire"]
          /\ UNCHANGED <<entries, guard, token, persona, refreshed, issued, outages>>
      BY <2>1 DEF Begin, Goto
    <3> QED
      BY <1>inv, <1>same, <1>labels, <3>1, MoveSpares
  <2>2. CASE GiveUp(r)
    BY <2>2, <1>inv, <1>same, <1>over, OnwardsSpares DEF GiveUp
  <2>3. CASE Acquire(r)
    BY <2>3, <1>inv, AcquireSpares
  <2>4. CASE AcquireFails(r)
    <3>d. PICK d \in Choices(r) : \E es :
            /\ es \in {InvalidateRefreshToken(entries, d), FailRefresh(entries, d)}
            /\ persona[d] = "dead" \/ d \in outages'
            /\ outages \subseteq outages'
            /\ IF AnyEnabled(es)
               THEN entries' = es /\ UNCHANGED <<pc, attempt, guard, token>>
               ELSE NextAttempt(r, es)
      BY <2>4 DEF AcquireFails
    <3>1. PICK es :
            /\ es \in {InvalidateRefreshToken(entries, d), FailRefresh(entries, d)}
            /\ persona[d] = "dead" \/ d \in outages'
            /\ outages \subseteq outages'
            /\ IF AnyEnabled(es)
               THEN entries' = es /\ UNCHANGED <<pc, attempt, guard, token>>
               ELSE NextAttempt(r, es)
      BY <3>d
    <3>2. SameSlots(entries, es) /\ Unharmed(entries, es)
      <4>1. persona[d] \notin Good \/ d \in outages'
        BY <3>1 DEF Good
      <4>2. Edited(entries, es, d)
        BY <1>inv, <3>1, ReportsEdit, RefreshEdits
      <4> QED
        BY <4>1, <4>2, ReportSpares
    <3>3. pc[r] = "acquire" /\ UNCHANGED <<persona, refreshed, issued>>
      BY <2>4 DEF AcquireFails, Acquiring
    <3>4. CASE AnyEnabled(es)
      <4>1. entries' = es /\ UNCHANGED <<pc, guard, token>> /\ DOMAIN es = DOMAIN entries
        BY <3>1, <3>2, <3>4 DEF SameSlots
      <4> QED
        BY <1>inv, <3>1, <3>2, <3>3, <4>1, StaySpares
    <3>5. CASE ~AnyEnabled(es)
      <4>1. NextAttempt(r, es)
        BY <3>1, <3>5
      <4> QED
        BY <1>inv, <3>1, <3>2, <3>3, <4>1, OnwardsSpares
    <3> QED
      BY <3>4, <3>5
  <2>5. CASE FindFull(r)
    BY <2>5, <1>inv, <1>same, <1>over, OnwardsSpares DEF FindFull, Acquiring
  <2>6. CASE FindNone(r)
    <3>1. CASE AutoDisabled(entries) # {}
      <4>1. /\ entries' = Autoheal(entries)
            /\ UNCHANGED <<pc, guard, token, persona, refreshed, issued, outages>>
        BY <2>6, <3>1 DEF FindNone
      <4>2. DOMAIN entries' = DOMAIN entries /\ Unharmed(entries, entries')
        BY <1>inv, <4>1, AutohealSpares DEF Unharmed, SameSlots
      <4> QED
        BY <1>inv, <4>1, <4>2, StaySpares
    <3>2. CASE AutoDisabled(entries) = {}
      BY <2>6, <3>2, <1>inv, <1>same, OnwardsSpares DEF FindNone, Acquiring
    <3> QED
      BY <3>1, <3>2
  <2>7. CASE Succeeds(r)
    <3> DEFINE es == Succeed(entries, c)
    <3>1. pc[r] = "call" /\ UNCHANGED <<persona, refreshed, issued, outages>>
      BY <2>7 DEF Succeeds, Answered
    <3>2. SameSlots(entries, es) /\ Unharmed(entries, es)
      <4>1. Edited(entries, es, c)
        BY <1>inv, SucceedEdits
      <4>2. c \in DOMAIN entries => /\ es[c].disabled = entries[c].disabled
                                    /\ es[c].throttled = FALSE
                                    /\ es[c].failures = 0
        BY <1>inv, SucceedEdits
      <4> HIDE DEF es
      <4> QED
        BY <4>1, <4>2 DEF Edited, SameSlots, Unharmed
    <3>3. CASE Kind[r] = "mcp"
      <4>1. Return(r, es, "done")
        BY <2>7, <3>3 DEF Succeeds
      <4> QED
        BY <1>inv, <1>over, <3>1, <3>2, <4>1, OnwardsSpares
    <3>4. CASE Kind[r] # "mcp"
      <4>1. pc' = [pc EXCEPT ![r] = "stream"] /\ entries' = es /\ UNCHANGED <<guard, token>>
        BY <2>7, <3>4 DEF Succeeds, Goto
      <4>2. DOMAIN entries' = DOMAIN entries /\ Unharmed(entries, entries')
        BY <3>2, <4>1 DEF SameSlots
      <4> QED
        BY <1>inv, <1>labels, <3>1, <4>1, <4>2, MoveSpares
    <3> QED
      BY <3>3, <3>4
  <2>8. CASE Rejected(r)
    BY <2>8, <1>inv, <1>same, <1>over, OnwardsSpares DEF Rejected, Answered
  <2>9. CASE QuotaExhausted(r)
    <3>1. /\ pc[r] = "call" /\ "quota" \in Answers(r) /\ Blame(r, ExhaustQuota(entries, c))
          /\ UNCHANGED <<persona, refreshed, issued, outages>>
      BY <2>9 DEF QuotaExhausted, Answered
    <3>2. /\ SameSlots(entries, ExhaustQuota(entries, c))
          /\ Unharmed(entries, ExhaustQuota(entries, c))
      BY <1>inv, <2>known, <3>1, ReportsEdit, ReportSpares
    <3> QED
      BY <1>inv, <3>1, <3>2, OnwardsSpares
  <2>10. CASE Denied(r)
    <3>1. /\ pc[r] = "call" /\ Blame(r, Fail(entries, c))
          /\ "denied" \in Answers(r) \/ ("invalid token" \in Answers(r) /\ c \in refreshed[r])
          /\ UNCHANGED <<persona, refreshed, issued, outages>>
      BY <2>10 DEF Denied, Answered
    <3>2. persona[c] \notin Good \/ c \in outages'
      <4>1. CASE "denied" \in Answers(r)
        BY <2>known, <3>1, <4>1
      <4>2. CASE "invalid token" \in Answers(r) /\ c \in refreshed[r]
        <5>1. persona[c] = "revoked" /\ c \notin outages => token[r] # 0
          BY <3>1, <4>2 DEF BlameInv, TokenNew
        <5> QED
          BY <2>known, <3>1, <4>2, <5>1 DEF Good
      <4> QED
        BY <3>1, <4>1, <4>2
    <3> QED
      BY <1>inv, <2>fail, <3>1, <3>2, OnwardsSpares
  <2>11. CASE NoEndpoint(r)
    <3>1. /\ pc[r] = "call" /\ "no endpoint" \in Answers(r) /\ NextAttempt(r, Fail(entries, c))
          /\ UNCHANGED <<persona, refreshed, issued, outages>>
      BY <2>11 DEF NoEndpoint, Answered
    <3>2. persona[c] \notin Good
      BY <2>known, <3>1
    <3> QED
      BY <1>inv, <2>fail, <3>1, <3>2, OnwardsSpares
  <2>12. CASE AccountThrottled(r)
    <3>1. /\ pc[r] = "call" /\ "suspicious" \in Answers(r)
          /\ \/ Return(r, Throttle(entries, c), "failed")
             \/ NextAttempt(r, Throttle(entries, c))
          /\ UNCHANGED <<persona, refreshed, issued, outages>>
      BY <2>12 DEF AccountThrottled, Answered
    <3>2. SameSlots(entries, Throttle(entries, c)) /\ Unharmed(entries, Throttle(entries, c))
      BY <1>inv, <2>known, <3>1, ReportsEdit, ReportSpares
    <3> QED
      BY <1>inv, <1>over, <3>1, <3>2, OnwardsSpares
  <2>13. CASE ForceRefresh(r)
    BY <2>13, <1>inv, ForceSpares
  <2>14. CASE Renew(r)
    BY <2>14, <1>inv, RenewSpares
  <2>15. CASE RenewFails(r)
    BY <2>15, <1>inv, RenewFailsSpares
  <2>16. CASE Stumble(r)
    <3>1. pc[r] = "call" /\ UNCHANGED <<persona, refreshed, issued, outages>>
      BY <2>16 DEF Stumble, Answered
    <3>2. CASE attempt[r] + 1 < budget[r]
      <4>1. pc' = [pc EXCEPT ![r] = "backoff"] /\ UNCHANGED <<entries, guard, token>>
        BY <2>16, <3>2 DEF Stumble, Goto
      <4> QED
        BY <1>inv, <1>same, <1>labels, <3>1, <4>1, MoveSpares
    <3>3. CASE ~(attempt[r] + 1 < budget[r])
      BY <2>16, <3>1, <3>3, <1>inv, <1>same, <1>over, OnwardsSpares DEF Stumble
    <3> QED
      BY <3>2, <3>3
  <2>17. CASE Wake(r)
    BY <2>17, <1>inv, <1>same, OnwardsSpares DEF Wake
  <2>18. CASE Finish(r)
    BY <2>18, <1>inv, <1>same, <1>over, OnwardsSpares DEF Finish
  <2>19. CASE NoClient(r)
    BY <2>19, <1>inv, <1>same, <1>over, OnwardsSpares DEF NoClient
  <2> QED
    BY <1>2, <2>1, <2>2, <2>3, <2>4, <2>5, <2>6, <2>7, <2>8, <2>9, <2>10,
       <2>11, <2>12, <2>13, <2>14, <2>15, <2>16, <2>17, <2>18, <2>19 DEF Step
<1> QED
  BY <1>1, <1>2 DEF Next, Finished

\* In a pool that starts afresh, up to MaxFailures calls at once, or any number of
\* them where no access token is revoked, disable and cool down no credential that
\* works, whatever else is in the pool: neither by requests the upstream rejects,
\* nor by its failures, nor by meeting a token that only needs to be renewed, nor
\* by the outages that other credentials meet (provider.rs:564, 674).
THEOREM GoodUnharmed ==
  ASSUME FreshPools, FewCalls
  PROVE  Spec => []Blameless
<1>1. Init => BlameInv
  BY InitSpares
<1>2. BlameInv /\ [Next]_vars => BlameInv'
  BY NextSpares
<1>3. BlameInv => Blameless
  BY DEF BlameInv, Blameless, Spared, Good
<1> QED
  BY <1>1, <1>2, <1>3, PTL DEF Spec

-----------------------------------------------------------------------------
(* Tokens.  What a request knows of the token in its hands is never wrong, *)
(* however many requests renew it.                                         *)

\* The inductive invariant.
TokenInv ==
  /\ Inv
  /\ persona \in [Ids -> Personas]
  /\ refreshed \in [Requests -> SUBSET Ids]
  /\ issued \in [Ids -> Nat] /\ token \in [Requests -> Nat]
  /\ \A r \in Requests : TokenKnown(r)

Off(e) == e.disabled \/ e.throttled

\* A step of r that neither begins nor ends a call or a renewal.
Moves(r) ==
  /\ pc[r] # "refresh"
  /\ \E label \in PCs \ {"call", "refresh"} : pc' = [pc EXCEPT ![r] = label]
  /\ \/ UNCHANGED <<guard, token>>
     \/ guard' = [guard EXCEPT ![r] = NoId] /\ token' = [token EXCEPT ![r] = 0]
  /\ UNCHANGED <<persona, refreshed, issued>>

\* A step of r that leaves an iteration, or stays in it.
LEMMA LeaveMoves ==
  ASSUME NEW r \in Requests, pc[r] # "refresh", UNCHANGED <<persona, refreshed, issued>>,
         NEW es
  PROVE  /\ NextAttempt(r, es) => Moves(r)
         /\ \A label \in Over : Return(r, es, label) => Moves(r)
         /\ Blame(r, es) => Moves(r)
<1>1. /\ \A label \in Over : label \in PCs \ {"call", "refresh"}
      /\ "acquire" \in PCs \ {"call", "refresh"} /\ "failed" \in Over
  BY DEF PCs, Over
<1>2. ASSUME NEW label \in PCs \ {"call", "refresh"}, NEW n, Leave(r, es, label, n)
      PROVE  Moves(r)
  BY <1>2 DEF Leave, Goto, Moves
<1> QED
  BY <1>1, <1>2 DEF NextAttempt, Return, Blame

LEMMA StepShapes ==
  ASSUME Inv, NEW r \in Requests, Step(r)
  PROVE  Moves(r) \/ Acquire(r) \/ ForceRefresh(r) \/ Renew(r) \/ RenewFails(r)
<1>over. {"failed", "busy", "rejected", "done"} \subseteq Over
  BY DEF Over
<1>1. \A label \in {"acquire", "backoff", "stream"} : label \in PCs \ {"call", "refresh"}
  BY DEF PCs
<1>2. ASSUME pc[r] = "acquire"
      PROVE  pc = [pc EXCEPT ![r] = "acquire"]
  BY <1>2 DEF Inv
<1>3. ASSUME pc[r] = "acquire", UNCHANGED <<pc, guard, token, persona, refreshed, issued>>
      PROVE  Moves(r)
  BY <1>1, <1>2, <1>3 DEF Moves
<1>4. CASE Begin(r)
  BY <1>1, <1>4 DEF Begin, Goto, Moves
<1>5. CASE GiveUp(r)
  BY <1>5, <1>over, LeaveMoves DEF GiveUp
<1>6. CASE AcquireFails(r)
  <2>1. pc[r] = "acquire" /\ UNCHANGED <<persona, refreshed, issued>>
    BY <1>6 DEF AcquireFails, Acquiring
  <2>2. PICK es : \/ UNCHANGED <<pc, guard, token>>
                  \/ NextAttempt(r, es)
    BY <1>6, Zenon DEF AcquireFails
  <2> QED
    BY <1>3, <2>1, <2>2, LeaveMoves
<1>7. CASE FindFull(r)
  BY <1>7, <1>over, LeaveMoves DEF FindFull, Acquiring
<1>8. CASE FindNone(r)
  BY <1>8, <1>3, LeaveMoves DEF FindNone, Acquiring
<1>9. CASE Succeeds(r)
  <2>1. pc[r] = "call" /\ UNCHANGED <<persona, refreshed, issued>>
    BY <1>9 DEF Succeeds, Answered
  <2>2. CASE Kind[r] = "mcp"
    BY <1>9, <1>over, <2>1, <2>2, LeaveMoves DEF Succeeds
  <2>3. CASE Kind[r] # "mcp"
    BY <1>1, <1>9, <2>1, <2>3 DEF Succeeds, Goto, Moves
  <2> QED
    BY <2>2, <2>3
<1>10. CASE Rejected(r)
  BY <1>10, <1>over, LeaveMoves DEF Rejected, Answered
<1>11. CASE QuotaExhausted(r)
  BY <1>11, LeaveMoves DEF QuotaExhausted, Answered
<1>12. CASE Denied(r)
  BY <1>12, LeaveMoves DEF Denied, Answered
<1>13. CASE NoEndpoint(r)
  BY <1>13, LeaveMoves DEF NoEndpoint, Answered
<1>14. CASE AccountThrottled(r)
  BY <1>14, <1>over, LeaveMoves DEF AccountThrottled, Answered
<1>15. CASE Stumble(r)
  <2>1. pc[r] = "call" /\ UNCHANGED <<persona, refreshed, issued>>
    BY <1>15 DEF Stumble, Answered
  <2>2. CASE attempt[r] + 1 < budget[r]
    BY <1>1, <1>15, <2>1, <2>2 DEF Stumble, Goto, Moves
  <2>3. CASE ~(attempt[r] + 1 < budget[r])
    BY <1>15, <1>over, <2>1, <2>3, LeaveMoves DEF Stumble
  <2> QED
    BY <2>2, <2>3
<1>16. CASE Wake(r)
  BY <1>16, LeaveMoves DEF Wake
<1>17. CASE Finish(r)
  BY <1>17, <1>over, LeaveMoves DEF Finish
<1>18. CASE NoClient(r)
  BY <1>18, <1>over, LeaveMoves DEF NoClient
<1> QED
  BY <1>4, <1>5, <1>6, <1>7, <1>8, <1>9, <1>10, <1>11, <1>12, <1>13, <1>14,
     <1>15, <1>16, <1>17, <1>18 DEF Step

\* Whom a step leaves where they are.
Elsewhere(r) ==
  \A q \in Requests \ {r} :
    /\ pc'[q] = pc[q] /\ guard'[q] = guard[q] /\ token'[q] = token[q]
    /\ refreshed'[q] = refreshed[q]

\* No step takes back that a renewal was tried.
LEMMA StepsTokens ==
  ASSUME TokenInv, NEW r \in Requests, Step(r)
  PROVE  /\ Elsewhere(r)
         /\ \A c : Tried(c) \subseteq Tried(c)'
         /\ UNCHANGED persona
         /\ \/ guard'[r] = NoId
            \/ guard'[r] = guard[r] /\ token'[r] = token[r]
            \/ ForceRefresh(r)
            \/ Acquire(r)
<1>0. /\ pc \in [Requests -> PCs] /\ guard \in [Requests -> Ids \cup {NoId}]
      /\ token \in [Requests -> Nat] /\ refreshed \in [Requests -> SUBSET Ids]
  BY DEF TokenInv, Inv
<1>1. CASE Moves(r)
  <2>1. /\ pc'[r] \notin {"call", "refresh"} /\ Elsewhere(r)
        /\ refreshed' = refreshed /\ UNCHANGED persona
        /\ guard'[r] = NoId \/ (guard'[r] = guard[r] /\ token'[r] = token[r])
    BY <1>0, <1>1 DEF Moves, Elsewhere
  <2> QED
    BY <2>1 DEF Elsewhere, Tried
<1>2. CASE Acquire(r)
  <2>1. pc'[r] = "call" /\ Elsewhere(r) /\ refreshed' = refreshed /\ UNCHANGED persona
    BY <1>0, <1>2 DEF Acquire, Goto, Elsewhere
  <2> QED
    BY <1>2, <2>1 DEF Elsewhere, Tried
<1>3. CASE ForceRefresh(r)
  <2>1. /\ guard[r] \notin refreshed[r] /\ refreshed'[r] = refreshed[r] \cup {guard[r]}
        /\ pc'[r] = "refresh" /\ guard'[r] = guard[r] /\ UNCHANGED persona
        /\ Elsewhere(r)
    BY <1>0, <1>3 DEF ForceRefresh, Answered, Goto, Elsewhere
  <2> QED
    BY <1>3, <2>1 DEF Elsewhere, Tried
<1>4. CASE Renew(r) \/ RenewFails(r)
  <2>1. PICK es, label, n : /\ label \notin {"call", "refresh"} /\ Leave(r, es, label, n)
                            /\ UNCHANGED <<persona, refreshed>>
    BY <1>4 DEF Renew, RenewFails, Blame, NextAttempt, Return
  <2>2. /\ pc'[r] = label /\ guard'[r] = NoId /\ Elsewhere(r)
    BY <1>0, <2>1 DEF Leave, Goto, Elsewhere
  <2> QED
    BY <2>1, <2>2 DEF Elsewhere, Tried
<1> QED
  BY <1>1, <1>2, <1>3, <1>4, StepShapes DEF TokenInv

LEMMA InitTokens == Init => TokenInv
<1> SUFFICES ASSUME Init PROVE TokenInv
  OBVIOUS
<1>1. Inv
  BY InitInv
<1>2. /\ \A r \in Requests : pc[r] = "idle" /\ refreshed[r] = {}
      /\ refreshed \in [Requests -> SUBSET Ids]
      /\ issued \in [Ids -> Nat] /\ token \in [Requests -> Nat]
      /\ persona \in [Ids -> Personas]
  BY CastAssumption DEF Init
<1> QED
  BY <1>1, <1>2 DEF TokenInv, TokenKnown, Tried

\* An access token that has to be renewed was not renewed before.
LEMMA Acquired ==
  ASSUME TokenInv, NEW r \in Requests, Acquire(r)
  PROVE  \E c \in Choices(r), n \in Nat :
           /\ c \in DOMAIN entries /\ c \in Ids /\ ~Off(entries[c])
           /\ entries' = Occupy(Renewed(entries, c), c)
           /\ guard' = [guard EXCEPT ![r] = c] /\ guard'[r] = c
           /\ token' = [token EXCEPT ![r] = n] /\ token'[r] = n
           /\ issued' = [issued EXCEPT ![c] = n] /\ issued'[c] = n
           /\ issued[c] <= n
<1>0. /\ token \in [Requests -> Nat] /\ issued \in [Ids -> Nat]
      /\ guard \in [Requests -> Ids \cup {NoId}] /\ IsPool(entries)
  BY DEF TokenInv, Inv
<1>1. PICK c \in Choices(r) :
        /\ persona[c] # "dead"
        /\ entries' = Occupy(Renewed(entries, c), c)
        /\ guard' = [guard EXCEPT ![r] = c]
        /\ issued' = [issued EXCEPT ![c] = IF Expired(c) THEN 1 ELSE issued[c]]
        /\ token' = [token EXCEPT ![r] = IF Expired(c) THEN 1 ELSE issued[c]]
  BY DEF Acquire
<1>2. c \in DOMAIN entries /\ c \in Ids /\ ~Off(entries[c])
  BY <1>0 DEF Choices, BestChoices, Candidates, AvailableIds, Available, Off, IsPool
<1>3. PICK n \in Nat : n = (IF Expired(c) THEN 1 ELSE issued[c]) /\ issued[c] <= n
  <2>1. Expired(c) => issued[c] = 0
    BY <1>1 DEF Expired
  <2>2. issued[c] \in Nat
    BY <1>0, <1>2
  <2> QED
    BY <2>1, <2>2
<1> QED
  BY <1>0, <1>1, <1>2, <1>3

\* What the request that takes the step learns.
LEMMA StepKnown ==
  ASSUME TokenInv, NEW r \in Requests, Step(r)
  PROVE  TokenKnown(r)'
<1>0. /\ pc \in [Requests -> PCs] /\ guard \in [Requests -> Ids \cup {NoId}]
      /\ token \in [Requests -> Nat] /\ refreshed \in [Requests -> SUBSET Ids]
      /\ issued \in [Ids -> Nat] /\ TokenKnown(r)
  BY DEF TokenInv, Inv
<1>1. CASE Moves(r)
  <2>1. /\ pc'[r] \notin {"call", "refresh"} /\ refreshed' = refreshed /\ persona' = persona
    BY <1>0, <1>1 DEF Moves
  <2> QED
    BY <1>0, <2>1 DEF TokenKnown
<1>2. CASE Acquire(r)
  <2>1. UNCHANGED <<refreshed, persona>> /\ pc'[r] = "call"
    BY <1>0, <1>2 DEF Acquire, Goto
  <2>2. PICK c \in Ids, n \in Nat : guard'[r] = c /\ token'[r] = n /\ issued'[c] = n
    BY <1>2, Acquired
  <2>3. n <= n
    OBVIOUS
  <2> QED
    BY <1>0, <2>1, <2>2, <2>3 DEF TokenKnown
<1>3. CASE ForceRefresh(r)
  <2> DEFINE c == guard[r]
  <2>1. /\ pc[r] = "call" /\ "invalid token" \in Answers(r)
        /\ refreshed'[r] = refreshed[r] \cup {c} /\ token'[r] = issued[c]
        /\ pc'[r] = "refresh" /\ guard'[r] = c /\ UNCHANGED <<issued, persona>>
    BY <1>0, <1>3 DEF ForceRefresh, Answered, Goto
  <2>2. c \in Ids /\ persona[c] \in Personas
    BY <2>1 DEF TokenInv, Inv, Held
  <2>3. persona[c] \in {"revoked", "stuck"}
    BY <2>1, <2>2 DEF Answers, Personas
  <2>4. issued[c] \in Nat /\ issued[c] <= issued[c]
    BY <1>0, <2>2
  <2> HIDE DEF c
  <2> QED
    BY <1>0, <2>1, <2>3, <2>4 DEF TokenKnown
<1>4. CASE Renew(r) \/ RenewFails(r)
  <2>1. PICK es, label, n : /\ label \notin {"call", "refresh"} /\ Leave(r, es, label, n)
                            /\ UNCHANGED <<persona, refreshed>>
    BY <1>4 DEF Renew, RenewFails, Blame, NextAttempt, Return
  <2>2. pc'[r] = label
    BY <1>0, <2>1 DEF Leave, Goto
  <2> QED
    BY <1>0, <2>1, <2>2 DEF TokenKnown
<1> QED
  BY <1>1, <1>2, <1>3, <1>4, StepShapes DEF TokenInv

\* Tokens are renewed and not taken back.
LEMMA StepIssues ==
  ASSUME TokenInv, NEW r \in Requests, Step(r)
  PROVE  /\ issued' \in [Ids -> Nat]
         /\ \A c \in Ids : issued[c] <= issued'[c]
         /\ token' \in [Requests -> Nat] /\ refreshed' \in [Requests -> SUBSET Ids]
<1>0. /\ pc \in [Requests -> PCs] /\ guard \in [Requests -> Ids \cup {NoId}]
      /\ token \in [Requests -> Nat] /\ refreshed \in [Requests -> SUBSET Ids]
      /\ issued \in [Ids -> Nat]
      /\ \A q \in Requests : guard[q] # NoId <=> pc[q] \in Held
  BY DEF TokenInv, Inv
<1>1. \A c \in Ids : issued[c] <= issued[c]
  BY <1>0
<1>2. CASE Moves(r)
  BY <1>0, <1>1, <1>2 DEF Moves
<1>3. CASE Acquire(r)
  <2>1. PICK c \in Ids, n \in Nat : /\ token' = [token EXCEPT ![r] = n]
                                    /\ issued' = [issued EXCEPT ![c] = n] /\ issued[c] <= n
                                    /\ refreshed' = refreshed
    BY <1>3, Acquired DEF Acquire
  <2> QED
    BY <1>0, <1>1, <2>1
<1>4. CASE ForceRefresh(r)
  <2>1. guard[r] \in Ids
    BY <1>0, <1>4 DEF ForceRefresh, Answered, Held
  <2> QED
    BY <1>0, <1>1, <1>4, <2>1 DEF ForceRefresh
<1>5. CASE Renew(r)
  <2>1. guard[r] \in Ids
    BY <1>0, <1>5 DEF Renew, Held
  <2>2. /\ issued' = [issued EXCEPT ![guard[r]] = @ + 1]
        /\ token' = [token EXCEPT ![r] = 0] /\ refreshed' = refreshed
    BY <1>5 DEF Renew, NextAttempt, Leave
  <2> QED
    BY <1>0, <2>1, <2>2
<1>6. CASE RenewFails(r)
  <2>1. UNCHANGED <<issued, refreshed>> /\ token' = [token EXCEPT ![r] = 0]
    BY <1>6 DEF RenewFails, Blame, NextAttempt, Return, Leave
  <2> QED
    BY <1>0, <1>1, <2>1
<1> QED
  BY <1>2, <1>3, <1>4, <1>5, <1>6, StepShapes DEF TokenInv

LEMMA NextTokens == TokenInv /\ [Next]_vars => TokenInv'
<1> SUFFICES ASSUME TokenInv, [Next]_vars PROVE TokenInv'
  OBVIOUS
<1>inv. Inv'
  BY NextInv DEF TokenInv
<1>1. CASE UNCHANGED vars
  <2>1. UNCHANGED <<pc, guard, token, persona, refreshed, issued, entries>>
    BY <1>1 DEF vars, loop
  <2> QED
    BY <1>inv, <2>1 DEF TokenInv, TokenKnown, Tried
<1>2. ASSUME NEW r \in Requests, Step(r)
      PROVE  TokenInv'
  <2>1. /\ Elsewhere(r) /\ \A c : Tried(c) \subseteq Tried(c)' /\ persona' = persona
    BY <1>2, StepsTokens
  <2>2. /\ issued' \in [Ids -> Nat] /\ \A c \in Ids : issued[c] <= issued'[c]
        /\ token' \in [Requests -> Nat] /\ refreshed' \in [Requests -> SUBSET Ids]
    BY <1>2, StepIssues
  <2>3. ASSUME NEW q \in Requests
        PROVE  TokenKnown(q)'
    <3>1. CASE q = r
      BY <1>2, <3>1, StepKnown
    <3>2. CASE q # r
      <4>1. /\ pc'[q] = pc[q] /\ guard'[q] = guard[q] /\ token'[q] = token[q]
            /\ refreshed'[q] = refreshed[q] /\ TokenKnown(q)
        BY <2>1, <3>2 DEF Elsewhere, TokenInv
      <4>2. pc[q] \in {"call", "refresh"} => guard[q] \in Ids
        BY DEF TokenInv, Inv, Held
      <4>3. token[q] \in Nat /\ \A c \in Ids : issued[c] \in Nat /\ issued'[c] \in Nat
        BY <2>2 DEF TokenInv
      <4>4. pc[q] \in {"call", "refresh"} => token[q] <= issued'[guard[q]]
        BY <2>2, <4>1, <4>2, <4>3 DEF TokenKnown
      <4> QED
        BY <2>1, <4>1, <4>4 DEF TokenKnown
    <3> QED
      BY <3>1, <3>2
  <2>4. persona' \in [Ids -> Personas]
    BY <2>1 DEF TokenInv
  <2> QED
    BY <1>inv, <2>1, <2>2, <2>3, <2>4 DEF TokenInv
<1> QED
  BY <1>1, <1>2 DEF Next, Finished

-----------------------------------------------------------------------------
(* Failover.  Each attempt that a request spends on a bad credential is    *)
(* paid for by what is counted against that credential, or by the one      *)
(* renewal of its token: so there are never more attempts than the bad     *)
(* credentials can pay for, whatever other requests do meanwhile.          *)

\* The pools hold credentials that all calls may use.
NoneGrouped == \A r \in Requests : Group[r] = NoGroup

\* Each bad credential may cost MaxFailures attempts and one for the renewal; one
\* that is not bad is left (3 * 3, of MAX_FAILURES_PER_CREDENTIAL 3 and
\* MAX_TOTAL_RETRIES 9, are enough for three credentials and not for four).
EnoughAttempts ==
  \A pool \in Pools :
    LET n == Cardinality(DOMAIN pool)
    IN  (n - 1) * (MaxFailures + 1) < MinOf(n * MaxRetriesPerCredential, MaxTotalRetries)

Bad == {"stuck", "forbidden", "no endpoint", "spent", "limited"}

\* What the credentials are to the calls: until the token of one is renewed that
\* is revoked it is not better than one whose token cannot be.
Roles == [c \in Ids |-> IF Works(c) THEN "ok"
                        ELSE IF persona[c] = "revoked" /\ issued[c] = 0 THEN "stuck"
                        ELSE persona[c]]

\* The credential is disabled once too many failures are counted.
Sound(e) == ~e.disabled => e.failures < MaxFailures

\* What may become of an entry: it is neither given back what was counted against
\* it, nor turned off if it works.
Turned(who, e, f) ==
  /\ f.max = e.max
  /\ Sound(e) => Sound(f)
  /\ who = "ok" /\ ~Off(e) => ~Off(f)
  /\ who \in Bad => (Off(e) => Off(f)) /\ e.failures <= f.failures

\* As the credentials have the roles w.
AllTurned(es, fs, w) == /\ IsPool(fs) /\ DOMAIN fs = DOMAIN es
                        /\ \A c \in DOMAIN es : Turned(w[c], es[c], fs[c])

\* One more failure is counted, or no more need be.
Charged(e, f) == Off(e) \/ Off(f) \/ e.failures < f.failures

LEMMA TurnedSame ==
  ASSUME NEW w, NEW es, IsPool(es)
  PROVE  AllTurned(es, es, w)
BY DEF AllTurned, Turned, IsPool, Entry

LEMMA PutTurns ==
  ASSUME NEW w, NEW es, IsPool(es), NEW c, NEW e,
         c \in DOMAIN es => e \in Entry /\ Turned(w[c], es[c], e)
  PROVE  AllTurned(es, Put(es, c, e), w) /\ (c \in DOMAIN es => Put(es, c, e)[c] = e)
<1>1. \A d \in DOMAIN es : Turned(w[d], es[d], es[d])
  BY TurnedSame DEF AllTurned
<1> QED
  BY <1>1 DEF AllTurned, Put, IsPool

\* Slots have nothing to do with it.
LEMMA SlotsTurn ==
  ASSUME NEW w, NEW es, IsPool(es), NEW c
  PROVE  /\ AllTurned(es, Occupy(es, c), w)
         /\ AllTurned(es, ReleaseSlot(es, c), w)
         /\ c \in DOMAIN es => Off(Occupy(es, c)[c]) = Off(es[c])
<1>1. ASSUME NEW e \in Entry, NEW n \in Nat, NEW who
      PROVE  LET f == [e EXCEPT !.active = n]
             IN  f \in Entry /\ Turned(who, e, f) /\ Off(f) = Off(e)
  BY DEF Entry, Turned, Sound, Off
<1>2. c \in DOMAIN es => /\ es[c] \in Entry /\ es[c].active + 1 \in Nat
                         /\ (IF es[c].active > 0 THEN es[c].active - 1 ELSE 0) \in Nat
  BY DEF IsPool, Entry
<1>3. AllTurned(es, Occupy(es, c), w) /\ (c \in DOMAIN es => Off(Occupy(es, c)[c]) = Off(es[c]))
  <2> DEFINE f == [es[c] EXCEPT !.active = @ + 1]
  <2>1. c \in DOMAIN es => f \in Entry /\ Turned(w[c], es[c], f) /\ Off(f) = Off(es[c])
    BY <1>1, <1>2
  <2> HIDE DEF f
  <2>2. Occupy(es, c) = Put(es, c, f)
    BY DEF Occupy, f
  <2> QED
    BY <2>1, <2>2, PutTurns
<1>4. AllTurned(es, ReleaseSlot(es, c), w)
  <2> DEFINE f == [es[c] EXCEPT !.active = IF @ > 0 THEN @ - 1 ELSE 0]
  <2>1. c \in DOMAIN es => f \in Entry /\ Turned(w[c], es[c], f)
    BY <1>1, <1>2
  <2> HIDE DEF f
  <2>2. ReleaseSlot(es, c) = Put(es, c, f)
    BY DEF ReleaseSlot, f
  <2> QED
    BY <2>1, <2>2, PutTurns
<1> QED
  BY <1>3, <1>4

\* A success clears what is counted, of a credential that is not bad.
LEMMA SucceedTurns ==
  ASSUME NEW w, NEW es, IsPool(es), NEW c, w[c] \notin Bad
  PROVE  AllTurned(es, Succeed(es, c), w)
<1> DEFINE f == [es[c] EXCEPT !.failures = 0, !.refreshFailures = 0,
                              !.successes = @ + 1, !.throttled = FALSE]
<1>1. ASSUME NEW e \in Entry, NEW n \in Nat, NEW who, who \notin Bad
      PROVE  LET g == [e EXCEPT !.failures = 0, !.refreshFailures = 0,
                                !.successes = n, !.throttled = FALSE]
             IN  g \in Entry /\ Turned(who, e, g)
  <2> DEFINE g == [e EXCEPT !.failures = 0, !.refreshFailures = 0,
                            !.successes = n, !.throttled = FALSE]
  <2>1. /\ g \in Entry /\ g.max = e.max /\ g.failures = 0
        /\ g.disabled = e.disabled /\ g.throttled = FALSE
    BY DEF Entry
  <2> HIDE DEF g
  <2>2. Turned(who, e, g)
    BY <1>1, <2>1, MaxFailuresAssumption DEF Turned, Sound, Off
  <2> QED
    BY <2>1, <2>2 DEF g
<1>2. c \in DOMAIN es => es[c] \in Entry /\ es[c].successes + 1 \in Nat
  BY DEF IsPool, Entry
<1>3. c \in DOMAIN es => f \in Entry /\ Turned(w[c], es[c], f)
  BY <1>1, <1>2
<1> HIDE DEF f
<1>4. Succeed(es, c) = Put(es, c, f)
  BY DEF Succeed, f
<1> QED
  BY <1>3, <1>4, PutTurns

\* Disabling an entry that is not of a credential that works.
LEMMA DisableTurns ==
  ASSUME NEW e \in Entry, NEW n \in Nat, e.failures <= n, NEW who, who # "ok",
         NEW why \in {"TooManyFailures", "QuotaExceeded", "InvalidRefreshToken"}
  PROVE  LET f == Disable([e EXCEPT !.failures = n], why)
         IN  f \in Entry /\ Turned(who, e, f) /\ Off(f)
BY DEF Entry, Disable, Turned, Sound, Off, Reasons

LEMMA FailTurns ==
  ASSUME NEW w, NEW es, IsPool(es), NEW c, w[c] # "ok"
  PROVE  /\ AllTurned(es, Fail(es, c), w)
         /\ c \in DOMAIN es => Charged(es[c], Fail(es, c)[c])
<1> DEFINE e == [es[c] EXCEPT !.failures = @ + 1]
           f == IF e.failures >= MaxFailures THEN Disable(e, "TooManyFailures") ELSE e
<1>1. Fail(es, c) = IF c \notin Enabled(es) THEN es ELSE Put(es, c, f)
  BY DEF Fail
<1>2. ASSUME c \in DOMAIN es
      PROVE  f \in Entry /\ Turned(w[c], es[c], f) /\ Charged(es[c], f)
  <2>1. es[c] \in Entry /\ es[c].failures \in Nat
    BY <1>2 DEF IsPool, Entry
  <2>2. e = [es[c] EXCEPT !.failures = es[c].failures + 1]
    OBVIOUS
  <2>3. e \in Entry /\ e.failures = es[c].failures + 1 /\ e.max = es[c].max
        /\ e.disabled = es[c].disabled /\ e.throttled = es[c].throttled
    BY <2>1 DEF Entry
  <2> HIDE DEF e
  <2>4. CASE e.failures >= MaxFailures
    <3>1. f = Disable(e, "TooManyFailures")
      BY <2>4
    <3>2. PICK n \in Nat : n = es[c].failures + 1 /\ es[c].failures <= n
      BY <2>1
    <3> DEFINE g == Disable([es[c] EXCEPT !.failures = n], "TooManyFailures")
    <3>3. g \in Entry /\ Turned(w[c], es[c], g) /\ Off(g)
      BY <2>1, <3>2, DisableTurns
    <3>4. f = g
      BY <2>2, <3>1, <3>2
    <3> HIDE DEF f, g
    <3> QED
      BY <3>3, <3>4 DEF Charged
  <2>5. CASE ~(e.failures >= MaxFailures)
    <3>1. f = e /\ e.failures < MaxFailures
      BY <2>1, <2>3, <2>5, MaxFailuresAssumption
    <3> QED
      BY <2>1, <2>3, <3>1 DEF Turned, Sound, Off, Charged
  <2> QED
    BY <2>4, <2>5
<1> HIDE DEF f
<1>3. CASE c \in Enabled(es)
  BY <1>1, <1>2, <1>3, PutTurns DEF Enabled
<1>4. CASE c \notin Enabled(es)
  BY <1>1, <1>4, TurnedSame DEF Enabled, Charged, Off
<1> QED
  BY <1>3, <1>4

LEMMA ReportsTurn ==
  ASSUME NEW w, NEW es, IsPool(es), NEW c, w[c] # "ok"
  PROVE  /\ AllTurned(es, Throttle(es, c), w)
         /\ c \in DOMAIN es => Off(Throttle(es, c)[c])
         /\ AllTurned(es, InvalidateRefreshToken(es, c), w)
         /\ c \in DOMAIN es /\ Sound(es[c]) => /\ AllTurned(es, ExhaustQuota(es, c), w)
                                              /\ Off(ExhaustQuota(es, c)[c])
<1>1. c \in DOMAIN es => es[c] \in Entry /\ es[c].failures \in Nat /\ es[c].failures <= es[c].failures
  BY DEF IsPool, Entry
<1>2. AllTurned(es, Throttle(es, c), w) /\ (c \in DOMAIN es => Off(Throttle(es, c)[c]))
  <2> DEFINE f == [es[c] EXCEPT !.throttled = TRUE]
  <2>1. c \in DOMAIN es => f \in Entry /\ Turned(w[c], es[c], f) /\ Off(f)
    BY <1>1 DEF Entry, Turned, Sound, Off
  <2> HIDE DEF f
  <2>2. Throttle(es, c) = Put(es, c, f)
    BY DEF Throttle, f
  <2> QED
    BY <2>1, <2>2, PutTurns
<1>3. AllTurned(es, InvalidateRefreshToken(es, c), w)
  <2> DEFINE f == Disable(es[c], "InvalidRefreshToken")
  <2>1. c \in DOMAIN es => f \in Entry /\ Turned(w[c], es[c], f)
    <3>1. c \in DOMAIN es => es[c] = [es[c] EXCEPT !.failures = es[c].failures]
      BY <1>1 DEF Entry
    <3> QED
      BY <1>1, <3>1, DisableTurns
  <2> HIDE DEF f
  <2>2. InvalidateRefreshToken(es, c) = IF c \notin Enabled(es) THEN es ELSE Put(es, c, f)
    BY DEF InvalidateRefreshToken, f
  <2> QED
    BY <2>1, <2>2, PutTurns, TurnedSame
<1>4. ASSUME c \in DOMAIN es, Sound(es[c])
      PROVE  AllTurned(es, ExhaustQuota(es, c), w) /\ Off(ExhaustQuota(es, c)[c])
  <2> DEFINE f == Disable([es[c] EXCEPT !.failures = MaxFailures], "QuotaExceeded")
  <2>1. CASE c \in Enabled(es)
    <3>1. MaxFailures \in Nat /\ es[c].failures <= MaxFailures
      BY <1>1, <1>4, <2>1, MaxFailuresAssumption DEF Sound, Enabled
    <3>2. f \in Entry /\ Turned(w[c], es[c], f) /\ Off(f)
      BY <1>1, <1>4, <3>1, DisableTurns
    <3> HIDE DEF f
    <3>3. ExhaustQuota(es, c) = Put(es, c, f)
      BY <2>1 DEF ExhaustQuota, f
    <3> QED
      BY <1>4, <3>2, <3>3, PutTurns
  <2>2. CASE c \notin Enabled(es)
    <3>1. ExhaustQuota(es, c) = es /\ Off(es[c])
      BY <1>4, <2>2 DEF ExhaustQuota, Enabled, Off
    <3> QED
      BY <3>1, TurnedSame
  <2> QED
    BY <2>1, <2>2
<1> QED
  BY <1>2, <1>3, <1>4

\* Neither does a renewal of the access token bear on the failures of calls.
LEMMA RenewalTurns ==
  ASSUME NEW w, NEW es, IsPool(es), NEW c
  PROVE  /\ AllTurned(es, Renewed(es, c), w)
         /\ c \in DOMAIN es => Off(Renewed(es, c)[c]) = Off(es[c])
         /\ w[c] # "ok" => AllTurned(es, FailRefresh(es, c), w)
<1>1. ASSUME NEW e \in Entry, NEW n \in Nat, NEW who
      PROVE  LET f == [e EXCEPT !.refreshFailures = n]
             IN  f \in Entry /\ Turned(who, e, f) /\ Off(f) = Off(e)
  BY DEF Entry, Turned, Sound, Off
<1>2. c \in DOMAIN es => es[c] \in Entry /\ es[c].refreshFailures + 1 \in Nat
  BY DEF IsPool, Entry
<1>3. AllTurned(es, Renewed(es, c), w) /\ (c \in DOMAIN es => Off(Renewed(es, c)[c]) = Off(es[c]))
  <2> DEFINE f == [es[c] EXCEPT !.refreshFailures = 0]
  <2>1. c \in DOMAIN es => f \in Entry /\ Turned(w[c], es[c], f) /\ Off(f) = Off(es[c])
    BY <1>1, <1>2
  <2> HIDE DEF f
  <2>2. Renewed(es, c) = Put(es, c, f)
    BY DEF Renewed, f
  <2> QED
    BY <2>1, <2>2, PutTurns
<1>4. ASSUME w[c] # "ok"
      PROVE  AllTurned(es, FailRefresh(es, c), w)
  <2> DEFINE e == [es[c] EXCEPT !.refreshFailures = @ + 1]
             f == IF e.refreshFailures >= MaxFailures
                  THEN Disable(e, "TooManyRefreshFailures") ELSE e
  <2>1. c \in DOMAIN es => e \in Entry /\ Turned(w[c], es[c], e) /\ Off(e) = Off(es[c])
    BY <1>1, <1>2
  <2>2. FailRefresh(es, c) = IF c \notin Enabled(es) THEN es ELSE Put(es, c, f)
    BY DEF FailRefresh
  <2> HIDE DEF e
  <2>3. ASSUME NEW x \in Entry, NEW y \in Entry, NEW who, who # "ok", Turned(who, x, y)
        PROVE  LET z == Disable(y, "TooManyRefreshFailures")
               IN  z \in Entry /\ Turned(who, x, z)
    <3> DEFINE z == Disable(y, "TooManyRefreshFailures")
    <3>1. /\ z \in Entry /\ z.disabled /\ z.max = y.max /\ z.failures = y.failures
      BY DEF Entry, Disable, Reasons
    <3> HIDE DEF z
    <3>2. Turned(who, x, z)
      BY <2>3, <3>1 DEF Turned, Sound, Off
    <3> QED
      BY <3>1, <3>2 DEF z
  <2>4. c \in DOMAIN es => f \in Entry /\ Turned(w[c], es[c], f)
    BY <1>2, <1>4, <2>1, <2>3
  <2> HIDE DEF f
  <2> QED
    BY <2>2, <2>4, PutTurns, TurnedSame
<1> QED
  BY <1>3, <1>4

LEMMA TurnsCompose ==
  ASSUME NEW w, NEW es, IsPool(es), NEW fs, AllTurned(es, fs, w), NEW gs, AllTurned(fs, gs, w)
  PROVE  AllTurned(es, gs, w)
<1>1. /\ IsPool(gs) /\ DOMAIN gs = DOMAIN es /\ DOMAIN fs = DOMAIN es
      /\ \A c \in DOMAIN es : Turned(w[c], es[c], fs[c]) /\ Turned(w[c], fs[c], gs[c])
  BY DEF AllTurned
<1>2. ASSUME NEW c \in DOMAIN es
      PROVE  Turned(w[c], es[c], gs[c])
  <2>1. es[c].failures \in Nat /\ fs[c].failures \in Nat /\ gs[c].failures \in Nat
    BY <1>1 DEF IsPool, Entry, AllTurned
  <2> QED
    BY <1>1, <2>1 DEF Turned
<1> QED
  BY <1>1, <1>2 DEF AllTurned

LEMMA LeaveTurns ==
  ASSUME NEW w, IsPool(entries), NEW r, NEW es, AllTurned(entries, es, w),
         NEW label, NEW n, Leave(r, es, label, n)
  PROVE  AllTurned(entries, entries', w)
<1>1. entries' = ReleaseSlot(es, guard[r]) /\ IsPool(es)
  BY DEF Leave, AllTurned
<1>2. AllTurned(es, entries', w)
  BY <1>1, SlotsTurn
<1> QED
  BY <1>2, TurnsCompose

LEMMA OnwardsTurn ==
  ASSUME NEW w, IsPool(entries), NEW r, NEW es, AllTurned(entries, es, w)
  PROVE  /\ NextAttempt(r, es) => AllTurned(entries, entries', w)
         /\ \A label : Return(r, es, label) => AllTurned(entries, entries', w)
         /\ Blame(r, es) => AllTurned(entries, entries', w)
BY LeaveTurns DEF NextAttempt, Return, Blame

\* What an answer says of the credential.
LEMMA Verdicts ==
  ASSUME TokenInv, NEW r \in Requests, pc[r] = "call"
  PROVE  /\ "success" \in Answers(r) =>
              /\ persona[guard[r]] \notin Bad
              /\ persona[guard[r]] = "revoked" => token[r] # 0
         /\ Answers(r) \cap {"denied", "no endpoint", "quota", "suspicious"} # {}
              => persona[guard[r]] \in Bad
         /\ "invalid token" \in Answers(r) =>
              \/ persona[guard[r]] = "stuck"
              \/ persona[guard[r]] = "revoked" /\ token[r] = 0
         /\ Answers(r) \cap {"transient", "gateway timeout"} # {} => persona[guard[r]] = "flaky"
         /\ "suspicious" \in Answers(r) => persona[guard[r]] = "limited"
         /\ "bad request" \in Answers(r) => r \in malformed
<1> DEFINE who == persona[guard[r]]
           fine == IF r \in malformed THEN "bad request" ELSE "success"
<1>1. who \in Personas
  BY DEF TokenInv, Inv, Held
<1>2. /\ who = "flaky" => Answers(r) = {fine, "transient", "gateway timeout"}
      /\ who = "revoked" /\ token[r] = 0 => Answers(r) = {"invalid token"}
      /\ who = "revoked" /\ token[r] # 0 => Answers(r) = {fine}
      /\ who = "stuck" => Answers(r) = {"invalid token"}
      /\ who = "forbidden" => Answers(r) = {"denied"}
      /\ who = "no endpoint" => Answers(r) = {"no endpoint"}
      /\ who = "spent" => Answers(r) = {"quota"}
      /\ who = "limited" => Answers(r) = {"suspicious"}
      /\ who = "no client" => Answers(r) = {}
      /\ who \in {"ok", "lapsed", "dead"} => Answers(r) = {fine}
  BY <1>1 DEF Answers, Personas
<1>3. fine \in {"bad request", "success"} /\ (fine = "bad request" => r \in malformed)
  OBVIOUS
<1> HIDE DEF fine
<1>4. ASSUME NEW w, w = who, NEW A, A = Answers(r)
      PROVE  /\ "success" \in A => w \notin Bad /\ (w = "revoked" => token[r] # 0)
             /\ A \cap {"denied", "no endpoint", "quota", "suspicious"} # {} => w \in Bad
             /\ "invalid token" \in A => w = "stuck" \/ (w = "revoked" /\ token[r] = 0)
             /\ A \cap {"transient", "gateway timeout"} # {} => w = "flaky"
             /\ "suspicious" \in A => w = "limited"
             /\ "bad request" \in A => r \in malformed
  <2> HIDE DEF who
  <2>1. CASE w \in {"flaky", "revoked", "ok"}
    BY ONLY <1>2, <1>3, <1>4, <2>1 DEF Bad
  <2>4. CASE w \in {"no client", "lapsed", "dead"}
    BY ONLY <1>2, <1>3, <1>4, <2>4 DEF Bad
  <2>2. CASE w \in {"stuck", "forbidden"}
    BY ONLY <1>2, <1>4, <2>2 DEF Bad
  <2>3. CASE w \in {"no endpoint", "spent", "limited"}
    BY ONLY <1>2, <1>4, <2>3 DEF Bad
  <2> QED
    BY <1>1, <1>4, <2>1, <2>2, <2>3, <2>4 DEF Personas
<1> QED
  BY <1>4

\* Somebody works: a credential that answers, for all requests.
SomeWorks == \E c \in DOMAIN entries : Works(c)

\* The credentials that work are never turned off.
PoolSound ==
  \A c \in DOMAIN entries : /\ Sound(entries[c])
                            /\ Works(c) => ~Off(entries[c])

\* While somebody works nobody looks in vain, and nothing is healed.
LEMMA WorkersFound ==
  ASSUME PoolSound, NoneGrouped, NEW r \in Requests, SomeWorks
  PROVE  /\ AvailableIds(entries, Q(r)) # {}
         /\ AnyEnabled(entries)
BY DEF PoolSound, NoneGrouped, SomeWorks, Off, AvailableIds, Available, Q, GroupMatches,
   AnyEnabled, Enabled

\* Who works after a step worked before it.
LEMMA OutagesGrow ==
  ASSUME NEW r \in Requests, Step(r), persona' = persona
  PROVE  malformed' = malformed /\ \A c : Works(c)' => Works(c)
<1>1. outages \subseteq outages' /\ malformed' = malformed
  <2>1. CASE AcquireFails(r) \/ RenewFails(r)
    BY <2>1 DEF AcquireFails, RenewFails
  <2>2. CASE Begin(r) \/ GiveUp(r) \/ Acquire(r) \/ FindFull(r) \/ FindNone(r)
    BY <2>2 DEF Begin, GiveUp, Acquire, FindFull, FindNone
  <2>3. CASE NoClient(r) \/ Succeeds(r) \/ Rejected(r) \/ QuotaExhausted(r) \/ Denied(r)
    BY <2>3 DEF NoClient, Succeeds, Rejected, QuotaExhausted, Denied, Answered
  <2>4. CASE NoEndpoint(r) \/ AccountThrottled(r) \/ ForceRefresh(r) \/ Stumble(r)
    BY <2>4 DEF NoEndpoint, AccountThrottled, ForceRefresh, Stumble, Answered
  <2>5. CASE Renew(r) \/ Wake(r) \/ Finish(r)
    BY <2>5 DEF Renew, Wake, Finish
  <2> QED
    BY <2>1, <2>2, <2>3, <2>4, <2>5 DEF Step
<1> QED
  BY <1>1 DEF Works

\* What a credential is after a step.
LEMMA RolesKnown ==
  ASSUME TokenInv, NEW r \in Requests, Step(r), NEW c \in Ids
  PROVE  /\ Works(c)' <=> Roles'[c] = "ok"
         /\ persona[c] \in Bad => Roles'[c] = persona[c]
         /\ persona[c] = "revoked" => Roles'[c] = IF issued'[c] = 0 THEN "stuck" ELSE "revoked"
         /\ Roles'[c] \in Bad => \/ persona[c] \in Bad
                                 \/ persona[c] = "revoked" /\ issued'[c] = 0
<1>1. persona' = persona
  BY StepsTokens
<1>2. Roles'[c] = IF Works(c)' THEN "ok"
                  ELSE IF persona[c] = "revoked" /\ issued'[c] = 0 THEN "stuck"
                  ELSE persona[c]
  BY <1>1 DEF Roles
<1>3. Works(c)' => persona[c] \in {"ok", "lapsed"}
  BY <1>1 DEF Works
<1>4. persona[c] = "ok" => Works(c)'
  BY <1>1 DEF Works
<1> QED
  BY <1>2, <1>3, <1>4 DEF Bad

\* A renewal that fails in an acquisition is of a credential that does not work.
LEMMA FailedTurns ==
  ASSUME TokenInv, NEW r \in Requests, Step(r), AcquireFails(r)
  PROVE  \E es : /\ AllTurned(entries, es, Roles')
                 /\ IF AnyEnabled(es)
                    THEN entries' = es /\ UNCHANGED <<pc, attempt, guard, token>>
                    ELSE NextAttempt(r, es)
<1>1. PICK c \in Choices(r), refused \in BOOLEAN :
        LET es == IF refused THEN InvalidateRefreshToken(entries, c)
                  ELSE FailRefresh(entries, c) IN
        /\ Expired(c) /\ (refused => persona[c] = "dead")
        /\ IF AnyEnabled(es)
           THEN entries' = es /\ UNCHANGED <<pc, attempt, guard, token>>
           ELSE NextAttempt(r, es)
        /\ outages' = outages \cup (IF refused THEN {} ELSE {c})
  BY DEF AcquireFails
<1>2. IsPool(entries) /\ c \in Ids
  BY DEF TokenInv, Inv, IsPool, Choices, BestChoices, Candidates, AvailableIds
<1>3. Roles'[c] # "ok"
  <2>1. persona' = persona
    BY StepsTokens
  <2>2. ~Works(c)'
    BY <1>1, <2>1 DEF Works, Expired
  <2> QED
    BY <1>2, <2>2, RolesKnown
<1> DEFINE es == IF refused THEN InvalidateRefreshToken(entries, c)
                 ELSE FailRefresh(entries, c)
<1>4. AllTurned(entries, es, Roles')
  BY <1>2, <1>3, ReportsTurn, RenewalTurns
<1>5. IF AnyEnabled(es)
      THEN entries' = es /\ UNCHANGED <<pc, attempt, guard, token>>
      ELSE NextAttempt(r, es)
  BY <1>1
<1> HIDE DEF es
<1> QED
  BY <1>4, <1>5

\* What a step does to the entries.
LEMMA StepTurns ==
  ASSUME TokenInv, PoolSound, NoneGrouped, NEW r \in Requests, Step(r)
  PROVE  \/ AllTurned(entries, entries', Roles')
         \/ entries' = Autoheal(entries) /\ ~SomeWorks
<1> DEFINE c == guard[r]
<1>0. IsPool(entries) /\ AllTurned(entries, entries, Roles')
  BY TurnedSame DEF TokenInv, Inv
<1>same. persona' = persona
  BY StepsTokens
<1>held. pc[r] \in {"call", "refresh"} => c \in Ids
  BY DEF TokenInv, Inv, Held
<1>known. pc[r] = "call" =>
            /\ "success" \in Answers(r) => Roles'[c] \notin Bad
            /\ Answers(r) \cap {"denied", "no endpoint", "quota", "suspicious"} # {}
                 => Roles'[c] # "ok"
            /\ "invalid token" \in Answers(r) => Roles'[c] # "ok"
  <2> SUFFICES ASSUME pc[r] = "call"
               PROVE  /\ "success" \in Answers(r) => Roles'[c] \notin Bad
                      /\ Answers(r) \cap {"denied", "no endpoint", "quota", "suspicious"} # {}
                           => Roles'[c] # "ok"
                      /\ "invalid token" \in Answers(r) => Roles'[c] # "ok"
    OBVIOUS
  <2>0. c \in Ids
    BY <1>held
  <2>1. /\ "success" \in Answers(r) =>
             persona[c] \notin Bad /\ (persona[c] = "revoked" => token[r] # 0)
        /\ Answers(r) \cap {"denied", "no endpoint", "quota", "suspicious"} # {}
             => persona[c] \in Bad
        /\ "invalid token" \in Answers(r) => persona[c] \in {"stuck", "revoked"}
    BY Verdicts
  <2>2. persona[c] = "revoked" /\ token[r] # 0 => issued'[c] # 0
    <3>1. /\ token[r] \in Nat /\ issued[c] \in Nat /\ issued'[c] \in Nat
          /\ token[r] <= issued[c] /\ issued[c] <= issued'[c]
      BY <2>0, StepIssues DEF TokenInv, TokenKnown
    <3> QED
      BY <3>1
  <2> HIDE DEF c
  <2>3. /\ persona[c] \in Bad => Roles'[c] = persona[c]
        /\ persona[c] = "revoked" => Roles'[c] = IF issued'[c] = 0 THEN "stuck" ELSE "revoked"
        /\ Roles'[c] \in Bad => \/ persona[c] \in Bad
                                \/ persona[c] = "revoked" /\ issued'[c] = 0
    BY <2>0, RolesKnown
  <2>4. persona[c] \in Bad \cup {"revoked"} => Roles'[c] # "ok"
    BY <2>3 DEF Bad
  <2> QED
    BY <2>1, <2>2, <2>3, <2>4 DEF Bad
<1> HIDE DEF c
<1>1. CASE Begin(r) \/ ForceRefresh(r)
  BY <1>0, <1>1 DEF Begin, ForceRefresh
<1>2. CASE GiveUp(r)
  BY <1>0, <1>2, OnwardsTurn DEF GiveUp
<1>3. CASE Acquire(r)
  <2>1. PICK d : entries' = Occupy(Renewed(entries, d), d)
    BY <1>3, Acquired
  <2>2. AllTurned(entries, Renewed(entries, d), Roles')
    BY <1>0, RenewalTurns
  <2>3. IsPool(Renewed(entries, d))
    BY <2>2 DEF AllTurned
  <2>4. AllTurned(Renewed(entries, d), entries', Roles')
    BY <2>1, <2>3, SlotsTurn
  <2> QED
    BY <1>0, <2>2, <2>4, TurnsCompose
<1>4. CASE AcquireFails(r)
  BY <1>0, <1>4, FailedTurns, OnwardsTurn
<1>5. CASE FindFull(r)
  BY <1>0, <1>5, OnwardsTurn DEF FindFull
<1>6. CASE FindNone(r)
  <2>1. AvailableIds(entries, Q(r)) = {}
    BY <1>6 DEF FindNone
  <2>2. ~SomeWorks
    BY <2>1, WorkersFound
  <2>3. entries' = Autoheal(entries) \/ NextAttempt(r, entries)
    BY <1>6 DEF FindNone
  <2> QED
    BY <1>0, <2>2, <2>3, OnwardsTurn
<1>7. CASE Succeeds(r)
  <2>1. /\ pc[r] = "call" /\ "success" \in Answers(r)
        /\ entries' = Succeed(entries, c) \/ Return(r, Succeed(entries, c), "done")
    BY <1>7 DEF Succeeds, Answered, c
  <2>2. AllTurned(entries, Succeed(entries, c), Roles')
    BY <1>0, <1>known, <2>1, SucceedTurns
  <2> QED
    BY <1>0, <2>1, <2>2, OnwardsTurn
<1>8. CASE Rejected(r)
  BY <1>0, <1>8, OnwardsTurn DEF Rejected
<1>9. CASE QuotaExhausted(r)
  <2>1. pc[r] = "call" /\ "quota" \in Answers(r) /\ Blame(r, ExhaustQuota(entries, c))
    BY <1>9 DEF QuotaExhausted, Answered, c
  <2>2. Roles'[c] # "ok"
    BY <1>known, <2>1
  <2>3. AllTurned(entries, ExhaustQuota(entries, c), Roles')
    <3>1. CASE c \in DOMAIN entries
      BY <1>0, <2>2, <3>1, ReportsTurn DEF PoolSound
    <3>2. CASE c \notin DOMAIN entries
      BY <1>0, <3>2 DEF ExhaustQuota, Enabled
    <3> QED
      BY <3>1, <3>2
  <2> QED
    BY <1>0, <2>1, <2>3, OnwardsTurn
<1>10. CASE Denied(r)
  <2>1. /\ pc[r] = "call" /\ Blame(r, Fail(entries, c))
        /\ "denied" \in Answers(r) \/ "invalid token" \in Answers(r)
    BY <1>10 DEF Denied, Answered, c
  <2>2. Roles'[c] # "ok"
    BY <1>known, <2>1
  <2> QED
    BY <1>0, <2>1, <2>2, FailTurns, OnwardsTurn
<1>11. CASE NoEndpoint(r)
  <2>1. /\ pc[r] = "call" /\ NextAttempt(r, Fail(entries, c)) /\ "no endpoint" \in Answers(r)
    BY <1>11 DEF NoEndpoint, Answered, c
  <2>2. Roles'[c] # "ok"
    BY <1>known, <2>1
  <2> QED
    BY <1>0, <2>1, <2>2, FailTurns, OnwardsTurn
<1>12. CASE AccountThrottled(r)
  <2>1. /\ pc[r] = "call" /\ "suspicious" \in Answers(r)
        /\ Return(r, Throttle(entries, c), "failed") \/ NextAttempt(r, Throttle(entries, c))
    BY <1>12 DEF AccountThrottled, Answered, c
  <2>2. Roles'[c] # "ok"
    BY <1>known, <2>1
  <2> QED
    BY <1>0, <2>1, <2>2, ReportsTurn, OnwardsTurn
<1>13. CASE Renew(r)
  BY <1>0, <1>13, RenewalTurns, OnwardsTurn DEF Renew
<1>14. CASE RenewFails(r)
  <2>1. pc[r] = "refresh" /\ Blame(r, Fail(entries, c))
    BY <1>14 DEF RenewFails, c
  <2>2. persona[c] \in {"revoked", "stuck"}
    BY <2>1 DEF TokenInv, TokenKnown, c
  <2>3. Roles'[c] # "ok"
    BY <1>held, <2>1, <2>2, RolesKnown DEF Bad
  <2> QED
    BY <1>0, <2>1, <2>3, FailTurns, OnwardsTurn
<1>15. CASE Stumble(r)
  <2>1. entries' = entries \/ Return(r, entries, "failed")
    BY <1>15 DEF Stumble
  <2> QED
    BY <1>0, <2>1, OnwardsTurn
<1>16. CASE Wake(r)
  BY <1>0, <1>16, OnwardsTurn DEF Wake
<1>17. CASE Finish(r)
  BY <1>0, <1>17, OnwardsTurn DEF Finish
<1>18. CASE NoClient(r)
  BY <1>0, <1>18, OnwardsTurn DEF NoClient
<1> QED
  BY <1>1, <1>2, <1>3, <1>4, <1>5, <1>6, <1>7, <1>8, <1>9, <1>10, <1>11, <1>12,
     <1>13, <1>14, <1>15, <1>16, <1>17, <1>18 DEF Step

-----------------------------------------------------------------------------
(* What the bad credentials have paid.                                     *)

\* What is counted against c, for r.  While r holds c one failure more may be
\* counted for it, though others have c disabled meanwhile.  Once the token of a
\* revoked one is renewed it costs no more, unless r still has the old token.
Price(r, c) ==
  IF persona[c] \notin Bad \cup {"revoked"} THEN 0
  ELSE IF persona[c] = "revoked" /\ issued[c] # 0
  THEN IF guard[r] = c /\ token[r] = 0 THEN MaxFailures - 1 ELSE MaxFailures
  ELSE IF Off(entries[c]) /\ guard[r] # c THEN MaxFailures
  ELSE MinOf(entries[c].failures, MaxFailures - 1)

Renewals(r, c) == IF r \in Tried(c) THEN 1 ELSE 0

Spent(r, c) == Renewals(r, c) + Price(r, c)

\* The attempts that are paid for, numbered by credential.
Paid(r) == {p \in (DOMAIN entries) \X (1 .. MaxFailures + 1) : p[2] <= Spent(r, p[1])}

Allowance == MinOf(Cardinality(DOMAIN entries) * MaxRetriesPerCredential, MaxTotalRetries)

\* r has attempts left, and meets no failure that is nobody's fault.
Afloat(r) ==
  /\ pc[r] \notin {"failed", "backoff"}
  /\ attempt[r] <= Cardinality(Paid(r))
  /\ pc[r] # "idle" => budget[r] = Allowance

\* A request that must be answered.
Served(r) == r \notin malformed /\ ~Starves(r) /\ SomeWorks

\* The inductive invariant.
ReachInv ==
  /\ TokenInv
  /\ attempt \in [Requests -> Nat] /\ budget \in [Requests -> Nat]
  /\ (Cardinality(DOMAIN entries) - 1) * (MaxFailures + 1) < Allowance
  /\ PoolSound
  /\ \A r \in Requests : guard[r] \in (DOMAIN entries) \cup {NoId}
  /\ \A r \in Requests : Served(r) => Afloat(r)

LEMMA SpentBounded ==
  ASSUME IsPool(entries), NEW r, NEW c \in DOMAIN entries
  PROVE  /\ Price(r, c) \in Nat /\ Renewals(r, c) \in {0, 1} /\ Spent(r, c) \in Nat
         /\ Spent(r, c) <= MaxFailures + 1
<1>1. entries[c].failures \in Nat
  BY DEF IsPool, Entry
<1>2. Price(r, c) \in Nat /\ Price(r, c) <= MaxFailures
  BY <1>1, MaxFailuresAssumption DEF Price, MinOf
<1>3. Renewals(r, c) \in {0, 1}
  BY DEF Renewals
<1> QED
  BY <1>2, <1>3, MaxFailuresAssumption DEF Spent

LEMMA PaidFinite ==
  ASSUME IsPool(entries), NEW r
  PROVE  /\ IsFiniteSet(DOMAIN entries) /\ Cardinality(DOMAIN entries) \in Nat
         /\ IsFiniteSet(Paid(r)) /\ Cardinality(Paid(r)) \in Nat
<1>1. IsFiniteSet(DOMAIN entries)
  BY IdsAssumption, FS_Subset DEF IsPool
<1>2. IsFiniteSet(1 .. MaxFailures + 1)
  BY MaxFailuresAssumption, FS_Interval
<1>3. IsFiniteSet((DOMAIN entries) \X (1 .. MaxFailures + 1))
  BY <1>1, <1>2, FS_Product
<1>4. Paid(r) \subseteq (DOMAIN entries) \X (1 .. MaxFailures + 1)
  BY DEF Paid
<1>5. IsFiniteSet(Paid(r))
  BY <1>3, <1>4, FS_Subset
<1> QED
  BY <1>1, <1>5, FS_CardinalityType

\* A credential that works pays nothing, the others not enough for all attempts.
LEMMA PaidFew ==
  ASSUME TokenInv, NEW r \in Requests, SomeWorks
  PROVE  Cardinality(Paid(r)) <= (Cardinality(DOMAIN entries) - 1) * (MaxFailures + 1)
<1> DEFINE D == DOMAIN entries
           K == 1 .. MaxFailures + 1
<1>1. PICK c \in D : persona[c] \in {"ok", "lapsed"}
  BY DEF SomeWorks, Works
<1>2. IsPool(entries) /\ IsFiniteSet(D) /\ Cardinality(D) \in Nat
  BY PaidFinite DEF TokenInv, Inv
<1>3. Spent(r, c) = 0
  <2>1. c \notin refreshed[r]
    BY <1>1 DEF TokenInv, TokenKnown
  <2>2. Renewals(r, c) = 0
    BY <2>1 DEF Renewals, Tried
  <2>3. persona[c] \notin Bad \cup {"revoked"}
    BY <1>1 DEF Bad
  <2>4. Price(r, c) = 0
    BY <2>3 DEF Price
  <2> QED
    BY <2>2, <2>4 DEF Spent
<1>4. Paid(r) \subseteq (D \ {c}) \X K
  <2>1. ASSUME NEW p \in Paid(r)
        PROVE  p \in (D \ {c}) \X K
    <3>1. p \in D \X K /\ p[2] <= Spent(r, p[1]) /\ p[2] >= 1
      BY MaxFailuresAssumption DEF Paid
    <3>2. p[1] # c
      BY <1>3, <3>1
    <3> QED
      BY <3>1, <3>2
  <2> QED
    BY <2>1
<1>5. IsFiniteSet(D \ {c}) /\ Cardinality(D \ {c}) = Cardinality(D) - 1
  BY <1>1, <1>2, FS_RemoveElement
<1>6. IsFiniteSet(K) /\ Cardinality(K) = MaxFailures + 1
  <2>1. 1 \in Int /\ MaxFailures + 1 \in Int /\ 1 <= MaxFailures + 1
    BY MaxFailuresAssumption
  <2>2. IsFiniteSet(K) /\ Cardinality(K) = (MaxFailures + 1) - 1 + 1
    BY <2>1, FS_Interval
  <2> QED
    BY <2>2, MaxFailuresAssumption
<1> HIDE DEF D, K
<1>7. /\ IsFiniteSet((D \ {c}) \X K)
      /\ Cardinality((D \ {c}) \X K) = (Cardinality(D) - 1) * (MaxFailures + 1)
  BY <1>5, <1>6, FS_Product
<1>8. Cardinality(Paid(r)) <= Cardinality((D \ {c}) \X K)
  BY <1>4, <1>7, FS_Subset
<1> QED
  BY <1>7, <1>8 DEF D

\* What is paid for one credential grows, so all that is paid does.
LEMMA PaidGrows ==
  ASSUME IsPool(entries), IsPool(entries'), DOMAIN entries' = DOMAIN entries, NEW r,
         \A c \in DOMAIN entries : Spent(r, c) <= Spent(r, c)'
  PROVE  /\ Cardinality(Paid(r)) <= Cardinality(Paid(r)')
         /\ \A c \in DOMAIN entries : Spent(r, c) < Spent(r, c)' =>
              Cardinality(Paid(r)) + 1 <= Cardinality(Paid(r)')
<1>1. \A c \in DOMAIN entries : /\ Spent(r, c) \in Nat /\ Spent(r, c)' \in Nat
                                /\ Spent(r, c)' <= MaxFailures + 1
  <2>1. \A c \in DOMAIN entries : Spent(r, c) \in Nat
    BY SpentBounded
  <2>2. ASSUME NEW c \in DOMAIN entries
        PROVE  Spent(r, c)' \in Nat /\ Spent(r, c)' <= MaxFailures + 1
    <3>1. entries'[c].failures \in Nat
      BY DEF IsPool, Entry
    <3>2. Price(r, c)' \in Nat /\ Price(r, c)' <= MaxFailures
      BY <3>1, MaxFailuresAssumption DEF Price, MinOf
    <3>3. Renewals(r, c)' \in {0, 1}
      BY DEF Renewals
    <3> QED
      BY <3>2, <3>3, MaxFailuresAssumption DEF Spent
  <2> QED
    BY <2>1, <2>2
<1>2. Paid(r) \subseteq Paid(r)'
  <2>1. ASSUME NEW p \in Paid(r)
        PROVE  p \in Paid(r)'
    <3>1. /\ p \in (DOMAIN entries) \X (1 .. MaxFailures + 1) /\ p[2] <= Spent(r, p[1])
          /\ p[1] \in DOMAIN entries /\ p[2] \in Nat
      BY MaxFailuresAssumption DEF Paid
    <3>2. p[2] <= Spent(r, p[1])'
      <4>1. PICK c \in DOMAIN entries : c = p[1]
        BY <3>1
      <4>2. p[2] <= Spent(r, c)'
        BY <1>1, <3>1, <4>1
      <4> QED
        BY <4>1, <4>2 DEF Spent, Renewals, Price
    <3> QED
      BY <3>1, <3>2 DEF Paid
  <2> QED
    BY <2>1
<1>3. IsFiniteSet(Paid(r)') /\ Cardinality(Paid(r)') \in Nat
  <2>1. IsFiniteSet((DOMAIN entries) \X (1 .. MaxFailures + 1))
    <3>1. IsFiniteSet(DOMAIN entries)
      BY PaidFinite
    <3>2. IsFiniteSet(1 .. MaxFailures + 1)
      BY MaxFailuresAssumption, FS_Interval
    <3> QED
      BY <3>1, <3>2, FS_Product
  <2>2. Paid(r)' \subseteq (DOMAIN entries) \X (1 .. MaxFailures + 1)
    BY DEF Paid
  <2> QED
    BY <2>1, <2>2, FS_Subset, FS_CardinalityType
<1>4. Cardinality(Paid(r)) <= Cardinality(Paid(r)')
  BY <1>2, <1>3, FS_Subset
<1>5. ASSUME NEW c \in DOMAIN entries, Spent(r, c) < Spent(r, c)'
      PROVE  Cardinality(Paid(r)) + 1 <= Cardinality(Paid(r)')
  <2>1. PICK k : k = Spent(r, c)'
    OBVIOUS
  <2>2. k \in 1 .. MaxFailures + 1 /\ ~(k <= Spent(r, c))
    BY <1>1, <1>5, <2>1, MaxFailuresAssumption
  <2>3. <<c, k>> \in Paid(r)'
    BY <2>1, <2>2 DEF Paid
  <2>4. <<c, k>> \notin Paid(r)
    BY <2>2 DEF Paid
  <2>5. Cardinality(Paid(r)) # Cardinality(Paid(r)')
    BY <1>2, <1>3, <2>3, <2>4, FS_Subset
  <2>6. Cardinality(Paid(r)) \in Nat
    BY PaidFinite
  <2> QED
    BY <1>3, <1>4, <2>5, <2>6
<1> QED
  BY <1>4, <1>5

\* The set is finite after a step, too.
LEMMA PaidFiniteNext ==
  ASSUME IsPool(entries), DOMAIN entries' = DOMAIN entries, NEW r
  PROVE  Cardinality(Paid(r)') \in Nat
<1>1. IsFiniteSet(DOMAIN entries)
  BY PaidFinite
<1>2. IsFiniteSet(1 .. MaxFailures + 1)
  BY MaxFailuresAssumption, FS_Interval
<1>3. IsFiniteSet((DOMAIN entries) \X (1 .. MaxFailures + 1))
  BY <1>1, <1>2, FS_Product
<1>4. Paid(r)' \subseteq (DOMAIN entries) \X (1 .. MaxFailures + 1)
  BY DEF Paid
<1> QED
  BY <1>3, <1>4, FS_Subset, FS_CardinalityType

\* A step of anybody.
LEMMA SpentGrows ==
  ASSUME TokenInv, AllTurned(entries, entries', Roles'), PoolSound,
         NEW r \in Requests, Step(r),
         NEW q \in Requests, NEW c \in DOMAIN entries,
         guard'[q] = c => guard[q] = c \/ ~Off(entries'[c]),
         guard'[q] = c /\ token'[q] = 0 /\ issued'[c] # 0 => guard[q] = c /\ token[q] = 0
  PROVE  /\ Price(q, c) <= Price(q, c)' /\ Renewals(q, c) <= Renewals(q, c)'
         /\ Spent(q, c) <= Spent(q, c)'
<1>0. /\ IsPool(entries) /\ c \in Ids /\ persona' = persona /\ Tried(c) \subseteq Tried(c)'
      /\ issued[c] \in Nat /\ issued'[c] \in Nat /\ issued[c] <= issued'[c]
  BY StepsTokens, StepIssues DEF TokenInv, Inv, IsPool
<1>1. /\ entries[c].failures \in Nat /\ entries'[c].failures \in Nat
      /\ Turned(Roles'[c], entries[c], entries'[c])
      /\ Sound(entries[c]) /\ Sound(entries'[c])
  BY <1>0 DEF AllTurned, IsPool, Entry, PoolSound, Turned
<1>2. Renewals(q, c) <= Renewals(q, c)' /\ Renewals(q, c) \in Nat /\ Renewals(q, c)' \in Nat
  BY <1>0 DEF Renewals
<1>3. Price(q, c) <= Price(q, c)' /\ Price(q, c) \in Nat /\ Price(q, c)' \in Nat
  <2> DEFINE f == entries[c].failures
             g == entries'[c].failures
             Late == persona[c] = "revoked" /\ issued[c] # 0
             LateNext == persona[c] = "revoked" /\ issued'[c] # 0
  <2>0. /\ Price(q, c) = IF persona[c] \notin Bad \cup {"revoked"} THEN 0
                         ELSE IF Late
                         THEN IF guard[q] = c /\ token[q] = 0 THEN MaxFailures - 1
                              ELSE MaxFailures
                         ELSE IF Off(entries[c]) /\ guard[q] # c THEN MaxFailures
                         ELSE MinOf(f, MaxFailures - 1)
        /\ Price(q, c)' = IF persona[c] \notin Bad \cup {"revoked"} THEN 0
                          ELSE IF LateNext
                          THEN IF guard'[q] = c /\ token'[q] = 0 THEN MaxFailures - 1
                               ELSE MaxFailures
                          ELSE IF Off(entries'[c]) /\ guard'[q] # c THEN MaxFailures
                          ELSE MinOf(g, MaxFailures - 1)
    BY <1>0 DEF Price
  <2>1. CASE persona[c] \notin Bad \cup {"revoked"}
    BY <2>0, <2>1
  <2>2. CASE persona[c] \in Bad \cup {"revoked"} /\ ~LateNext
    <3>1. Roles'[c] \in Bad
      BY <1>0, <2>2, RolesKnown DEF Bad
    <3>2. f \in Nat /\ g \in Nat /\ f <= g /\ (Off(entries[c]) => Off(entries'[c]))
      BY <1>1, <3>1 DEF Turned
    <3>3. ~Late
      BY <1>0, <2>2
    <3> HIDE DEF f, g, Late, LateNext
    <3> QED
      BY <2>0, <2>2, <3>2, <3>3, MaxFailuresAssumption DEF MinOf
  <2>3. CASE LateNext
    <3>1. /\ Price(q, c)' = IF guard'[q] = c /\ token'[q] = 0 THEN MaxFailures - 1
                            ELSE MaxFailures
          /\ guard'[q] = c /\ token'[q] = 0 => guard[q] = c /\ token[q] = 0
      BY <2>0, <2>3
    <3>2. f \in Nat
      BY <1>1
    <3>3. /\ Price(q, c) \in Nat /\ Price(q, c) <= MaxFailures
          /\ guard[q] = c /\ token[q] = 0 => Price(q, c) <= MaxFailures - 1
      <4> HIDE DEF f, g, Late, LateNext
      <4> QED
        BY <2>0, <3>2, MaxFailuresAssumption DEF MinOf
    <3> QED
      BY <3>1, <3>3, MaxFailuresAssumption
  <2> QED
    BY <2>1, <2>2, <2>3
<1> QED
  BY <1>2, <1>3 DEF Spent

\* What ends an attempt costs the credential: it is bad, or r had its old token.
Costs(r, c) == persona[c] \in Bad \/ (persona[c] = "revoked" /\ token[r] = 0)

\* The end of an attempt on a credential that is charged for it.
LEMMA ChargeGrows ==
  ASSUME TokenInv, AllTurned(entries, entries', Roles'), PoolSound,
         NEW r \in Requests, Step(r), NEW c \in DOMAIN entries, Costs(r, c),
         guard[r] = c, guard'[r] # c, Charged(entries[c], entries'[c]),
         issued' = issued
  PROVE  Price(r, c) < Price(r, c)'
<1> DEFINE f == entries[c].failures
           g == entries'[c].failures
           Late == persona[c] = "revoked" /\ issued[c] # 0
<1>0. IsPool(entries) /\ c \in Ids /\ persona' = persona /\ issued[c] \in Nat
  BY StepsTokens DEF TokenInv, Inv, IsPool
<1>1. /\ Price(r, c) = IF Late THEN MaxFailures - 1 ELSE MinOf(f, MaxFailures - 1)
      /\ Price(r, c)' = IF Late THEN MaxFailures
                        ELSE IF Off(entries'[c]) THEN MaxFailures ELSE MinOf(g, MaxFailures - 1)
  BY <1>0 DEF Price, Costs, Bad
<1>2. CASE Late
  BY <1>1, <1>2, MaxFailuresAssumption
<1>3. CASE ~Late
  <2>1. Roles'[c] \in Bad
    BY <1>0, <1>3, RolesKnown DEF Costs, Bad
  <2>2. /\ f \in Nat /\ g \in Nat /\ f <= g /\ (Off(entries[c]) => Off(entries'[c]))
        /\ Sound(entries'[c]) /\ (Off(entries'[c]) \/ f < g)
    BY <1>0, <2>1 DEF AllTurned, IsPool, Entry, PoolSound, Turned, Charged
  <2>3. ~Off(entries'[c]) => g < MaxFailures
    BY <2>2 DEF Sound, Off
  <2> HIDE DEF f, g, Late
  <2> QED
    BY <1>1, <1>3, <2>2, <2>3, MaxFailuresAssumption DEF MinOf
<1> QED
  BY <1>2, <1>3

\* What a step does to the loop.
LEMMA StepAttempts ==
  ASSUME attempt \in [Requests -> Nat], budget \in [Requests -> Nat],
         NEW r \in Requests, Budget(r) \in Nat, Step(r)
  PROVE  /\ attempt' \in [Requests -> Nat] /\ budget' \in [Requests -> Nat]
         /\ \A q \in Requests \ {r} : attempt'[q] = attempt[q] /\ budget'[q] = budget[q]
         /\ Begin(r) \/ (budget' = budget /\ pc[r] # "idle")
<1>1. attempt[r] + 1 \in Nat
  OBVIOUS
<1>2. ASSUME NEW es, NEW label, NEW n \in Nat, Leave(r, es, label, n)
      PROVE  attempt' = [attempt EXCEPT ![r] = n]
  BY <1>2 DEF Leave
<1>3. ASSUME NEW es
      PROVE  /\ NextAttempt(r, es) => attempt' = [attempt EXCEPT ![r] = attempt[r] + 1]
             /\ \A label : Return(r, es, label) => attempt' = [attempt EXCEPT ![r] = 0]
             /\ Blame(r, es) => \/ attempt' = [attempt EXCEPT ![r] = attempt[r] + 1]
                                \/ attempt' = [attempt EXCEPT ![r] = 0]
  BY <1>1, <1>2 DEF NextAttempt, Return, Blame
<1> DEFINE Counted2 == /\ \/ attempt' = attempt
                          \/ attempt' = [attempt EXCEPT ![r] = attempt[r] + 1]
                          \/ attempt' = [attempt EXCEPT ![r] = 0]
                       /\ budget' = budget /\ pc[r] # "idle"
<1>4. CASE Begin(r)
  BY <1>4 DEF Begin
<1>5. CASE GiveUp(r)
  <2>1. Counted2
    BY <1>3, <1>5 DEF GiveUp
  <2> QED
    BY <1>1, <2>1
<1>6. CASE Acquire(r) \/ ForceRefresh(r)
  <2>1. Counted2
    BY <1>6 DEF Acquire, Acquiring, ForceRefresh, Answered
  <2> QED
    BY <1>1, <2>1
<1>7. CASE AcquireFails(r) \/ FindFull(r) \/ FindNone(r)
  <2>1. Counted2
    BY <1>3, <1>7 DEF AcquireFails, FindFull, FindNone, Acquiring
  <2> QED
    BY <1>1, <2>1
<1>8. CASE Rejected(r) \/ QuotaExhausted(r) \/ Denied(r)
  <2>1. Counted2
    BY <1>3, <1>8 DEF Rejected, QuotaExhausted, Denied, Answered
  <2> QED
    BY <1>1, <2>1
<1>9. CASE NoEndpoint(r) \/ AccountThrottled(r) \/ Stumble(r)
  <2>1. Counted2
    BY <1>3, <1>9 DEF NoEndpoint, AccountThrottled, Stumble, Answered
  <2> QED
    BY <1>1, <2>1
<1>10. CASE Renew(r) \/ RenewFails(r) \/ Wake(r) \/ Finish(r)
  <2>1. Counted2
    BY <1>3, <1>10 DEF Renew, RenewFails, Wake, Finish
  <2> QED
    BY <1>1, <2>1
<1>11. CASE Succeeds(r) \/ NoClient(r)
  <2>1. Counted2
    BY <1>3, <1>11 DEF Succeeds, NoClient, Answered
  <2> QED
    BY <1>1, <2>1
<1> QED
  BY <1>4, <1>5, <1>6, <1>7, <1>8, <1>9, <1>10, <1>11 DEF Step

\* Only a credential that may be used is taken.
LEMMA Taken ==
  ASSUME TokenInv, NEW r \in Requests, Acquire(r)
  PROVE  /\ guard'[r] \in DOMAIN entries
         /\ ~Off(entries'[guard'[r]])
<1>0. IsPool(entries)
  BY DEF TokenInv, Inv
<1>1. PICK c \in Ids : /\ c \in DOMAIN entries /\ ~Off(entries[c]) /\ guard'[r] = c
                      /\ entries' = Occupy(Renewed(entries, c), c)
  <2>1. PICK c \in Choices(r) : /\ c \in DOMAIN entries /\ c \in Ids /\ ~Off(entries[c])
                               /\ guard'[r] = c /\ entries' = Occupy(Renewed(entries, c), c)
    BY Acquired
  <2> QED
    BY <2>1
<1> DEFINE es == Renewed(entries, c)
<1>2. AllTurned(entries, es, Roles) /\ ~Off(es[c])
  BY <1>0, <1>1, RenewalTurns
<1>3. IsPool(es) /\ c \in DOMAIN es
  BY <1>1, <1>2 DEF AllTurned
<1> HIDE DEF es
<1>4. Off(Occupy(es, c)[c]) = Off(es[c])
  BY <1>3, SlotsTurn
<1> QED
  BY <1>1, <1>2, <1>4 DEF es

LEMMA StepSpends ==
  ASSUME TokenInv, PoolSound, NEW r \in Requests, Step(r), AllTurned(entries, entries', Roles'),
         NEW q \in Requests, NEW c \in DOMAIN entries
  PROVE  /\ Price(q, c) <= Price(q, c)' /\ Renewals(q, c) <= Renewals(q, c)'
         /\ Spent(q, c) <= Spent(q, c)'
<1>1. /\ Elsewhere(r)
      /\ \/ guard'[r] = NoId
         \/ guard'[r] = guard[r] /\ token'[r] = token[r]
         \/ ForceRefresh(r)
         \/ Acquire(r)
  BY StepsTokens
<1>2. IsPool(entries) /\ c # NoId
  BY IdsAssumption DEF TokenInv, Inv, IsPool
<1>3. guard'[q] = c => guard[q] = c \/ ~Off(entries'[c])
  BY <1>1, <1>2, Taken DEF Elsewhere, ForceRefresh
<1>4. ForceRefresh(r) => token'[r] = issued'[guard'[r]]
  BY DEF ForceRefresh, TokenInv
<1>5. Acquire(r) => token'[r] = issued'[guard'[r]]
  <2>1. Acquire(r) => \E d \in Ids, n \in Nat : guard'[r] = d /\ token'[r] = n /\ issued'[d] = n
    BY Acquired
  <2> QED
    BY <2>1
<1>6. guard'[q] = c /\ token'[q] = 0 /\ issued'[c] # 0 => guard[q] = c /\ token[q] = 0
  BY <1>1, <1>2, <1>4, <1>5 DEF Elsewhere
<1> QED
  BY <1>3, <1>6, SpentGrows

\* The credentials pay for whatever attempt ends.
LEMMA OwnSpends ==
  ASSUME TokenInv, PoolSound, NEW r \in Requests, Step(r), AllTurned(entries, entries', Roles'),
         NEW c \in DOMAIN entries, c = guard[r], guard'[r] = NoId,
         \/ pc[r] = "refresh" /\ pc'[r] # "refresh"
         \/ Costs(r, c) /\ Charged(entries[c], entries'[c]) /\ issued' = issued
  PROVE  Spent(r, c) < Spent(r, c)'
<1>1. /\ Tried(c) \subseteq Tried(c)' /\ persona' = persona
  BY StepsTokens
<1>2. /\ Price(r, c) <= Price(r, c)' /\ Renewals(r, c) <= Renewals(r, c)'
  BY StepSpends
<1>3. IsPool(entries) /\ IsPool(entries') /\ DOMAIN entries' = DOMAIN entries /\ c # NoId
  BY IdsAssumption DEF TokenInv, Inv, IsPool, AllTurned
<1>4. /\ Price(r, c) \in Nat /\ Renewals(r, c) \in {0, 1}
      /\ Price(r, c)' \in Nat /\ Renewals(r, c)' \in {0, 1}
  <2>1. Price(r, c) \in Nat /\ Renewals(r, c) \in {0, 1} /\ Renewals(r, c)' \in {0, 1}
    BY <1>3, SpentBounded DEF Renewals
  <2>2. entries'[c].failures \in Nat
    BY <1>3 DEF IsPool, Entry
  <2>3. Price(r, c)' \in Nat
    BY <2>2, MaxFailuresAssumption DEF Price, MinOf
  <2> QED
    BY <2>1, <2>3
<1>5. CASE pc[r] = "refresh" /\ pc'[r] # "refresh"
  <2>1. r \notin Tried(c)
    BY <1>5 DEF Tried
  <2>2. c \in refreshed[r]
    BY <1>5 DEF TokenInv, TokenKnown
  <2>3. r \in Tried(c)'
    <3>1. refreshed' = refreshed
      BY <1>5, StepShapes DEF TokenInv, Moves, Acquire, Acquiring, ForceRefresh, Answered,
         Renew, RenewFails
    <3> QED
      BY <1>5, <2>2, <3>1 DEF Tried
  <2>4. Renewals(r, c) = 0 /\ Renewals(r, c)' = 1
    BY <2>1, <2>3 DEF Renewals
  <2> QED
    BY <1>2, <1>4, <2>4 DEF Spent
<1>6. CASE Costs(r, c) /\ Charged(entries[c], entries'[c]) /\ issued' = issued
  <2>1. guard[r] = c /\ guard'[r] # c
    BY <1>3
  <2>2. Price(r, c) < Price(r, c)'
    BY <1>6, <2>1, ChargeGrows
  <2> QED
    BY <1>2, <1>4, <2>2 DEF Spent
<1> QED
  BY <1>5, <1>6

\* Who is served after a step was so before it; what there is to spend does not
\* change.
LEMMA ServedStays ==
  ASSUME TokenInv, NEW r \in Requests, Step(r), NEW q \in Requests, NoneGrouped,
         DOMAIN entries' = DOMAIN entries,
         \A c \in DOMAIN entries : entries'[c].max = entries[c].max
  PROVE  (Served(q)' => Served(q)) /\ (SomeWorks' => SomeWorks) /\ Allowance' = Allowance
<1>0. persona' = persona
  BY StepsTokens
<1>1. \A c \in DOMAIN entries : Suits(q, c) /\ Suits(q, c)'
  BY DEF Suits, GroupMatches, NoneGrouped
<1>2. Starves(q) <=> Starves(q)'
  BY <1>0, <1>1 DEF Starves
<1>3. malformed' = malformed /\ (SomeWorks' => SomeWorks)
  BY <1>0, OutagesGrow DEF SomeWorks
<1> QED
  BY <1>2, <1>3 DEF Served, Allowance

\* A step that ends no attempt.
LEMMA StillAfloat ==
  ASSUME IsPool(entries), AllTurned(entries, entries', Roles'), persona' = persona, NEW q \in Requests,
         attempt[q] \in Nat, Afloat(q), pc[q] # "idle", pc'[q] \notin {"failed", "backoff"},
         attempt'[q] \in {attempt[q], 0}, budget'[q] = budget[q],
         \A c \in DOMAIN entries : Spent(q, c) <= Spent(q, c)'
  PROVE  Afloat(q)'
<1>1. IsPool(entries') /\ DOMAIN entries' = DOMAIN entries
  BY DEF AllTurned
<1>2. Cardinality(Paid(q)) <= Cardinality(Paid(q)') /\ Cardinality(Paid(q)) \in Nat
  BY <1>1, PaidGrows, PaidFinite
<1>3. Cardinality(Paid(q)') \in Nat
  BY <1>1, PaidFiniteNext
<1>4. attempt'[q] <= Cardinality(Paid(q)')
  BY <1>2, <1>3 DEF Afloat
<1> QED
  BY <1>1, <1>4 DEF Afloat, Allowance

\* And one that does.
LEMMA AdvancesAfloat ==
  ASSUME IsPool(entries), AllTurned(entries, entries', Roles'), persona' = persona, NEW q \in Requests,
         attempt[q] \in Nat, Afloat(q), pc[q] # "idle", pc'[q] \notin {"failed", "backoff"},
         attempt'[q] = attempt[q] + 1, budget'[q] = budget[q],
         \A c \in DOMAIN entries : Spent(q, c) <= Spent(q, c)',
         NEW d \in DOMAIN entries, Spent(q, d) < Spent(q, d)'
  PROVE  Afloat(q)'
<1>1. IsPool(entries') /\ DOMAIN entries' = DOMAIN entries
  BY DEF AllTurned
<1>2. Cardinality(Paid(q)) + 1 <= Cardinality(Paid(q)') /\ Cardinality(Paid(q)) \in Nat
  BY <1>1, PaidGrows, PaidFinite
<1>3. Cardinality(Paid(q)') \in Nat
  BY <1>1, PaidFiniteNext
<1>4. attempt'[q] <= Cardinality(Paid(q)')
  BY <1>2, <1>3 DEF Afloat
<1> QED
  BY <1>1, <1>4 DEF Afloat, Allowance

\* While somebody works nobody runs out of credentials.
LEMMA WorkersLeft ==
  ASSUME TokenInv, PoolSound, NEW r \in Requests, Step(r), SomeWorks',
         DOMAIN entries' = DOMAIN entries, NEW es, AllTurned(entries, es, Roles')
  PROVE  AnyEnabled(es) /\ Schedulable(es) # {}
<1>1. PICK c \in DOMAIN entries : Works(c)'
  BY DEF SomeWorks
<1>2. c \in Ids
  BY DEF TokenInv, Inv, IsPool
<1>3. Works(c) /\ Roles'[c] = "ok"
  BY <1>1, <1>2, RolesKnown, OutagesGrow, StepsTokens
<1>4. c \in DOMAIN es /\ ~Off(es[c])
  BY <1>3 DEF PoolSound, AllTurned, Turned
<1>5. c \in Schedulable(es)
  BY <1>4 DEF Schedulable, Enabled, Off
<1> QED
  BY <1>5 DEF AnyEnabled, Schedulable

\* The budget of a request that is served.
LEMMA BudgetAllows ==
  ASSUME IsPool(entries), NoneGrouped, NEW r \in Requests
  PROVE  Budget(r) \in Nat /\ (SomeWorks => Budget(r) = Allowance)
<1>1. {c \in DOMAIN entries : Suits(r, c)} = DOMAIN entries
  BY DEF Suits, GroupMatches, NoneGrouped
<1>2. IsFiniteSet(DOMAIN entries) /\ Cardinality(DOMAIN entries) \in Nat
  BY PaidFinite
<1>3. PICK total : total = Cardinality(DOMAIN entries)
  OBVIOUS
<1>4. PICK n \in Nat : n = IF Kind[r] = "api" THEN MaxOf(total, 1) ELSE total
  BY <1>2, <1>3 DEF MaxOf
<1>5. Budget(r) = MinOf(n * MaxRetriesPerCredential, MaxTotalRetries)
  BY <1>1, <1>3, <1>4 DEF Budget
<1>6. n * MaxRetriesPerCredential \in Nat /\ MaxTotalRetries \in Nat
  BY <1>4, RetryAssumption
<1>7. Budget(r) \in Nat
  BY <1>5, <1>6 DEF MinOf
<1>8. ASSUME SomeWorks
      PROVE  n = total
  <2>1. Cardinality(DOMAIN entries) # 0
    BY <1>2, <1>8, FS_EmptySet DEF SomeWorks
  <2> QED
    BY <1>2, <1>3, <1>4, <2>1 DEF MaxOf
<1> QED
  BY <1>3, <1>5, <1>7, <1>8 DEF Allowance

\* The request that takes the step.
LEMMA OwnAfloat ==
  ASSUME ReachInv, NoneGrouped, NEW r \in Requests, Step(r), Served(r)', Served(r),
         AllTurned(entries, entries', Roles')
  PROVE  Afloat(r)'
<1> DEFINE c == guard[r]
<1>0. /\ TokenInv /\ PoolSound /\ SomeWorks /\ IsPool(entries) /\ Afloat(r)
      /\ pc \in [Requests -> PCs] /\ guard \in [Requests -> Ids \cup {NoId}]
      /\ attempt \in [Requests -> Nat] /\ budget \in [Requests -> Nat] /\ attempt[r] \in Nat
      /\ persona' = persona /\ r \notin malformed /\ ~Starves(r)
      /\ SomeWorks' /\ DOMAIN entries' = DOMAIN entries
  BY StepsTokens DEF ReachInv, TokenInv, Inv, Served, AllTurned
<1>held. pc[r] \in {"call", "refresh", "backoff", "stream"} => c \in DOMAIN entries
  BY DEF ReachInv, TokenInv, Inv, Held
<1>loop. /\ Begin(r) \/ (budget' = budget /\ pc[r] # "idle")
  BY <1>0, StepAttempts, BudgetAllows
<1>spent. \A d \in DOMAIN entries : Spent(r, d) <= Spent(r, d)'
  BY <1>0, StepSpends
<1>known. pc[r] = "call" =>
            /\ Answers(r) \cap {"denied", "no endpoint", "quota", "suspicious"} # {}
                 => persona[c] \in Bad
            /\ "invalid token" \in Answers(r) =>
                 persona[c] = "stuck" \/ (persona[c] = "revoked" /\ token[r] = 0)
            /\ Answers(r) \cap {"transient", "gateway timeout"} # {} => persona[c] = "flaky"
            /\ "suspicious" \in Answers(r) => persona[c] = "limited"
            /\ "bad request" \in Answers(r) => r \in malformed
  BY <1>0, Verdicts
<1>suits. \A d \in DOMAIN entries : Suits(r, d)
  BY DEF Suits, GroupMatches, NoneGrouped
<1>fed. \A d \in DOMAIN entries : /\ persona[d] \notin {"flaky", "no client"}
                                  /\ persona[d] = "limited" => Kind[r] # "mcp"
                                  /\ Kind[r] = "mcp" => ~(entries[d].max > 0)
  BY <1>0, <1>suits DEF Starves
<1>stay. ASSUME pc[r] # "idle", pc'[r] \notin {"failed", "backoff"}, attempt'[r] \in {attempt[r], 0},
                budget' = budget
         PROVE  Afloat(r)'
  BY <1>0, <1>spent, <1>stay, StillAfloat
<1>next. ASSUME pc[r] \in {"call", "refresh"}, NEW es, NextAttempt(r, es), budget' = budget,
                \/ pc[r] = "refresh"
                \/ Costs(r, c) /\ Charged(entries[c], entries'[c]) /\ issued' = issued
         PROVE  Afloat(r)'
  <2>1. /\ attempt'[r] = attempt[r] + 1 /\ pc'[r] = "acquire" /\ guard'[r] = NoId
    BY <1>0, <1>next DEF NextAttempt, Leave, Goto
  <2>2. pc[r] # "idle" /\ c \in DOMAIN entries
    BY <1>held, <1>next
  <2>3. \/ pc[r] = "refresh" /\ pc'[r] # "refresh"
        \/ Costs(r, c) /\ Charged(entries[c], entries'[c]) /\ issued' = issued
    BY <1>next, <2>1
  <2> HIDE DEF c
  <2>4. PICK d \in DOMAIN entries : d = guard[r] /\ d = c
    BY <2>2 DEF c
  <2>5. Spent(r, d) < Spent(r, d)'
    BY <1>0, <2>1, <2>3, <2>4, OwnSpends
  <2> QED
    BY <1>0, <1>spent, <1>next, <2>1, <2>2, <2>5, AdvancesAfloat
<1>return. ASSUME NEW es, NEW label \in {"busy", "rejected", "done"}, Return(r, es, label),
                  pc[r] # "idle", budget' = budget
           PROVE  Afloat(r)'
  <2>1. attempt'[r] = 0 /\ pc'[r] = label
    BY <1>0, <1>return DEF Return, Leave, Goto
  <2> QED
    BY <1>return, <1>stay, <2>1
<1>charge. ASSUME NEW es, NEW n, NEW label, Leave(r, es, label, n), c \in DOMAIN entries,
                  IsPool(es), DOMAIN es = DOMAIN entries, Charged(entries[c], es[c])
           PROVE  Charged(entries[c], entries'[c])
  <2>1. entries' = ReleaseSlot(es, c)
    BY <1>charge DEF Leave
  <2>2. Off(entries'[c]) = Off(es[c]) /\ entries'[c].failures = es[c].failures
    BY <1>charge, <2>1, SlotsUnharmed DEF Off
  <2> QED
    BY <1>charge, <2>2 DEF Charged
<1>blame. ASSUME NEW es, AllTurned(entries, es, Roles'), Blame(r, es)
          PROVE  NextAttempt(r, es)
  BY <1>0, <1>blame, WorkersLeft DEF Blame
<1>roles. c \in DOMAIN entries /\ Costs(r, c) => Roles'[c] # "ok"
  <2>1. c \in DOMAIN entries => c \in Ids
    BY <1>0 DEF IsPool
  <2> QED
    BY <1>0, <2>1, RolesKnown DEF Costs, Bad
<1> HIDE DEF c
<1>1. CASE Begin(r)
  <2>1. /\ budget'[r] = Budget(r) /\ attempt' = attempt /\ pc'[r] \notin {"failed", "backoff"} /\ entries' = entries
    BY <1>0, <1>1 DEF Begin, Goto
  <2>2. Budget(r) = Allowance
    BY <1>0, BudgetAllows
  <2>3. DOMAIN entries' = DOMAIN entries /\ IsPool(entries')
    BY <2>1, <1>0
  <2>4. Cardinality(Paid(r)) <= Cardinality(Paid(r)') /\ Cardinality(Paid(r)) \in Nat
    BY <1>0, <1>spent, <2>3, PaidGrows, PaidFinite
  <2>5. Cardinality(Paid(r)') \in Nat
    BY <1>0, <2>3, PaidFiniteNext
  <2>6. attempt'[r] <= Cardinality(Paid(r)')
    BY <1>0, <2>1, <2>4, <2>5 DEF Afloat
  <2> QED
    BY <2>1, <2>2, <2>3, <2>6 DEF Afloat, Allowance
<1>2. CASE GiveUp(r)
  <2>1. pc[r] = "acquire" /\ attempt[r] >= budget[r]
    BY <1>2 DEF GiveUp
  <2>2. budget[r] = Allowance /\ attempt[r] <= Cardinality(Paid(r)) /\ budget[r] \in Nat
    BY <1>0, <2>1 DEF Afloat
  <2>3. Cardinality(Paid(r)) <= (Cardinality(DOMAIN entries) - 1) * (MaxFailures + 1)
    BY <1>0, PaidFew
  <2>4. (Cardinality(DOMAIN entries) - 1) * (MaxFailures + 1) < Allowance
    BY DEF ReachInv
  <2>5. PICK m : m = (Cardinality(DOMAIN entries) - 1) * (MaxFailures + 1)
    OBVIOUS
  <2>6. m \in Int
    BY <1>0, <2>5, PaidFinite, MaxFailuresAssumption
  <2>7. Cardinality(Paid(r)) \in Nat
    BY <1>0, PaidFinite
  <2> QED
    BY <1>0, <2>1, <2>2, <2>3, <2>4, <2>5, <2>6, <2>7
<1>3. CASE Acquire(r)
  <2>1. attempt' = attempt /\ budget' = budget /\ pc'[r] \notin {"failed", "backoff"} /\ pc[r] # "idle"
    BY <1>0, <1>3 DEF Acquire, Acquiring, Goto
  <2> QED
    BY <1>stay, <2>1
<1>4. CASE AcquireFails(r)
  <2>1. PICK es : /\ AllTurned(entries, es, Roles')
                  /\ IF AnyEnabled(es)
                     THEN entries' = es /\ UNCHANGED <<pc, attempt, guard, token>>
                     ELSE NextAttempt(r, es)
    BY <1>0, <1>4, FailedTurns
  <2>2. UNCHANGED <<pc, attempt>>
    BY <1>0, <2>1, WorkersLeft
  <2>3. pc[r] = "acquire" /\ budget' = budget
    BY <1>4 DEF AcquireFails, Acquiring
  <2> QED
    BY <1>stay, <2>2, <2>3
<1>5. CASE FindFull(r)
  <2>1. /\ pc[r] = "acquire" /\ budget' = budget
        /\ AvailableIds(entries, Q(r)) # {} /\ Candidates(entries, Q(r)) = {}
        /\ IF Kind[r] = "api" THEN Return(r, entries, "busy") ELSE NextAttempt(r, entries)
    BY <1>5 DEF FindFull, Acquiring
  <2>2. Kind[r] = "api"
    <3>1. PICK d \in DOMAIN entries : entries[d].max > 0
      BY <2>1 DEF AvailableIds, Candidates, IsFull
    <3> QED
      BY <1>fed, <3>1, CallAssumption
  <2> QED
    BY <1>return, <2>1, <2>2
<1>6. CASE FindNone(r)
  BY <1>0, <1>6, WorkersFound DEF FindNone
<1>7. CASE ForceRefresh(r)
  <2>1. attempt' = attempt /\ budget' = budget /\ pc'[r] \notin {"failed", "backoff"} /\ pc[r] # "idle"
    BY <1>0, <1>7 DEF ForceRefresh, Answered, Goto
  <2> QED
    BY <1>stay, <2>1
<1>18. CASE Succeeds(r)
  <2>1. pc[r] = "call" /\ budget' = budget
    BY <1>18 DEF Succeeds, Answered
  <2>2. CASE Kind[r] = "mcp"
    <3>1. Return(r, Succeed(entries, c), "done")
      BY <1>18, <2>2 DEF Succeeds, c
    <3> QED
      BY <1>return, <2>1, <3>1
  <2>3. CASE Kind[r] # "mcp"
    <3>1. attempt' = attempt /\ pc'[r] \notin {"failed", "backoff"}
      BY <1>0, <1>18, <2>3 DEF Succeeds, Goto
    <3> QED
      BY <1>stay, <2>1, <3>1
  <2> QED
    BY <2>2, <2>3
<1>19. CASE NoClient(r)
  <2>1. pc[r] = "call" /\ persona[c] = "no client"
    BY <1>19 DEF NoClient, c
  <2> QED
    BY <1>held, <1>fed, <2>1
<1>8. CASE Rejected(r)
  <2>1. Return(r, entries, "rejected") /\ pc[r] = "call" /\ budget' = budget
    BY <1>8 DEF Rejected, Answered
  <2> QED
    BY <1>return, <2>1
<1>9. CASE QuotaExhausted(r)
  <2>1. /\ pc[r] = "call" /\ "quota" \in Answers(r) /\ Blame(r, ExhaustQuota(entries, c))
        /\ budget' = budget /\ issued' = issued
    BY <1>9 DEF QuotaExhausted, Answered, c
  <2>2. Costs(r, c) /\ c \in DOMAIN entries /\ Roles'[c] # "ok" /\ issued' = issued
    BY <1>known, <1>held, <1>roles, <2>1 DEF Costs
  <2>3. AllTurned(entries, ExhaustQuota(entries, c), Roles') /\ Off(ExhaustQuota(entries, c)[c])
    BY <1>0, <2>2, ReportsTurn DEF PoolSound
  <2>4. NextAttempt(r, ExhaustQuota(entries, c))
    BY <1>blame, <2>1, <2>3
  <2>5. Charged(entries[c], entries'[c])
    BY <1>charge, <2>2, <2>3, <2>4 DEF NextAttempt, Charged, AllTurned
  <2> QED
    BY <1>next, <2>1, <2>2, <2>4, <2>5
<1>fails. ASSUME Costs(r, c), c \in DOMAIN entries
          PROVE  /\ AllTurned(entries, Fail(entries, c), Roles')
                 /\ NextAttempt(r, Fail(entries, c)) => Charged(entries[c], entries'[c])
  <2>1. Roles'[c] # "ok"
    BY <1>fails, <1>roles
  <2>2. AllTurned(entries, Fail(entries, c), Roles') /\ Charged(entries[c], Fail(entries, c)[c])
    BY <1>0, <1>fails, <2>1, FailTurns
  <2> QED
    BY <1>fails, <1>charge, <2>2 DEF NextAttempt, AllTurned
<1>10. CASE Denied(r)
  <2>1. /\ pc[r] = "call" /\ Blame(r, Fail(entries, c)) /\ budget' = budget /\ issued' = issued
        /\ "denied" \in Answers(r) \/ "invalid token" \in Answers(r)
    BY <1>10 DEF Denied, Answered, c
  <2>2. Costs(r, c) /\ c \in DOMAIN entries
    BY <1>known, <1>held, <2>1 DEF Costs, Bad
  <2>3. NextAttempt(r, Fail(entries, c))
    BY <1>blame, <1>fails, <2>1, <2>2
  <2> QED
    BY <1>next, <1>fails, <2>1, <2>2, <2>3
<1>11. CASE NoEndpoint(r)
  <2>1. /\ pc[r] = "call" /\ NextAttempt(r, Fail(entries, c)) /\ budget' = budget
        /\ "no endpoint" \in Answers(r) /\ issued' = issued
    BY <1>11 DEF NoEndpoint, Answered, c
  <2>2. Costs(r, c) /\ c \in DOMAIN entries
    BY <1>known, <1>held, <2>1 DEF Costs
  <2> QED
    BY <1>next, <1>fails, <2>1, <2>2
<1>12. CASE AccountThrottled(r)
  <2>1. /\ pc[r] = "call" /\ "suspicious" \in Answers(r) /\ budget' = budget
        /\ issued' = issued
        /\ IF Schedulable(Throttle(entries, c)) = {} THEN Return(r, Throttle(entries, c), "failed")
           ELSE NextAttempt(r, Throttle(entries, c))
    BY <1>12 DEF AccountThrottled, Answered, c
  <2>2. Costs(r, c) /\ c \in DOMAIN entries /\ Roles'[c] # "ok" /\ issued' = issued
    BY <1>known, <1>held, <1>roles, <2>1 DEF Costs
  <2>3. AllTurned(entries, Throttle(entries, c), Roles') /\ Off(Throttle(entries, c)[c])
    BY <1>0, <2>2, ReportsTurn
  <2>4. NextAttempt(r, Throttle(entries, c))
    BY <1>0, <2>1, <2>3, WorkersLeft
  <2>5. Charged(entries[c], entries'[c])
    BY <1>charge, <2>2, <2>3, <2>4 DEF NextAttempt, Charged, AllTurned
  <2> QED
    BY <1>next, <2>1, <2>2, <2>4, <2>5
<1>13. CASE Renew(r)
  <2>1. pc[r] = "refresh" /\ NextAttempt(r, Renewed(entries, guard[r])) /\ budget' = budget
    BY <1>13 DEF Renew
  <2> QED
    BY <1>next, <2>1
<1>14. CASE RenewFails(r)
  <2>1. pc[r] = "refresh" /\ Blame(r, Fail(entries, c)) /\ budget' = budget
    BY <1>14 DEF RenewFails, c
  <2>2. persona[c] \in {"revoked", "stuck"} /\ c \in Ids
    BY <1>0, <1>held, <2>1 DEF TokenInv, TokenKnown, IsPool, c
  <2>3. Roles'[c] # "ok"
    BY <1>0, <2>2, RolesKnown DEF Bad
  <2>4. AllTurned(entries, Fail(entries, c), Roles')
    BY <1>0, <2>3, FailTurns
  <2> QED
    BY <1>next, <1>blame, <2>1, <2>4
<1>15. CASE Stumble(r)
  <2>1. pc[r] = "call" /\ Answers(r) \cap Transient(r) # {}
    BY <1>15 DEF Stumble, Answered
  <2>2. c \in DOMAIN entries
    BY <1>held, <2>1
  <2>3. CASE "transient" \in Answers(r) \/ "gateway timeout" \in Answers(r)
    BY <1>known, <1>fed, <2>1, <2>2, <2>3
  <2>4. CASE "suspicious" \in Answers(r) /\ Kind[r] = "mcp"
    BY <1>known, <1>fed, <2>1, <2>2, <2>4
  <2> QED
    BY <2>1, <2>3, <2>4 DEF Transient
<1>16. CASE Wake(r)
  BY <1>0, <1>16 DEF Wake, Afloat
<1>17. CASE Finish(r)
  <2>1. Return(r, entries, "done") /\ pc[r] = "stream" /\ budget' = budget
    BY <1>17 DEF Finish
  <2> QED
    BY <1>return, <2>1
<1> QED
  BY <1>1, <1>2, <1>3, <1>4, <1>5, <1>6, <1>7, <1>8, <1>9, <1>10, <1>11, <1>12,
     <1>13, <1>14, <1>15, <1>16, <1>17, <1>18, <1>19 DEF Step

LEMMA InitReach ==
  ASSUME FreshPools, EnoughAttempts
  PROVE  Init => ReachInv
<1> SUFFICES ASSUME Init PROVE ReachInv
  OBVIOUS
<1>1. TokenInv
  BY InitTokens
<1>2. IsPool(entries) /\ entries \in Pools
  BY <1>1 DEF TokenInv, Inv, Init
<1>3. /\ attempt \in [Requests -> Nat] /\ budget \in [Requests -> Nat]
      /\ \A r \in Requests : attempt[r] = 0 /\ pc[r] = "idle" /\ guard[r] = NoId
  BY DEF Init
<1>4. (Cardinality(DOMAIN entries) - 1) * (MaxFailures + 1) < Allowance
  BY <1>2 DEF EnoughAttempts, Allowance
<1>5. PoolSound
  BY <1>2, MaxFailuresAssumption DEF FreshPools, PoolSound, Sound, Off
<1>6. ASSUME NEW r \in Requests
      PROVE  Afloat(r)
  <2>1. Cardinality(Paid(r)) \in Nat
    BY <1>2, PaidFinite
  <2>2. 0 <= Cardinality(Paid(r))
    BY <2>1
  <2> QED
    BY <1>3, <2>2 DEF Afloat
<1> QED
  BY <1>1, <1>3, <1>4, <1>5, <1>6 DEF ReachInv

LEMMA NextReach ==
  ASSUME NoneGrouped
  PROVE  ReachInv /\ [Next]_vars => ReachInv'
<1> SUFFICES ASSUME ReachInv, [Next]_vars PROVE ReachInv'
  OBVIOUS
<1>tokens. TokenInv /\ TokenInv'
  BY NextTokens DEF ReachInv
<1>1. CASE UNCHANGED vars
  <2>1. /\ UNCHANGED <<pc, guard, token, persona, refreshed, issued, entries>>
        /\ UNCHANGED <<attempt, budget, malformed, outages>>
    BY <1>1 DEF vars, loop
  <2>2. PoolSound' /\ Allowance' = Allowance
    BY <2>1 DEF ReachInv, PoolSound, Allowance, Works
  <2>3. ASSUME NEW r \in Requests
        PROVE  Served(r)' => Afloat(r)'
    <3>1. Served(r)' = Served(r)
      BY <2>1 DEF Served, Starves, Suits, SomeWorks, Works
    <3>2. Paid(r)' = Paid(r)
      BY <2>1 DEF Paid, Spent, Renewals, Price, Tried
    <3> QED
      BY <2>1, <2>2, <3>1, <3>2 DEF ReachInv, Afloat
  <2> QED
    BY <1>tokens, <2>1, <2>2, <2>3 DEF ReachInv
<1>2. ASSUME NEW r \in Requests, Step(r)
      PROVE  ReachInv'
  <2>0. /\ IsPool(entries) /\ PoolSound /\ persona' = persona /\ Elsewhere(r)
        /\ guard'[r] \in {guard[r], NoId} \/ Acquire(r)
        /\ \A c : Works(c)' => Works(c)
        /\ attempt \in [Requests -> Nat] /\ budget \in [Requests -> Nat]
    BY <1>2, StepsTokens, OutagesGrow DEF ReachInv, TokenInv, Inv, ForceRefresh
  <2>1. /\ attempt' \in [Requests -> Nat] /\ budget' \in [Requests -> Nat]
        /\ \A q \in Requests \ {r} : attempt'[q] = attempt[q] /\ budget'[q] = budget[q]
    BY <1>2, <2>0, StepAttempts, BudgetAllows
  <2>2. AllTurned(entries, entries', Roles') \/ (entries' = Autoheal(entries) /\ ~SomeWorks)
    BY <1>2, <1>tokens, <2>0, StepTurns
  <2>3. /\ DOMAIN entries' = DOMAIN entries
        /\ \A c \in DOMAIN entries : entries'[c].max = entries[c].max /\ Sound(entries'[c])
        /\ PoolSound'
    <3>1. CASE AllTurned(entries, entries', Roles')
      <4>1. ASSUME NEW c \in DOMAIN entries
            PROVE  Works(c)' => Roles'[c] = "ok" /\ Works(c)
        <5>1. c \in Ids
          BY <2>0 DEF IsPool
        <5> QED
          BY <1>2, <1>tokens, <2>0, <5>1, RolesKnown
      <4> QED
        BY <2>0, <3>1, <4>1 DEF AllTurned, Turned, PoolSound
    <3>2. CASE entries' = Autoheal(entries) /\ ~SomeWorks
      <4>1. DOMAIN entries' = DOMAIN entries
        BY <3>2 DEF Autoheal
      <4>2. ASSUME NEW c \in DOMAIN entries
            PROVE  entries'[c].max = entries[c].max /\ Sound(entries'[c])
        <5>1. entries[c] \in Entry /\ Sound(entries[c])
          BY <2>0 DEF IsPool, PoolSound
        <5>2. entries'[c] \in {entries[c],
                 [entries[c] EXCEPT !.disabled = FALSE, !.reason = None, !.failures = 0]}
          BY <3>2 DEF Autoheal
        <5>3. ASSUME NEW e \in Entry
              PROVE  LET h == [e EXCEPT !.disabled = FALSE, !.reason = None, !.failures = 0]
                     IN  h.max = e.max /\ Sound(h)
          BY MaxFailuresAssumption DEF Entry, Sound
        <5> QED
          BY <5>1, <5>2, <5>3
      <4> QED
        BY <2>0, <3>2, <4>1, <4>2 DEF PoolSound, SomeWorks
    <3> QED
      BY <2>2, <3>1, <3>2
  <2>4. /\ \A q \in Requests : Served(q)' => Served(q)
        /\ Allowance' = Allowance
    BY <1>2, <1>tokens, <2>3, ServedStays
  <2>5. ASSUME NEW q \in Requests
        PROVE  guard'[q] \in (DOMAIN entries') \cup {NoId}
    BY <1>2, <1>tokens, <2>0, <2>3, Taken DEF ReachInv, Elsewhere
  <2>6. ASSUME NEW q \in Requests, Served(q)'
        PROVE  Afloat(q)'
    <3>1. Served(q) /\ AllTurned(entries, entries', Roles') /\ Afloat(q)
      BY <2>2, <2>4, <2>6 DEF Served, ReachInv
    <3>2. CASE q = r
      BY <1>2, <2>6, <3>1, <3>2, OwnAfloat
    <3>3. CASE q # r
      <4>1. /\ attempt'[q] = attempt[q] /\ budget'[q] = budget[q] /\ pc'[q] = pc[q]
        BY <2>0, <2>1, <3>3 DEF Elsewhere
      <4>2. \A c \in DOMAIN entries : Spent(q, c) <= Spent(q, c)'
        BY <1>2, <1>tokens, <2>0, <3>1, StepSpends
      <4>3. /\ Cardinality(Paid(q)) <= Cardinality(Paid(q)') /\ Cardinality(Paid(q)) \in Nat
            /\ Cardinality(Paid(q)') \in Nat
        BY <2>0, <2>3, <3>1, <4>2, PaidGrows, PaidFinite, PaidFiniteNext DEF AllTurned
      <4>4. attempt'[q] <= Cardinality(Paid(q)')
        BY <2>0, <3>1, <4>1, <4>3 DEF Afloat
      <4> QED
        BY <2>4, <3>1, <4>1, <4>4 DEF Afloat
    <3> QED
      BY <3>2, <3>3
  <2>7. (Cardinality(DOMAIN entries') - 1) * (MaxFailures + 1) < Allowance'
    BY <2>3, <2>4 DEF ReachInv
  <2> QED
    BY <1>tokens, <2>1, <2>3, <2>5, <2>6, <2>7 DEF ReachInv
<1> QED
  BY <1>1, <1>2 DEF Next, Finished

\* With up to as many credentials as the attempts are enough for, a call that the
\* upstream does not reject as such fails only if no credential works: whatever is
\* wrong with the others, whatever tokens are revoked or over, and however many calls
\* meet the bad ones, blame and disable them at the same time, and have renewals
\* refused or fail (provider.rs:427).  Not if the call may spend its attempts on
\* failures that are nobody's fault, or meets a credential no HTTP client can be
\* built for, which ends it at once (Starves).
THEOREM CallsReach ==
  ASSUME FreshPools, NoneGrouped, EnoughAttempts
  PROVE  Spec => []FailoverReaches
<1>1. Init => ReachInv
  BY InitReach
<1>2. ReachInv /\ [Next]_vars => ReachInv'
  BY NextReach
<1>3. ReachInv => FailoverReaches
  <2> SUFFICES ASSUME ReachInv, NEW r \in Requests, pc[r] = "failed", r \notin malformed,
                      ~Starves(r), NEW c \in DOMAIN entries, Works(c)
               PROVE  FALSE
    BY DEF FailoverReaches
  <2> QED
    BY DEF ReachInv, Served, SomeWorks, Afloat
<1> QED
  BY <1>1, <1>2, <1>3, PTL DEF Spec
=============================================================================
