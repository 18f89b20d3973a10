--------------------------- MODULE CacheMeter_proofs ---------------------------
(***************************************************************************)
(* Proofs about CacheMeter for every set of requests and prompts and every *)
(* limit: the session index is exact, every mark has a writer, what is not *)
(* marked as changed is saved, a turn reads what the one before left, and  *)
(* the limits hold.                                                        *)
(*                                                                         *)
(* The first needs only that entries keep their fields, the second only    *)
(* the requests and the marks, the third that a collected snapshot covers  *)
(* a clean memory; so each has an invariant of its own, and Stored is      *)
(* common to the first and the third.  The fourth is about the prefixes of *)
(* two prompts and hardly about the cache, the last counts what record     *)
(* adds and takes out, in memory and in what is written.                   *)
(***************************************************************************)
EXTENDS CacheMeter, FiniteSetTheorems, SequenceTheorems, WellFoundedInduction, TLAPS

\* A map of entries, in memory, collected or in the file.
IsStore(es) == \A h \in DOMAIN es : IsEntry(es[h])

Stored ==
  /\ IsStore(entries)
  /\ file # <<>> => \E es : IsStore(es) /\ file = <<es>>
  /\ flush # <<>> => \E es : IsStore(es) /\ flush = <<es>>

-----------------------------------------------------------------------------
(* Entries and maps of entries. *)

LEMMA EntryKept ==
  ASSUME NEW e, IsEntry(e), NEW x
  PROVE  /\ LET f == [e EXCEPT !.last_hit_at = x]
            IN  IsEntry(f) /\ f.session_seed = e.session_seed
                /\ f.expires_at = e.expires_at
         /\ LET f == [e EXCEPT !.session_seed = x]
            IN  IsEntry(f) /\ f.session_seed = x /\ f.expires_at = e.expires_at
BY DEF IsEntry

LEMMA NewEntryKept ==
  ASSUME NEW t, NEW l, NEW x, NEW s
  PROVE  LET e == [tokens |-> t, last_hit_at |-> l, expires_at |-> x,
                   session_seed |-> s]
         IN  IsEntry(e) /\ e.session_seed = s
BY DEF IsEntry

\* A lookup changes neither sessions nor lifetimes.
LEMMA TouchedKept ==
  ASSUME IsStore(entries), NEW p
  PROVE  /\ DOMAIN Touched(p) = DOMAIN entries /\ IsStore(Touched(p))
         /\ \A h \in DOMAIN entries :
              /\ Touched(p)[h].session_seed = entries[h].session_seed
              /\ Touched(p)[h].expires_at = entries[h].expires_at
<1>1. ASSUME NEW h \in DOMAIN entries
      PROVE  /\ IsEntry(Touched(p)[h])
             /\ Touched(p)[h].session_seed = entries[h].session_seed
             /\ Touched(p)[h].expires_at = entries[h].expires_at
  <2>1. IsEntry(entries[h])
    BY DEF IsStore
  <2>2. CASE h \in Hashes(p) /\ Live(h)
    <3> DEFINE f == [entries[h] EXCEPT !.last_hit_at = now]
    <3>1. /\ IsEntry(f) /\ f.session_seed = entries[h].session_seed
          /\ f.expires_at = entries[h].expires_at
      BY <2>1, EntryKept, Zenon
    <3>2. Touched(p)[h] = f
      BY <2>2 DEF Touched
    <3> HIDE DEF f
    <3> QED
      BY <3>1, <3>2
  <2>3. CASE ~(h \in Hashes(p) /\ Live(h))
    BY <2>1, <2>3 DEF Touched
  <2> QED
    BY <2>2, <2>3
<1>2. DOMAIN Touched(p) = DOMAIN entries
  BY DEF Touched
<1> QED
  BY <1>1, <1>2 DEF IsStore

LEMMA WithoutKept ==
  ASSUME NEW es, IsStore(es), NEW S
  PROVE  /\ DOMAIN Without(es, S) = DOMAIN es \ S /\ IsStore(Without(es, S))
         /\ \A h \in DOMAIN es \ S : Without(es, S)[h] = es[h]
BY DEF Without, IsStore

\* What a start takes from the file it finds.
LEMMA LoadedKept ==
  ASSUME NEW f, f # <<>> => \E es : IsStore(es) /\ f = <<es>>
  PROVE  /\ IsStore(Loaded(f))
         /\ f # <<>> => \A h \in DOMAIN Loaded(f) :
              h \in DOMAIN f[1] /\ f[1][h].expires_at = Loaded(f)[h].expires_at
<1>1. CASE f = <<>>
  BY <1>1 DEF Loaded, IsStore
<1>2. CASE f # <<>>
  <2>1. PICK es : IsStore(es) /\ f = <<es>>
    BY <1>2
  <2>2. f[1] = es
    BY <2>1
  <2> DEFINE D == {k \in DOMAIN es : es[k].expires_at > now}
             L(h) == [es[h] EXCEPT !.session_seed = IF @ = <<>> THEN <<"legacy">> ELSE @]
  <2>3. Loaded(f) = [h \in D |-> L(h)]
    BY <1>2, <2>2 DEF Loaded
  <2>4. ASSUME NEW h \in D
        PROVE  IsEntry(L(h)) /\ L(h).expires_at = es[h].expires_at
    <3>1. IsEntry(es[h])
      BY <2>1 DEF IsStore
    <3>2. ASSUME NEW x
          PROVE  LET e == [es[h] EXCEPT !.session_seed = x]
                 IN  IsEntry(e) /\ e.expires_at = es[h].expires_at
      BY <3>1, EntryKept, Zenon
    <3> QED
      BY <3>2, Zenon
  <2> HIDE DEF L
  <2> QED
    BY <1>2, <2>2, <2>3, <2>4 DEF IsStore
<1> QED
  BY <1>1, <1>2

-----------------------------------------------------------------------------
(* The session index. *)

\* Taking entries out of both maps.
LEMMA RemovedExact ==
  ASSUME NEW es, IsStore(es), NEW S, Removed(es, IndexOf(es), S)
  PROVE  IndexExact' /\ IsStore(entries')
<1>1. /\ entries' = Without(es, S)
      /\ session_index' = IndexOf(es) \ {<<es[h].session_seed, h>> : h \in S}
  BY DEF Removed
<1>2. IndexOf(entries') = {<<es[h].session_seed, h>> : h \in DOMAIN es \ S}
  <2>1. /\ DOMAIN entries' = DOMAIN es \ S
        /\ \A h \in DOMAIN es \ S : entries'[h] = es[h]
    BY <1>1, WithoutKept
  <2> QED
    BY <2>1 DEF IndexOf
<1>3. session_index' = {<<es[h].session_seed, h>> : h \in DOMAIN es \ S}
  BY <1>1 DEF IndexOf
<1> QED
  BY <1>1, <1>2, <1>3, WithoutKept DEF IndexExact

\* What a request records, and what the limits take out again.
LEMMA RecordedParts ==
  ASSUME IndexExact, IsStore(entries), NEW p, Recorded(p)
  PROVE  \E es : \E V \in SessionVictims(es, IndexOf(es), SeedOf(p)) :
           \E W \in GlobalVictims(Without(es, V)) :
             /\ IsStore(es) /\ DOMAIN es = DOMAIN entries \cup Hashes(p)
             /\ \A h \in Hashes(p) : es[h].session_seed = SeedOf(p)
             /\ \A h \in DOMAIN entries \ Hashes(p) : es[h] = entries[h]
             /\ Removed(es, IndexOf(es), V \cup W)
<1> DEFINE H == Hashes(p)
           Of(h) == CHOOSE i \in DOMAIN Segments(p) : Segments(p)[i].hash = h
           seed == SeedOf(p)
           New(h) == [tokens |-> Segments(p)[Of(h)].tokens, last_hit_at |-> now,
                      expires_at |-> now + Clamp(TtlOf(p)), session_seed |-> seed]
           es == [h \in DOMAIN entries \cup H |-> IF h \in H THEN New(h) ELSE entries[h]]
           index == (session_index \ Moved(H)) \cup {<<seed, h>> : h \in H}
<1>1. \E V \in SessionVictims(es, index, seed) :
        \E W \in GlobalVictims(Without(es, V)) : Removed(es, index, V \cup W)
  BY DEF Recorded
<1>3. \A h : IsEntry(New(h)) /\ New(h).session_seed = seed
  BY NewEntryKept, Zenon
<1> HIDE DEF New
<1>4. /\ DOMAIN es = DOMAIN entries \cup H
      /\ \A h \in H : es[h] = New(h)
      /\ \A h \in DOMAIN entries \ H : es[h] = entries[h]
  OBVIOUS
<1> HIDE DEF H, seed, es
<1>5. IsStore(es) /\ \A h \in H : es[h].session_seed = seed
  BY <1>3, <1>4 DEF IsStore
<1>6. index = IndexOf(es)
  <2>1. session_index = {<<entries[h].session_seed, h>> : h \in DOMAIN entries}
    BY DEF IndexExact, IndexOf
  <2>2. Moved(H) = {<<entries[h].session_seed, h>> : h \in H \cap DOMAIN entries}
    BY DEF Moved
  <2>3. session_index \ Moved(H) = {<<es[h].session_seed, h>> : h \in DOMAIN entries \ H}
    BY <2>1, <2>2, <1>4
  <2>4. {<<seed, h>> : h \in H} = {<<es[h].session_seed, h>> : h \in H}
    BY <1>5
  <2>5. IndexOf(es) = {<<es[h].session_seed, h>> : h \in DOMAIN entries \cup H}
    BY <1>4 DEF IndexOf
  <2> QED
    BY <2>3, <2>4, <2>5
<1> HIDE DEF index
<1>7. H = Hashes(p) /\ seed = SeedOf(p)
  BY DEF H, seed
<1> QED
  BY ONLY <1>1, <1>4, <1>5, <1>6, <1>7, Zenon

LEMMA RecordedExact ==
  ASSUME IndexExact, IsStore(entries), NEW p, Recorded(p)
  PROVE  IndexExact' /\ IsStore(entries')
<1>1. \E es, V, W : IsStore(es) /\ Removed(es, IndexOf(es), V \cup W)
  BY RecordedParts
<1> QED
  BY <1>1, RemovedExact

\* A step of any kind that touches only what an index does not say.
LEMMA IndexOnly ==
  ASSUME IndexExact, DOMAIN entries' = DOMAIN entries, UNCHANGED session_index,
         \A h \in DOMAIN entries : entries'[h].session_seed = entries[h].session_seed
  PROVE  IndexExact'
BY DEF IndexExact, IndexOf

\* Clearing a session takes out its entries and its pairs.
LEMMA ClearedExact ==
  ASSUME IndexExact, IsStore(entries), NEW seed, ClearSession(seed)
  PROVE  IndexExact' /\ IsStore(entries')
<1> DEFINE own == OfSession(session_index, seed)
<1>1. entries' = Without(entries, own) /\ session_index' = {q \in session_index : q[1] # seed}
  BY DEF ClearSession
<1>2. session_index = {<<entries[h].session_seed, h>> : h \in DOMAIN entries}
  BY DEF IndexExact, IndexOf
<1>3. own = {h \in DOMAIN entries : entries[h].session_seed = seed}
  <2>1. \A h : <<seed, h>> \in session_index =>
          h \in {q[2] : q \in session_index}
    <3> TAKE h
    <3>1. <<seed, h>>[2] = h
      OBVIOUS
    <3> QED
      BY <3>1, Zenon
  <2>2. \A h : h \in own <=> <<seed, h>> \in session_index
    BY <2>1 DEF OfSession
  <2> HIDE DEF own
  <2> QED
    BY <1>2, <2>2
<1>4. session_index' = {<<entries[h].session_seed, h>> : h \in DOMAIN entries \ own}
  BY <1>1, <1>2, <1>3
<1> HIDE DEF own
<1>5. /\ DOMAIN entries' = DOMAIN entries \ own /\ IsStore(entries')
      /\ \A h \in DOMAIN entries \ own : entries'[h] = entries[h]
  BY <1>1, WithoutKept
<1>6. IndexOf(entries') = {<<entries[h].session_seed, h>> : h \in DOMAIN entries \ own}
  BY <1>5 DEF IndexOf
<1> QED
  BY <1>4, <1>5, <1>6 DEF IndexExact

\* What is on the disk stays a map of entries.
LEMMA DiskKept ==
  ASSUME Stored, IsStore(entries'),
         \/ UNCHANGED <<file, flush>>
         \/ UNCHANGED file /\ flush' \in {<<>>, <<entries>>}
         \/ flush' = <<>> /\ file' \in {file, flush, <<>>}
  PROVE  Stored'
BY DEF Stored

LEMMA InitStored == Init => Stored /\ IndexExact
<1> SUFFICES ASSUME Init PROVE Stored /\ IndexExact
  OBVIOUS
<1>1. IsStore(OldFile) /\ file = <<OldFile>> /\ flush = <<>> /\ entries = Loaded(file)
  BY OldFileAssumption DEF Init, IsStore
<1>2. IsStore(entries)
  BY <1>1, LoadedKept
<1> QED
  BY <1>1, <1>2 DEF Init, Stored, IndexExact

LEMMA NextStored == Stored /\ IndexExact /\ [Next]_vars => Stored' /\ IndexExact'
<1> SUFFICES ASSUME Stored, IndexExact, [Next]_vars PROVE Stored' /\ IndexExact'
  OBVIOUS
<1> USE DEF memory, disk
<1>s. IsStore(entries)
  BY DEF Stored
<1>q. ASSUME UNCHANGED <<entries, session_index>>, UNCHANGED <<file, flush>> \/
             (UNCHANGED file /\ flush' \in {<<>>, <<entries>>}) \/
             (flush' = <<>> /\ file' \in {file, flush, <<>>})
      PROVE  Stored' /\ IndexExact'
  BY <1>s, <1>q, DiskKept DEF IndexExact, IndexOf
<1>e. ASSUME IndexExact' /\ IsStore(entries'), UNCHANGED disk
      PROVE  Stored' /\ IndexExact'
  BY <1>e, DiskKept
<1>1. ASSUME NEW r \in Requests, Lookup(r) PROVE Stored' /\ IndexExact'
  <2>1. PICK p \in Prompts : entries' = Touched(p)
    BY <1>1 DEF Lookup
  <2>2. IndexExact' /\ IsStore(entries') /\ UNCHANGED disk
    BY <1>1, <1>s, <2>1, TouchedKept, IndexOnly DEF Lookup
  <2> QED
    BY <1>e, <2>2
<1>2. ASSUME NEW r \in Requests, Wake(r) PROVE Stored' /\ IndexExact'
  <2>1. entries' = Touched(req[r].prompt) /\ UNCHANGED session_index /\ UNCHANGED disk
    BY <1>2 DEF Wake
  <2>2. IndexExact' /\ IsStore(entries')
    BY <1>s, <2>1, TouchedKept, IndexOnly
  <2> QED
    BY <1>e, <2>1, <2>2
<1>3. ASSUME NEW r \in Requests, Record(r) PROVE Stored' /\ IndexExact'
  <2>1. Recorded(req[r].prompt) /\ UNCHANGED disk
    BY <1>3 DEF Record
  <2> QED
    BY <1>s, <1>e, <2>1, RecordedExact
<1>4. ASSUME NEW r \in Requests, BeginInflight(r) \/ FinishInflight(r) \/ Dropped(r)
      PROVE  Stored' /\ IndexExact'
  BY <1>4, <1>q DEF BeginInflight, FinishInflight, Dropped
<1>5. CASE EvictExpired
  <2>1. /\ Removed(entries, IndexOf(entries), {h \in DOMAIN entries : ~Live(h)})
        /\ UNCHANGED disk
    BY <1>5 DEF EvictExpired, IndexExact
  <2> QED
    BY <1>s, <1>e, <2>1, RemovedExact
<1>6. CASE ClearAll
  <2>1. entries' = <<>> /\ session_index' = {} /\ UNCHANGED disk
    BY <1>6 DEF ClearAll
  <2>2. IndexExact' /\ IsStore(entries')
    BY <2>1 DEF IndexExact, IndexOf, IsStore
  <2> QED
    BY <1>e, <2>1, <2>2
<1>7. ASSUME NEW seed, ClearSession(seed) PROVE Stored' /\ IndexExact'
  <2>1. UNCHANGED disk
    BY <1>7 DEF ClearSession
  <2> QED
    BY <1>s, <1>e, <1>7, <2>1, ClearedExact
<1>8. CASE Restart
  <2>1. /\ file' \in {file, flush, <<>>} /\ flush' = <<>>
        /\ session_index' = IndexOf(entries')
    BY <1>8 DEF Restart
  <2>2. file' # <<>> => \E es : IsStore(es) /\ file' = <<es>>
    BY <2>1 DEF Stored
  <2>3. entries' = Loaded(file')
    <3>1. entries' = Loaded(file)' /\ UNCHANGED now
      BY <1>8 DEF Restart, Loaded
    <3> QED
      BY <3>1 DEF Loaded
  <2>4. IsStore(entries')
    BY <2>2, <2>3, LoadedKept
  <2> QED
    BY <2>1, <2>4, DiskKept DEF IndexExact
<1>9. CASE Tick \/ FlushCollect \/ FlushWrite \/ FlushFails \/ UNCHANGED vars
  BY <1>9, <1>q DEF Tick, FlushCollect, FlushWrite, FlushFails, vars
<1> QED
  BY <1>1, <1>2, <1>3, <1>4, <1>5, <1>6, <1>7, <1>8, <1>9 DEF Next, Meter

\* The session index lists every entry in the cache under its session and
\* nothing else, through recording, moves between sessions, all evictions,
\* clearings and restarts.
THEOREM IndexAlwaysExact == Spec => []IndexExact
<1>1. Init => Stored /\ IndexExact
  BY InitStored
<1>2. Stored /\ IndexExact /\ [Next]_vars => Stored' /\ IndexExact'
  BY NextStored
<1> QED
  BY <1>1, <1>2, PTL DEF Spec

-----------------------------------------------------------------------------
(* What a restart finds. *)

Covers(es) ==
  \A h \in DOMAIN entries : h \in DOMAIN es /\ es[h].expires_at = entries[h].expires_at

SaveInv ==
  /\ (~dirty /\ flush # <<>>) => Covers(flush[1])
  /\ (~dirty /\ flush = <<>> /\ ~unsaved /\ file # <<>>) => Covers(file[1])

LEMMA InitSaved == Init => SaveInv
<1> SUFFICES ASSUME Init PROVE SaveInv
  OBVIOUS
<1>1. IsStore(OldFile) /\ file = <<OldFile>> /\ flush = <<>> /\ entries = Loaded(file)
  BY OldFileAssumption DEF Init, IsStore
<1> QED
  BY <1>1, LoadedKept DEF SaveInv, Covers

LEMMA NextSaved == Stored /\ SaveInv /\ [Next]_vars => SaveInv'
<1> SUFFICES ASSUME Stored, SaveInv, [Next]_vars PROVE SaveInv'
  OBVIOUS
<1> USE DEF memory, disk
<1>s. IsStore(entries)
  BY DEF Stored
\* Entries are touched or removed and keep their lifetimes.
<1>k. ASSUME UNCHANGED <<dirty, disk>>, DOMAIN entries' \subseteq DOMAIN entries,
             \A h \in DOMAIN entries' : entries'[h].expires_at = entries[h].expires_at
      PROVE  SaveInv'
  BY <1>k DEF SaveInv, Covers
<1>1. ASSUME NEW r \in Requests, Lookup(r) PROVE SaveInv'
  <2>1. PICK p \in Prompts : entries' = Touched(p)
    BY <1>1 DEF Lookup
  <2>2. UNCHANGED <<dirty, disk>>
    BY <1>1 DEF Lookup
  <2> QED
    BY <1>k, <1>s, <2>1, <2>2, TouchedKept
<1>2. ASSUME NEW r \in Requests, Wake(r) PROVE SaveInv'
  <2>1. entries' = Touched(req[r].prompt) /\ UNCHANGED <<dirty, disk>>
    BY <1>2 DEF Wake
  <2> QED
    BY <1>k, <1>s, <2>1, TouchedKept
<1>3. CASE EvictExpired
  <2>1. PICK S : entries' = Without(entries, S)
    BY <1>3 DEF EvictExpired, Removed
  <2>2. UNCHANGED disk /\ (dirty => dirty')
    BY <1>3 DEF EvictExpired
  <2>3. /\ DOMAIN entries' \subseteq DOMAIN entries
        /\ \A h \in DOMAIN entries' : entries'[h] = entries[h]
    <3>1. /\ DOMAIN Without(entries, S) = DOMAIN entries \ S
          /\ \A h \in DOMAIN entries \ S : Without(entries, S)[h] = entries[h]
      BY <1>s, WithoutKept, Zenon
    <3> QED
      BY <2>1, <3>1
  <2> QED
    BY <2>2, <2>3 DEF SaveInv, Covers
<1>4. CASE Restart
  <2>1. file' \in {file, flush, <<>>} /\ flush' = <<>> /\ entries' = Loaded(file')
    <3>1. entries' = Loaded(file)' /\ UNCHANGED now
      BY <1>4 DEF Restart, Loaded
    <3>2. entries' = Loaded(file')
      BY <3>1 DEF Loaded
    <3> QED
      BY <1>4, <3>2 DEF Restart
  <2>2. file' # <<>> => \E es : IsStore(es) /\ file' = <<es>>
    BY <2>1 DEF Stored
  <2>3. file' # <<>> => \A h \in DOMAIN entries' :
          h \in DOMAIN file'[1] /\ file'[1][h].expires_at = entries'[h].expires_at
    BY <2>1, <2>2, LoadedKept
  <2> QED
    BY <2>1, <2>3 DEF SaveInv, Covers
<1>5. CASE FlushCollect
  <2>1. flush' = <<entries>> /\ UNCHANGED entries /\ flush'[1] = entries
    BY <1>5 DEF FlushCollect
  <2> QED
    BY <2>1 DEF SaveInv, Covers
<1>6. CASE FlushWrite \/ FlushFails
  BY <1>6 DEF FlushWrite, FlushFails, SaveInv, Covers
<1>7. ASSUME NEW r \in Requests, Record(r) PROVE SaveInv'
  BY <1>7 DEF Record, SaveInv
<1>8. CASE ClearAll \/ \E seed : ClearSession(seed)
  BY <1>8 DEF ClearAll, ClearSession, SaveInv
<1>9. ASSUME UNCHANGED <<entries, dirty, disk>> PROVE SaveInv'
  BY <1>9 DEF SaveInv, Covers
<1>10. ASSUME NEW r \in Requests, BeginInflight(r) \/ FinishInflight(r) \/ Dropped(r)
       PROVE  SaveInv'
  BY <1>9, <1>10 DEF BeginInflight, FinishInflight, Dropped
<1>11. CASE Tick \/ UNCHANGED vars
  BY <1>9, <1>11 DEF Tick, vars
<1> QED
  BY <1>1, <1>2, <1>3, <1>4, <1>5, <1>6, <1>7, <1>8, <1>10, <1>11 DEF Next, Meter

\* What is not marked as changed is in the file or collected for it, with the
\* lifetimes the memory has, unless a write failed: evictions, clearings and
\* records between the two steps of a flush mark the memory again.
THEOREM SavedAlways == Spec => []SavedWhenClean
<1>1. Init => Stored /\ IndexExact /\ SaveInv
  BY InitStored, InitSaved
<1>2. Stored /\ IndexExact /\ SaveInv /\ [Next]_vars => (Stored /\ IndexExact /\ SaveInv)'
  BY NextStored, NextSaved
<1>3. SaveInv => SavedWhenClean
  BY DEF SaveInv, Covers, SavedWhenClean
<1> QED
  BY <1>1, <1>2, <1>3, PTL DEF Spec

-----------------------------------------------------------------------------
(* Marks and their writers. *)

IsRequest(q) == {"pc", "prompt", "read", "writer"} \subseteq DOMAIN q

\* Who has missed and not yet tried to become the writer will be one.
WritersKnown ==
  /\ DOMAIN req = Requests
  /\ \A r \in Requests : IsRequest(req[r])
  /\ \A r \in Requests : req[r].pc = "begin" => req[r].writer = TRUE

Writing(r) == req[r].pc \in {"record", "finish"} /\ req[r].writer

MarkInv == WritersKnown /\ MarkHasWriter

LEMMA PcChanged ==
  ASSUME NEW q, IsRequest(q), NEW x
  PROVE  LET p == [q EXCEPT !.pc = x]
         IN  /\ IsRequest(p) /\ p.pc = x /\ p.writer = q.writer /\ p.prompt = q.prompt
BY DEF IsRequest

\* Writers stay writers, marks go.
LEMMA MarksKept ==
  ASSUME MarkHasWriter, DOMAIN inflight' \subseteq DOMAIN inflight,
         \A r \in Requests : Writing(r) => Writing(r)' /\ req'[r].prompt = req[r].prompt
  PROVE  MarkHasWriter'
<1> SUFFICES ASSUME NEW h \in DOMAIN inflight'
             PROVE  \E r \in Requests : Writing(r)' /\ Deepest(req'[r].prompt).hash = h
  BY DEF MarkHasWriter, Writing
<1>1. PICK r \in Requests : Writing(r) /\ Deepest(req[r].prompt).hash = h
  BY DEF MarkHasWriter, Writing
<1> QED
  BY <1>1

LEMMA NextMarks == MarkInv /\ [Next]_vars => MarkInv'
<1> SUFFICES ASSUME MarkInv, [Next]_vars PROVE MarkInv'
  OBVIOUS
<1> USE DEF MarkInv, memory
\* One request goes on and stays a writer if it was one; no mark is new.
<1>g. ASSUME NEW r \in Requests, NEW q, req' = [req EXCEPT ![r] = q], IsRequest(q),
             q.pc # "begin" \/ q.writer = TRUE,
             Writing(r) => q.pc \in {"record", "finish"} /\ q.writer /\ q.prompt = req[r].prompt,
             DOMAIN inflight' \subseteq DOMAIN inflight
      PROVE  MarkInv'
  <2>1. /\ DOMAIN req' = Requests /\ req'[r] = q
        /\ \A o \in Requests \ {r} : req'[o] = req[o]
    BY <1>g DEF WritersKnown
  <2>2. WritersKnown'
    BY <1>g, <2>1 DEF WritersKnown
  <2>3. \A o \in Requests : Writing(o) => Writing(o)' /\ req'[o].prompt = req[o].prompt
    BY <1>g, <2>1 DEF Writing
  <2> QED
    BY <1>g, <2>2, <2>3, MarksKept
<1>1. ASSUME NEW r \in Requests, Lookup(r) PROVE MarkInv'
  <2>1. PICK p \in Prompts, c \in {"done", "record", "begin"} :
          req' = [req EXCEPT ![r] = [pc |-> c, prompt |-> p, read |-> Found(p), writer |-> TRUE]]
    BY <1>1 DEF Lookup
  <2> DEFINE q == [pc |-> c, prompt |-> p, read |-> Found(p), writer |-> TRUE]
  <2>2. IsRequest(q) /\ q.writer = TRUE
    BY DEF IsRequest
  <2> HIDE DEF q
  <2>3. req' = [req EXCEPT ![r] = q]
    BY <2>1 DEF q
  <2>4. ~Writing(r) /\ UNCHANGED inflight
    BY <1>1 DEF Lookup, Writing
  <2> QED
    BY <1>g, <2>2, <2>3, <2>4
<1>2. ASSUME NEW r \in Requests, BeginInflight(r) PROVE MarkInv'
  <2> DEFINE h == Deepest(req[r].prompt).hash
             marks == Without(inflight, {k \in DOMAIN inflight : inflight[k] <= now})
             q == [req[r] EXCEPT !.pc = "record"]
             w == [req[r] EXCEPT !.pc = "waiting", !.writer = FALSE]
  <2>1. IsRequest(req[r]) /\ req[r].writer = TRUE /\ ~Writing(r)
    BY <1>2 DEF BeginInflight, WritersKnown, Writing
  <2>2. IsRequest(q) /\ q.pc = "record" /\ q.writer = TRUE /\ q.prompt = req[r].prompt
    BY <2>1, PcChanged, Zenon
  <2>3. IsRequest(w) /\ w.pc = "waiting"
    BY <2>1 DEF IsRequest
  <2>4. DOMAIN marks \subseteq DOMAIN inflight
    BY DEF Without
  <2>5. \/ UNCHANGED inflight /\ req' = [req EXCEPT ![r] = q]
        \/ inflight' = marks /\ req' = [req EXCEPT ![r] = w]
        \/ /\ DOMAIN inflight' \subseteq DOMAIN marks \cup {h}
           /\ req' = [req EXCEPT ![r] = q]
    <3> HIDE DEF marks, h
    <3> QED
      BY <1>2 DEF BeginInflight, marks, h
  <2> HIDE DEF q, w, marks, h
  <2>6. CASE UNCHANGED inflight /\ req' = [req EXCEPT ![r] = q]
    BY <1>g, <2>1, <2>2, <2>6
  <2>7. CASE inflight' = marks /\ req' = [req EXCEPT ![r] = w]
    BY <1>g, <2>1, <2>3, <2>4, <2>7
  <2>8. CASE /\ DOMAIN inflight' \subseteq DOMAIN marks \cup {h}
             /\ req' = [req EXCEPT ![r] = q]
    <3>1. /\ DOMAIN req' = Requests /\ req'[r] = q
          /\ \A o \in Requests \ {r} : req'[o] = req[o]
      BY <2>8 DEF WritersKnown
    <3>2. WritersKnown'
      BY <2>2, <3>1 DEF WritersKnown
    <3>3. Writing(r)' /\ Deepest(req'[r].prompt).hash = h
      BY <2>2, <3>1 DEF Writing, h
    <3>4. ASSUME NEW k \in DOMAIN inflight
          PROVE  \E o \in Requests : Writing(o)' /\ Deepest(req'[o].prompt).hash = k
      <4>1. PICK o \in Requests : Writing(o) /\ Deepest(req[o].prompt).hash = k
        BY DEF MarkHasWriter, Writing
      <4> QED
        BY <2>1, <3>1, <4>1 DEF Writing
    <3> QED
      BY <2>4, <2>8, <3>2, <3>3, <3>4 DEF MarkHasWriter, Writing
  <2> QED
    BY <2>5, <2>6, <2>7, <2>8
<1>3. ASSUME NEW r \in Requests, Wake(r) \/ Dropped(r) \/ Record(r) PROVE MarkInv'
  <2>1. IsRequest(req[r])
    BY DEF WritersKnown
  <2>2. CASE Wake(r)
    <3> DEFINE q == [req[r] EXCEPT !.pc = "record", !.read = Found(req[r].prompt)]
    <3>1. IsRequest(q) /\ q.pc = "record"
      BY <2>1 DEF IsRequest
    <3>2. req' = [req EXCEPT ![r] = q] /\ ~Writing(r) /\ UNCHANGED inflight
      BY <2>2 DEF Wake, Writing
    <3> HIDE DEF q
    <3> QED
      BY <1>g, <3>1, <3>2
  <2>3. CASE Dropped(r)
    <3> DEFINE q == [req[r] EXCEPT !.pc = "dropped"]
    <3>1. IsRequest(q) /\ q.pc = "dropped"
      BY <2>1, PcChanged, Zenon
    <3>2. req' = [req EXCEPT ![r] = q] /\ ~Writing(r) /\ UNCHANGED inflight
      BY <2>3 DEF Dropped, Writing
    <3> HIDE DEF q
    <3> QED
      BY <1>g, <3>1, <3>2
  <2>4. CASE Record(r)
    <3> DEFINE c == IF req[r].writer THEN "finish" ELSE "done"
               q == [req[r] EXCEPT !.pc = c]
    <3> HIDE DEF c
    <3>1. IsRequest(q) /\ q.pc = c /\ q.writer = req[r].writer /\ q.prompt = req[r].prompt
      BY <2>1, PcChanged, Zenon
    <3>2. req' = [req EXCEPT ![r] = q] /\ UNCHANGED inflight
      BY <2>4 DEF Record, c
    <3> HIDE DEF q
    <3>3. c # "begin" /\ (req[r].writer => c = "finish")
      BY DEF c
    <3> QED
      BY <1>g, <3>1, <3>2, <3>3 DEF Writing
  <2> QED
    BY <1>3, <2>2, <2>3, <2>4
<1>4. ASSUME NEW r \in Requests, FinishInflight(r) PROVE MarkInv'
  <2> DEFINE h == Deepest(req[r].prompt).hash
             q == [req[r] EXCEPT !.pc = "done"]
  <2>1. IsRequest(q) /\ q.pc = "done"
    BY PcChanged, Zenon DEF WritersKnown
  <2>2. inflight' = Without(inflight, {h}) /\ req' = [req EXCEPT ![r] = q]
    BY <1>4 DEF FinishInflight
  <2> HIDE DEF h, q
  <2>3. DOMAIN inflight' = DOMAIN inflight \ {h}
    BY <2>2 DEF Without
  <2>4. /\ DOMAIN req' = Requests /\ req'[r] = q
        /\ \A o \in Requests \ {r} : req'[o] = req[o]
    BY <2>2 DEF WritersKnown
  <2>5. WritersKnown'
    BY <2>1, <2>4 DEF WritersKnown
  <2>6. ASSUME NEW k \in DOMAIN inflight \ {h}
        PROVE  \E o \in Requests : Writing(o)' /\ Deepest(req'[o].prompt).hash = k
    <3>1. PICK o \in Requests : Writing(o) /\ Deepest(req[o].prompt).hash = k
      BY DEF MarkHasWriter, Writing
    <3>2. o # r
      BY <3>1 DEF h
    <3> QED
      BY <2>4, <3>1, <3>2 DEF Writing
  <2> QED
    BY <2>3, <2>5, <2>6 DEF MarkHasWriter, Writing
<1>5. CASE EvictExpired
  <2>1. DOMAIN inflight' \subseteq DOMAIN inflight /\ UNCHANGED req
    BY <1>5 DEF EvictExpired, Without
  <2> QED
    BY <2>1, MarksKept DEF WritersKnown, Writing
<1>6. CASE ClearAll
  BY <1>6 DEF ClearAll, WritersKnown, MarkHasWriter
<1>7. CASE Restart
  <2>1. inflight' = <<>> /\ DOMAIN req' = Requests
    BY <1>7 DEF Restart
  <2>2. ASSUME NEW r \in Requests
        PROVE  IsRequest(req'[r]) /\ req'[r].pc # "begin"
    <3> DEFINE q == [req[r] EXCEPT !.pc = "dropped"]
    <3>1. IsRequest(req[r]) /\ IsRequest(q) /\ q.pc = "dropped"
      BY PcChanged, Zenon DEF WritersKnown
    <3>2. req'[r] = IF req[r].pc \in {"new", "done"} THEN req[r] ELSE q
      BY <1>7 DEF Restart
    <3> HIDE DEF q
    <3> QED
      BY <3>1, <3>2
  <2> QED
    BY <2>1, <2>2 DEF WritersKnown, MarkHasWriter
<1>8. CASE Tick \/ FlushCollect \/ FlushWrite \/ FlushFails \/ UNCHANGED vars
  BY <1>8 DEF Tick, FlushCollect, FlushWrite, FlushFails, vars, WritersKnown, MarkHasWriter
<1>9. ASSUME NEW seed, ClearSession(seed) PROVE MarkInv'
  BY <1>9 DEF ClearSession, WritersKnown, MarkHasWriter
<1> QED
  BY <1>1, <1>2, <1>3, <1>4, <1>5, <1>6, <1>7, <1>8, <1>9 DEF Next, Meter

\* Every mark of a request under way has a writer that is going to withdraw
\* it: what waits never waits for a request that went away, since only those
\* who sleep without a mark of their own can be dropped.
THEOREM MarksHaveWriters == Spec => []MarkHasWriter
<1>1. Init => MarkInv
  BY DEF Init, Idle, MarkInv, WritersKnown, MarkHasWriter, IsRequest
<1>2. MarkInv /\ [Next]_vars => MarkInv'
  BY NextMarks
<1>3. MarkInv => MarkHasWriter
  BY DEF MarkInv
<1> QED
  BY <1>1, <1>2, <1>3, PTL DEF Spec

-----------------------------------------------------------------------------
(* Tokens of a prefix. *)

Texts == DOMAIN TokensOf

\* The tokens behind the first k texts of s, for every k up to n.
Sums(s, n, f) == f = [k \in 0 .. n |-> IF k = 0 THEN 0 ELSE f[k - 1] + TokensOf[s[k]]]

LEMMA Smallest ==
  ASSUME NEW T, T \subseteq Nat, T # {}
  PROVE  \E m \in T : \A x \in T : m <= x
<1>1. PICK m \in T : \A x \in T : ~(<<x, m>> \in OpToRel(<, Nat))
  BY NatLessThanWellFounded, WFMin
<1>2. ASSUME NEW x \in T
      PROVE  m <= x
  <2>1. <<x, m>> \in Nat \X Nat
    OBVIOUS
  <2>2. ~(x < m)
    BY <1>1, <2>1 DEF OpToRel
  <2> QED
    BY <2>2
<1> QED
  BY <1>2

LEMMA Greatest ==
  ASSUME NEW n \in Nat, NEW T, T \subseteq 1 .. n, T # {}
  PROVE  \E m \in T : \A x \in T : x <= m
<1> DEFINE U == {j \in Nat : \E x \in T : j = n - x}
<1>1. PICK u \in U : \A j \in U : u <= j
  <2>1. PICK x : x \in T
    OBVIOUS
  <2>2. n - x \in U
    BY <2>1
  <2>3. U \subseteq Nat
    OBVIOUS
  <2> HIDE DEF U
  <2> QED
    BY <2>2, <2>3, Smallest
<1>2. PICK m \in T : u = n - m
  OBVIOUS
<1>3. ASSUME NEW x \in T
      PROVE  x <= m
  <2>1. n - x \in U
    OBVIOUS
  <2>2. n - m <= n - x
    BY <1>1, <1>2, <2>1
  <2> QED
    BY <2>2
<1> QED
  BY <1>3

\* A sum is what its recursion says (least counterexample).
LEMMA SumDefined ==
  ASSUME NEW s, Len(s) \in Nat
  PROVE  \E f : Sums(s, Len(s), f) /\ Sum(s) = f[Len(s)]
<1> DEFINE T == {n \in Nat : ~ \E f : Sums(s, n, f)}
<1>1. T = {}
  <2> SUFFICES ASSUME T # {} PROVE FALSE
    OBVIOUS
  <2>1. PICK m \in T : \A x \in T : m <= x
    <3>1. T \subseteq Nat
      OBVIOUS
    <3> QED
      BY <3>1, Smallest
  <2>2. m # 0
    <3>1. Sums(s, 0, [k \in 0 .. 0 |-> 0])
      BY DEF Sums
    <3> QED
      BY <3>1, <2>1
  <2>3. m \in Nat /\ m - 1 \in Nat /\ m - 1 \notin T
    <3>1. m \in Nat
      OBVIOUS
    <3> HIDE DEF T
    <3> QED
      BY ONLY <2>1, <2>2, <3>1
  <2>4. PICK f : Sums(s, m - 1, f)
    BY <2>3
  <2> DEFINE g == [k \in 0 .. m |-> IF k = 0 THEN 0 ELSE f[k - 1] + TokensOf[s[k]]]
  <2>5. ASSUME NEW k \in 0 .. m - 1
        PROVE  g[k] = f[k]
    <3>1. k \in 0 .. m
      BY <2>3
    <3>2. f[k] = IF k = 0 THEN 0 ELSE f[k - 1] + TokensOf[s[k]]
      BY <2>4 DEF Sums
    <3> QED
      BY <3>1, <3>2
  <2>6. \A k \in 0 .. m : k # 0 => k - 1 \in 0 .. m - 1
    BY <2>3
  <2>7. g = [k \in 0 .. m |-> IF k = 0 THEN 0 ELSE g[k - 1] + TokensOf[s[k]]]
    <3> HIDE DEF g
    <3>1. \A k \in 0 .. m : k # 0 => g[k - 1] = f[k - 1]
      BY <2>5, <2>6
    <3>2. g = [k \in 0 .. m |-> IF k = 0 THEN 0 ELSE f[k - 1] + TokensOf[s[k]]]
      BY DEF g
    <3> QED
      BY <3>1, <3>2
  <2>8. Sums(s, m, g)
    BY <2>7 DEF Sums
  <2> HIDE DEF g
  <2> QED
    BY <2>1, <2>8
<1>2. PICK f : Sums(s, Len(s), f)
  BY <1>1
<1> DEFINE h == CHOOSE at : at = [k \in 0 .. Len(s) |->
                                    IF k = 0 THEN 0 ELSE at[k - 1] + TokensOf[s[k]]]
<1>3. Sums(s, Len(s), h)
  BY <1>2 DEF Sums
<1>4. Sum(s) = h[Len(s)]
  BY DEF Sum
<1> HIDE DEF h
<1> QED
  BY <1>3, <1>4

\* The sums of texts grow with their number.
LEMMA SumsGrow ==
  ASSUME NEW s \in Seq(Texts), NEW f, Sums(s, Len(s), f), NEW n \in 0 .. Len(s)
  PROVE  \A k \in 0 .. Len(s) : f[k] \in Nat /\ (n <= k => f[n] <= f[k])
<1>1. Len(s) \in Nat
  OBVIOUS
<1>2. /\ f[0] = 0
      /\ \A k \in 1 .. Len(s) : f[k] = f[k - 1] + TokensOf[s[k]] /\ TokensOf[s[k]] \in Nat
  <2>1. \A k \in 1 .. Len(s) : s[k] \in Texts
    OBVIOUS
  <2>2. \A k \in 0 .. Len(s) : f[k] = IF k = 0 THEN 0 ELSE f[k - 1] + TokensOf[s[k]]
    BY DEF Sums
  <2> QED
    BY <1>1, <2>1, <2>2, PromptsAssumption DEF Texts
<1> DEFINE T == {k \in 0 .. Len(s) : ~ (f[k] \in Nat)}
<1>3. T = {}
  <2> SUFFICES ASSUME T # {} PROVE FALSE
    OBVIOUS
  <2>1. PICK m \in T : \A x \in T : m <= x
    <3>1. T \subseteq Nat
      BY <1>1
    <3> QED
      BY <3>1, Smallest
  <2>2. m \in 0 .. Len(s) /\ f[m] \notin Nat
    OBVIOUS
  <2>3. m \in 1 .. Len(s) /\ m - 1 \in 0 .. Len(s)
    BY ONLY <1>1, <1>2, <2>2
  <2>4. m - 1 \notin T
    <3> HIDE DEF T
    <3> QED
      BY ONLY <1>1, <2>1, <2>3
  <2>5. f[m - 1] \in Nat
    BY <2>3, <2>4
  <2> QED
    BY ONLY <1>2, <2>2, <2>3, <2>5
<1> DEFINE U == {k \in 0 .. Len(s) : n <= k /\ ~ (f[n] <= f[k])}
<1>4. U = {}
  <2> SUFFICES ASSUME U # {} PROVE FALSE
    OBVIOUS
  <2>0. \A k \in 0 .. Len(s) : f[k] \in Nat
    BY <1>3
  <2>1. PICK m \in U : \A x \in U : m <= x
    <3>1. U \subseteq Nat
      BY <1>1
    <3> QED
      BY <3>1, Smallest
  <2>2. m \in 0 .. Len(s) /\ n <= m /\ ~ (f[n] <= f[m])
    OBVIOUS
  <2>3. m # n
    BY ONLY <2>0, <2>2
  <2>4. m \in 1 .. Len(s) /\ m - 1 \in 0 .. Len(s) /\ n <= m - 1
    BY ONLY <1>1, <2>2, <2>3, n \in 0 .. Len(s)
  <2>5. m - 1 \notin U
    <3> HIDE DEF U
    <3> QED
      BY ONLY <1>1, <2>1, <2>4
  <2>6. f[n] <= f[m - 1]
    BY <2>4, <2>5
  <2>7. f[m] = f[m - 1] + TokensOf[s[m]] /\ TokensOf[s[m]] \in Nat
    BY <1>2, <2>4
  <2>8. f[n] \in Nat /\ f[m - 1] \in Nat /\ f[m] \in Nat
    BY <2>0, <2>2, <2>4
  <2> QED
    BY ONLY <2>2, <2>6, <2>7, <2>8
<1> QED
  BY <1>3, <1>4

\* A prefix has no more tokens than what it is a prefix of.
LEMMA PrefixHasFewer ==
  ASSUME NEW s \in Seq(Texts), NEW t \in Seq(Texts), Len(s) <= Len(t),
         \A i \in 1 .. Len(s) : s[i] = t[i]
  PROVE  Sum(s) \in Nat /\ Sum(t) \in Nat /\ Sum(s) <= Sum(t)
<1>1. Len(s) \in Nat /\ Len(t) \in Nat
  OBVIOUS
<1>2. PICK f : Sums(s, Len(s), f) /\ Sum(s) = f[Len(s)]
  BY <1>1, SumDefined
<1>3. PICK g : Sums(t, Len(t), g) /\ Sum(t) = g[Len(t)]
  BY <1>1, SumDefined
<1>4. \A k \in 0 .. Len(s) : f[k] = IF k = 0 THEN 0 ELSE f[k - 1] + TokensOf[s[k]]
  BY <1>2 DEF Sums
<1>5. \A k \in 0 .. Len(t) : g[k] = IF k = 0 THEN 0 ELSE g[k - 1] + TokensOf[t[k]]
  BY <1>3 DEF Sums
<1> DEFINE T == {k \in 0 .. Len(s) : f[k] # g[k]}
<1>6. T = {}
  <2> SUFFICES ASSUME T # {} PROVE FALSE
    OBVIOUS
  <2>1. PICK m \in T : \A x \in T : m <= x
    <3>1. T \subseteq Nat
      BY <1>1
    <3> QED
      BY <3>1, Smallest
  <2>2. m \in 0 .. Len(s) /\ f[m] # g[m]
    OBVIOUS
  <2>3. m \in 0 .. Len(t)
    BY ONLY <1>1, <2>2, Len(s) <= Len(t)
  <2>4. m # 0
    BY ONLY <1>4, <1>5, <2>2, <2>3
  <2>5. m \in 1 .. Len(s) /\ m - 1 \in 0 .. Len(s)
    BY ONLY <1>1, <2>2, <2>4
  <2>6. m - 1 \notin T
    <3> HIDE DEF T
    <3> QED
      BY ONLY <1>1, <2>1, <2>5
  <2>7. f[m - 1] = g[m - 1]
    BY <2>5, <2>6
  <2>8. s[m] = t[m]
    BY <2>5
  <2> QED
    BY ONLY <1>4, <1>5, <2>2, <2>3, <2>4, <2>7, <2>8
<1>7. Len(s) \in 0 .. Len(s) /\ Len(s) \in 0 .. Len(t) /\ Len(t) \in 0 .. Len(t)
  BY ONLY <1>1, Len(s) <= Len(t)
<1>8. f[Len(s)] = g[Len(s)]
  BY <1>6, <1>7
<1>9. g[Len(s)] \in Nat /\ g[Len(t)] \in Nat /\ g[Len(s)] <= g[Len(t)]
  BY <1>3, <1>7, SumsGrow
<1> QED
  BY ONLY <1>2, <1>3, <1>8, <1>9

-----------------------------------------------------------------------------
(* The prefixes of a prompt. *)

\* The texts of a prompt up to its k-th message.
TextsAt(p, k) == HeadOf(p) \o SubSeq(p.messages, 1, k)
\* Is there a prefix before the first message?
HeadSegments(p) == IF Sum(HeadOf(p)) > 0 THEN 1 ELSE 0
Last(p) == IF Len(p.messages) = 0 THEN 0 ELSE Len(p.messages) - 1

\* The stable part of a system prompt is that from its first cached block.
LEMMA StableFrom ==
  ASSUME NEW p, Len(p.system) \in Nat, DOMAIN p.system = 1 .. Len(p.system),
         NEW i \in DOMAIN p.system, p.system[i].cached, \A k \in 1 .. i - 1 : ~p.system[k].cached
  PROVE  StableSystem(p) = [k \in 1 .. Len(p.system) + 1 - i |-> p.system[i + k - 1].text]
<1> DEFINE marked == {j \in DOMAIN p.system : p.system[j].cached}
           first == CHOOSE j \in marked : \A l \in marked : j <= l
<1>1. i \in marked /\ \A l \in marked : i <= l
  OBVIOUS
<1>2. first \in marked /\ \A l \in marked : first <= l
  BY <1>1
<1>3. first = i
  BY <1>1, <1>2
<1>4. StableSystem(p) = [k \in 1 .. Len(p.system) + 1 - first |-> p.system[first + k - 1].text]
  BY <1>1 DEF StableSystem
<1> QED
  BY <1>3, <1>4

\* Two turns have the same tools and stable system prompt.
LEMMA SameHead ==
  ASSUME NEW p \in Prompts, NEW q \in Prompts, Continues(p, q)
  PROVE  HeadOf(p) = HeadOf(q)
<1>1. p.tools = q.tools /\ SameCached(p.system, q.system)
  BY DEF Continues
<1>2. CASE p.system = q.system
  BY <1>1, <1>2 DEF HeadOf, StableSystem
<1>3. ASSUME NEW i \in DOMAIN p.system, NEW j \in DOMAIN q.system,
             p.system[i].cached, \A k \in 1 .. i - 1 : ~p.system[k].cached,
             q.system[j].cached, \A k \in 1 .. j - 1 : ~q.system[k].cached,
             SubSeq(p.system, i, Len(p.system)) = SubSeq(q.system, j, Len(q.system))
      PROVE  HeadOf(p) = HeadOf(q)
  <2>1. PICK s, t : s = p.system /\ t = q.system
    OBVIOUS
  <2> DEFINE Blocks == [text : DOMAIN TokensOf, cached : BOOLEAN]
  <2>2. s \in Seq(Blocks) /\ t \in Seq(Blocks)
    BY <2>1, PromptsAssumption
  <2> HIDE DEF Blocks
  <2>3. /\ Len(s) \in Nat /\ DOMAIN s = 1 .. Len(s) /\ Len(t) \in Nat /\ DOMAIN t = 1 .. Len(t)
        /\ i \in 1 .. Len(s) /\ j \in 1 .. Len(t)
    BY <1>3, <2>1, <2>2, LenProperties
  <2>4. /\ StableSystem(p) = [k \in 1 .. Len(s) + 1 - i |-> s[i + k - 1].text]
        /\ StableSystem(q) = [k \in 1 .. Len(t) + 1 - j |-> t[j + k - 1].text]
    <3>1. Len(p.system) \in Nat /\ DOMAIN p.system = 1 .. Len(p.system)
          /\ Len(q.system) \in Nat /\ DOMAIN q.system = 1 .. Len(q.system)
      BY <2>1, <2>3
    <3>2. StableSystem(p) = [k \in 1 .. Len(p.system) + 1 - i |-> p.system[i + k - 1].text]
      BY ONLY <1>3, <3>1, StableFrom
    <3>3. StableSystem(q) = [k \in 1 .. Len(q.system) + 1 - j |-> q.system[j + k - 1].text]
      BY ONLY <1>3, <3>1, StableFrom
    <3> QED
      BY ONLY <2>1, <3>2, <3>3
  <2>5. PICK u, v : u = SubSeq(s, i, Len(s)) /\ v = SubSeq(t, j, Len(t))
    OBVIOUS
  <2>6. /\ Len(u) = Len(s) + 1 - i /\ \A k \in 1 .. Len(s) - i + 1 : u[k] = s[i + k - 1]
    <3>1. \A k \in i .. Len(s) : s[k] \in Blocks
      BY <2>2, <2>3
    <3> QED
      BY <2>3, <2>5, <3>1, SubSeqProperties
  <2>7. /\ Len(v) = Len(t) + 1 - j /\ \A k \in 1 .. Len(t) - j + 1 : v[k] = t[j + k - 1]
    <3>1. \A k \in j .. Len(t) : t[k] \in Blocks
      BY <2>2, <2>3
    <3> QED
      BY <2>3, <2>5, <3>1, SubSeqProperties
  <2>8. u = v
    BY <1>3, <2>1, <2>5
  <2>9. Len(s) + 1 - i = Len(t) + 1 - j
    BY <2>6, <2>7, <2>8
  <2>10. \A k \in 1 .. Len(s) + 1 - i : s[i + k - 1].text = t[j + k - 1].text
    <3> SUFFICES ASSUME NEW k \in 1 .. Len(s) + 1 - i
                 PROVE  s[i + k - 1].text = t[j + k - 1].text
      OBVIOUS
    <3>1. k \in 1 .. Len(s) - i + 1 /\ k \in 1 .. Len(t) - j + 1
      BY ONLY <2>3, <2>9, k \in 1 .. Len(s) + 1 - i
    <3>2. s[i + k - 1] = t[j + k - 1]
      BY ONLY <2>6, <2>7, <2>8, <3>1, Zenon
    <3> QED
      BY ONLY <3>2
  <2>11. StableSystem(p) = StableSystem(q)
    BY <2>4, <2>9, <2>10
  <2> QED
    BY <1>1, <2>11 DEF HeadOf
<1> QED
  BY <1>1, <1>2, <1>3 DEF SameCached

LEMMA HeadTexts == ASSUME NEW p \in Prompts PROVE HeadOf(p) \in Seq(Texts)
<1> DEFINE Blocks == [text : Texts, cached : BOOLEAN]
           marked == {i \in DOMAIN p.system : p.system[i].cached}
           first == IF marked = {} THEN 1 ELSE CHOOSE i \in marked : \A j \in marked : i <= j
<1>1. p.tools \in Seq(Texts) /\ p.system \in Seq(Blocks)
  BY PromptsAssumption DEF Texts
<1>2. Len(p.system) \in Nat /\ DOMAIN p.system = 1 .. Len(p.system)
      /\ \A i \in DOMAIN p.system : p.system[i].text \in Texts
  <2> HIDE DEF Blocks
  <2>1. Len(p.system) \in Nat /\ DOMAIN p.system = 1 .. Len(p.system)
        /\ \A i \in 1 .. Len(p.system) : p.system[i] \in Blocks
    BY <1>1, LenProperties
  <2> QED
    BY <2>1 DEF Blocks
<1>3. first \in Nat \ {0} /\ first <= Len(p.system) + 1
  <2>1. CASE marked = {}
    BY <1>2, <2>1
  <2>2. CASE marked # {}
    <3>1. marked \subseteq Nat
      BY <1>2
    <3>2. PICK m \in marked : \A j \in marked : m <= j
      BY <2>2, <3>1, Smallest
    <3>3. first \in marked
      BY <2>2, <3>2
    <3>4. first \in 1 .. Len(p.system)
      <4> HIDE DEF first
      <4> QED
        BY <1>2, <3>3
    <3> HIDE DEF first
    <3> QED
      BY ONLY <1>2, <3>4
  <2> QED
    BY <2>1, <2>2
<1>4. StableSystem(p) = [i \in 1 .. Len(p.system) + 1 - first |-> p.system[first + i - 1].text]
  BY DEF StableSystem
<1> HIDE DEF first
<1>5. PICK n, s, m : n = Len(p.system) + 1 - first /\ s = p.system /\ m = first
  OBVIOUS
<1>6. n \in Nat /\ m \in Nat \ {0} /\ m + n = Len(p.system) + 1
  BY <1>2, <1>3, <1>5
<1>7. \A i \in 1 .. n : s[m + i - 1].text \in Texts
  <2> SUFFICES ASSUME NEW i \in 1 .. n PROVE s[m + i - 1].text \in Texts
    OBVIOUS
  <2>1. m + i - 1 \in 1 .. Len(p.system)
    BY <1>2, <1>6
  <2> QED
    BY <1>2, <1>5, <2>1
<1>8. [i \in 1 .. n |-> s[m + i - 1].text] \in Seq(Texts)
  BY ONLY <1>6, <1>7
<1>9. StableSystem(p) \in Seq(Texts)
  BY <1>4, <1>5, <1>8
<1> QED
  BY ONLY <1>1, <1>9, ConcatProperties DEF HeadOf

\* The prefixes of a prompt are those of its texts, each longer than the one before.
LEMMA TextsGrow ==
  ASSUME NEW p \in Prompts, NEW k \in 0 .. Len(p.messages), NEW l \in k .. Len(p.messages)
  PROVE  Sum(TextsAt(p, k)) \in Nat /\ Sum(TextsAt(p, k)) <= Sum(TextsAt(p, l))
         /\ Sum(TextsAt(p, l)) \in Nat
<1>1. PICK h, m : h = HeadOf(p) /\ m = p.messages
  OBVIOUS
<1>2. h \in Seq(Texts) /\ m \in Seq(Texts)
  BY <1>1, HeadTexts, PromptsAssumption DEF Texts
<1>3. Len(h) \in Nat /\ Len(m) \in Nat /\ \A i \in 1 .. Len(m) : m[i] \in Texts
  BY <1>2
<1>4. k \in Nat /\ l \in Nat /\ k <= l /\ l <= Len(m)
  BY <1>1, <1>3
<1>5. PICK a, b : a = SubSeq(m, 1, k) /\ b = SubSeq(m, 1, l)
  OBVIOUS
<1>6. a \in Seq(Texts) /\ Len(a) = k /\ \A i \in 1 .. k : a[i] = m[i]
  <2>1. \A i \in 1 .. k : m[i] \in Texts
    BY <1>3, <1>4
  <2>2. /\ SubSeq(m, 1, k) \in Seq(Texts)
        /\ Len(SubSeq(m, 1, k)) = (IF 1 <= k THEN k - 1 + 1 ELSE 0)
        /\ \A i \in 1 .. k - 1 + 1 : SubSeq(m, 1, k)[i] = m[1 + i - 1]
    BY <1>4, <2>1, SubSeqProperties
  <2> QED
    BY ONLY <1>4, <1>5, <2>2
<1>7. b \in Seq(Texts) /\ Len(b) = l /\ \A i \in 1 .. l : b[i] = m[i]
  <2>1. \A i \in 1 .. l : m[i] \in Texts
    BY <1>3, <1>4
  <2>2. /\ SubSeq(m, 1, l) \in Seq(Texts)
        /\ Len(SubSeq(m, 1, l)) = (IF 1 <= l THEN l - 1 + 1 ELSE 0)
        /\ \A i \in 1 .. l - 1 + 1 : SubSeq(m, 1, l)[i] = m[1 + i - 1]
    BY <1>4, <2>1, SubSeqProperties
  <2> QED
    BY ONLY <1>4, <1>5, <2>2
<1>8. PICK s, t : s = h \o a /\ t = h \o b
  OBVIOUS
<1>9. s \in Seq(Texts) /\ Len(s) = Len(h) + k
      /\ \A i \in 1 .. Len(h) + k : s[i] = IF i <= Len(h) THEN h[i] ELSE a[i - Len(h)]
  <2>1. /\ h \o a \in Seq(Texts) /\ Len(h \o a) = Len(h) + Len(a)
        /\ \A i \in 1 .. Len(h) + Len(a) :
             (h \o a)[i] = IF i <= Len(h) THEN h[i] ELSE a[i - Len(h)]
    BY ONLY <1>2, <1>6, ConcatProperties, Zenon
  <2> QED
    BY ONLY <1>6, <1>8, <2>1, Zenon
<1>10. t \in Seq(Texts) /\ Len(t) = Len(h) + l
       /\ \A i \in 1 .. Len(h) + l : t[i] = IF i <= Len(h) THEN h[i] ELSE b[i - Len(h)]
  <2>1. /\ h \o b \in Seq(Texts) /\ Len(h \o b) = Len(h) + Len(b)
        /\ \A i \in 1 .. Len(h) + Len(b) :
             (h \o b)[i] = IF i <= Len(h) THEN h[i] ELSE b[i - Len(h)]
    BY ONLY <1>2, <1>7, ConcatProperties, Zenon
  <2> QED
    BY ONLY <1>7, <1>8, <2>1, Zenon
<1>11. \A i \in 1 .. Len(s) : s[i] = t[i]
  <2> SUFFICES ASSUME NEW i \in 1 .. Len(s) PROVE s[i] = t[i]
    OBVIOUS
  <2>1. i \in 1 .. Len(h) + k /\ i \in 1 .. Len(h) + l
    BY ONLY <1>3, <1>4, <1>9, i \in 1 .. Len(s)
  <2>2. CASE i <= Len(h)
    BY ONLY <1>9, <1>10, <2>1, <2>2
  <2>3. CASE ~ (i <= Len(h))
    <3>1. i - Len(h) \in 1 .. k /\ i - Len(h) \in 1 .. l
      BY ONLY <1>3, <1>4, <2>1, <2>3
    <3> QED
      BY ONLY <1>6, <1>7, <1>9, <1>10, <2>1, <2>3, <3>1
  <2> QED
    BY <2>2, <2>3
<1>12. Len(s) <= Len(t)
  BY ONLY <1>3, <1>4, <1>9, <1>10
<1>13. Sum(s) \in Nat /\ Sum(t) \in Nat /\ Sum(s) <= Sum(t)
  BY ONLY <1>9, <1>10, <1>11, <1>12, PrefixHasFewer
<1> QED
  BY ONLY <1>1, <1>5, <1>8, <1>13 DEF TextsAt

SegmentOf(p, texts) == [hash |-> <<SeedOf(p), texts>>, tokens |-> Sum(texts)]

\* Where the prefixes of a prompt are.
LEMMA SegmentsAre ==
  ASSUME NEW p \in Prompts
  PROVE  /\ HeadSegments(p) \in {0, 1} /\ Last(p) \in Nat /\ Last(p) <= Len(p.messages)
         /\ Len(Segments(p)) = HeadSegments(p) + Last(p)
         /\ Segments(p) # <<>> => Len(Segments(p)) # 0
         /\ DOMAIN Segments(p) = 1 .. HeadSegments(p) + Last(p)
         /\ \A i \in 1 .. HeadSegments(p) + Last(p) :
              Segments(p)[i] = SegmentOf(p, TextsAt(p, i - HeadSegments(p)))
<1>1. PICK head, m, n : head = HeadOf(p) /\ m = p.messages /\ n = Last(p)
  OBVIOUS
<1>2. head \in Seq(Texts) /\ m \in Seq(Texts) /\ Len(m) \in Nat
  BY <1>1, HeadTexts, PromptsAssumption DEF Texts
<1>3. n \in Nat /\ n <= Len(m) /\ 1 .. Len(m) - 1 = 1 .. n
  BY <1>1, <1>2 DEF Last
<1> DEFINE deeper == [i \in 1 .. n |-> SegmentOf(p, head \o SubSeq(m, 1, i))]
           All == {SegmentOf(p, x) : x \in Seq(Texts)}
<1>4. /\ deeper \in Seq({deeper[i] : i \in 1 .. n}) /\ Len(deeper) = n /\ DOMAIN deeper = 1 .. n
      /\ \A i \in 1 .. n : deeper[i] = SegmentOf(p, TextsAt(p, i))
  <2>1. \A i \in 1 .. n : deeper[i] = SegmentOf(p, TextsAt(p, i))
    BY <1>1 DEF TextsAt
  <2> QED
    BY <1>3, <2>1
<1>5. Segments(p) = IF Sum(head) > 0 THEN <<SegmentOf(p, head)>> \o deeper ELSE deeper
  BY <1>1, <1>3 DEF Segments, SegmentOf
<1> HIDE DEF deeper
<1>6. CASE Sum(head) > 0
  <2>1. HeadSegments(p) = 1
    BY <1>1, <1>6 DEF HeadSegments
  <2>2. PICK x, d, s : x = SegmentOf(p, head) /\ d = deeper /\ s = <<x>> \o d
    OBVIOUS
  <2> DEFINE S == {deeper[i] : i \in 1 .. n} \cup {x}
  <2>3. d \in Seq(S) /\ <<x>> \in Seq(S) /\ Len(d) = n
    BY <1>4, <2>2
  <2> HIDE DEF S
  <2>4. /\ s \in Seq(S) /\ Len(s) = Len(<<x>>) + Len(d)
        /\ \A i \in 1 .. Len(<<x>>) + Len(d) :
             s[i] = IF i <= Len(<<x>>) THEN <<x>>[i] ELSE d[i - Len(<<x>>)]
    <3>1. PICK u : u = <<x>>
      OBVIOUS
    <3>2. /\ u \o d \in Seq(S) /\ Len(u \o d) = Len(u) + Len(d)
          /\ \A i \in 1 .. Len(u) + Len(d) :
               (u \o d)[i] = IF i <= Len(u) THEN u[i] ELSE d[i - Len(u)]
      BY ONLY <2>3, <3>1, ConcatProperties, Zenon
    <3> QED
      BY ONLY <2>2, <3>1, <3>2, Zenon
  <2>5. Len(s) = 1 + n /\ DOMAIN s = 1 .. 1 + n /\ s[1] = x
        /\ \A i \in 2 .. 1 + n : s[i] = d[i - 1]
    BY ONLY <1>3, <2>3, <2>4
  <2>6. TextsAt(p, 0) = head
    BY <1>1, <1>2, ConcatEmptySeq DEF TextsAt
  <2>7. \A i \in 1 .. 1 + n : s[i] = SegmentOf(p, TextsAt(p, i - 1))
    <3> SUFFICES ASSUME NEW i \in 1 .. 1 + n PROVE s[i] = SegmentOf(p, TextsAt(p, i - 1))
      OBVIOUS
    <3>1. CASE i = 1
      BY <2>2, <2>5, <2>6, <3>1
    <3>2. CASE i # 1
      <4>1. i \in 2 .. 1 + n /\ i - 1 \in 1 .. n
        BY <1>3, <3>2
      <4> QED
        BY <1>4, <2>2, <2>5, <4>1
    <3> QED
      BY <3>1, <3>2
  <2>8. Segments(p) = s
    BY <1>5, <1>6, <2>2
  <2> QED
    BY ONLY <1>1, <1>3, <2>1, <2>5, <2>7, <2>8
<1>7. CASE ~ (Sum(head) > 0)
  <2>1. HeadSegments(p) = 0
    BY <1>1, <1>7 DEF HeadSegments
  <2>2. Segments(p) = deeper
    BY <1>5, <1>7
  <2>3. \A i \in 1 .. n : i - 0 = i
    BY <1>3
  <2>4. deeper # <<>> => Len(deeper) # 0
    BY ONLY <1>4, EmptySeq
  <2> QED
    BY ONLY <1>1, <1>3, <1>4, <2>1, <2>2, <2>3, <2>4
<1> QED
  BY <1>6, <1>7

\* The deepest prefix of a turn is one of the next turn's, with the same texts.
LEMMA PrefixAgain ==
  ASSUME NEW p \in Prompts, NEW q \in Prompts, Continues(p, q), Segments(q) # <<>>
  PROVE  \E i \in DOMAIN Segments(p) : Segments(p)[i] = Deepest(q)
<1>1. HeadOf(p) = HeadOf(q)
  BY SameHead
<1>2. PICK d, m, n : d = HeadSegments(q) /\ m = Last(p) /\ n = Last(q)
  OBVIOUS
<1>3. HeadSegments(p) = d
  BY <1>1, <1>2 DEF HeadSegments
<1>4. /\ d \in {0, 1} /\ m \in Nat /\ n \in Nat /\ n <= Len(q.messages)
      /\ Len(Segments(q)) = d + n /\ DOMAIN Segments(p) = 1 .. d + m
      /\ \A i \in 1 .. d + m : Segments(p)[i] = SegmentOf(p, TextsAt(p, i - d))
      /\ \A i \in 1 .. d + n : Segments(q)[i] = SegmentOf(q, TextsAt(q, i - d))
      /\ DOMAIN Segments(q) = 1 .. d + n
  BY <1>2, <1>3, SegmentsAre
<1>5. /\ p.messages \in Seq(Texts) /\ q.messages \in Seq(Texts)
      /\ Len(p.messages) \in Nat /\ Len(q.messages) \in Nat
      /\ Len(q.messages) < Len(p.messages)
      /\ q.messages = SubSeq(p.messages, 1, Len(q.messages))
  BY PromptsAssumption DEF Texts, Continues
<1>6. n <= m
  BY <1>2, <1>5 DEF Last
<1>7. d + n # 0
  BY <1>2, <1>4, SegmentsAre
<1>8. d + n \in 1 .. d + n /\ d + n \in 1 .. d + m /\ (d + n) - d = n
  BY ONLY <1>4, <1>6, <1>7
<1>9. Deepest(q) = SegmentOf(q, TextsAt(q, n))
  BY ONLY <1>4, <1>8 DEF Deepest
<1>10. Segments(p)[d + n] = SegmentOf(p, TextsAt(p, n))
  BY ONLY <1>4, <1>8
<1>11. SubSeq(p.messages, 1, n) = SubSeq(q.messages, 1, n)
  <2>1. PICK s, t : s = p.messages /\ t = q.messages
    OBVIOUS
  <2>2. \A i \in 1 .. Len(t) : t[i] = s[i] /\ s[i] \in Texts
    <3>1. \A i \in 1 .. Len(s) : s[i] \in Texts
      BY <1>5, <2>1
    <3>2. \A i \in 1 .. Len(t) : i \in 1 .. Len(s)
      BY <1>5, <2>1
    <3>3. \A i \in 1 .. Len(t) - 1 + 1 : SubSeq(s, 1, Len(t))[i] = s[1 + i - 1]
      BY <1>5, <2>1, <3>1, <3>2, SubSeqProperties
    <3> QED
      BY <1>5, <2>1, <3>1, <3>2, <3>3
  <2>3. \A i \in 1 .. n : i \in 1 .. Len(t)
    BY <1>4, <1>5, <2>1
  <2>4. \A i \in 1 .. n : s[i] = t[i] /\ s[i] \in Texts /\ t[i] \in Texts
    BY <2>2, <2>3
  <2>5. PICK a, b : a = SubSeq(s, 1, n) /\ b = SubSeq(t, 1, n)
    OBVIOUS
  <2>6. /\ a \in Seq(Texts) /\ Len(a) = (IF 1 <= n THEN n - 1 + 1 ELSE 0)
        /\ \A i \in 1 .. n - 1 + 1 : a[i] = s[1 + i - 1]
    BY <1>4, <2>4, <2>5, SubSeqProperties
  <2>7. /\ b \in Seq(Texts) /\ Len(b) = (IF 1 <= n THEN n - 1 + 1 ELSE 0)
        /\ \A i \in 1 .. n - 1 + 1 : b[i] = t[1 + i - 1]
    BY <1>4, <2>4, <2>5, SubSeqProperties
  <2>8. Len(a) = n /\ Len(b) = n /\ \A i \in 1 .. n : a[i] = b[i]
    BY ONLY <1>4, <2>4, <2>6, <2>7
  <2>9. a = b
    BY ONLY <2>6, <2>7, <2>8, SeqEqual
  <2> QED
    BY ONLY <2>1, <2>5, <2>9
<1>12. SeedOf(p) = SeedOf(q)
  BY DEF Continues, SeedOf
<1>13. Segments(p)[d + n] = Deepest(q)
  BY ONLY <1>1, <1>9, <1>10, <1>11, <1>12 DEF SegmentOf, TextsAt
<1> QED
  BY ONLY <1>4, <1>8, <1>13

\* A lookup finds at least the tokens of each of its prefixes that is cached.
LEMMA FindsDeepest ==
  ASSUME NEW p \in Prompts, NEW i \in DOMAIN Segments(p), Live(Segments(p)[i].hash)
  PROVE  Segments(p)[i].tokens <= Found(p)
<1>1. PICK d, n : d = HeadSegments(p) /\ n = Last(p)
  OBVIOUS
<1>2. /\ d \in {0, 1} /\ n \in Nat /\ n <= Len(p.messages) /\ DOMAIN Segments(p) = 1 .. d + n
      /\ \A j \in 1 .. d + n : Segments(p)[j] = SegmentOf(p, TextsAt(p, j - d))
  BY <1>1, SegmentsAre
<1> DEFINE hits == {j \in DOMAIN Segments(p) : Live(Segments(p)[j].hash)}
           deepest == CHOOSE j \in hits : \A l \in hits : l <= j
<1>3. i \in hits /\ hits \subseteq 1 .. d + n /\ d + n \in Nat
  BY <1>2
<1>4. Found(p) = Segments(p)[deepest].tokens
  BY <1>3 DEF Found
<1> HIDE DEF hits
<1>5. PICK j \in hits : \A l \in hits : l <= j
  BY ONLY <1>3, Greatest
<1>6. deepest \in hits /\ \A l \in hits : l <= deepest
  BY ONLY <1>5
<1>7. PICK k : k = deepest
  OBVIOUS
<1>8. k \in 1 .. d + n /\ i \in 1 .. d + n /\ i <= k
  BY ONLY <1>3, <1>6, <1>7
<1>9. Len(p.messages) \in Nat
  BY PromptsAssumption
<1>10. i - d \in 0 .. Len(p.messages) /\ k - d \in (i - d) .. Len(p.messages)
  BY ONLY <1>2, <1>8, <1>9
<1>11. Sum(TextsAt(p, i - d)) <= Sum(TextsAt(p, k - d))
  BY ONLY <1>10, TextsGrow, p \in Prompts
<1>12. /\ Segments(p)[i].tokens = Sum(TextsAt(p, i - d))
       /\ Segments(p)[k].tokens = Sum(TextsAt(p, k - d))
  BY ONLY <1>2, <1>8 DEF SegmentOf
<1> QED
  BY ONLY <1>4, <1>7, <1>11, <1>12

-----------------------------------------------------------------------------
(* Turns of a conversation. *)

\* Who has looked up has a prompt.
PromptsKnown ==
  /\ DOMAIN req = Requests
  /\ \A r \in Requests : IsRequest(req[r]) /\ (req[r].pc # "new" => req[r].prompt \in Prompts)

LEMMA NextPrompts == PromptsKnown /\ [Next]_vars => PromptsKnown'
<1> SUFFICES ASSUME PromptsKnown, [Next]_vars PROVE PromptsKnown'
  OBVIOUS
<1>g. ASSUME NEW r \in Requests, NEW q, req' = [req EXCEPT ![r] = q], IsRequest(q),
             q.pc # "new" => q.prompt \in Prompts
      PROVE  PromptsKnown'
  BY <1>g DEF PromptsKnown
<1>1. ASSUME NEW r \in Requests, Lookup(r) PROVE PromptsKnown'
  <2>1. \E p \in Prompts : \E q :
          req' = [req EXCEPT ![r] = q] /\ IsRequest(q) /\ q.prompt = p
    BY <1>1 DEF Lookup, IsRequest
  <2> QED
    BY <1>g, <2>1
<1>2. ASSUME NEW r \in Requests, BeginInflight(r) PROVE PromptsKnown'
  <2>1. IsRequest(req[r]) /\ req[r].prompt \in Prompts /\ r \in DOMAIN req
    BY <1>2 DEF BeginInflight, PromptsKnown
  <2>2. \/ req' = [req EXCEPT ![r].pc = "record"]
        \/ req' = [req EXCEPT ![r].pc = "waiting", ![r].writer = FALSE]
    BY <1>2 DEF BeginInflight
  <2>3. \E q : req' = [req EXCEPT ![r] = q] /\ IsRequest(q) /\ q.prompt = req[r].prompt
    BY <2>1, <2>2 DEF IsRequest
  <2> QED
    BY <1>g, <2>1, <2>3
<1>3. ASSUME NEW r \in Requests, Wake(r) PROVE PromptsKnown'
  <2>1. IsRequest(req[r]) /\ req[r].prompt \in Prompts /\ r \in DOMAIN req
    BY <1>3 DEF Wake, PromptsKnown
  <2>2. PICK x : req' = [req EXCEPT ![r].pc = "record", ![r].read = x]
    BY <1>3 DEF Wake
  <2>3. PICK q : q = [req[r] EXCEPT !.pc = "record", !.read = x]
    OBVIOUS
  <2>4. IsRequest(q) /\ q.prompt = req[r].prompt
    BY <2>1, <2>3 DEF IsRequest
  <2>5. req' = [req EXCEPT ![r] = q]
    BY <2>1, <2>2, <2>3
  <2> QED
    BY <1>g, <2>1, <2>4, <2>5
<1>4. ASSUME NEW r \in Requests, \/ Record(r) \/ FinishInflight(r) \/ Dropped(r)
      PROVE  PromptsKnown'
  <2>1. IsRequest(req[r]) /\ req[r].prompt \in Prompts /\ r \in DOMAIN req
    BY <1>4 DEF Record, FinishInflight, Dropped, PromptsKnown
  <2>2. PICK x : req' = [req EXCEPT ![r].pc = x]
    BY <1>4 DEF Record, FinishInflight, Dropped
  <2>3. \E q : req' = [req EXCEPT ![r] = q] /\ IsRequest(q) /\ q.prompt = req[r].prompt
    BY <2>1, <2>2, PcChanged
  <2> QED
    BY <1>g, <2>1, <2>3
<1>5. ASSUME Restart PROVE PromptsKnown'
  <2>1. req' = [r \in Requests |-> IF req[r].pc \in {"new", "done"} THEN req[r]
                                   ELSE [req[r] EXCEPT !.pc = "dropped"]]
    BY <1>5 DEF Restart
  <2>2. ASSUME NEW r \in Requests
        PROVE  IsRequest(req'[r]) /\ (req'[r].pc # "new" => req'[r].prompt \in Prompts)
    <3>1. IsRequest(req[r]) /\ (req[r].pc # "new" => req[r].prompt \in Prompts)
      BY DEF PromptsKnown
    <3>2. CASE req[r].pc \in {"new", "done"}
      BY <2>1, <3>1, <3>2
    <3>3. CASE req[r].pc \notin {"new", "done"}
      BY <2>1, <3>1, <3>3, PcChanged
    <3> QED
      BY <3>2, <3>3
  <2> QED
    BY <2>1, <2>2 DEF PromptsKnown
<1>6. ASSUME UNCHANGED req PROVE PromptsKnown'
  BY <1>6 DEF PromptsKnown
<1>7. ASSUME \/ Tick \/ EvictExpired \/ FlushCollect \/ FlushWrite \/ FlushFails \/ ClearAll
             \/ \E seed \in {q[1] : q \in session_index} : ClearSession(seed)
             \/ UNCHANGED vars
      PROVE  PromptsKnown'
  BY <1>6, <1>7 DEF Tick, EvictExpired, FlushCollect, FlushWrite, FlushFails, ClearAll,
                   ClearSession, vars
<1> QED
  BY <1>1, <1>2, <1>3, <1>4, <1>5, <1>7 DEF Next, Meter

\* A turn whose predecessor's deepest prefix is cached reads at least its tokens,
\* whatever else is in the cache and in whatever state (compute_cache_usage_async):
\* what the client puts before its cached system blocks does not matter.
THEOREM NextTurnAlwaysReads == Spec => NextTurnReads
<1>1. Init => PromptsKnown
  BY DEF Init, Idle, PromptsKnown, IsRequest
<1>2. ASSUME PromptsKnown, [Next]_vars, NEW r \in Requests, Lookup(r), NEW q \in Requests,
             req[q].pc = "done", Continues(req'[r].prompt, req[q].prompt),
             Segments(req[q].prompt) # <<>>, Live(Deepest(req[q].prompt).hash)
      PROVE  req'[r].read >= Deepest(req[q].prompt).tokens
  <2>1. PICK p \in Prompts : req' = [req EXCEPT ![r] =
            [pc |-> IF Segments(p) = <<>> THEN "done" ELSE IF HitAny(p) THEN "record" ELSE "begin",
             prompt |-> p, read |-> Found(p), writer |-> TRUE]]
    BY <1>2 DEF Lookup
  <2>2. req'[r].prompt = p /\ req'[r].read = Found(p)
    BY <1>2, <2>1 DEF PromptsKnown
  <2>3. PICK o : o = req[q].prompt
    OBVIOUS
  <2>4. o \in Prompts
    BY <1>2, <2>3 DEF PromptsKnown
  <2>5. Continues(p, o) /\ Segments(o) # <<>> /\ Live(Deepest(o).hash)
    BY <1>2, <2>2, <2>3
  <2>6. PICK i \in DOMAIN Segments(p) : Segments(p)[i] = Deepest(o)
    BY ONLY <2>4, <2>5, PrefixAgain, p \in Prompts
  <2>7. Deepest(o).tokens <= Found(p)
    <3>1. Live(Segments(p)[i].hash)
      BY ONLY <2>5, <2>6
    <3>2. Segments(p)[i].tokens <= Found(p)
      BY ONLY <3>1, FindsDeepest, p \in Prompts, i \in DOMAIN Segments(p)
    <3> QED
      BY ONLY <2>6, <3>2
  <2> QED
    BY <2>2, <2>3, <2>7
<1>3. PromptsKnown /\ [Next]_vars =>
        [\A r \in Requests :
           Lookup(r) =>
             \A q \in Requests :
               LET p == req'[r].prompt
               IN  (/\ req[q].pc = "done" /\ Continues(p, req[q].prompt)
                    /\ Segments(req[q].prompt) # <<>>
                    /\ Live(Deepest(req[q].prompt).hash))
                   => req'[r].read >= Deepest(req[q].prompt).tokens]_vars
  BY <1>2
<1> QED
  BY <1>1, <1>3, NextPrompts, PTL DEF Spec, NextTurnReads

-----------------------------------------------------------------------------
(* The limits. *)

\* The session of an entry, which an older version may have left out.
SeedIn(e) == IF e.session_seed = <<>> THEN <<"legacy">> ELSE e.session_seed
Own(es, seed) == {h \in DOMAIN es : SeedIn(es[h]) = seed}

\* A map of entries within the limits.
Fits(es) ==
  /\ IsFiniteSet(DOMAIN es) /\ Cardinality(DOMAIN es) <= Most(MaxEntries, 1)
  /\ MaxSessionEntries # 0 =>
       \A seed : Cardinality(Own(es, seed)) <= MaxSessionEntries

\* The inductive invariant: so are the memory, the snapshot and the file.
CapacityInv ==
  /\ Stored /\ IndexExact /\ PromptsKnown
  /\ \A h \in DOMAIN entries : entries[h].session_seed # <<>>
  /\ Fits(entries)
  /\ file # <<>> => Fits(file[1])
  /\ flush # <<>> => Fits(flush[1])
  /\ IsFiniteSet(DOMAIN inflight) /\ Cardinality(DOMAIN inflight) <= Most(MaxInflight, 1)

LEMMA Fewer ==
  ASSUME NEW S, IsFiniteSet(S), NEW T, T \subseteq S
  PROVE  IsFiniteSet(T) /\ Cardinality(T) \in Nat /\ Cardinality(S) \in Nat
         /\ Cardinality(T) <= Cardinality(S)
  BY FS_Subset, FS_CardinalityType

LEMMA TakenOut ==
  ASSUME NEW S, IsFiniteSet(S), NEW T, T \subseteq S
  PROVE  Cardinality(S \ T) = Cardinality(S) - Cardinality(T)
<1>1. S \cap T = T
  OBVIOUS
<1> QED
  BY <1>1, FS_Difference

\* Whatever entries go, and as long as none moves to another session.
LEMMA FitsLess ==
  ASSUME NEW es, Fits(es), NEW fs, DOMAIN fs \subseteq DOMAIN es,
         \A h \in DOMAIN fs : SeedIn(fs[h]) = SeedIn(es[h])
  PROVE  Fits(fs)
<1>1. /\ IsFiniteSet(DOMAIN fs) /\ Cardinality(DOMAIN fs) <= Cardinality(DOMAIN es)
      /\ Cardinality(DOMAIN fs) \in Nat /\ Cardinality(DOMAIN es) \in Nat
  BY Fewer DEF Fits
<1>2. ASSUME NEW seed
      PROVE  /\ Cardinality(Own(fs, seed)) <= Cardinality(Own(es, seed))
             /\ Cardinality(Own(fs, seed)) \in Nat /\ Cardinality(Own(es, seed)) \in Nat
  <2>1. Own(fs, seed) \subseteq Own(es, seed) /\ Own(es, seed) \subseteq DOMAIN es
    BY DEF Own
  <2>2. IsFiniteSet(Own(es, seed))
    BY <2>1, Fewer DEF Fits
  <2> QED
    BY <2>1, <2>2, Fewer
<1>3. Most(MaxEntries, 1) \in Nat /\ MaxSessionEntries \in Nat
  BY LimitsAssumption DEF Most
<1>4. Cardinality(DOMAIN es) <= Most(MaxEntries, 1)
      /\ (MaxSessionEntries # 0 => \A seed : Cardinality(Own(es, seed)) <= MaxSessionEntries)
  BY DEF Fits
<1>5. Cardinality(DOMAIN fs) <= Most(MaxEntries, 1)
  BY ONLY <1>1, <1>3, <1>4
<1>6. MaxSessionEntries # 0 => \A seed : Cardinality(Own(fs, seed)) <= MaxSessionEntries
  <2> SUFFICES ASSUME MaxSessionEntries # 0, NEW seed
               PROVE  Cardinality(Own(fs, seed)) <= MaxSessionEntries
    OBVIOUS
  <2> QED
    BY ONLY <1>2, <1>3, <1>4, MaxSessionEntries # 0
<1> QED
  BY <1>1, <1>5, <1>6 DEF Fits

\* What a start takes of a file that fits.
LEMMA LoadedFits ==
  ASSUME NEW f, f = <<>> \/ \E es : IsStore(es) /\ f = <<es>> /\ Fits(es)
  PROVE  Fits(Loaded(f)) /\ \A h \in DOMAIN Loaded(f) : Loaded(f)[h].session_seed # <<>>
<1>1. CASE f = <<>>
  <2>1. Loaded(f) = <<>> /\ DOMAIN Loaded(f) = {}
    BY <1>1 DEF Loaded
  <2>2. \A seed : Own(Loaded(f), seed) = {}
    BY <2>1 DEF Own
  <2>3. Most(MaxEntries, 1) \in Nat /\ MaxSessionEntries \in Nat
    BY LimitsAssumption DEF Most
  <2>4. IsFiniteSet({}) /\ Cardinality({}) = 0
    BY FS_EmptySet
  <2>5. Cardinality({}) <= Most(MaxEntries, 1) /\ Cardinality({}) <= MaxSessionEntries
    BY ONLY <2>3, <2>4
  <2> QED
    BY <2>1, <2>2, <2>4, <2>5 DEF Fits
<1>2. CASE f # <<>>
  <2>1. PICK es : IsStore(es) /\ f = <<es>> /\ Fits(es)
    BY <1>2
  <2>2. f[1] = es
    BY <2>1
  <2> DEFINE D == {k \in DOMAIN es : es[k].expires_at > now}
             L(h) == [es[h] EXCEPT !.session_seed = IF @ = <<>> THEN <<"legacy">> ELSE @]
  <2>3. Loaded(f) = [h \in D |-> L(h)]
    BY <1>2, <2>2 DEF Loaded
  <2>4. ASSUME NEW h \in D
        PROVE  L(h).session_seed = SeedIn(es[h]) /\ SeedIn(L(h)) = SeedIn(es[h])
               /\ L(h).session_seed # <<>>
    <3>1. L(h).session_seed = SeedIn(es[h])
      BY <2>1 DEF IsStore, IsEntry, SeedIn
    <3>2. SeedIn(es[h]) # <<>>
      BY DEF SeedIn
    <3> QED
      BY <3>1, <3>2 DEF SeedIn
  <2> HIDE DEF L
  <2>5. /\ DOMAIN Loaded(f) \subseteq DOMAIN es
        /\ \A h \in DOMAIN Loaded(f) : SeedIn(Loaded(f)[h]) = SeedIn(es[h])
        /\ \A h \in DOMAIN Loaded(f) : Loaded(f)[h].session_seed # <<>>
    BY <2>3, <2>4
  <2> QED
    BY <2>1, <2>5, FitsLess
<1> QED
  BY <1>1, <1>2

LEMMA HashesFinite ==
  ASSUME NEW p \in Prompts
  PROVE  IsFiniteSet(Hashes(p))
<1>1. PICK n, s : n = HeadSegments(p) + Last(p) /\ s = Segments(p)
  OBVIOUS
<1>2. n \in Nat /\ DOMAIN s = 1 .. n
  BY <1>1, SegmentsAre
<1> DEFINE f == [i \in 1 .. n |-> s[i].hash]
<1>3. f \in Surjection(1 .. n, Hashes(p))
  BY <1>1, <1>2 DEF Hashes, Surjection
<1>4. IsFiniteSet(1 .. n)
  BY <1>2, FS_Interval
<1> QED
  BY <1>3, <1>4, FS_Surjection

\* The index of a map of entries that all name a session lists each of them there.
LEMMA ListedAreOwn ==
  ASSUME NEW es, \A h \in DOMAIN es : es[h].session_seed # <<>>, NEW seed
  PROVE  OfSession(IndexOf(es), seed) = Own(es, seed)
<1>1. \A h : <<seed, h>> \in IndexOf(es) => h \in {q[2] : q \in IndexOf(es)}
  <2> TAKE h
  <2>1. <<seed, h>>[2] = h
    OBVIOUS
  <2> QED
    BY <2>1, Zenon
<1>2. \A h : h \in OfSession(IndexOf(es), seed) <=> <<seed, h>> \in IndexOf(es)
  BY <1>1 DEF OfSession
<1>3. \A h : <<seed, h>> \in IndexOf(es) <=> h \in DOMAIN es /\ es[h].session_seed = seed
  BY DEF IndexOf
<1>4. \A h \in DOMAIN es : SeedIn(es[h]) = es[h].session_seed
  BY DEF SeedIn
<1> QED
  BY ONLY <1>2, <1>3, <1>4 DEF Own

\* As many as are too many go, and no more.
LEMMA SessionLimit ==
  ASSUME NEW es, IsFiniteSet(DOMAIN es), \A h \in DOMAIN es : es[h].session_seed # <<>>,
         NEW seed, NEW V \in SessionVictims(es, IndexOf(es), seed)
  PROVE  /\ V \subseteq DOMAIN es
         /\ MaxSessionEntries # 0 => Cardinality(Own(es, seed) \ V) <= MaxSessionEntries
<1>1. PICK own : /\ own = Own(es, seed) /\ own = OfSession(IndexOf(es), seed)
                 /\ own \subseteq DOMAIN es
  BY ListedAreOwn DEF Own
<1>2. IsFiniteSet(own) /\ Cardinality(own) \in Nat
  BY <1>1, Fewer
<1>3. MaxSessionEntries \in Nat
  BY LimitsAssumption
<1>4. CASE MaxSessionEntries = 0 \/ Cardinality(own) <= MaxSessionEntries
  <2>1. V = {}
    BY <1>1, <1>4 DEF SessionVictims
  <2>2. own \ V = own
    BY <2>1
  <2> QED
    BY <1>1, <1>4, <2>1, <2>2
<1>5. CASE MaxSessionEntries # 0 /\ ~ (Cardinality(own) <= MaxSessionEntries)
  <2>1. V \in OldestOf(own, Cardinality(own) - MaxSessionEntries, es)
    BY <1>1, <1>5 DEF SessionVictims
  <2>2. V \subseteq own /\ Cardinality(V) = Cardinality(own) - MaxSessionEntries
    BY <2>1 DEF OldestOf
  <2>3. Cardinality(own \ V) = Cardinality(own) - Cardinality(V)
    BY <1>2, <2>2, TakenOut
  <2>4. Cardinality(own \ V) <= MaxSessionEntries
    BY ONLY <1>2, <1>3, <2>2, <2>3
  <2> QED
    BY <1>1, <2>2, <2>4
<1> QED
  BY <1>4, <1>5

LEMMA GlobalLimit ==
  ASSUME NEW es, IsFiniteSet(DOMAIN es), NEW W \in GlobalVictims(es)
  PROVE  Cardinality(DOMAIN es \ W) <= Most(MaxEntries, 1)
<1>1. PICK S : S = DOMAIN es
  OBVIOUS
<1>2. IsFiniteSet(S) /\ Cardinality(S) \in Nat
  BY <1>1, FS_CardinalityType
<1>3. PICK max \in Nat : max = Most(MaxEntries, 1)
  BY LimitsAssumption DEF Most
<1>4. CASE Cardinality(S) <= max
  <2>1. W = {}
    BY <1>1, <1>3, <1>4 DEF GlobalVictims
  <2>2. DOMAIN es \ W = S
    BY <1>1, <2>1
  <2> QED
    BY <1>3, <1>4, <2>2
<1>5. CASE ~ (Cardinality(S) <= max)
  <2> DEFINE over == Cardinality(DOMAIN es) - Most(MaxEntries, 1)
             expired == IF EvictExpiredFirst THEN {h \in DOMAIN es : es[h].expires_at <= now}
                        ELSE {}
             first == Least(over, Cardinality(expired))
  <2>1. over \in Nat /\ over = Cardinality(S) - max
    BY <1>1, <1>2, <1>3, <1>5
  <2>2. expired \subseteq S
    BY <1>1
  <2>3. Cardinality(expired) \in Nat
    BY <1>2, <2>2, Fewer
  <2>4. W \in UNION {{X \cup V : V \in OldestOf(DOMAIN es \ X, over - first, es)} :
                      X \in {Y \in SUBSET expired : Cardinality(Y) = first}}
    BY <1>1, <1>3, <1>5 DEF GlobalVictims
  <2> HIDE DEF over, expired
  <2>5. first \in Nat /\ first <= over
    BY <2>1, <2>3 DEF Least
  <2> HIDE DEF first
  <2>7. PICK X \in SUBSET expired :
          /\ Cardinality(X) = first
          /\ W \in {X \cup V : V \in OldestOf(S \ X, over - first, es)}
    BY <1>1, <2>4
  <2>8. PICK V \in OldestOf(S \ X, over - first, es) : W = X \cup V
    BY <2>7
  <2>9. V \subseteq S \ X /\ Cardinality(V) = over - first
    BY <2>8 DEF OldestOf
  <2>10. X \subseteq S
    BY <2>2
  <2>11. IsFiniteSet(S \ X) /\ Cardinality(S \ X) = Cardinality(S) - first
    BY <1>2, <2>7, <2>10, TakenOut, Fewer
  <2>12. Cardinality((S \ X) \ V) = Cardinality(S) - first - (over - first)
    BY <2>9, <2>11, TakenOut
  <2>13. DOMAIN es \ W = (S \ X) \ V
    BY <1>1, <2>8
  <2>14. Cardinality((S \ X) \ V) = max
    BY <1>2, <2>1, <2>5, <2>12
  <2> QED
    BY <1>3, <2>13, <2>14
<1> QED
  BY <1>4, <1>5

\* Recording a prompt keeps the limits.
LEMMA RecordFits ==
  ASSUME NEW p \in Prompts, Recorded(p), IndexExact, IsStore(entries), Fits(entries),
         \A h \in DOMAIN entries : entries[h].session_seed # <<>>
  PROVE  /\ Fits(entries')
         /\ \A h \in DOMAIN entries' : entries'[h].session_seed # <<>>
<1>1. PICK es : \E V \in SessionVictims(es, IndexOf(es), SeedOf(p)) :
        \E W \in GlobalVictims(Without(es, V)) :
          /\ IsStore(es) /\ DOMAIN es = DOMAIN entries \cup Hashes(p)
          /\ \A h \in Hashes(p) : es[h].session_seed = SeedOf(p)
          /\ \A h \in DOMAIN entries \ Hashes(p) : es[h] = entries[h]
          /\ Removed(es, IndexOf(es), V \cup W)
  BY RecordedParts
<1>2. PICK V \in SessionVictims(es, IndexOf(es), SeedOf(p)) :
        \E W \in GlobalVictims(Without(es, V)) :
          /\ IsStore(es) /\ DOMAIN es = DOMAIN entries \cup Hashes(p)
          /\ \A h \in Hashes(p) : es[h].session_seed = SeedOf(p)
          /\ \A h \in DOMAIN entries \ Hashes(p) : es[h] = entries[h]
          /\ Removed(es, IndexOf(es), V \cup W)
  BY <1>1
<1>3. PICK W \in GlobalVictims(Without(es, V)) :
          /\ IsStore(es) /\ DOMAIN es = DOMAIN entries \cup Hashes(p)
          /\ \A h \in Hashes(p) : es[h].session_seed = SeedOf(p)
          /\ \A h \in DOMAIN entries \ Hashes(p) : es[h] = entries[h]
          /\ Removed(es, IndexOf(es), V \cup W)
  BY <1>2
<1>4. SeedOf(p) # <<>>
  BY DEF SeedOf
<1>5. \A h \in DOMAIN es : es[h].session_seed # <<>>
  BY <1>3, <1>4
<1>6. IsFiniteSet(DOMAIN es)
  BY <1>3, HashesFinite, FS_Union DEF Fits
<1>7. /\ V \subseteq DOMAIN es
      /\ MaxSessionEntries # 0 => Cardinality(Own(es, SeedOf(p)) \ V) <= MaxSessionEntries
  BY <1>5, <1>6, SessionLimit
<1>8. DOMAIN Without(es, V) = DOMAIN es \ V
  BY DEF Without
<1>9. IsFiniteSet(DOMAIN Without(es, V))
  BY <1>6, <1>8, FS_Difference
<1>10. Cardinality((DOMAIN es \ V) \ W) <= Most(MaxEntries, 1)
  BY <1>8, <1>9, GlobalLimit
<1>11. /\ DOMAIN entries' = (DOMAIN es \ V) \ W
       /\ \A h \in DOMAIN entries' : entries'[h] = es[h]
  BY <1>3 DEF Removed, Without
<1>12. IsFiniteSet(DOMAIN entries') /\ Cardinality(DOMAIN entries') <= Most(MaxEntries, 1)
  BY <1>8, <1>9, <1>10, <1>11, FS_Difference
<1>13. ASSUME MaxSessionEntries # 0, NEW seed
       PROVE  Cardinality(Own(entries', seed)) <= MaxSessionEntries
  <2>1. CASE seed = SeedOf(p)
    <3>1. Own(entries', seed) \subseteq Own(es, SeedOf(p)) \ V
      BY <1>11, <2>1 DEF Own
    <3>2. Own(es, SeedOf(p)) \ V \subseteq DOMAIN es
      BY DEF Own
    <3>3. IsFiniteSet(Own(es, SeedOf(p)) \ V)
      BY <1>6, <3>2, Fewer
    <3>4. PICK a, b : /\ a = Cardinality(Own(entries', seed))
                      /\ b = Cardinality(Own(es, SeedOf(p)) \ V)
      OBVIOUS
    <3>5. a \in Nat /\ b \in Nat /\ a <= b
      BY <3>1, <3>3, <3>4, Fewer
    <3>6. b <= MaxSessionEntries
      BY <1>7, <1>13, <3>4
    <3> QED
      BY <3>4, <3>5, <3>6, LimitsAssumption
  <2>2. CASE seed # SeedOf(p)
    <3>1. \A h \in DOMAIN entries' : h \in Own(entries', seed) => h \notin Hashes(p)
      BY <1>3, <1>4, <1>11, <2>2 DEF Own, SeedIn
    <3>2. Own(entries', seed) \subseteq Own(entries, seed)
      BY <1>3, <1>11, <3>1 DEF Own
    <3>3. Own(entries, seed) \subseteq DOMAIN entries
      BY DEF Own
    <3>4. IsFiniteSet(Own(entries, seed))
      BY <3>3, Fewer DEF Fits
    <3>5. PICK a, b : a = Cardinality(Own(entries', seed)) /\ b = Cardinality(Own(entries, seed))
      OBVIOUS
    <3>6. a \in Nat /\ b \in Nat /\ a <= b
      BY <3>2, <3>4, <3>5, Fewer
    <3>7. b <= MaxSessionEntries
      BY <1>13, <3>5 DEF Fits
    <3> QED
      BY <3>5, <3>6, <3>7, LimitsAssumption
  <2> QED
    BY <2>1, <2>2
<1>14. \A h \in DOMAIN entries' : entries'[h].session_seed # <<>>
  BY <1>5, <1>11
<1> QED
  BY <1>12, <1>13, <1>14 DEF Fits

\* A mark is set where there is room, or the oldest make some.
LEMMA MarksFit ==
  ASSUME IsFiniteSet(DOMAIN inflight), Cardinality(DOMAIN inflight) <= Most(MaxInflight, 1),
         NEW r, BeginInflight(r)
  PROVE  IsFiniteSet(DOMAIN inflight') /\ Cardinality(DOMAIN inflight') <= Most(MaxInflight, 1)
<1> DEFINE h == Deepest(req[r].prompt).hash
           marks == Without(inflight, {k \in DOMAIN inflight : inflight[k] <= now})
           full == Cardinality(DOMAIN marks) >= MaxInflight
           n == Least(Cardinality(DOMAIN marks), Cardinality(DOMAIN marks) + 1 - MaxInflight)
           Victims == {V \in SUBSET DOMAIN marks :
                         /\ Cardinality(V) = n
                         /\ \A v \in V, k \in DOMAIN marks \ V : marks[v] <= marks[k]}
<1>1. \/ inflight' = inflight
      \/ inflight' = marks
      \/ h \notin DOMAIN marks /\ \E V \in IF full THEN Victims ELSE {{}} :
           DOMAIN inflight' = (DOMAIN marks \ V) \cup {h}
  BY DEF BeginInflight
<1> HIDE DEF h
<1>2. DOMAIN marks \subseteq DOMAIN inflight
  BY DEF Without
<1> HIDE DEF marks
<1>3. /\ IsFiniteSet(DOMAIN marks) /\ Cardinality(DOMAIN marks) \in Nat
      /\ Cardinality(DOMAIN marks) <= Cardinality(DOMAIN inflight)
      /\ Cardinality(DOMAIN inflight) \in Nat
  BY <1>2, Fewer
<1>4. MaxInflight \in Nat /\ Most(MaxInflight, 1) \in Nat
      /\ MaxInflight <= Most(MaxInflight, 1) /\ 1 <= Most(MaxInflight, 1)
  BY LimitsAssumption DEF Most
<1>5. CASE inflight' = inflight
  BY <1>5
<1>6. CASE inflight' = marks
  BY <1>3, <1>4, <1>6
<1>7. ASSUME NEW V \in IF full THEN Victims ELSE {{}}, h \notin DOMAIN marks,
             DOMAIN inflight' = (DOMAIN marks \ V) \cup {h}
      PROVE  /\ IsFiniteSet(DOMAIN inflight')
             /\ Cardinality(DOMAIN inflight') <= Most(MaxInflight, 1)
  <2>1. V \subseteq DOMAIN marks
    BY <1>7
  <2>2. PICK m : m = Cardinality(DOMAIN marks)
    OBVIOUS
  <2>3. IsFiniteSet(DOMAIN marks \ V)
    BY <1>3, FS_Difference
  <2>4. Cardinality(DOMAIN marks \ V) = m - Cardinality(V)
    BY <1>3, <2>1, <2>2, TakenOut
  <2>5. IsFiniteSet(DOMAIN inflight') /\ Cardinality(DOMAIN inflight') = m - Cardinality(V) + 1
    <3>1. PICK D, x : D = DOMAIN marks \ V /\ x = h
      OBVIOUS
    <3>2. x \notin D /\ DOMAIN inflight' = D \cup {x}
      BY <1>7, <3>1
    <3>3. IsFiniteSet(D) /\ Cardinality(D) = m - Cardinality(V)
      BY <2>3, <2>4, <3>1
    <3>4. IsFiniteSet(D \cup {x}) /\ Cardinality(D \cup {x}) = Cardinality(D) + 1
      BY ONLY <3>2, <3>3, FS_AddElement
    <3> QED
      BY ONLY <3>2, <3>3, <3>4
  <2>6. CASE full
    <3>1. Cardinality(V) = Least(m, m + 1 - MaxInflight) /\ m >= MaxInflight
      BY <1>7, <2>2, <2>6
    <3> QED
      BY <1>3, <1>4, <2>2, <2>5, <3>1 DEF Least
  <2>7. CASE ~full
    <3>1. V = {} /\ ~ (m >= MaxInflight)
      BY <1>7, <2>2, <2>7
    <3>2. Cardinality(V) = 0
      BY <3>1, FS_EmptySet
    <3> QED
      BY <1>3, <1>4, <2>2, <2>5, <3>1, <3>2
  <2> QED
    BY <2>6, <2>7
<1> QED
  BY <1>1, <1>5, <1>6, <1>7

LEMMA NextCapacity == CapacityInv /\ [Next]_vars => CapacityInv'
<1> SUFFICES ASSUME CapacityInv, [Next]_vars PROVE CapacityInv'
  OBVIOUS
<1> DEFINE Kept == /\ \A h \in DOMAIN entries' : entries'[h].session_seed # <<>>
                   /\ Fits(entries')
           DiskKeeps == /\ file' # <<>> => Fits(file'[1])
                        /\ flush' # <<>> => Fits(flush'[1])
           MarksKeep == /\ IsFiniteSet(DOMAIN inflight')
                        /\ Cardinality(DOMAIN inflight') <= Most(MaxInflight, 1)
<1>g. ASSUME Kept, DiskKeeps, MarksKeep PROVE CapacityInv'
  BY <1>g, NextStored, NextPrompts DEF CapacityInv, Fits, Most
<1> USE DEF memory, disk
<1>s. /\ IsStore(entries) /\ IndexExact /\ Fits(entries)
      /\ \A h \in DOMAIN entries : entries[h].session_seed # <<>>
  BY DEF CapacityInv, Stored
<1>d. ASSUME \/ UNCHANGED <<file, flush>>
             \/ UNCHANGED file /\ flush' \in {<<>>, <<entries>>}
             \/ flush' = <<>> /\ file' \in {file, flush, <<>>}
      PROVE  DiskKeeps
  BY <1>d, <1>s DEF CapacityInv
<1>m. ASSUME DOMAIN inflight' \subseteq DOMAIN inflight PROVE MarksKeep
  <2>1. /\ IsFiniteSet(DOMAIN inflight') /\ Cardinality(DOMAIN inflight') \in Nat
        /\ Cardinality(DOMAIN inflight) \in Nat
        /\ Cardinality(DOMAIN inflight') <= Cardinality(DOMAIN inflight)
    BY <1>m, Fewer DEF CapacityInv
  <2>2. Most(MaxInflight, 1) \in Nat
    BY LimitsAssumption DEF Most
  <2> QED
    BY <2>1, <2>2 DEF CapacityInv
<1>k. ASSUME DOMAIN entries' \subseteq DOMAIN entries,
             \A h \in DOMAIN entries' : entries'[h].session_seed = entries[h].session_seed
      PROVE  Kept
  BY <1>k, <1>s, FitsLess DEF SeedIn
<1> HIDE DEF Kept, DiskKeeps, MarksKeep
<1>1. ASSUME NEW r \in Requests, Lookup(r) \/ Wake(r) PROVE CapacityInv'
  <2>1. PICK p : entries' = Touched(p)
    BY <1>1 DEF Lookup, Wake
  <2>2. UNCHANGED <<inflight, file, flush>>
    BY <1>1 DEF Lookup, Wake
  <2>3. Kept
    BY <1>s, <1>k, <2>1, TouchedKept
  <2> QED
    BY <1>g, <1>d, <1>m, <2>2, <2>3
<1>2. ASSUME NEW r \in Requests, BeginInflight(r) PROVE CapacityInv'
  <2>1. UNCHANGED <<entries, file, flush>>
    BY <1>2 DEF BeginInflight
  <2>2. MarksKeep
    BY <1>2, MarksFit DEF CapacityInv, MarksKeep
  <2> QED
    BY <1>g, <1>d, <1>k, <2>1, <2>2
<1>3. ASSUME NEW r \in Requests, Record(r) PROVE CapacityInv'
  <2>1. Recorded(req[r].prompt) /\ UNCHANGED <<inflight, file, flush>>
    BY <1>3 DEF Record
  <2>2. req[r].prompt \in Prompts
    BY <1>3 DEF Record, CapacityInv, PromptsKnown
  <2>3. Kept
    BY <1>s, <2>1, <2>2, RecordFits DEF Kept
  <2> QED
    BY <1>g, <1>d, <1>m, <2>1, <2>3
<1>4. ASSUME NEW r \in Requests, FinishInflight(r) \/ Dropped(r) PROVE CapacityInv'
  <2>1. UNCHANGED <<entries, file, flush>> /\ DOMAIN inflight' \subseteq DOMAIN inflight
    BY <1>4 DEF FinishInflight, Dropped, Without
  <2> QED
    BY <1>g, <1>d, <1>k, <1>m, <2>1
<1>5. ASSUME NEW S, entries' = Without(entries, S), DOMAIN inflight' \subseteq DOMAIN inflight,
             UNCHANGED <<file, flush>>
      PROVE  CapacityInv'
  <2>1. /\ DOMAIN entries' \subseteq DOMAIN entries
        /\ \A h \in DOMAIN entries' : entries'[h] = entries[h]
    BY <1>5 DEF Without
  <2>2. Kept
    BY ONLY <1>k, <2>1, Zenon
  <2> QED
    BY <1>g, <1>d, <1>m, <1>5, <2>2
<1>6. CASE EvictExpired
  <2>1. /\ entries' = Without(entries, {h \in DOMAIN entries : ~Live(h)})
        /\ DOMAIN inflight' \subseteq DOMAIN inflight /\ UNCHANGED <<file, flush>>
    BY <1>6 DEF EvictExpired, Removed, Without
  <2> QED
    BY <1>5, <2>1
<1>7. CASE ClearAll
  <2>1. /\ DOMAIN entries' = {} /\ DOMAIN inflight' \subseteq DOMAIN inflight
        /\ UNCHANGED <<file, flush>>
    BY <1>7 DEF ClearAll
  <2> QED
    BY <1>g, <1>d, <1>k, <1>m, <2>1
<1>8. ASSUME NEW seed, ClearSession(seed) PROVE CapacityInv'
  <2>1. /\ entries' = Without(entries, OfSession(session_index, seed))
        /\ UNCHANGED <<inflight, file, flush>>
    BY <1>8 DEF ClearSession
  <2> QED
    BY <1>5, <2>1
<1>9. CASE Restart
  <2>1. /\ file' \in {file, flush, <<>>} /\ flush' = <<>>
        /\ DOMAIN inflight' \subseteq DOMAIN inflight
    BY <1>9 DEF Restart
  <2>2. entries' = Loaded(file')
    <3>1. entries' = Loaded(file)' /\ UNCHANGED now
      BY <1>9 DEF Restart, Loaded
    <3> QED
      BY <3>1 DEF Loaded
  <2>3. file' = <<>> \/ \E es : IsStore(es) /\ file' = <<es>> /\ Fits(es)
    <3>1. ASSUME NEW f, f # <<>> => Fits(f[1]), f # <<>> => \E es : IsStore(es) /\ f = <<es>>
          PROVE  f = <<>> \/ \E es : IsStore(es) /\ f = <<es>> /\ Fits(es)
      BY <3>1
    <3>2. /\ file # <<>> => (\E es : IsStore(es) /\ file = <<es>>)
          /\ file # <<>> => Fits(file[1])
          /\ flush # <<>> => (\E es : IsStore(es) /\ flush = <<es>>)
          /\ flush # <<>> => Fits(flush[1])
      BY DEF CapacityInv, Stored
    <3> QED
      BY <2>1, <3>1, <3>2
  <2>4. Kept
    BY <2>2, <2>3, LoadedFits DEF Kept
  <2> QED
    BY <1>g, <1>d, <1>m, <2>1, <2>4
<1>10. CASE Tick \/ FlushCollect \/ FlushWrite \/ FlushFails \/ UNCHANGED vars
  <2>1. /\ UNCHANGED <<entries, inflight>>
        /\ \/ UNCHANGED <<file, flush>>
           \/ UNCHANGED file /\ flush' \in {<<>>, <<entries>>}
           \/ flush' = <<>> /\ file' \in {file, flush, <<>>}
    BY <1>10 DEF Tick, FlushCollect, FlushWrite, FlushFails, vars
  <2> QED
    BY <1>g, <1>d, <1>k, <1>m, <2>1
<1> QED
  BY <1>1, <1>2, <1>3, <1>4, <1>6, <1>7, <1>8, <1>9, <1>10 DEF Next, Meter

\* The memory is bounded for any limits, requests and prompts, if the file the
\* process first starts with is: record makes room for what it adds, in the
\* session and in all, a mark is set where there is room or the oldest make some
\* (enforce_session_limit, enforce_global_capacity, begin_inflight), and what is
\* written fits, so that a restart reads no more than fits (with_config does not
\* count what it reads).
THEOREM CapacityKept == ASSUME Fits(OldFile) PROVE Spec => []CapacityHolds
<1>1. Init => CapacityInv
  <2> SUFFICES ASSUME Init PROVE CapacityInv
    OBVIOUS
  <2>1. Stored /\ IndexExact /\ PromptsKnown
    BY InitStored DEF Init, Idle, PromptsKnown, IsRequest
  <2>2. IsStore(OldFile)
    BY OldFileAssumption DEF IsStore
  <2>3. file = <<OldFile>> /\ file[1] = OldFile /\ flush = <<>> /\ entries = Loaded(file)
    BY DEF Init
  <2>4. Fits(entries) /\ \A h \in DOMAIN entries : entries[h].session_seed # <<>>
    BY <2>2, <2>3, LoadedFits
  <2>5. DOMAIN inflight = {}
    BY DEF Init
  <2>6. IsFiniteSet(DOMAIN inflight) /\ Cardinality(DOMAIN inflight) = 0
    BY <2>5, FS_EmptySet
  <2>7. Cardinality(DOMAIN inflight) <= Most(MaxInflight, 1)
    BY <2>6, LimitsAssumption DEF Most
  <2> QED
    BY <2>1, <2>3, <2>4, <2>6, <2>7 DEF CapacityInv
<1>2. CapacityInv => CapacityHolds
  <2> SUFFICES ASSUME CapacityInv PROVE CapacityHolds
    OBVIOUS
  <2>1. \A seed : OfSession(session_index, seed) = Own(entries, seed)
    BY ListedAreOwn DEF CapacityInv, IndexExact
  <2> QED
    BY <2>1 DEF CapacityInv, CapacityHolds, Fits
<1> QED
  BY <1>1, <1>2, NextCapacity, PTL DEF Spec

=============================================================================
