------------------------------ MODULE CacheMeter ------------------------------
(***************************************************************************)
(* The prompt cache of src/src/anthropic/cache_metering.rs.  Nothing is    *)
(* cached upstream: the meter remembers the prefixes of the prompts it     *)
(* saw, and a request that begins with one of them is told that so many    *)
(* tokens were read from the cache and the rest of its history created.    *)
(*                                                                         *)
(* A request is metered in up to five critical sections of one lock        *)
(* (compute_cache_usage_async): it looks its prefixes up; on a miss it      *)
(* becomes the writer of its deepest prefix or, when there is one, sleeps   *)
(* and looks up again; it records its prefixes; a writer withdraws its      *)
(* mark.  A background task drops expired entries and writes the rest to a  *)
(* file, in two steps; the process may stop between any two.                *)
(*                                                                         *)
(* A text is an atom with a number of tokens.  The hash of a prefix is the  *)
(* pair of its session seed and its texts: SHA-256 is taken as injective.   *)
(* Seconds are counted by a clock that may stand still between two steps.   *)
(***************************************************************************)
EXTENDS Naturals, FiniteSets, Sequences

CONSTANTS
  Requests,             \* requests metered in one behaviour
  Prompts,              \* what they may ask
  TokensOf,             \* estimate_tokens of each text
  FallbackToKeyId,      \* config.session.fallback_to_key_id
  SingleFlight,         \* config.singleflight.enabled and a wait_ms above 0
  MaxInflight,          \* config.singleflight.max_inflight
  InflightTtl,          \* config.singleflight.inflight_ttl_seconds
  MaxEntries,           \* config.max_entries
  MaxSessionEntries,    \* config.max_session_entries; 0 is no limit
  EvictExpiredFirst,    \* config.evict_expired_first
  DefaultTtl,           \* config.default_ttl_seconds
  MinTtl, MAX_TTL_SECS, \* what a lifetime is clamped to
  OldFile,              \* the entries of the file the process starts with
  MaxTime,              \* bound on the clock
  MaxFaults             \* bound on restarts, clearings and failed writes

\* CacheEntry, as far as the file must have it.
IsEntry(e) == {"tokens", "expires_at", "last_hit_at", "session_seed"} \subseteq DOMAIN e

ASSUME OldFileAssumption == \A h \in DOMAIN OldFile : IsEntry(OldFile[h])

ASSUME LimitsAssumption == MaxInflight \in Nat /\ MaxEntries \in Nat /\ MaxSessionEntries \in Nat

\* A prompt is made of texts, and each text has an estimate.
ASSUME PromptsAssumption ==
  /\ \A t \in DOMAIN TokensOf : TokensOf[t] \in Nat
  /\ \A p \in Prompts :
       /\ p.tools \in Seq(DOMAIN TokensOf) /\ p.messages \in Seq(DOMAIN TokensOf)
       /\ p.system \in Seq([text : DOMAIN TokensOf, cached : BOOLEAN])

VARIABLES
  now,            \* now_secs()
  entries,        \* Inner.entries: hash -> entry
  session_index,  \* Inner.session_index: pairs of a seed and a hash
  inflight,       \* Inner.inflight: hash -> expires_at
  dirty,          \* Inner.dirty
  file,           \* persist_path: <<entries>>, or <<>> when a stop cut a write
  flush,          \* flush_to_disk between its two steps: <<>> or <<snapshot>>
  unsaved,        \* a write failed and none succeeded since
  req,            \* the tasks that meter a request
  faults          \* restarts, clearings and failed writes so far

memory == <<entries, session_index, inflight, dirty>>
disk == <<file, flush, unsaved>>
vars == <<now, memory, disk, req, faults>>

Least(a, b) == IF a <= b THEN a ELSE b
Most(a, b) == IF a >= b THEN a ELSE b

-----------------------------------------------------------------------------
(* The prompt: prefixes, seed, lifetime.                                   *)

\* cum_tokens behind a sequence of texts.
Sum(s) ==
  LET cum_tokens[k \in 0 .. Len(s)] ==
        IF k = 0 THEN 0 ELSE cum_tokens[k - 1] + TokensOf[s[k]]
  IN  cum_tokens[Len(s)]

\* Session of metadata.user_id: a JSON session_id or a `_session_` suffix, a
\* UUID in both; anything else is no session.
SeedOf(p) ==
  IF p.user.form \in {"json", "legacy"} /\ p.user.uuid THEN <<"sess", p.user.id>>
  ELSE IF FallbackToKeyId THEN <<"key", p.key>>
  ELSE <<"disabled">>

\* Mutant of StableSystem: the whole system prompt counts.
WholeSystem(p) == [i \in DOMAIN p.system |-> p.system[i].text]

\* The system prompt from its first block with a cache_control: the client
\* puts a block that changes every turn before it.
StableSystem(p) ==
  LET marked == {i \in DOMAIN p.system : p.system[i].cached}
      first == IF marked = {} THEN 1 ELSE CHOOSE i \in marked : \A j \in marked : i <= j
  IN  [i \in 1 .. Len(p.system) + 1 - first |-> p.system[first + i - 1].text]

HeadOf(p) == p.tools \o StableSystem(p)

\* extract_segments: tools and system, if they have tokens, then one prefix
\* per message but the last.
Segments(p) ==
  LET Segment(texts) == [hash |-> <<SeedOf(p), texts>>, tokens |-> Sum(texts)]
      head == HeadOf(p)
      deeper == [i \in 1 .. Len(p.messages) - 1 |->
                   Segment(head \o SubSeq(p.messages, 1, i))]
  IN  IF Sum(head) > 0 THEN <<Segment(head)>> \o deeper ELSE deeper

Hashes(p) == {Segments(p)[i].hash : i \in DOMAIN Segments(p)}
Deepest(p) == Segments(p)[Len(Segments(p))]

\* The longest lifetime any cache_control asks for, and the clamp of record.
Clamp(ttl) == Least(Most(ttl, MinTtl), MAX_TTL_SECS)
TtlOf(p) == Most(Clamp(DefaultTtl), p.ttl)

-----------------------------------------------------------------------------
(* Operations on the memory, each under the lock.                          *)

Live(h) == h \in DOMAIN entries /\ entries[h].expires_at > now

Without(f, S) == [h \in DOMAIN f \ S |-> f[h]]

OfSession(index, seed) == {h \in {q[2] : q \in index} : <<seed, h>> \in index}

\* Sets of n members of S none of which was hit after one that stays: ties
\* fall as the hash map iterates.
OldestOf(S, n, es) ==
  {V \in SUBSET S : /\ Cardinality(V) = n
                    /\ \A v \in V, k \in S \ V : es[v].last_hit_at <= es[k].last_hit_at}

\* The entries enforce_session_limit may remove.
SessionVictims(es, index, seed) ==
  LET own == OfSession(index, seed)
  IN  IF MaxSessionEntries = 0 \/ Cardinality(own) <= MaxSessionEntries THEN {{}}
      ELSE OldestOf(own, Cardinality(own) - MaxSessionEntries, es)

\* The entries enforce_global_capacity may remove: expired ones while there
\* are too many, then the least recently hit.
GlobalVictims(es) ==
  LET over == Cardinality(DOMAIN es) - Most(MaxEntries, 1)
      expired == IF EvictExpiredFirst THEN {h \in DOMAIN es : es[h].expires_at <= now} ELSE {}
      first == Least(over, Cardinality(expired))
  IN  IF Cardinality(DOMAIN es) <= Most(MaxEntries, 1) THEN {{}}
      ELSE UNION {{X \cup V : V \in OldestOf(DOMAIN es \ X, over - first, es)} :
                    X \in {Y \in SUBSET expired : Cardinality(Y) = first}}

\* Mutant of Moved: the index of the old session keeps the hash.
NothingMoved(H) == {}

\* What record takes out of the index: the hash in its old session.
Moved(H) == {<<entries[h].session_seed, h>> : h \in H \cap DOMAIN entries}

\* remove_entry for each of a set: both maps.
Removed(es, index, S) ==
  /\ entries' = Without(es, S)
  /\ session_index' = index \ {<<es[h].session_seed, h>> : h \in S}

\* record: every prefix gets a new lifetime and moves to the seed's session.
Recorded(p) ==
  LET H == Hashes(p)
      Of(h) == CHOOSE i \in DOMAIN Segments(p) : Segments(p)[i].hash = h
      seed == SeedOf(p)
      es == [h \in DOMAIN entries \cup H |->
               IF h \in H
               THEN [tokens |-> Segments(p)[Of(h)].tokens, last_hit_at |-> now,
                     expires_at |-> now + Clamp(TtlOf(p)), session_seed |-> seed]
               ELSE entries[h]]
      index == (session_index \ Moved(H)) \cup {<<seed, h>> : h \in H}
  IN  \E V \in SessionVictims(es, index, seed) :
        \E W \in GlobalVictims(Without(es, V)) : Removed(es, index, V \cup W)

-----------------------------------------------------------------------------
(* Initial state: the process starts with the file it finds.               *)

\* with_config: unexpired entries of a readable file; an entry of an older
\* version has no seed.
Loaded(f) ==
  IF f = <<>> THEN <<>>
  ELSE [h \in {k \in DOMAIN f[1] : f[1][k].expires_at > now} |->
          [f[1][h] EXCEPT !.session_seed = IF @ = <<>> THEN <<"legacy">> ELSE @]]

IndexOf(es) == {<<es[h].session_seed, h>> : h \in DOMAIN es}

Idle == [pc |-> "new", prompt |-> <<>>, read |-> 0, writer |-> FALSE]

Init ==
  /\ now = 0
  /\ file = <<OldFile>>
  /\ entries = Loaded(file)
  /\ session_index = IndexOf(entries)
  /\ inflight = <<>>
  /\ dirty = FALSE
  /\ flush = <<>>
  /\ unsaved = FALSE
  /\ req = [r \in Requests |-> Idle]
  /\ faults = 0

-----------------------------------------------------------------------------
(* compute_cache_usage_async.                                              *)

\* lookup: the deepest live prefix, and the time of every hit.
Found(p) ==
  LET hits == {i \in DOMAIN Segments(p) : Live(Segments(p)[i].hash)}
  IN  IF hits = {} THEN 0
      ELSE Segments(p)[CHOOSE i \in hits : \A j \in hits : j <= i].tokens

Touched(p) ==
  [h \in DOMAIN entries |->
     IF h \in Hashes(p) /\ Live(h) THEN [entries[h] EXCEPT !.last_hit_at = now] ELSE entries[h]]

HitAny(p) == \E h \in Hashes(p) : Live(h)

Lookup(r) ==
  /\ req[r].pc = "new"
  /\ \E p \in Prompts :
       /\ entries' = Touched(p)
       /\ req' = [req EXCEPT ![r] =
            [pc |-> IF Segments(p) = <<>> THEN "done"
                    ELSE IF HitAny(p) THEN "record" ELSE "begin",
             prompt |-> p, read |-> Found(p), writer |-> TRUE]]
  /\ UNCHANGED <<now, session_index, inflight, dirty, disk, faults>>

\* begin_inflight: expired marks go; a mark on the prefix makes a waiter; a
\* full table loses its oldest.
BeginInflight(r) ==
  LET h == Deepest(req[r].prompt).hash
      marks == Without(inflight, {k \in DOMAIN inflight : inflight[k] <= now})
      full == Cardinality(DOMAIN marks) >= MaxInflight
      n == Least(Cardinality(DOMAIN marks), Cardinality(DOMAIN marks) + 1 - MaxInflight)
      Victims == {V \in SUBSET DOMAIN marks :
                    /\ Cardinality(V) = n
                    /\ \A v \in V, k \in DOMAIN marks \ V : marks[v] <= marks[k]}
  IN  /\ req[r].pc = "begin"
      /\ \/ /\ ~SingleFlight
            /\ req' = [req EXCEPT ![r].pc = "record"]
            /\ UNCHANGED inflight
         \/ /\ SingleFlight /\ h \in DOMAIN marks
            /\ inflight' = marks
            /\ req' = [req EXCEPT ![r].pc = "waiting", ![r].writer = FALSE]
         \/ /\ SingleFlight /\ h \notin DOMAIN marks
            /\ \E V \in IF full THEN Victims ELSE {{}} :
                 inflight' = [k \in (DOMAIN marks \ V) \cup {h} |->
                                IF k = h THEN now + Most(InflightTtl, 1) ELSE marks[k]]
            /\ req' = [req EXCEPT ![r].pc = "record"]
      /\ UNCHANGED <<now, entries, session_index, dirty, disk, faults>>

\* The sleep of wait_ms ends and the waiter looks up again.
Wake(r) ==
  /\ req[r].pc = "waiting"
  /\ entries' = Touched(req[r].prompt)
  /\ req' = [req EXCEPT ![r].pc = "record", ![r].read = Found(req[r].prompt)]
  /\ UNCHANGED <<now, session_index, inflight, dirty, disk, faults>>

\* The client goes away during the sleep, the only await of the function.
Dropped(r) ==
  /\ req[r].pc = "waiting"
  /\ req' = [req EXCEPT ![r].pc = "dropped"]
  /\ UNCHANGED <<now, memory, disk, faults>>

Record(r) ==
  /\ req[r].pc = "record"
  /\ Recorded(req[r].prompt)
  /\ dirty' = TRUE
  /\ req' = [req EXCEPT ![r].pc = IF req[r].writer THEN "finish" ELSE "done"]
  /\ UNCHANGED <<now, inflight, disk, faults>>

\* Mutant of FinishInflight: the mark of the first prefix is withdrawn.
FinishFirst(r) ==
  /\ req[r].pc = "finish"
  /\ inflight' = Without(inflight, {Segments(req[r].prompt)[1].hash})
  /\ req' = [req EXCEPT ![r].pc = "done"]
  /\ UNCHANGED <<now, entries, session_index, dirty, disk, faults>>

\* finish_inflight: a writer removes the mark of its prefix, also when it had
\* a hit and set none.
FinishInflight(r) ==
  /\ req[r].pc = "finish"
  /\ inflight' = Without(inflight, {Deepest(req[r].prompt).hash})
  /\ req' = [req EXCEPT ![r].pc = "done"]
  /\ UNCHANGED <<now, entries, session_index, dirty, disk, faults>>

-----------------------------------------------------------------------------
(* The background task, the operator and the process.                      *)

Tick ==
  /\ now < MaxTime
  /\ now' = now + 1
  /\ UNCHANGED <<memory, disk, req, faults>>

\* evict_expired, by the background task or on the operator's demand.
EvictExpired ==
  LET expired == {h \in DOMAIN entries : ~Live(h)}
  IN  /\ Removed(entries, session_index, expired)
      /\ inflight' = Without(inflight, {h \in DOMAIN inflight : inflight[h] <= now})
      /\ dirty' = (dirty \/ expired # {})
      /\ UNCHANGED <<now, disk, req, faults>>

\* flush_to_disk: the snapshot is taken under the lock, the file written
\* after it.
FlushCollect ==
  /\ flush = <<>> /\ dirty
  /\ dirty' = FALSE
  /\ flush' = <<entries>>
  /\ UNCHANGED <<now, entries, session_index, inflight, file, unsaved, req, faults>>

\* Mutant of FlushWrite: the mark is cleared after the write.
WriteThenClean ==
  /\ flush # <<>>
  /\ file' = flush
  /\ flush' = <<>>
  /\ dirty' = FALSE
  /\ unsaved' = FALSE
  /\ UNCHANGED <<now, entries, session_index, inflight, req, faults>>

FlushWrite ==
  /\ flush # <<>>
  /\ file' = flush
  /\ flush' = <<>>
  /\ unsaved' = FALSE
  /\ UNCHANGED <<now, memory, req, faults>>

\* The write fails: the change is no longer marked as one to be saved.
FlushFails ==
  /\ flush # <<>> /\ faults < MaxFaults
  /\ flush' = <<>>
  /\ unsaved' = TRUE
  /\ faults' = faults + 1
  /\ UNCHANGED <<now, memory, file, req>>

ClearAll ==
  /\ faults < MaxFaults
  /\ faults' = faults + 1
  /\ entries' = <<>>
  /\ session_index' = {}
  /\ inflight' = <<>>
  /\ dirty' = TRUE
  /\ UNCHANGED <<now, disk, req>>

ClearSession(seed) ==
  /\ faults < MaxFaults
  /\ faults' = faults + 1
  /\ OfSession(session_index, seed) # {}
  /\ entries' = Without(entries, OfSession(session_index, seed))
  /\ session_index' = {q \in session_index : q[1] # seed}
  /\ dirty' = TRUE
  /\ UNCHANGED <<now, inflight, disk, req>>

\* The process stops and starts again; a write under way leaves a part of
\* the file.
Restart ==
  /\ faults < MaxFaults
  /\ faults' = faults + 1
  /\ file' \in IF flush = <<>> THEN {file} ELSE {file, flush, <<>>}
  /\ entries' = Loaded(file')
  /\ session_index' = IndexOf(entries')
  /\ inflight' = <<>>
  /\ dirty' = FALSE
  /\ flush' = <<>>
  /\ unsaved' = FALSE
  /\ req' = [r \in Requests |-> IF req[r].pc \in {"new", "done"} THEN req[r]
                                ELSE [req[r] EXCEPT !.pc = "dropped"]]
  /\ UNCHANGED now

Meter(r) ==
  Lookup(r) \/ BeginInflight(r) \/ Wake(r) \/ Record(r) \/ FinishInflight(r)

Next ==
  \/ \E r \in Requests : Meter(r) \/ Dropped(r)
  \/ Tick \/ EvictExpired \/ FlushCollect \/ FlushWrite \/ FlushFails
  \/ ClearAll \/ Restart
  \/ \E seed \in {q[1] : q \in session_index} : ClearSession(seed)

Spec == Init /\ [][Next]_vars

-----------------------------------------------------------------------------
(* Properties.                                                             *)

\* The index lists every entry under its session and nothing else.  Entries
\* are added, moved between sessions and removed in seven places; an entry
\* the index missed would escape the limit and a clearing of its session, a
\* listed one that is gone would stop the eviction loop at nothing.
IndexExact == session_index = IndexOf(entries)

\* The memory is bounded: all entries, those of a session, and the marks, if the
\* process has not started with a file that holds more.
CapacityHolds ==
  /\ Cardinality(DOMAIN entries) <= Most(MaxEntries, 1)
  /\ MaxSessionEntries # 0 =>
       \A seed \in {q[1] : q \in session_index} :
         Cardinality(OfSession(session_index, seed)) <= MaxSessionEntries
  /\ Cardinality(DOMAIN inflight) <= Most(MaxInflight, 1)

\* A mark has a writer that is going to withdraw it: no later request waits
\* for a request that went away.
MarkHasWriter ==
  \A h \in DOMAIN inflight : \E r \in Requests :
    /\ req[r].pc \in {"record", "finish"} /\ req[r].writer
    /\ Deepest(req[r].prompt).hash = h

\* The same system prompt, but for blocks without a cache_control at its start.
SameCached(s, t) ==
  \/ s = t
  \/ \E i \in DOMAIN s, j \in DOMAIN t :
       /\ s[i].cached /\ \A k \in 1 .. i - 1 : ~s[k].cached
       /\ t[j].cached /\ \A k \in 1 .. j - 1 : ~t[k].cached
       /\ SubSeq(s, i, Len(s)) = SubSeq(t, j, Len(t))

\* Two turns of one conversation: the same client and session, tools and system
\* prompt, a longer history.
Continues(p, q) ==
  /\ p.user = q.user /\ p.key = q.key /\ p.tools = q.tools
  /\ SameCached(p.system, q.system)
  /\ Len(q.messages) < Len(p.messages)
  /\ q.messages = SubSeq(p.messages, 1, Len(q.messages))

\* A later turn reads what an earlier one left: while the deepest prefix of
\* the earlier turn is in the cache, the later one is told that at least its
\* tokens were read, whatever the client put before the cached system blocks.
NextTurnReads ==
  [][\A r \in Requests :
       Lookup(r) =>
         \A q \in Requests :
           LET p == req'[r].prompt
           IN  (/\ req[q].pc = "done" /\ Continues(p, req[q].prompt)
                /\ Segments(req[q].prompt) # <<>>
                /\ Live(Deepest(req[q].prompt).hash))
               => req'[r].read >= Deepest(req[q].prompt).tokens]_vars

\* What is not marked as changed is in the file or on its way to it, the
\* lifetimes included, unless a write has failed: a restart keeps the cache.
SavedWhenClean ==
  (~dirty /\ ~unsaved /\ file # <<>>) =>
    LET saved == IF flush = <<>> THEN file[1] ELSE flush[1]
    IN  \A h \in DOMAIN entries : h \in DOMAIN saved /\ saved[h].expires_at = entries[h].expires_at

=============================================================================
