-------------------------- MODULE ClientAccess_proofs --------------------------
(* The index of the client keys and the groups of requests, for any number of *)
(* administrators, requests and keys and any deployment.                      *)
(*                                                                            *)
(* by_key and the plaintexts stay in step with entries if no id and no        *)
(* plaintext is given out twice.  Ids grow; a plaintext is new because all    *)
(* that may come back after a restart, in the file of the keys and in         *)
(* config.json, were generated before or are the first root key.              *)
(*                                                                            *)
(* Renaming a group renames it alike in the credentials and in the keys, so   *)
(* that what a key reaches stays what it was.                                 *)
EXTENDS ClientAccess, WellFoundedInduction, TLAPS

\* Ids are naturals below n; plaintexts are among those generated or the root key.
Bounded(ks, n) == n \in Nat \ {0} /\ DOMAIN ks \subseteq Nat /\ \A i \in DOMAIN ks : i < n

Sound(ks, texts) ==
    /\ Distinct(ks)
    /\ \A i \in DOMAIN ks : IsKey(ks[i]) /\ ks[i].key \in texts \cup {Root}

\* A setting on its way to config.json.
SoundBusy(b, texts) ==
    /\ "step" \in DOMAIN b
    /\ (b.step = "config_read" /\ b.field = "api") => b.value \in texts \cup {Root}
    /\ b.step = "config_write" => /\ DOMAIN b.file = {"api", "admin"}
                                  /\ b.file["api"] \in texts \cup {Root}

FileSound == Sound(keys_file, issued) /\ \E n : Bounded(keys_file, n)
ConfigSound == DOMAIN config = {"api", "admin"} /\ config["api"] \in issued \cup {Root}
BusySound == DOMAIN busy = Admins /\ \A a \in Admins : SoundBusy(busy[a], issued)
KeysSound == up => Sound(keys, issued) /\ Bounded(keys, next_id) /\ by_key = IndexOf(keys)

Inv == FileSound /\ ConfigSound /\ BusySound /\ KeysSound

--------------------------------------------------------------------------------
(* Keys and maps of keys. *)

LEMMA EntryKept ==
  ASSUME NEW k, IsKey(k), NEW v
  PROVE  /\ LET n == [k EXCEPT !.key = v] IN IsKey(n) /\ n.key = v
         /\ LET n == [k EXCEPT !.group = v] IN IsKey(n) /\ n.key = k.key
         /\ LET n == [k EXCEPT !.disabled = v] IN IsKey(n) /\ n.key = k.key
         /\ LET n == [k EXCEPT !.system = v] IN IsKey(n) /\ n.key = k.key
BY DEF IsKey

LEMMA NewKeyIs ==
  ASSUME NEW s, NEW g, NEW b
  PROVE  IsKey(NewKey(s, g, b)) /\ NewKey(s, g, b).key = s
BY DEF IsKey, NewKey

LEMMA WithoutIs ==
  ASSUME NEW f, NEW x
  PROVE  /\ DOMAIN Without(f, x) = DOMAIN f \ {x}
         /\ \A y \in DOMAIN f \ {x} : Without(f, x)[y] = f[y]
BY DEF Without

LEMMA InsertDistinct ==
  ASSUME NEW ks, Distinct(ks), NEW x, x \notin DOMAIN ks, NEW v,
         \A i \in DOMAIN ks : ks[i].key # v.key
  PROVE  Distinct(Insert(ks, x, v))
<1> DEFINE ns == Insert(ks, x, v)
<1>1. /\ DOMAIN ns = DOMAIN ks \cup {x} /\ ns[x] = v
      /\ \A i \in DOMAIN ks \ {x} : ns[i] = ks[i]
  BY DEF Insert
<1> HIDE DEF ns
<1>2. Distinct(ns)
  BY <1>1 DEF Distinct
<1> QED
  BY <1>2 DEF ns

\* What an index of different plaintexts is.
LEMMA IndexIs ==
  ASSUME NEW ks, Distinct(ks)
  PROVE  /\ DOMAIN IndexOf(ks) = {ks[i].key : i \in DOMAIN ks}
         /\ \A i \in DOMAIN ks : IndexOf(ks)[ks[i].key] = i
<1>1. ASSUME NEW i \in DOMAIN ks
      PROVE  (CHOOSE j \in DOMAIN ks : ks[j].key = ks[i].key) = i
  BY DEF Distinct
<1> QED
  BY <1>1 DEF IndexOf

LEMMA IsIndex ==
  ASSUME NEW ks, Distinct(ks), NEW ix, ix = [s \in DOMAIN ix |-> ix[s]],
         DOMAIN ix = {ks[i].key : i \in DOMAIN ks}, \A i \in DOMAIN ks : ix[ks[i].key] = i
  PROVE  ix = IndexOf(ks)
<1>1. ASSUME NEW s \in DOMAIN ix PROVE ix[s] = IndexOf(ks)[s]
  <2>1. PICK i \in DOMAIN ks : s = ks[i].key
    OBVIOUS
  <2>2. \A j \in DOMAIN ks : IndexOf(ks)[ks[j].key] = j
    BY IndexIs, Zenon
  <2> QED
    BY <2>1, <2>2
<1>2. IndexOf(ks) = [s \in DOMAIN ix |-> IndexOf(ks)[s]]
  BY DEF IndexOf
<1> QED
  BY <1>1, <1>2

LEMMA InsertIndexed ==
  ASSUME NEW ks, Distinct(ks), NEW x, x \notin DOMAIN ks, NEW v,
         \A i \in DOMAIN ks : ks[i].key # v.key
  PROVE  Insert(IndexOf(ks), v.key, x) = IndexOf(Insert(ks, x, v))
<1> DEFINE ns == Insert(ks, x, v)
           ix == Insert(IndexOf(ks), v.key, x)
<1>1. Distinct(ns)
  BY InsertDistinct
<1>2. /\ DOMAIN ns = DOMAIN ks \cup {x} /\ ns[x] = v
      /\ \A i \in DOMAIN ks \ {x} : ns[i] = ks[i]
  BY DEF Insert
<1>3. /\ DOMAIN ix = DOMAIN IndexOf(ks) \cup {v.key} /\ ix[v.key] = x
      /\ \A s \in DOMAIN IndexOf(ks) \ {v.key} : ix[s] = IndexOf(ks)[s]
  BY DEF Insert
<1>f. ix = [s \in DOMAIN ix |-> ix[s]]
  BY DEF Insert
<1>i. /\ DOMAIN IndexOf(ks) = {ks[i].key : i \in DOMAIN ks}
      /\ \A i \in DOMAIN ks : IndexOf(ks)[ks[i].key] = i
  BY IndexIs, Zenon
<1> HIDE DEF ns, ix
<1>4. DOMAIN ix = {ns[i].key : i \in DOMAIN ns}
  BY <1>2, <1>3, <1>i
<1>5. \A i \in DOMAIN ns : ix[ns[i].key] = i
  BY <1>2, <1>3, <1>i
<1>6. ix = IndexOf(ns)
  BY <1>1, <1>f, <1>4, <1>5, IsIndex, Zenon
<1> QED
  BY <1>6 DEF ns, ix

LEMMA WithoutIndexed ==
  ASSUME NEW ks, Distinct(ks), NEW x \in DOMAIN ks
  PROVE  /\ Distinct(Without(ks, x))
         /\ Without(IndexOf(ks), ks[x].key) = IndexOf(Without(ks, x))
<1> DEFINE ns == Without(ks, x)
           ix == Without(IndexOf(ks), ks[x].key)
<1>1. DOMAIN ns = DOMAIN ks \ {x} /\ \A i \in DOMAIN ks \ {x} : ns[i] = ks[i]
  BY WithoutIs, Zenon
<1>2. /\ DOMAIN ix = DOMAIN IndexOf(ks) \ {ks[x].key}
      /\ \A s \in DOMAIN IndexOf(ks) \ {ks[x].key} : ix[s] = IndexOf(ks)[s]
  BY WithoutIs, Zenon
<1>f. ix = [s \in DOMAIN ix |-> ix[s]]
  BY DEF Without
<1>i. /\ DOMAIN IndexOf(ks) = {ks[i].key : i \in DOMAIN ks}
      /\ \A i \in DOMAIN ks : IndexOf(ks)[ks[i].key] = i
  BY IndexIs, Zenon
<1> HIDE DEF ns, ix
<1>3. Distinct(ns)
  BY <1>1 DEF Distinct
<1>4. \A i \in DOMAIN ns : ns[i].key # ks[x].key
  BY <1>1 DEF Distinct
<1>5. DOMAIN ix = {ns[i].key : i \in DOMAIN ns}
  BY <1>1, <1>2, <1>4, <1>i
<1>6. \A i \in DOMAIN ns : ix[ns[i].key] = i
  BY <1>1, <1>2, <1>4, <1>i
<1>7. ix = IndexOf(ns)
  BY <1>f, <1>3, <1>5, <1>6, IsIndex, Zenon
<1> QED
  BY <1>3, <1>7 DEF ns, ix

\* A change that keeps ids and plaintexts.
LEMMA SameTexts ==
  ASSUME NEW ks, NEW ns, DOMAIN ns = DOMAIN ks, \A i \in DOMAIN ks : ns[i].key = ks[i].key
  PROVE  (Distinct(ks) => Distinct(ns)) /\ IndexOf(ns) = IndexOf(ks)
BY DEF Distinct, IndexOf

--------------------------------------------------------------------------------
(* What a start makes of the file. *)

LEMMA MaxIs ==
  ASSUME NEW S, S \subseteq Nat, NEW n \in Nat, \A x \in S : x < n, S # {}
  PROVE  Max(S) \in S /\ \A x \in S : x <= Max(S)
<1> DEFINE U == {u \in Nat : \A x \in S : x <= u}
<1>1. PICK m \in U : \A u \in U : ~(u < m)
  <2>1. n \in U
    OBVIOUS
  <2>2. \E m \in U : \A u \in U : ~(<<u, m>> \in OpToRel(<, Nat))
    BY <2>1, NatLessThanWellFounded, WFMin
  <2> QED
    BY <2>2 DEF OpToRel
<1>2. m \in S
  <2> SUFFICES ASSUME m \notin S PROVE FALSE
    OBVIOUS
  <2>1. \A x \in S : x < m
    OBVIOUS
  <2>2. m > 0 /\ m - 1 \in Nat
    <3>1. PICK x \in S : TRUE
      OBVIOUS
    <3>2. m \in Nat /\ x \in Nat /\ x < m
      BY <2>1, <3>1
    <3> QED
      BY <3>2
  <2>3. m - 1 \in U
    BY <2>1, <2>2
  <2> QED
    BY <1>1, <2>2, <2>3
<1> QED
  BY <1>2 DEF Max

LEMMA NextIdFree ==
  ASSUME NEW ks, NEW n, Bounded(ks, n)
  PROVE  Bounded(ks, Max(DOMAIN ks \cup {0}) + 1)
<1> DEFINE S == DOMAIN ks \cup {0}
<1>1. S \subseteq Nat /\ n \in Nat /\ (\A x \in S : x < n) /\ S # {}
  BY DEF Bounded
<1>2. Max(S) \in S /\ \A x \in S : x <= Max(S)
  BY <1>1, MaxIs, Zenon
<1> HIDE DEF S
<1>3. Max(S) \in Nat
  BY <1>1, <1>2
<1> DEFINE m == Max(S)
<1>4. m \in Nat /\ (\A x \in S : x <= m)
  BY <1>2, <1>3
<1> HIDE DEF m
<1>5. Bounded(ks, m + 1)
  BY <1>1, <1>4 DEF Bounded, S
<1> QED
  BY <1>5 DEF m, S

\* The key of config.json is put among those of the file.
LEMMA Ensured ==
  ASSUME NEW ks, Sound(ks, issued), NEW n, Bounded(ks, n), NEW secret \in issued \cup {Root}
  PROVE  LET e == ensure_system_key(ks, n, secret)
         IN  Sound(e.keys, issued) /\ Bounded(e.keys, e.next)
<1> DEFINE ids == {i \in DOMAIN ks : ks[i].key = secret}
           id == CHOOSE i \in ids : TRUE
           free == IF 0 \notin DOMAIN ks THEN 0 ELSE n
           e == ensure_system_key(ks, n, secret)
<1>1. CASE ids = {}
  <2> DEFINE k == NewKey(secret, NoGroup, TRUE)
             ns == Insert(ks, free, k)
             m == IF free = 0 THEN n ELSE n + 1
  <2>1. e = [keys |-> ns, next |-> m]
    BY <1>1 DEF ensure_system_key
  <2>2. IsKey(k) /\ k.key = secret
    BY NewKeyIs, Zenon
  <2>3. free \notin DOMAIN ks /\ free \in Nat
    BY DEF Bounded
  <2> HIDE DEF k
  <2>4. Distinct(ns)
    BY <1>1, <2>2, <2>3, InsertDistinct DEF Sound
  <2>5. /\ DOMAIN ns = DOMAIN ks \cup {free} /\ ns[free] = k
        /\ \A i \in DOMAIN ks \ {free} : ns[i] = ks[i]
    BY DEF Insert
  <2> HIDE DEF ns
  <2>6. Sound(ns, issued)
    BY <2>2, <2>4, <2>5 DEF Sound
  <2>7. Bounded(ns, m)
    BY <2>5 DEF Bounded
  <2> QED
    BY <2>1, <2>6, <2>7
<1>2. CASE ids # {}
  <2> DEFINE k == [ks[id] EXCEPT !.system = TRUE]
  <2>1. id \in DOMAIN ks /\ ks[id].key = secret
    BY <1>2
  <2> HIDE DEF id
  <2>2. IsKey(k) /\ k.key = secret
    BY <2>1, EntryKept, Zenon DEF Sound
  <2>3. CASE id # 0 /\ 0 \notin DOMAIN ks
    <3> DEFINE os == Without(ks, id)
               ns == Insert(os, 0, k)
    <3>1. e = [keys |-> ns, next |-> n]
      BY <1>2, <2>3 DEF ensure_system_key, id
    <3>2. DOMAIN os = DOMAIN ks \ {id} /\ \A i \in DOMAIN ks \ {id} : os[i] = ks[i]
      BY WithoutIs, Zenon
    <3> HIDE DEF k, os
    <3>3. Distinct(os) /\ 0 \notin DOMAIN os /\ \A i \in DOMAIN os : os[i].key # k.key
      BY <2>1, <2>2, <2>3, <3>2 DEF Sound, Distinct
    <3>4. Distinct(ns)
      BY <3>3, InsertDistinct
    <3>5. /\ DOMAIN ns = DOMAIN os \cup {0} /\ ns[0] = k
          /\ \A i \in DOMAIN os \ {0} : ns[i] = os[i]
      BY DEF Insert
    <3> HIDE DEF ns
    <3>6. Sound(ns, issued)
      BY <2>2, <3>2, <3>4, <3>5 DEF Sound
    <3>7. Bounded(ns, n)
      BY <3>2, <3>5 DEF Bounded
    <3> QED
      BY <3>1, <3>6, <3>7
  <2>4. CASE ~(id # 0 /\ 0 \notin DOMAIN ks)
    <3> DEFINE ns == [ks EXCEPT ![id] = k]
    <3>1. e = [keys |-> ns, next |-> n]
      BY <1>2, <2>4 DEF ensure_system_key, id
    <3> HIDE DEF k
    <3>2. /\ DOMAIN ns = DOMAIN ks /\ ns[id] = k
          /\ \A i \in DOMAIN ks \ {id} : ns[i] = ks[i]
      BY <2>1
    <3> HIDE DEF ns
    <3>3. Sound(ns, issued)
      BY <2>1, <2>2, <3>2 DEF Sound, Distinct
    <3>4. Bounded(ns, n)
      BY <3>2 DEF Bounded
    <3> QED
      BY <3>1, <3>3, <3>4
  <2> QED
    BY <2>3, <2>4
<1> QED
  BY <1>1, <1>2

--------------------------------------------------------------------------------
(* Steps. *)

\* What is sound stays so while plaintexts are generated.
LEMMA SoundStays ==
  ASSUME issued \subseteq issued'
  PROVE  /\ \A ks : Sound(ks, issued) => Sound(ks, issued')
         /\ \A b : SoundBusy(b, issued) => SoundBusy(b, issued')
BY DEF Sound, SoundBusy

\* A change of the keys under the write lock, saved or not.
LEMMA KeyringStep ==
  ASSUME Inv, up, issued \subseteq issued', UNCHANGED config, BusySound', NEW ks,
         keys' = ks, keys_file' \in {ks, keys_file},
         Sound(ks, issued'), Bounded(ks, next_id'), by_key' = IndexOf(ks)
  PROVE  Inv'
<1>1. FileSound'
  BY SoundStays DEF Inv, FileSound
<1>2. ConfigSound'
  BY DEF Inv, ConfigSound
<1>3. KeysSound'
  BY DEF KeysSound
<1> QED
  BY <1>1, <1>2, <1>3 DEF Inv

\* A step that leaves the keys alone.
LEMMA OtherStep ==
  ASSUME Inv, UNCHANGED <<up, keyring>>, ConfigSound', BusySound'
  PROVE  Inv'
BY DEF Inv, FileSound, KeysSound, Sound, keyring

\* One handler goes on.
LEMMA BusyStep ==
  ASSUME Inv, issued \subseteq issued', NEW a, NEW b,
         busy' = [busy EXCEPT ![a] = b], SoundBusy(b, issued')
  PROVE  BusySound'
BY SoundStays DEF Inv, BusySound

LEMMA BusyStays == ASSUME Inv, issued \subseteq issued', UNCHANGED busy PROVE BusySound'
BY SoundStays DEF Inv, BusySound

LEMMA IdleSound == \A texts : SoundBusy(Idle, texts)
BY DEF SoundBusy, Idle

\* A handler of the groups goes to its next step.
LEMMA NextStepSound ==
  ASSUME NEW b, "step" \in DOMAIN b, NEW texts,
         NEW step \in {"rename_keys", "delete_keys", "delete_group"}
  PROVE  SoundBusy([b EXCEPT !.step = step], texts)
<1> DEFINE n == [b EXCEPT !.step = step]
<1>1. "step" \in DOMAIN n /\ n.step = step
  OBVIOUS
<1> HIDE DEF n
<1>2. SoundBusy(n, texts)
  BY <1>1 DEF SoundBusy
<1> QED
  BY <1>2 DEF n

LEMMA InitInv == Init => Inv
<1> SUFFICES ASSUME Init PROVE Inv
  OBVIOUS
<1>1. PICK d \in Deployments :
        /\ keys_file = d.keys
        /\ issued = {d.keys[i].key : i \in DOMAIN d.keys} \ {Root}
  BY DEF Init
<1>2. Sound(keys_file, issued) /\ Bounded(keys_file, MaxId + 1)
  BY <1>1, DeploymentsAssumption DEF Sound, Bounded
<1>3. ConfigSound /\ ~up
  BY DEF Init, ConfigSound
<1>4. BusySound
  BY DEF Init, BusySound, SoundBusy, Idle
<1> QED
  BY <1>2, <1>3, <1>4 DEF Inv, FileSound, KeysSound

LEMMA CreateKeyInv == ASSUME Inv, NEW g, CreateKey(g) PROVE Inv'
<1> DEFINE k(s) == NewKey(s, g, FALSE)
<1>1. PICK s \in Secrets \ issued :
        /\ by_key' = Insert(by_key, s, next_id)
        /\ SaveKeys(Insert(keys, next_id, k(s)))
        /\ issued' = issued \cup {s}
  BY DEF CreateKey
<1>2. up /\ next_id' = next_id + 1 /\ UNCHANGED <<up, config, busy>>
  BY DEF CreateKey
<1>3. Sound(keys, issued) /\ Bounded(keys, next_id) /\ by_key = IndexOf(keys)
  BY <1>2 DEF Inv, KeysSound
<1>4. IsKey(k(s)) /\ k(s).key = s
  BY NewKeyIs, Zenon
<1> DEFINE v == k(s)
           ns == Insert(keys, next_id, v)
<1>5. /\ next_id \notin DOMAIN keys /\ Distinct(keys)
      /\ \A i \in DOMAIN keys : keys[i].key # v.key
  <2>1. v.key = s
    BY <1>4
  <2> HIDE DEF k, v
  <2>2. next_id \notin DOMAIN keys
    BY <1>3 DEF Bounded
  <2>3. Distinct(keys) /\ \A i \in DOMAIN keys : keys[i].key # s
    BY <1>1, <1>3, RootAssumption DEF Sound
  <2> QED
    BY <2>1, <2>2, <2>3
<1>6. /\ keys' = ns /\ keys_file' \in {ns, keys_file}
      /\ by_key' = Insert(IndexOf(keys), v.key, next_id)
  BY <1>1, <1>3, <1>4 DEF SaveKeys
<1> HIDE DEF k, v
<1>7. Distinct(ns) /\ by_key' = IndexOf(ns)
  BY <1>5, <1>6, InsertDistinct, InsertIndexed
<1>8. /\ DOMAIN ns = DOMAIN keys \cup {next_id} /\ ns[next_id] = v
      /\ \A i \in DOMAIN keys \ {next_id} : ns[i] = keys[i]
  BY DEF Insert
<1> HIDE DEF ns
<1>9. Sound(ns, issued')
  BY <1>1, <1>3, <1>4, <1>7, <1>8 DEF Sound, v
<1>10. Bounded(ns, next_id')
  BY <1>2, <1>3, <1>8 DEF Bounded
<1>11. issued \subseteq issued' /\ BusySound'
  BY <1>1, <1>2, BusyStays
<1> QED
  BY <1>2, <1>6, <1>7, <1>9, <1>10, <1>11, KeyringStep

LEMMA DeleteKeyInv == ASSUME Inv, NEW id, DeleteKey(id) PROVE Inv'
<1> DEFINE ns == Without(keys, id)
<1>1. /\ up /\ id \in DOMAIN keys /\ by_key' = Without(by_key, keys[id].key)
      /\ SaveKeys(ns) /\ UNCHANGED <<next_id, issued, config, busy>>
  BY DEF DeleteKey
<1>2. Sound(keys, issued) /\ Bounded(keys, next_id) /\ by_key = IndexOf(keys)
  BY <1>1 DEF Inv, KeysSound
<1>3. Distinct(ns) /\ by_key' = IndexOf(ns)
  BY <1>1, <1>2, WithoutIndexed DEF Sound
<1>4. keys' = ns /\ keys_file' \in {ns, keys_file}
  BY <1>1 DEF SaveKeys
<1>5. DOMAIN ns = DOMAIN keys \ {id} /\ \A i \in DOMAIN keys \ {id} : ns[i] = keys[i]
  BY WithoutIs, Zenon
<1> HIDE DEF ns
<1>6. Sound(ns, issued') /\ Bounded(ns, next_id')
  BY <1>1, <1>2, <1>3, <1>5 DEF Sound, Bounded
<1>7. BusySound'
  BY <1>1, BusyStays
<1> QED
  BY <1>1, <1>3, <1>4, <1>6, <1>7, KeyringStep

LEMMA ChangeKeyInv ==
  ASSUME Inv, NEW id \in DOMAIN keys, SetDisabled(id) \/ UpdateMeta(id) PROVE Inv'
<1>1. up
  BY DEF SetDisabled, UpdateMeta, ChangeKey
<1>2. Sound(keys, issued) /\ Bounded(keys, next_id) /\ by_key = IndexOf(keys)
  BY <1>1 DEF Inv, KeysSound
<1>3. PICK k : ChangeKey(id, k) /\ IsKey(k) /\ k.key = keys[id].key
  <2>1. IsKey(keys[id])
    BY <1>2 DEF Sound
  <2>2. CASE SetDisabled(id)
    <3>1. PICK b \in BOOLEAN : ChangeKey(id, [keys[id] EXCEPT !.disabled = b])
      BY <2>2 DEF SetDisabled
    <3> DEFINE k == [keys[id] EXCEPT !.disabled = b]
    <3>2. IsKey(k) /\ k.key = keys[id].key
      BY <2>1, EntryKept, Zenon
    <3> QED
      BY <3>1, <3>2
  <2>3. CASE UpdateMeta(id)
    <3>1. PICK g : ChangeKey(id, [keys[id] EXCEPT !.group = g])
      BY <2>3 DEF UpdateMeta
    <3> DEFINE k == [keys[id] EXCEPT !.group = g]
    <3>2. IsKey(k) /\ k.key = keys[id].key
      BY <2>1, EntryKept, Zenon
    <3> QED
      BY <3>1, <3>2
  <2> QED
    BY <2>2, <2>3
<1> DEFINE ns == [keys EXCEPT ![id] = k]
<1>4. /\ keys' = ns /\ keys_file' \in {ns, keys_file}
      /\ UNCHANGED <<by_key, next_id, issued, config, busy>>
  BY <1>3 DEF ChangeKey, SaveKeys
<1>5. /\ DOMAIN ns = DOMAIN keys /\ ns[id] = k
      /\ \A i \in DOMAIN keys \ {id} : ns[i] = keys[i]
  OBVIOUS
<1> HIDE DEF ns
<1>6. \A i \in DOMAIN keys : ns[i].key = keys[i].key
  BY <1>3, <1>5
<1>7. Distinct(ns) /\ by_key' = IndexOf(ns)
  BY <1>2, <1>4, <1>5, <1>6, SameTexts DEF Sound
<1>8. Sound(ns, issued') /\ Bounded(ns, next_id')
  BY <1>2, <1>3, <1>4, <1>5, <1>6, <1>7 DEF Sound, Bounded
<1>9. BusySound'
  BY <1>4, BusyStays
<1> QED
  BY <1>1, <1>4, <1>7, <1>8, <1>9, KeyringStep

LEMMA RotateKeyInv == ASSUME Inv, NEW a \in Admins, NEW id, RotateKey(a, id) PROVE Inv'
<1>1. PICK s \in Secrets \ issued :
        /\ by_key' = Reindexed(by_key, keys[id].key, s, id)
        /\ SaveKeys([keys EXCEPT ![id].key = s])
        /\ issued' = issued \cup {s}
        /\ busy' = IF keys[id].system
                   THEN [busy EXCEPT ![a] = [step |-> "config_read", field |-> "api", value |-> s]]
                   ELSE busy
  BY DEF RotateKey
<1>2. up /\ id \in DOMAIN keys /\ UNCHANGED <<next_id, config>>
  BY DEF RotateKey
<1>3. Sound(keys, issued) /\ Bounded(keys, next_id) /\ by_key = IndexOf(keys)
  BY <1>2 DEF Inv, KeysSound
<1> DEFINE k == [keys[id] EXCEPT !.key = s]
           os == Without(keys, id)
           ns == Insert(os, id, k)
           rs == [keys EXCEPT ![id] = k]
<1>4. /\ keys' = rs /\ keys_file' \in {rs, keys_file}
      /\ by_key' = Insert(Without(IndexOf(keys), keys[id].key), s, id)
  BY <1>1, <1>3 DEF SaveKeys, Reindexed
<1>5. IsKey(k) /\ k.key = s
  BY <1>2, <1>3, EntryKept, Zenon DEF Sound
<1> HIDE DEF k
<1>6. Distinct(os) /\ Without(IndexOf(keys), keys[id].key) = IndexOf(os)
  BY <1>2, <1>3, WithoutIndexed DEF Sound
<1>7. DOMAIN os = DOMAIN keys \ {id} /\ \A i \in DOMAIN keys \ {id} : os[i] = keys[i]
  BY WithoutIs, Zenon
<1> HIDE DEF os
<1>8. id \notin DOMAIN os /\ \A i \in DOMAIN os : os[i].key # k.key
  BY <1>1, <1>3, <1>5, <1>7, RootAssumption DEF Sound
<1>9. Distinct(ns) /\ by_key' = IndexOf(ns)
  BY <1>4, <1>5, <1>6, <1>8, InsertDistinct, InsertIndexed
<1>10. /\ DOMAIN rs = DOMAIN keys /\ rs[id] = k
       /\ \A i \in DOMAIN keys \ {id} : rs[i] = keys[i]
  BY <1>2
<1>11. DOMAIN ns = DOMAIN rs /\ \A i \in DOMAIN ns : rs[i].key = ns[i].key
  BY <1>2, <1>7, <1>10 DEF Insert
<1> HIDE DEF ns, rs
<1>12. Distinct(rs) /\ by_key' = IndexOf(rs)
  BY <1>9, <1>11, SameTexts
<1>13. Sound(rs, issued') /\ Bounded(rs, next_id')
  BY <1>1, <1>2, <1>3, <1>5, <1>10, <1>12 DEF Sound, Bounded
<1>14. BusySound'
  <2>1. CASE keys[id].system
    <3> DEFINE b == [step |-> "config_read", field |-> "api", value |-> s]
    <3>1. SoundBusy(b, issued')
      BY <1>1 DEF SoundBusy
    <3>2. busy' = [busy EXCEPT ![a] = b]
      BY <1>1, <2>1
    <3> HIDE DEF b
    <3> QED
      BY <1>1, <3>1, <3>2, BusyStep
  <2>2. CASE ~keys[id].system
    BY <1>1, <2>2, BusyStays
  <2> QED
    BY <2>1, <2>2
<1> QED
  BY <1>1, <1>2, <1>4, <1>12, <1>13, <1>14, KeyringStep

\* The groups of keys change, or nothing but their counters.
LEMMA RegroupInv ==
  ASSUME Inv, up, UNCHANGED <<by_key, next_id, issued, config>>, BusySound',
         NEW old, NEW new, keys' = KeysRenamed(keys, old, new), keys_file' \in {keys', keys_file}
  PROVE  Inv'
<1> DEFINE ns == KeysRenamed(keys, old, new)
<1>1. Sound(keys, issued) /\ Bounded(keys, next_id) /\ by_key = IndexOf(keys)
  BY DEF Inv, KeysSound
<1>2. ASSUME NEW i \in DOMAIN keys
      PROVE  IsKey(ns[i]) /\ ns[i].key = keys[i].key
  <2> DEFINE k == [keys[i] EXCEPT !.group = new]
  <2>1. IsKey(keys[i])
    BY <1>1 DEF Sound
  <2>2. IsKey(k) /\ k.key = keys[i].key
    BY <2>1, EntryKept, Zenon
  <2>3. ns[i] = IF keys[i].group = old THEN k ELSE keys[i]
    BY DEF KeysRenamed
  <2> HIDE DEF k, ns
  <2> QED
    BY <2>1, <2>2, <2>3
<1>3. DOMAIN ns = DOMAIN keys
  BY DEF KeysRenamed
<1> HIDE DEF ns
<1>4. Distinct(ns) /\ by_key' = IndexOf(ns)
  BY <1>1, <1>2, <1>3, SameTexts DEF Sound
<1>5. Sound(ns, issued') /\ Bounded(ns, next_id')
  BY <1>1, <1>2, <1>3, <1>4 DEF Sound, Bounded
<1>6. keys' = ns /\ keys_file' \in {ns, keys_file}
  BY DEF ns
<1> QED
  BY <1>4, <1>5, <1>6, KeyringStep

LEMMA StartInv == ASSUME Inv, Start PROVE Inv'
<1> DEFINE next == Max(DOMAIN keys_file \cup {0}) + 1
           sys == ensure_system_key(keys_file, next, config["api"])
<1>1. /\ keys' = sys.keys /\ keys_file' = sys.keys
      /\ by_key' = IndexOf(sys.keys) /\ next_id' = sys.next
      /\ UNCHANGED <<config, issued, busy>>
  BY DEF Start
<1>2. Sound(keys_file, issued) /\ Bounded(keys_file, next)
  BY NextIdFree DEF Inv, FileSound
<1>3. config["api"] \in issued \cup {Root}
  BY DEF Inv, ConfigSound
<1> HIDE DEF next
<1>4. Sound(sys.keys, issued) /\ Bounded(sys.keys, sys.next)
  BY <1>2, <1>3, Ensured
<1> HIDE DEF sys
<1>5. FileSound' /\ KeysSound'
  BY <1>1, <1>4 DEF FileSound, KeysSound
<1>6. ConfigSound' /\ BusySound'
  BY <1>1 DEF Inv, ConfigSound, BusySound
<1> QED
  BY <1>5, <1>6 DEF Inv

LEMMA NextInv == Inv /\ [Next]_vars => Inv'
<1> SUFFICES ASSUME Inv, [Next]_vars PROVE Inv'
  OBVIOUS
<1>s. ASSUME NEW a \in Admins, UNCHANGED <<up, keyring, config>>,
             NEW b, busy' = [busy EXCEPT ![a] = b], SoundBusy(b, issued)
      PROVE  Inv'
  <2>1. BusySound' /\ ConfigSound'
    BY <1>s, BusyStep DEF keyring, Inv, ConfigSound
  <2> QED
    BY <1>s, <2>1, OtherStep
<1>q. ASSUME UNCHANGED <<up, keyring, config, busy>> PROVE Inv'
  <2>1. BusySound' /\ ConfigSound'
    BY <1>q DEF keyring, Inv, ConfigSound, BusySound
  <2> QED
    BY <1>q, <2>1, OtherStep
<1>b. \A a \in Admins : SoundBusy(busy[a], issued) /\ "step" \in DOMAIN busy[a]
  BY DEF Inv, BusySound, SoundBusy
<1>1. ASSUME NEW a \in Admins, Call(a) PROVE Inv'
  <2>1. ASSUME NEW g, CreateKey(g) \/ CreateGroup(g) PROVE Inv'
    BY <1>q, <2>1, CreateKeyInv DEF CreateGroup
  <2>2. ASSUME NEW id \in DOMAIN keys,
               DeleteKey(id) \/ SetDisabled(id) \/ UpdateMeta(id) \/ RotateKey(a, id)
        PROVE  Inv'
    BY <2>2, DeleteKeyInv, ChangeKeyInv, RotateKeyInv
  <2>3. CASE UpdateAdminKey(a)
    <3> DEFINE b == [step |-> "config_read", field |-> "admin", value |-> "new"]
    <3>1. SoundBusy(b, issued) /\ busy' = [busy EXCEPT ![a] = b]
      BY <2>3 DEF UpdateAdminKey, SoundBusy
    <3> HIDE DEF b
    <3> QED
      BY <1>s, <2>3, <3>1 DEF UpdateAdminKey
  <2>4. ASSUME NEW g, NEW force, CheckDelete(a, g, force) PROVE Inv'
    <3> DEFINE b == [step |-> IF force THEN "delete_creds" ELSE "delete_group", group |-> g]
    <3>1. SoundBusy(b, issued) /\ busy' = [busy EXCEPT ![a] = b]
      BY <2>4 DEF CheckDelete, SoundBusy
    <3> HIDE DEF b
    <3> QED
      BY <1>s, <2>4, <3>1 DEF CheckDelete
  <2>5. ASSUME NEW c, NEW gs, SetCredentialGroups(c, gs) PROVE Inv'
    BY <1>q, <2>5 DEF SetCredentialGroups
  <2>6. ASSUME NEW old, NEW new, RenameGroup(a, old, new) PROVE Inv'
    <3> DEFINE b == [step |-> "rename_creds", old |-> old, new |-> new]
    <3>1. SoundBusy(b, issued) /\ busy' = [busy EXCEPT ![a] = b]
      BY <2>6 DEF RenameGroup, SoundBusy
    <3> HIDE DEF b
    <3> QED
      BY <1>s, <2>6, <3>1 DEF RenameGroup
  <2> QED
    BY <1>1, <2>1, <2>2, <2>3, <2>4, <2>5, <2>6 DEF Call
<1>2. ASSUME NEW a \in Admins, ConfigRead(a) PROVE Inv'
  <2> DEFINE f == busy[a].field
             n == [config EXCEPT ![f] = busy[a].value]
             b == [step |-> "config_write", field |-> f, file |-> n]
  <2>1. busy[a].step = "config_read" /\ busy' = [busy EXCEPT ![a] = b]
    BY <1>2 DEF ConfigRead
  <2>2. DOMAIN n = {"api", "admin"} /\ n["api"] \in issued \cup {Root}
    BY <1>b, <2>1 DEF Inv, ConfigSound, SoundBusy
  <2> HIDE DEF n
  <2>3. SoundBusy(b, issued)
    BY <2>2 DEF SoundBusy
  <2> HIDE DEF b
  <2> QED
    BY <1>2, <1>s, <2>1, <2>3 DEF ConfigRead
<1>3. ASSUME NEW a \in Admins, ConfigWrite(a) PROVE Inv'
  <2>1. /\ busy[a].step = "config_write" /\ config' \in {busy[a].file, config}
        /\ busy' = [busy EXCEPT ![a] = Idle] /\ UNCHANGED <<up, keyring>>
    BY <1>3 DEF ConfigWrite
  <2>2. ConfigSound'
    BY <1>b, <2>1 DEF Inv, ConfigSound, SoundBusy, keyring
  <2>3. BusySound'
    BY <2>1, IdleSound, BusyStep DEF keyring
  <2> QED
    BY <2>1, <2>2, <2>3, OtherStep
<1>4. ASSUME NEW a \in Admins, RenameCreds(a) \/ DeleteCreds(a) PROVE Inv'
  <2>1. PICK step \in {"rename_keys", "delete_keys"} :
          \/ busy' = [busy EXCEPT ![a] = [busy[a] EXCEPT !.step = step]]
          \/ busy' = [busy EXCEPT ![a] = Idle]
    BY <1>4 DEF RenameCreds, DeleteCreds
  <2> DEFINE b == [busy[a] EXCEPT !.step = step]
  <2>2. SoundBusy(b, issued)
    BY <1>b, NextStepSound
  <2> HIDE DEF b
  <2>3. UNCHANGED <<up, keyring, config>>
    BY <1>4 DEF RenameCreds, DeleteCreds
  <2>4. busy' = [busy EXCEPT ![a] = b] \/ busy' = [busy EXCEPT ![a] = Idle]
    BY <2>1 DEF b
  <2> QED
    BY <1>s, <2>2, <2>3, <2>4, IdleSound
<1>5. ASSUME NEW a \in Admins, RenameKeys(a) PROVE Inv'
  <2> DEFINE ns == KeysRenamed(keys, busy[a].old, busy[a].new)
  <2>1. /\ up /\ UNCHANGED <<by_key, next_id, issued, config>>
        /\ busy' = [busy EXCEPT ![a] = Idle]
        /\ keys' = ns /\ keys_file' \in {ns, keys_file}
    BY <1>5 DEF RenameKeys, SaveKeys
  <2>2. BusySound'
    BY <2>1, IdleSound, BusyStep
  <2> QED
    BY <2>1, <2>2, RegroupInv
<1>6. ASSUME NEW a \in Admins, DeleteKeys(a) PROVE Inv'
  <2> DEFINE ns == KeysRenamed(keys, busy[a].group, NoGroup)
             b == [busy[a] EXCEPT !.step = "delete_group"]
  <2>1. /\ up /\ UNCHANGED <<by_key, next_id, issued, config>>
        /\ busy' = [busy EXCEPT ![a] = b]
        /\ keys' = ns /\ keys_file' \in {ns, keys_file}
    BY <1>6 DEF DeleteKeys, SaveKeys
  <2>2. SoundBusy(b, issued')
    BY <1>b, NextStepSound
  <2> HIDE DEF b
  <2>3. BusySound'
    BY <2>1, <2>2, BusyStep
  <2> QED
    BY <2>1, <2>3, RegroupInv
<1>7. ASSUME NEW a \in Admins, DeleteGroup(a) PROVE Inv'
  BY <1>7, <1>s, IdleSound DEF DeleteGroup
<1>8. ASSUME NEW r \in Requests, RequestStep(r) PROVE Inv'
  <2>1. CASE Verify(r) \/ ReadGroup(r) \/ Serve(r)
    BY <1>q, <2>1 DEF Verify, ReadGroup, Serve
  <2>2. CASE Finish(r)
    <3>1. /\ up /\ keys' = keys /\ keys_file' \in {keys, keys_file}
          /\ UNCHANGED <<by_key, next_id, issued, config, busy>>
      <4>1. reqs[r].pc \in {"admitted", "served"}
        BY <2>2 DEF Finish
      <4> QED
        BY <2>2 DEF Finish, SaveKeys
    <3>2. Sound(keys, issued') /\ Bounded(keys, next_id') /\ by_key' = IndexOf(keys)
      BY <3>1 DEF Inv, KeysSound
    <3>3. BusySound'
      BY <3>1, BusyStays
    <3> QED
      BY <3>1, <3>2, <3>3, KeyringStep
  <2> QED
    BY <1>8, <2>1, <2>2 DEF RequestStep
<1>9. CASE Crash
  <2>1. /\ up' = FALSE /\ busy' = [a \in Admins |-> Idle]
        /\ UNCHANGED <<keyring, config>>
    BY <1>9 DEF Crash
  <2>2. FileSound' /\ ConfigSound' /\ KeysSound'
    BY <2>1 DEF Inv, FileSound, ConfigSound, KeysSound, keyring
  <2>3. BusySound'
    BY <2>1, IdleSound DEF BusySound
  <2> QED
    BY <2>2, <2>3 DEF Inv
<1>10. CASE UNCHANGED vars
  BY <1>10, <1>q DEF vars
<1> QED
  BY <1>1, <1>2, <1>3, <1>4, <1>5, <1>6, <1>7, <1>8, <1>9, <1>10, StartInv DEF Next, Continue

\* At any moment the index of the client keys leads from every plaintext to the
\* one key that has it and holds nothing else, through creation, rotation and
\* deletion, the import of the key of config.json and starts from any file.
THEOREM ByKeyAlwaysExact == Spec => []ByKeyExact
<1>1. Init => Inv
  BY InitInv
<1>2. Inv /\ [Next]_vars => Inv'
  BY NextInv
<1>3. Inv => ByKeyExact
  BY DEF Inv, KeysSound, Sound, ByKeyExact
<1> QED
  BY <1>1, <1>2, <1>3, PTL DEF Spec

--------------------------------------------------------------------------------
(* The groups of requests. *)

\* A request carries a group its key had since it was verified, or its key was
\* deleted since; and what serves it matched that group.
RequestFields == {"pc", "id", "group", "via"}

InGroup ==
    /\ DOMAIN reqs = Requests /\ DOMAIN seen = Requests
    /\ \A r \in Requests :
         /\ reqs[r] = [f \in RequestFields |-> reqs[r][f]]
         /\ reqs[r].pc \in {"admitted", "served"} => seen[r] \cap {reqs[r].group, Gone} # {}
         /\ reqs[r].pc = "served" => group_matches(reqs[r].via, reqs[r].group)

LEMMA NewRequestIs ==
  /\ NewRequest = [f \in RequestFields |-> NewRequest[f]]
  /\ NewRequest.pc = "new"
BY DEF NewRequest, RequestFields

LEMMA InitInGroup == Init => InGroup
<1> SUFFICES ASSUME Init PROVE InGroup
  OBVIOUS
<1>1. reqs = [r \in Requests |-> NewRequest] /\ DOMAIN seen = Requests
  BY DEF Init
<1> QED
  BY <1>1, NewRequestIs DEF InGroup

\* What was seen of a request stays seen until it is over.
LEMMA SeenStays ==
  ASSUME Watch, NEW r \in Requests, reqs'[r].pc # "new"
  PROVE  seen[r] \subseteq seen'[r]
  BY DEF Watch

LEMMA InGroupNext == ASSUME InGroup, [Next]_vars PROVE InGroup'
<1>1. CASE UNCHANGED vars
  BY <1>1 DEF vars, InGroup, group_matches
<1>2. CASE Watch /\ UNCHANGED reqs
  <2>1. DOMAIN seen' = Requests
    BY <1>2 DEF Watch
  <2>2. ASSUME NEW r \in Requests, reqs[r].pc \in {"admitted", "served"}
        PROVE  seen[r] \subseteq seen'[r]
    BY <1>2, <2>2, SeenStays
  <2> QED
    BY <1>2, <2>1, <2>2 DEF InGroup, group_matches
<1>3. ASSUME Watch, NEW r \in Requests, RequestStep(r) PROVE InGroup'
  <2>1. PICK n : /\ reqs' = [reqs EXCEPT ![r] = n]
                 /\ n = [f \in RequestFields |-> n[f]]
                 /\ n.pc \in {"admitted", "served"} => seen'[r] \cap {n.group, Gone} # {}
                 /\ n.pc = "served" => group_matches(n.via, n.group)
    <3>0. reqs[r] = [f \in RequestFields |-> reqs[r][f]]
      BY DEF InGroup
    <3>1. CASE Verify(r)
      <4>1. PICK id : reqs' = [reqs EXCEPT ![r].pc = "verified", ![r].id = id]
        BY <3>1 DEF Verify
      <4> DEFINE n == [reqs[r] EXCEPT !.pc = "verified", !.id = id]
      <4>2. n = [f \in RequestFields |-> n[f]] /\ n.pc = "verified"
        BY <3>0 DEF RequestFields
      <4>3. reqs' = [reqs EXCEPT ![r] = n]
        BY <4>1, Zenon
      <4> HIDE DEF n
      <4> QED
        BY <4>2, <4>3
    <3>2. CASE ReadGroup(r)
      <4> DEFINE n == [reqs[r] EXCEPT !.pc = "admitted", !.group = GroupOf(reqs[r].id)]
      <4>1. reqs' = [reqs EXCEPT ![r] = n]
        BY <3>2, Zenon DEF ReadGroup
      <4>2. /\ n = [f \in RequestFields |-> n[f]] /\ n.pc = "admitted"
            /\ n.group = GroupOf(reqs[r].id) /\ n.id = reqs[r].id
        BY <3>0 DEF RequestFields
      <4> HIDE DEF n
      <4>3. reqs'[r] = n /\ keys' = keys
        BY <3>2, <4>1 DEF InGroup, ReadGroup, keyring
      <4>4. seen'[r] \cap {n.group, Gone} # {}
        BY <1>3, <4>2, <4>3 DEF Watch, GroupOf
      <4> QED
        BY <4>1, <4>2, <4>4
    <3>3. CASE Serve(r)
      <4>1. PICK c : /\ group_matches(groups_of[c], reqs[r].group)
                     /\ reqs' = [reqs EXCEPT ![r].pc = "served", ![r].via = groups_of[c]]
        BY <3>3 DEF Serve
      <4> DEFINE n == [reqs[r] EXCEPT !.pc = "served", !.via = groups_of[c]]
      <4>2. /\ n = [f \in RequestFields |-> n[f]] /\ n.pc = "served"
            /\ n.group = reqs[r].group /\ n.via = groups_of[c]
        BY <3>0 DEF RequestFields
      <4>3. reqs' = [reqs EXCEPT ![r] = n]
        BY <4>1, Zenon
      <4> HIDE DEF n
      <4>4. seen[r] \subseteq seen'[r]
        BY <1>3, <4>2, <4>3, SeenStays DEF InGroup
      <4>5. seen[r] \cap {reqs[r].group, Gone} # {}
        BY <3>3 DEF InGroup, Serve
      <4> QED
        BY <4>1, <4>2, <4>3, <4>4, <4>5
    <3>4. CASE Finish(r)
      <4>1. reqs' = [reqs EXCEPT ![r] = NewRequest]
        BY <3>4 DEF Finish
      <4> QED
        BY <4>1, NewRequestIs
    <3> QED
      BY <1>3, <3>1, <3>2, <3>3, <3>4 DEF RequestStep
  <2>2. \A q \in Requests : reqs'[q] = IF q = r THEN n ELSE reqs[q]
    BY <2>1 DEF InGroup
  <2>3. DOMAIN reqs' = Requests /\ DOMAIN seen' = Requests
    BY <1>3, <2>1 DEF InGroup, Watch
  <2>4. ASSUME NEW q \in Requests, q # r
        PROVE  /\ reqs'[q] = [f \in RequestFields |-> reqs'[q][f]]
               /\ reqs'[q].pc \in {"admitted", "served"}
                    => seen'[q] \cap {reqs'[q].group, Gone} # {}
               /\ reqs'[q].pc = "served" => group_matches(reqs'[q].via, reqs'[q].group)
    <3>1. reqs'[q].pc # "new" => seen[q] \subseteq seen'[q]
      BY <1>3, SeenStays
    <3> QED
      BY <2>2, <2>4, <3>1 DEF InGroup
  <2> QED
    BY <2>1, <2>2, <2>3, <2>4 DEF InGroup, group_matches
<1>4. CASE Watch /\ Crash
  BY <1>4, NewRequestIs DEF Crash, Watch, InGroup
<1>5. ASSUME NEW a \in Admins, Call(a) \/ Continue(a) PROVE UNCHANGED reqs
  BY <1>5 DEF Call, CreateKey, DeleteKey, SetDisabled, UpdateMeta, ChangeKey, RotateKey,
     UpdateAdminKey, CreateGroup, CheckDelete, SetCredentialGroups, RenameGroup,
     Continue, ConfigRead, ConfigWrite, RenameCreds, RenameKeys, DeleteCreds, DeleteKeys,
     DeleteGroup
<1>6. ASSUME Start PROVE UNCHANGED reqs
  BY <1>6 DEF Start
<1> QED
  BY <1>1, <1>2, <1>3, <1>4, <1>5, <1>6 DEF Next

\* A request of a bound key is served by an account of a group the key was bound
\* to while the request was on its way, for any number of keys, accounts and
\* administrators who move and rename groups meanwhile.
THEOREM ServedInGroup == Spec => []ServedWithinGroup
<1>1. InGroup => ServedWithinGroup
  BY DEF InGroup, ServedWithinGroup, group_matches
<1>2. InGroup /\ [Next]_vars => InGroup'
  BY InGroupNext
<1> QED
  BY <1>1, <1>2, InitInGroup, PTL DEF Spec

--------------------------------------------------------------------------------
(* The renaming of a group. *)

\* What a renaming that is under way knows of the key and the account of a pair:
\* both have the old name until the accounts are renamed, and the key until the
\* keys are.
Bound(p, old) == p[1] \in DOMAIN keys /\ keys[p[1]].group = old

PairedAt(a) ==
    \A p \in pairs[a] :
      /\ busy[a].step = "rename_creds" =>
           Bound(p, busy[a].old) /\ p[2] \in Creds /\ busy[a].old \in groups_of[p[2]]
      /\ busy[a].step = "rename_keys" =>
           Bound(p, busy[a].old) /\ busy[a].new \in groups_of[p[2]]

Paired == \A a \in Admins : PairedAt(a)

LEMMA IdleIs == Idle.step = "idle"
BY DEF Idle

\* While a handler stands still the pairs that others edit are dropped.
LEMMA PairsFiltered ==
  ASSUME Watch, NEW a \in Admins, busy'[a] = busy[a], busy[a].step # "idle"
  PROVE  \A p \in pairs'[a] : /\ p \in pairs[a] /\ groups_of'[p[2]] = groups_of[p[2]]
                              /\ p[1] \in DOMAIN keys' /\ keys'[p[1]].group = keys[p[1]].group
<1>1. busy[a] # Idle /\ busy'[a] # Idle
  BY IdleIs
<1>2. pairs'[a] = {p \in pairs[a] : /\ groups_of'[p[2]] = groups_of[p[2]]
                                    /\ p[1] \in DOMAIN keys'
                                    /\ keys'[p[1]].group = keys[p[1]].group}
  BY <1>1 DEF Watch
<1> QED
  BY <1>2

LEMMA PairedStays ==
  ASSUME Watch, NEW a \in Admins, PairedAt(a), busy'[a] = busy[a]
  PROVE  PairedAt(a)'
<1>1. CASE busy[a].step = "idle"
  BY <1>1 DEF PairedAt
<1>2. CASE busy[a].step # "idle"
  BY <1>2, PairsFiltered DEF PairedAt, Bound
<1> QED
  BY <1>1, <1>2

\* The registry has the new name: the pairs are those with the old one.
LEMMA PairedBegins ==
  ASSUME Watch, Inv, NEW a \in Admins, NEW old, NEW new, RenameGroup(a, old, new)
  PROVE  PairedAt(a)'
<1> DEFINE b == [step |-> "rename_creds", old |-> old, new |-> new]
<1>1. /\ busy[a] = Idle /\ busy' = [busy EXCEPT ![a] = b]
      /\ UNCHANGED <<keys, groups_of>>
  BY DEF RenameGroup, keyring
<1>2. busy'[a] = b
  BY <1>1 DEF Inv, BusySound
<1>3. busy'[a].step = "rename_creds" /\ busy'[a].old = old
  BY <1>2
<1>4. pairs'[a] = {p \in (DOMAIN keys) \X Creds :
                     keys[p[1]].group = busy'[a].old /\ busy'[a].old \in groups_of[p[2]]}
  <2>1. busy[a] = Idle /\ busy'[a] # Idle /\ busy'[a].step = "rename_creds"
    BY <1>1, <1>3, IdleIs
  <2> QED
    BY ONLY Watch, a \in Admins, <2>1 DEF Watch
<1> QED
  BY <1>1, <1>3, <1>4 DEF PairedAt, Bound

\* The accounts have the new name, or the renaming was given up.
LEMMA PairedGoesOn ==
  ASSUME Watch, Inv, NEW a \in Admins, PairedAt(a), RenameCreds(a)
  PROVE  PairedAt(a)'
<1> DEFINE old == busy[a].old
           new == busy[a].new
           b == [busy[a] EXCEPT !.step = "rename_keys"]
<1>1. /\ busy[a].step = "rename_creds" /\ UNCHANGED keys
      /\ groups_of' = [c \in Creds |-> Renamed(groups_of[c], old, new)]
      /\ busy' = [busy EXCEPT ![a] = b] \/ busy' = [busy EXCEPT ![a] = Idle]
  BY DEF RenameCreds, keyring
<1>2. CASE busy' = [busy EXCEPT ![a] = Idle]
  <2>1. busy'[a] = Idle
    BY <1>2 DEF Inv, BusySound
  <2> QED
    BY <2>1, IdleIs DEF PairedAt
<1>3. CASE busy' = [busy EXCEPT ![a] = b]
  <2>1. "step" \in DOMAIN busy[a] /\ busy'[a] = b
    BY <1>3 DEF Inv, BusySound, SoundBusy
  <2>2. busy'[a].step = "rename_keys" /\ busy'[a].old = old /\ busy'[a].new = new
    BY <2>1
  <2>3. pairs'[a] = pairs[a]
    <3>1. busy[a] # Idle /\ busy'[a] # Idle /\ busy'[a] # busy[a]
      BY <1>1, <2>2, IdleIs
    <3> QED
      BY <2>2, <3>1 DEF Watch
  <2>4. ASSUME NEW p \in pairs[a]
        PROVE  Bound(p, old) /\ new \in groups_of'[p[2]]
    <3>1. Bound(p, old) /\ p[2] \in Creds /\ old \in groups_of[p[2]]
      BY <1>1 DEF PairedAt
    <3> QED
      BY <1>1, <3>1 DEF Renamed
  <2> QED
    BY <1>1, <2>2, <2>3, <2>4 DEF PairedAt, Bound
<1> QED
  BY <1>1, <1>2, <1>3

\* What a step can do to a handler.
Handled(a) ==
    \/ busy'[a] = busy[a]
    \/ busy'[a].step \notin {"rename_creds", "rename_keys"} /\ busy[a].step # "rename_keys"
    \/ \E old, new \in Groups : RenameGroup(a, old, new)
    \/ RenameCreds(a)
    \/ RenameKeys(a)
    \/ Crash

LEMMA Steps ==
  ASSUME Inv, [Next]_vars
  PROVE  \A a \in Admins : Handled(a)
<1>b. DOMAIN busy = Admins /\ \A a \in Admins : "step" \in DOMAIN busy[a]
  BY DEF Inv, BusySound, SoundBusy
<1>q. ASSUME UNCHANGED busy PROVE \A a \in Admins : Handled(a)
  BY <1>q DEF Handled
<1>s. ASSUME NEW a \in Admins, NEW b, busy' = [busy EXCEPT ![a] = b],
             b.step \notin {"rename_creds", "rename_keys"}, busy[a].step # "rename_keys"
      PROVE  \A d \in Admins : Handled(d)
  BY <1>b, <1>s DEF Handled
<1>h. ASSUME NEW a \in Admins, NEW b, busy' = [busy EXCEPT ![a] = b], Handled(a)
      PROVE  \A d \in Admins : Handled(d)
  <2> TAKE d \in Admins
  <2>1. CASE d = a
    BY <1>h, <2>1
  <2>2. CASE d # a
    <3>1. busy'[d] = busy[d]
      BY <1>b, <1>h, <2>2
    <3> QED
      BY <3>1 DEF Handled
  <2> QED
    BY <2>1, <2>2
<1>1. ASSUME NEW a \in Admins, Call(a) PROVE \A d \in Admins : Handled(d)
  <2>1. ASSUME NEW g, CreateKey(g) \/ CreateGroup(g) PROVE UNCHANGED busy
    BY <2>1 DEF CreateKey, CreateGroup
  <2>2. ASSUME NEW id \in DOMAIN keys, DeleteKey(id) \/ SetDisabled(id) \/ UpdateMeta(id)
        PROVE  UNCHANGED busy
    BY <2>2 DEF DeleteKey, SetDisabled, UpdateMeta, ChangeKey
  <2>3. ASSUME NEW id \in DOMAIN keys, RotateKey(a, id) PROVE \A d \in Admins : Handled(d)
    <3>1. PICK s : /\ busy[a] = Idle
                   /\ busy' = IF keys[id].system
                              THEN [busy EXCEPT ![a] =
                                      [step |-> "config_read", field |-> "api", value |-> s]]
                              ELSE busy
      BY <2>3 DEF RotateKey
    <3> QED
      BY <1>q, <1>s, <3>1, IdleIs
  <2>4. CASE UpdateAdminKey(a)
    BY <1>s, <2>4, IdleIs DEF UpdateAdminKey
  <2>5. ASSUME NEW g, NEW force, CheckDelete(a, g, force) PROVE \A d \in Admins : Handled(d)
    <3> DEFINE b == [step |-> IF force THEN "delete_creds" ELSE "delete_group", group |-> g]
    <3>1. busy[a] = Idle /\ busy' = [busy EXCEPT ![a] = b]
      BY <2>5 DEF CheckDelete
    <3>2. b.step \notin {"rename_creds", "rename_keys"}
      OBVIOUS
    <3> HIDE DEF b
    <3> QED
      BY <1>s, <3>1, <3>2, IdleIs
  <2>6. ASSUME NEW c, NEW gs, SetCredentialGroups(c, gs) PROVE UNCHANGED busy
    BY <2>6 DEF SetCredentialGroups
  <2>7. ASSUME NEW old \in Groups, NEW new \in Groups, RenameGroup(a, old, new)
        PROVE  \A d \in Admins : Handled(d)
    BY <1>h, <2>7 DEF RenameGroup, Handled
  <2> QED
    BY <1>1, <1>q, <2>1, <2>2, <2>3, <2>4, <2>5, <2>6, <2>7 DEF Call
<1>2. ASSUME NEW a \in Admins, ConfigRead(a) \/ ConfigWrite(a) \/ DeleteGroup(a)
      PROVE  \A d \in Admins : Handled(d)
  <2>1. PICK b : /\ busy' = [busy EXCEPT ![a] = b] /\ b.step \in {"config_write", "idle"}
                 /\ busy[a].step \in {"config_read", "config_write", "delete_group"}
    BY <1>2, IdleIs DEF ConfigRead, ConfigWrite, DeleteGroup
  <2> QED
    BY <1>s, <2>1
<1>3. ASSUME NEW a \in Admins, RenameCreds(a) PROVE \A d \in Admins : Handled(d)
  <2>1. \/ busy' = [busy EXCEPT ![a] = [busy[a] EXCEPT !.step = "rename_keys"]]
        \/ busy' = [busy EXCEPT ![a] = Idle]
    BY <1>3 DEF RenameCreds
  <2> QED
    BY <1>h, <1>3, <2>1 DEF Handled
<1>4. ASSUME NEW a \in Admins, RenameKeys(a) PROVE \A d \in Admins : Handled(d)
  BY <1>h, <1>4 DEF RenameKeys, Handled
<1>5. ASSUME NEW a \in Admins, DeleteCreds(a) \/ DeleteKeys(a)
      PROVE  \A d \in Admins : Handled(d)
  <2>1. /\ busy[a].step \in {"delete_creds", "delete_keys"}
        /\ \/ busy' = [busy EXCEPT ![a] = [busy[a] EXCEPT !.step = "delete_keys"]]
           \/ busy' = [busy EXCEPT ![a] = [busy[a] EXCEPT !.step = "delete_group"]]
           \/ busy' = [busy EXCEPT ![a] = Idle]
    BY <1>5 DEF DeleteCreds, DeleteKeys
  <2>2. /\ [busy[a] EXCEPT !.step = "delete_keys"].step = "delete_keys"
        /\ [busy[a] EXCEPT !.step = "delete_group"].step = "delete_group"
    BY <1>b
  <2> QED
    BY <1>s, <2>1, <2>2, IdleIs
<1>6. ASSUME NEW r \in Requests, RequestStep(r) PROVE UNCHANGED busy
  BY <1>6 DEF RequestStep, Verify, ReadGroup, Serve, Finish
<1>7. ASSUME Start \/ UNCHANGED vars PROVE UNCHANGED busy
  BY <1>7 DEF Start, vars
<1>8. ASSUME Crash PROVE \A a \in Admins : Handled(a)
  BY <1>8 DEF Handled
<1> QED
  BY <1>1, <1>2, <1>3, <1>4, <1>5, <1>6, <1>7, <1>8, <1>q DEF Next, Continue

LEMMA InitPaired == Init => Paired
BY DEF Init, Paired, PairedAt

LEMMA PairedNext == ASSUME Inv, Paired, [Next]_vars PROVE Paired'
<1>1. CASE UNCHANGED vars
  BY <1>1 DEF vars, keyring, stores, Paired, PairedAt, Bound
<1>2. ASSUME Watch, NEW a \in Admins
      PROVE  PairedAt(a)'
  <2>1. PairedAt(a)
    BY DEF Paired
  <2>2. CASE busy'[a] = busy[a]
    BY <1>2, <2>1, <2>2, PairedStays
  <2>3. CASE busy'[a].step \notin {"rename_creds", "rename_keys"}
    BY <2>3 DEF PairedAt
  <2>4. ASSUME NEW old, NEW new, RenameGroup(a, old, new) PROVE PairedAt(a)'
    BY <1>2, <2>4, PairedBegins
  <2>5. CASE RenameCreds(a)
    BY <1>2, <2>1, <2>5, PairedGoesOn
  <2>6. CASE RenameKeys(a) \/ Crash
    <3>1. busy'[a] = Idle
      BY <2>6 DEF RenameKeys, Crash, Inv, BusySound
    <3> QED
      BY <3>1, IdleIs DEF PairedAt
  <2>7. Handled(a)
    BY Steps
  <2> QED
    BY <2>2, <2>3, <2>4, <2>5, <2>6, <2>7 DEF Handled
<1>3. Watch \/ UNCHANGED vars
  BY DEF Next
<1> QED
  BY <1>1, <1>2, <1>3 DEF Paired

\* The last step of a renaming gives the keys the name that the accounts have.
LEMMA KeysFollow ==
  ASSUME Inv, NEW a \in Admins, PairedAt(a), RenameKeys(a), NEW p \in pairs[a]
  PROVE  group_matches(groups_of'[p[2]], keys'[p[1]].group)
<1> DEFINE old == busy[a].old
           new == busy[a].new
<1>1. /\ up /\ busy[a].step = "rename_keys" /\ UNCHANGED groups_of
      /\ keys' = KeysRenamed(keys, old, new)
  BY DEF RenameKeys, SaveKeys, stores
<1>2. Bound(p, old) /\ new \in groups_of[p[2]]
  BY <1>1 DEF PairedAt
<1> DEFINE k == keys[p[1]]
           n == [k EXCEPT !.group = new]
<1>3. "group" \in DOMAIN k
  BY <1>1, <1>2 DEF Bound, Inv, KeysSound, Sound, IsKey
<1>4. keys'[p[1]] = n
  BY <1>1, <1>2 DEF Bound, KeysRenamed
<1>5. n.group = new
  BY <1>3
<1> QED
  BY <1>1, <1>2, <1>4, <1>5 DEF group_matches

\* A renaming that gets to its end leaves every key of the old name the accounts
\* it could use, however many administrators rename, edit and delete at once,
\* except where one of them edited that key or account meanwhile.
THEOREM RenamingKeepsAccess == Spec => RenameKeepsAccess
<1>1. Init => Inv /\ Paired
  BY InitInv, InitPaired
<1>2. Inv /\ Paired /\ [Next]_vars => Inv' /\ Paired'
  BY NextInv, PairedNext
<1>3. ASSUME Inv, Paired, [Next]_vars, NEW a \in Admins,
             busy[a].step = "rename_keys", busy'[a] = Idle, up'
      PROVE  \A p \in pairs[a] : group_matches(groups_of'[p[2]], keys'[p[1]].group)
  <2>1. Handled(a) /\ PairedAt(a)
    BY <1>3, Steps DEF Paired
  <2>2. RenameKeys(a)
    BY <1>3, <2>1, IdleIs DEF Handled, RenameGroup, RenameCreds, Crash
  <2> QED
    BY <1>3, <2>1, <2>2, KeysFollow
<1>4. Inv /\ Paired /\ [Next]_vars =>
        [\A a \in Admins :
           (busy[a].step = "rename_keys" /\ busy'[a] = Idle /\ up')
             => \A p \in pairs[a] : group_matches(groups_of'[p[2]], keys'[p[1]].group)]_vars
  BY <1>3
<1> QED
  BY <1>1, <1>2, <1>4, PTL DEF Spec, RenameKeepsAccess

================================================================================
