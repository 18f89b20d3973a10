----------------------------- MODULE ClientAccess -----------------------------
(* Client keys, account groups and what a request may use: client_keys.rs,    *)
(* groups.rs, the group and key handlers of admin/handlers.rs, the            *)
(* authentication of anthropic/middleware.rs, and the start-up that ties the  *)
(* stores together (main.rs).                                                 *)
(*                                                                            *)
(* Three stores, each with its own lock and file, refer to groups by name:    *)
(* the registry (groups), the keys (keys[id].group) and the credentials       *)
(* (groups_of[c]).  A handler that changes several of them does so one store  *)
(* after the other; requests, other handlers and crashes come in between.     *)
(* A save only warns when it fails: failures counts those.  Counters, names,  *)
(* descriptions and dates are left out.                                       *)
EXTENDS Naturals, FiniteSetsExt

CONSTANTS
    Admins,       \* administrators (browser tabs, scripts) that act at once
    Requests,     \* requests of clients
    Creds,        \* the credentials
    Groups,       \* the names of groups
    Secrets,      \* the plaintexts that may be generated: they begin with csk_
    Root,         \* the apiKey that config.json was created with
    Deployments,  \* the stores found at the first start: [keys, groups, groups_of]
    MaxId,        \* bound on the ids given out
    MaxCalls,     \* bound on the calls of the administrators
    MaxFailures,  \* bound on the saves that fail
    MaxRestarts   \* bound on the restarts

\* ClientKey, as far as the file must have it.
IsKey(k) == {"key", "group", "disabled", "system"} \subseteq DOMAIN k

\* No two keys have one plaintext.
Distinct(ks) == \A i, j \in DOMAIN ks : ks[i].key = ks[j].key => i = j

ASSUME RootAssumption == Root \notin Secrets
ASSUME DeploymentsAssumption ==
    /\ MaxId \in Nat
    /\ \A d \in Deployments : /\ DOMAIN d.keys \subseteq 0 .. MaxId
                              /\ \A i \in DOMAIN d.keys : IsKey(d.keys[i])
                              /\ Distinct(d.keys)

NoGroup == "none"
Gone == "deleted"

VARIABLES
    up,         \* the process runs
    keys,       \* Inner.entries: id -> [key, group, disabled, system]
    by_key,     \* Inner.by_key: plaintext -> id
    next_id,    \* Inner.next_id
    keys_file,  \* client_api_keys.json
    groups,     \* the registry, the names of GroupManager.entries
    groups_file,
    groups_of,  \* credential -> the names in its `groups`
    creds_file, \* credentials.json
    config,     \* config.json: [api, admin]
    issued,     \* the plaintexts generated so far
    busy,       \* administrator -> the handler it is in, or Idle
    reqs,       \* request -> [pc, id, group, via]
    seen,       \* request -> the groups its key had since it was verified
    pairs,      \* administrator -> the keys and accounts of the group it renames
    failures, restarts, calls

stores == <<groups, groups_file, groups_of, creds_file>>
keyring == <<keys, by_key, next_id, keys_file, issued>>
vars == <<up, keyring, stores, config, busy, reqs, seen, pairs, failures, restarts, calls>>

Idle == [step |-> "idle"]
NewRequest == [pc |-> "new", id |-> 0, group |-> NoGroup, via |-> {}]

(* ------------------------------ client keys ------------------------------- *)

\* save_locked, under the write lock of the change: the change stands even
\* when the file cannot be written.
SaveKeys(ks) ==
    /\ keys' = ks
    /\ \/ keys_file' = ks /\ UNCHANGED failures
       \/ failures < MaxFailures /\ failures' = failures + 1 /\ UNCHANGED keys_file

IndexOf(ks) == [s \in {ks[i].key : i \in DOMAIN ks} |-> CHOOSE i \in DOMAIN ks : ks[i].key = s]

Without(f, x) == [y \in DOMAIN f \ {x} |-> f[y]]
Insert(f, x, v) == [y \in DOMAIN f \cup {x} |-> IF y = x THEN v ELSE f[y]]

NewKey(secret, group, system) ==
    [key |-> secret, group |-> group, disabled |-> FALSE, system |-> system]

\* ensure_system_key: the key of config.json is a system key, with id 0 where
\* that id is free; a key imported under another id moves there.
ensure_system_key(ks, next, secret) ==
    LET ids == {i \in DOMAIN ks : ks[i].key = secret}
        id == CHOOSE i \in ids : TRUE
        free == IF 0 \notin DOMAIN ks THEN 0 ELSE next
    IN IF ids = {} THEN [keys |-> Insert(ks, free, NewKey(secret, NoGroup, TRUE)),
                         next |-> IF free = 0 THEN next ELSE next + 1]
       ELSE IF id /= 0 /\ 0 \notin DOMAIN ks
       THEN [keys |-> Insert(Without(ks, id), 0, [ks[id] EXCEPT !.system = TRUE]), next |-> next]
       ELSE [keys |-> [ks EXCEPT ![id].system = TRUE], next |-> next]

\* create / create_with_key: a generated plaintext is new.
CreateKey(g) ==
    /\ up /\ next_id <= MaxId
    /\ \E s \in Secrets \ issued :
         /\ by_key' = Insert(by_key, s, next_id)
         /\ SaveKeys(Insert(keys, next_id, NewKey(s, g, FALSE)))
         /\ issued' = issued \cup {s}
    /\ next_id' = next_id + 1
    /\ UNCHANGED <<up, stores, config, busy, reqs, restarts>>

\* delete: never a system key.
DeleteKey(id) ==
    /\ up /\ id \in DOMAIN keys /\ ~keys[id].system
    /\ by_key' = Without(by_key, keys[id].key)
    /\ SaveKeys(Without(keys, id))
    /\ UNCHANGED <<up, next_id, issued, stores, config, busy, reqs, restarts>>

\* Any change of one entry: set_disabled and update_meta.
ChangeKey(id, entry) ==
    /\ up
    /\ SaveKeys([keys EXCEPT ![id] = entry])
    /\ UNCHANGED <<up, by_key, next_id, issued, stores, config, busy, reqs, restarts>>

SetDisabled(id) == \E b \in BOOLEAN : ChangeKey(id, [keys[id] EXCEPT !.disabled = b])

\* update_meta: the name of the group is taken as it comes.
UpdateMeta(id) == \E g \in Groups \cup {NoGroup} : ChangeKey(id, [keys[id] EXCEPT !.group = g])

\* Mutant of Reindexed: the old plaintext still leads to the key.
OldPlaintextKept(index, old, secret, id) == Insert(index, secret, id)

\* rotate: the index forgets the old plaintext.
Reindexed(index, old, secret, id) == Insert(Without(index, old), secret, id)

\* rotate_client_key: a new plaintext under the same id; that of a system key
\* is then written to config.json (PersistRootRead, PersistWrite).
RotateKey(a, id) ==
    /\ up /\ busy[a] = Idle /\ id \in DOMAIN keys
    /\ \E s \in Secrets \ issued :
         /\ by_key' = Reindexed(by_key, keys[id].key, s, id)
         /\ SaveKeys([keys EXCEPT ![id].key = s])
         /\ issued' = issued \cup {s}
         /\ busy' = IF keys[id].system
                    THEN [busy EXCEPT ![a] = [step |-> "config_read", field |-> "api", value |-> s]]
                    ELSE busy
    /\ UNCHANGED <<up, next_id, stores, config, reqs, restarts>>

\* update_admin_key: the key of the panel, written to config.json as well.
UpdateAdminKey(a) ==
    /\ up /\ busy[a] = Idle
    /\ busy' = [busy EXCEPT ![a] = [step |-> "config_read", field |-> "admin", value |-> "new"]]
    /\ UNCHANGED <<up, keyring, stores, config, reqs, failures, restarts>>

\* update_config_file: the file is read, changed in one field and written back.
ConfigRead(a) ==
    /\ up /\ busy[a].step = "config_read"
    /\ busy' = [busy EXCEPT ![a] =
                  [step |-> "config_write", field |-> busy[a].field,
                   file |-> [config EXCEPT ![busy[a].field] = busy[a].value]]]
    /\ UNCHANGED <<up, keyring, stores, config, reqs, failures, restarts>>

ConfigWrite(a) ==
    /\ up /\ busy[a].step = "config_write"
    /\ \/ config' = busy[a].file /\ UNCHANGED failures
       \/ failures < MaxFailures /\ failures' = failures + 1 /\ UNCHANGED config
    /\ busy' = [busy EXCEPT ![a] = Idle]
    /\ UNCHANGED <<up, keyring, stores, reqs, restarts>>

(* -------------------------------- groups ---------------------------------- *)

SaveGroups(gs) ==
    /\ groups' = gs
    /\ \/ groups_file' = gs /\ UNCHANGED failures
       \/ failures < MaxFailures /\ failures' = failures + 1 /\ UNCHANGED groups_file

CreateGroup(g) ==
    /\ up /\ g \notin groups
    /\ SaveGroups(groups \cup {g})
    /\ UNCHANGED <<up, keyring, groups_of, creds_file, config, busy, reqs, restarts>>

\* update_credential: the names of the groups are taken as they come, the file
\* is written and an error is returned when that fails.
SetCredentialGroups(c, gs) ==
    /\ up /\ groups_of[c] /= gs
    /\ groups_of' = [groups_of EXCEPT ![c] = gs]
    /\ \/ creds_file' = groups_of' /\ UNCHANGED failures
       \/ failures < MaxFailures /\ failures' = failures + 1 /\ UNCHANGED creds_file
    /\ UNCHANGED <<up, keyring, groups, groups_file, config, busy, reqs, restarts>>

\* update_group, 1: the registry takes the new name, if it is free.
RenameGroup(a, old, new) ==
    /\ up /\ busy[a] = Idle
    /\ old \in groups /\ new \notin groups
    /\ SaveGroups((groups \ {old}) \cup {new})
    /\ busy' = [busy EXCEPT ![a] = [step |-> "rename_creds", old |-> old, new |-> new]]
    /\ UNCHANGED <<up, keyring, groups_of, creds_file, config, reqs, restarts>>

Renamed(gs, old, new) == IF old \in gs THEN (gs \ {old}) \cup {new} ELSE gs

\* rename_credential_group, and the rollback of the handler: when the file of
\* the credentials cannot be written the registry gets the old name back, the
\* credentials keep the new one and the keys are not touched.
RenameCreds(a) ==
    /\ up /\ busy[a].step = "rename_creds"
    /\ LET old == busy[a].old
           new == busy[a].new
           hit == \E c \in Creds : old \in groups_of[c]
       IN /\ groups_of' = [c \in Creds |-> Renamed(groups_of[c], old, new)]
          /\ \/ /\ creds_file' = IF hit THEN groups_of' ELSE creds_file
                /\ busy' = [busy EXCEPT ![a].step = "rename_keys"]
                /\ UNCHANGED <<groups, groups_file, failures>>
             \/ /\ hit /\ failures < MaxFailures /\ failures' = failures + 1
                /\ busy' = [busy EXCEPT ![a] = Idle]
                /\ LET back == IF new \in groups /\ old \notin groups
                               THEN (groups \ {new}) \cup {old} ELSE groups
                   IN groups' = back /\ groups_file' = back
                /\ UNCHANGED creds_file
    /\ UNCHANGED <<up, keyring, config, reqs, restarts>>

\* Mutant of KeysRenamed: a disabled key keeps the old name.
ActiveKeysRenamed(ks, old, new) ==
    [i \in DOMAIN ks |-> IF ks[i].group = old /\ ~ks[i].disabled
                         THEN [ks[i] EXCEPT !.group = new] ELSE ks[i]]

\* ClientKeyManager::rename_group, and clear_group with no new name.
KeysRenamed(ks, old, new) ==
    [i \in DOMAIN ks |-> IF ks[i].group = old THEN [ks[i] EXCEPT !.group = new] ELSE ks[i]]

RenameKeys(a) ==
    /\ up /\ busy[a].step = "rename_keys"
    /\ LET ks == KeysRenamed(keys, busy[a].old, busy[a].new)
       IN IF ks = keys THEN UNCHANGED <<keys, keys_file, failures>> ELSE SaveKeys(ks)
    /\ busy' = [busy EXCEPT ![a] = Idle]
    /\ UNCHANGED <<up, by_key, next_id, issued, stores, config, reqs, restarts>>

\* delete_group: refused while somebody refers to the group, unless forced.
CheckDelete(a, g, force) ==
    /\ up /\ busy[a] = Idle /\ g \in groups
    /\ LET used == (\E c \in Creds : g \in groups_of[c]) \/ (\E i \in DOMAIN keys : keys[i].group = g)
       IN force \/ ~used
    /\ busy' = [busy EXCEPT ![a] =
                  [step |-> IF force THEN "delete_creds" ELSE "delete_group", group |-> g]]
    /\ UNCHANGED <<up, keyring, stores, config, reqs, failures, restarts>>

\* remove_credential_group: an error leaves the handler.
DeleteCreds(a) ==
    /\ up /\ busy[a].step = "delete_creds"
    /\ groups_of' = [c \in Creds |-> groups_of[c] \ {busy[a].group}]
    /\ \/ /\ creds_file' = IF groups_of' = groups_of THEN creds_file ELSE groups_of'
          /\ busy' = [busy EXCEPT ![a].step = "delete_keys"]
          /\ UNCHANGED failures
       \/ /\ groups_of' /= groups_of /\ failures < MaxFailures /\ failures' = failures + 1
          /\ busy' = [busy EXCEPT ![a] = Idle]
          /\ UNCHANGED creds_file
    /\ UNCHANGED <<up, keyring, groups, groups_file, config, reqs, restarts>>

DeleteKeys(a) ==
    /\ up /\ busy[a].step = "delete_keys"
    /\ LET ks == KeysRenamed(keys, busy[a].group, NoGroup)
       IN IF ks = keys THEN UNCHANGED <<keys, keys_file, failures>> ELSE SaveKeys(ks)
    /\ busy' = [busy EXCEPT ![a].step = "delete_group"]
    /\ UNCHANGED <<up, by_key, next_id, issued, stores, config, reqs, restarts>>

DeleteGroup(a) ==
    /\ up /\ busy[a].step = "delete_group"
    /\ IF busy[a].group \in groups THEN SaveGroups(groups \ {busy[a].group})
       ELSE UNCHANGED <<groups, groups_file, failures>>
    /\ busy' = [busy EXCEPT ![a] = Idle]
    /\ UNCHANGED <<up, keyring, groups_of, creds_file, config, reqs, restarts>>

(* -------------------------------- requests -------------------------------- *)

\* verify_and_touch: the active key with this plaintext, of those presented
\* with the prefix of generated keys.
Verified(secret) ==
    IF secret \notin Secrets THEN {}
    ELSE {i \in DOMAIN keys : ~keys[i].disabled /\ keys[i].key = secret}

\* auth_middleware: the key is verified under one lock ...
Verify(r) ==
    /\ up /\ reqs[r].pc = "new"
    /\ \E s \in Secrets : \E id \in Verified(s) :
         reqs' = [reqs EXCEPT ![r].pc = "verified", ![r].id = id]
    /\ UNCHANGED <<up, keyring, stores, config, busy, failures, restarts>>

\* Mutant of GroupOf: the group of a disabled key is not found.
GroupOfActive(id) == IF id \in DOMAIN keys /\ ~keys[id].disabled THEN keys[id].group ELSE NoGroup

\* group_of: no key, no group.
GroupOf(id) == IF id \in DOMAIN keys THEN keys[id].group ELSE NoGroup

\* ... and its group is read under another; together they are the KeyContext.
ReadGroup(r) ==
    /\ up /\ reqs[r].pc = "verified"
    /\ reqs' = [reqs EXCEPT ![r].pc = "admitted", ![r].group = GroupOf(reqs[r].id)]
    /\ UNCHANGED <<up, keyring, stores, config, busy, failures, restarts>>

\* group_matches, where a credential is chosen for the request.
group_matches(gs, group) == group = NoGroup \/ group \in gs

Serve(r) ==
    /\ up /\ reqs[r].pc = "admitted"
    /\ \E c \in Creds : /\ group_matches(groups_of[c], reqs[r].group)
                        /\ reqs' = [reqs EXCEPT ![r].pc = "served", ![r].via = groups_of[c]]
    /\ UNCHANGED <<up, keyring, stores, config, busy, failures, restarts>>

\* record_usage saves the keys again; the request is over, answered or not.
Finish(r) ==
    /\ up /\ reqs[r].pc \in {"admitted", "served"}
    /\ SaveKeys(keys)
    /\ reqs' = [reqs EXCEPT ![r] = NewRequest]
    /\ UNCHANGED <<up, by_key, next_id, issued, stores, config, busy, restarts>>

(* -------------------------- crash and start-up ---------------------------- *)

Crash ==
    /\ up /\ restarts < MaxRestarts
    /\ up' = FALSE
    /\ busy' = [a \in Admins |-> Idle]
    /\ reqs' = [r \in Requests |-> NewRequest]
    /\ restarts' = restarts + 1
    /\ UNCHANGED <<keyring, stores, config, failures>>

Used(ks, cs) == (UNION {cs[c] : c \in Creds}) \cup ({ks[i].group : i \in DOMAIN ks} \ {NoGroup})

\* main: the stores are loaded, the names in use registered
\* (bootstrap_from_existing), and the key of config.json made a system key.
Start ==
    /\ ~up
    /\ up' = TRUE
    /\ LET sys == ensure_system_key(keys_file, Max(DOMAIN keys_file \cup {0}) + 1, config.api)
       IN /\ keys' = sys.keys /\ keys_file' = sys.keys
          /\ by_key' = IndexOf(sys.keys)
          /\ next_id' = sys.next
    /\ groups_of' = creds_file
    /\ groups' = groups_file \cup Used(keys_file, creds_file)
    /\ groups_file' = groups'
    /\ UNCHANGED <<creds_file, config, issued, busy, reqs, failures, restarts>>

Init ==
    /\ \E d \in Deployments :
         /\ keys = d.keys /\ keys_file = d.keys
         /\ groups = d.groups /\ groups_file = d.groups
         /\ groups_of = d.groups_of /\ creds_file = d.groups_of
         /\ issued = {d.keys[i].key : i \in DOMAIN d.keys} \ {Root}
    /\ up = FALSE
    /\ by_key = IndexOf(keys)
    /\ next_id = 1
    /\ config = [api |-> Root, admin |-> "old"]
    /\ busy = [a \in Admins |-> Idle]
    /\ reqs = [r \in Requests |-> NewRequest]
    /\ seen = [r \in Requests |-> {}]
    /\ pairs = [a \in Admins |-> {}]
    /\ failures = 0 /\ restarts = 0 /\ calls = 0

\* What an administrator may call, and the steps of a call under way.
Call(a) ==
    \/ \E g \in Groups \cup {NoGroup} : CreateKey(g)
    \/ \E id \in DOMAIN keys : DeleteKey(id) \/ SetDisabled(id) \/ UpdateMeta(id) \/ RotateKey(a, id)
    \/ UpdateAdminKey(a)
    \/ \E g \in Groups : CreateGroup(g) \/ \E force \in BOOLEAN : CheckDelete(a, g, force)
    \/ \E c \in Creds, gs \in SUBSET Groups : SetCredentialGroups(c, gs)
    \/ \E old, new \in Groups : RenameGroup(a, old, new)

Continue(a) ==
    \/ ConfigRead(a) \/ ConfigWrite(a)
    \/ RenameCreds(a) \/ RenameKeys(a) \/ DeleteCreds(a) \/ DeleteKeys(a) \/ DeleteGroup(a)

RequestStep(r) == Verify(r) \/ ReadGroup(r) \/ Serve(r) \/ Finish(r)

\* For the properties: seen, and the pairs that use the group a renaming began
\* with, less those that somebody edits meanwhile.
Watch ==
    /\ seen' = [r \in Requests |->
          LET id == reqs'[r].id
          IN IF reqs'[r].pc = "new" THEN {}
             ELSE seen[r] \cup {IF id \in DOMAIN keys' THEN keys'[id].group ELSE Gone}]
    /\ pairs' = [a \in Admins |->
          CASE busy'[a].step = "rename_creds" /\ busy[a] = Idle ->
                 {p \in (DOMAIN keys) \X Creds :
                    keys[p[1]].group = busy'[a].old /\ busy'[a].old \in groups_of[p[2]]}
            [] busy'[a] = Idle -> {}
            [] busy'[a] /= Idle /\ busy[a] /= Idle /\ busy'[a] /= busy[a] -> pairs[a]
            [] OTHER -> {p \in pairs[a] : /\ groups_of'[p[2]] = groups_of[p[2]]
                                          /\ p[1] \in DOMAIN keys'
                                          /\ keys'[p[1]].group = keys[p[1]].group}]

Next ==
    /\ \/ calls < MaxCalls /\ calls' = calls + 1 /\ \E a \in Admins : Call(a)
       \/ UNCHANGED calls /\ \/ \E a \in Admins : Continue(a)
                             \/ \E r \in Requests : RequestStep(r)
                             \/ Crash
                             \/ Start
    /\ Watch

Spec == Init /\ [][Next]_vars

(* ------------------------------ properties -------------------------------- *)

\* The index is exact after any sequence of creating, rotating and deleting
\* keys, of restarts and of the move of the system key to id 0: a plaintext
\* leads to the one key that has it, which create_with_key and
\* ensure_system_key rely on ("by_key and entries agree").
ByKeyExact == up => Distinct(keys) /\ by_key = IndexOf(keys)

\* A request with a bound key is served by an account of its group, however the
\* keys and groups are edited while it is on its way: the account has a group
\* the key was bound to since it was verified, unless the key was unbound or
\* deleted in that time.
ServedWithinGroup ==
    \A r \in Requests :
        (reqs[r].pc = "served" /\ seen[r] \cap {NoGroup, Gone} = {})
          => reqs[r].via \cap seen[r] /= {}

\* A group keeps its accounts through a renaming: when the handler is done,
\* every key that was bound to the old name may use every account it could use,
\* whatever requests did meanwhile and except where somebody edited the key or
\* the account.
RenameKeepsAccess ==
    [][\A a \in Admins :
         (busy[a].step = "rename_keys" /\ busy'[a] = Idle /\ up')
           => \A p \in pairs[a] : group_matches(groups_of'[p[2]], keys'[p[1]].group)]_vars

\* Expected by main.rs:251-252 and README.md:177: the apiKey of config.json is
\* always usable for requests.
RootKeyWorks ==
    (up /\ \A a \in Admins : busy[a] = Idle)
      => \A i \in DOMAIN keys :
            (keys[i].key = config.api /\ ~keys[i].disabled) => Verified(config.api) = {i}

\* Expected by handlers.rs:1052: a plaintext that was rotated away is dead.  It
\* is generated (issued) and no key's any more.
RotatedStaysDead ==
    [][\A s \in issued : (~\E i \in DOMAIN keys : keys[i].key = s)
                         => Verified(s)' = {}]_vars

\* Expected by handlers.rs:1540: a renaming that fails is rolled back.  When
\* nobody is busy, no credential refers to a name that is not registered.
RollbackComplete ==
    (up /\ \A a \in Admins : busy[a] = Idle) => UNION {groups_of[c] : c \in Creds} \subseteq groups

\* Expected by groups.rs:6: the groups of a key are checked when it is written.
KeyGroupsRegistered ==
    [][\A i \in DOMAIN keys' :
         (up /\ i \notin DOMAIN keys) => keys'[i].group \in groups \cup {NoGroup}]_vars

\* Expected by service.rs:1208: settings written at the same time do not
\* overwrite each other's fields.
SettingsKept ==
    [][\A f \in {"api", "admin"} :
         config'[f] /= config[f]
           => \E a \in Admins : busy[a].step = "config_write" /\ busy[a].field = f]_vars

\* Expected by middleware.rs:28: no group in the context of a request means that
\* its key was not bound.
NoGroupMeansUnbound ==
    \A r \in Requests :
        (reqs[r].pc = "admitted" /\ reqs[r].group = NoGroup) => NoGroup \in seen[r]

==============================================================================
