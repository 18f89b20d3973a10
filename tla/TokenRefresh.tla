----------------------------- MODULE TokenRefresh -----------------------------
(***************************************************************************)
(* How MultiTokenManager (kiro/token_manager.rs) renews OAuth tokens: the  *)
(* requests, admin queries and forced refreshes that share refresh_lock,   *)
(* the authentication server, which may answer a refresh token with        *)
(* another one and then refuses the old, and the credentials file, which   *)
(* operators' edits, restarts and the Kiro IDE use at the same time.       *)
(*                                                                         *)
(* A task is one call of a function and runs once.  Of a credential there  *)
(* are its refresh token, its access token and one field an operator       *)
(* edits; tokens are numbered in the order the server issues them.  Which  *)
(* credential is selected is left to module CredentialPool, and adding and *)
(* deleting credentials is not modelled here.                              *)
(***************************************************************************)
EXTENDS Naturals, FiniteSets

CONSTANTS
  Ids,         \* the credentials
  Tasks,
  Kind,        \* what each task does, see Kinds
  Cred,        \* and to which credential
  Rotations,   \* whether an exchange may, or must, replace the refresh token
  Lifetimes,   \* whether an answer's access token may be, or is, expired: FALSE
               \* when the server gives no lifetime and the old one is over
  StartsFresh, \* whether the first access tokens may be, or are, good yet
  Events,      \* what happens besides, see below
  MaxEvents    \* bound on events of the environment

NoTask == "no task"

Kinds == {"request", "query", "force",              \* these refresh tokens
          "change", "replace"}                     \* these are the operator's

ASSUME TaskAssumption == /\ Kind \in [Tasks -> Kinds]
                         /\ Cred \in [Tasks -> Ids]
                         /\ NoTask \notin Tasks
ASSUME ServerAssumption == /\ Rotations \subseteq BOOLEAN /\ Lifetimes \subseteq BOOLEAN
                           /\ StartsFresh \subseteq BOOLEAN
ASSUME EventsAssumption ==
  /\ Events \subseteq {"expire", "ide", "restart",  \* counted by MaxEvents
                       "cancel", "error", "lost", "write error"}
  /\ MaxEvents \in Nat

VARIABLES
  entries,  \* the credentials in memory
  file,     \* what the credentials file holds when it is whole
  damage,   \* what is the matter with it: "none", "empty" or "garbled"
  lock,     \* refresh_lock: the task that holds it, or NoTask
  pc,
  seen,     \* the credential as the task last read or received it
  image,    \* the content the task is about to write to the file
  live,     \* the refresh token the server accepts
  issued,   \* the number of the last token the server issued
  aged,     \* the access tokens that are expired or about to be
  eventsLeft,
  torn      \* history: credentials of which a rotated token was lost, on its way
            \* to the file or with the file

task   == <<pc, seen, image, lock>>
server == <<live, issued, aged>>
disk   == <<file, damage>>
vars   == <<entries, disk, task, server, eventsLeft, torn>>

Credential == [rt : Nat, at : Nat, note : Nat, disabled : BOOLEAN]

PCs == {"idle", "lock", "exchange", "granted", "refused", "failed", "persist",
        "write", "writing", "reload", "compare", "adopt", "condemn", "ok", "err"}

\* is_token_expired or is_token_expiring_soon is false.
Fresh(c, k) == k.at \notin aged[c]

Goto(t, label) == pc' = [pc EXCEPT ![t] = label]

Release(t) == lock' = IF lock = t THEN NoTask ELSE lock

\* Token 0 is none at all; this is also what a local variable is set to when it
\* is used no more.
Nothing == [rt |-> 0, at |-> 0, note |-> 0, disabled |-> FALSE]

Init ==
  /\ entries = [c \in Ids |-> [rt |-> 1, at |-> 1, note |-> 0, disabled |-> FALSE]]
  /\ file = entries /\ damage = "none"
  /\ lock = NoTask
  /\ pc = [t \in Tasks |-> "idle"]
  /\ seen = [t \in Tasks |-> Nothing]
  /\ image = [t \in Tasks |-> [c \in Ids |-> Nothing]]
  /\ live = [c \in Ids |-> 1]
  /\ issued = [c \in Ids |-> 1]
  /\ aged \in [Ids -> {IF good THEN {0} ELSE {0, 1} : good \in StartsFresh}]
  /\ eventsLeft = MaxEvents
  /\ torn = {}

-----------------------------------------------------------------------------
(* try_ensure_token for a request; prepare_request_token and the like for  *)
(* a query; force_refresh_token_for.                                       *)

\* The first look, without the lock.
Begin(t) ==
  LET k == entries[Cred[t]] IN
  /\ pc[t] = "idle" /\ Kind[t] \in {"request", "query", "force"}
  /\ IF Kind[t] = "request" /\ k.disabled
     THEN Goto(t, "err") /\ UNCHANGED seen
     ELSE IF Kind[t] # "force" /\ Fresh(Cred[t], k)
     THEN Goto(t, "ok") /\ UNCHANGED seen
     ELSE Goto(t, "lock") /\ seen' = [seen EXCEPT ![t] = k]
  /\ UNCHANGED <<entries, disk, image, lock, server, eventsLeft, torn>>

\* Mutant: no second look.
AcquireLockOnce(t) ==
  /\ pc[t] = "lock" /\ lock = NoTask
  /\ lock' = t /\ Goto(t, "exchange")
  /\ UNCHANGED <<entries, disk, seen, image, server, eventsLeft, torn>>

\* The second look, with the lock.  A forced refresh takes none.
AcquireLock(t) ==
  LET k == entries[Cred[t]] IN
  /\ pc[t] = "lock" /\ lock = NoTask
  /\ IF Kind[t] = "force"
     THEN lock' = t /\ Goto(t, "exchange") /\ UNCHANGED seen
     ELSE IF Fresh(Cred[t], k)
     THEN Goto(t, "ok") /\ seen' = [seen EXCEPT ![t] = Nothing] /\ UNCHANGED lock
     ELSE lock' = t /\ Goto(t, "exchange") /\ seen' = [seen EXCEPT ![t] = k]
  /\ UNCHANGED <<entries, disk, image, server, eventsLeft, torn>>

\* refresh_social_token, refresh_idc_token and the server's side of them.
Grant(t) ==
  LET c == Cred[t]
      n == issued[c] + 1 IN
  /\ pc[t] = "exchange" /\ seen[t].rt = live[c]
  /\ issued' = [issued EXCEPT ![c] = n]
  /\ \E rotates \in Rotations, lives \in Lifetimes :
       /\ live' = [live EXCEPT ![c] = IF rotates THEN n ELSE @]
       /\ aged' = [aged EXCEPT ![c] = IF lives THEN @ ELSE @ \cup {n}]
       /\ seen' = [seen EXCEPT ![t].rt = live'[c], ![t].at = n]
  /\ Goto(t, "granted")
  /\ UNCHANGED <<entries, disk, image, lock, eventsLeft, torn>>

Refuse(t) ==
  /\ pc[t] = "exchange"
  /\ \/ seen[t].rt # live[Cred[t]] /\ Goto(t, "refused")
     \/ "error" \in Events /\ Goto(t, "failed")
  /\ UNCHANGED <<entries, disk, seen, image, lock, server, eventsLeft, torn>>

\* Mutant: the lock is given back before the file is written.
StoreThenUnlock(t) ==
  LET c == Cred[t] IN
  /\ pc[t] = "granted"
  /\ Kind[t] = "request" => Fresh(c, seen[t])
  /\ entries' = [entries EXCEPT ![c] = [seen[t] EXCEPT !.disabled = entries[c].disabled]]
  /\ Release(t)
  /\ Goto(t, "persist")
  /\ UNCHANGED <<disk, seen, image, server, eventsLeft, torn>>

\* The whole credential is replaced by the copy the exchange began with and its
\* new tokens; only `disabled` is the entry's own.
Store(t) ==
  LET c == Cred[t] IN
  /\ pc[t] = "granted"
  /\ Kind[t] = "request" => Fresh(c, seen[t])
  /\ entries' = [entries EXCEPT ![c] = [seen[t] EXCEPT !.disabled = entries[c].disabled]]
  /\ Goto(t, "persist")
  /\ UNCHANGED <<disk, seen, image, lock, server, eventsLeft, torn>>

\* The answer never arrives, or a request finds the new token expired already.
Discard(t) ==
  /\ pc[t] = "granted"
  /\ \/ "lost" \in Events
     \/ Kind[t] = "request" /\ ~Fresh(Cred[t], seen[t])
  /\ Goto(t, "failed")
  /\ torn' = torn \cup {Cred[t]}
  /\ UNCHANGED <<entries, disk, seen, image, lock, server, eventsLeft>>

\* Mutants: the lock is kept; a refused token is taken for dead at once.
FailRefreshLocked(t) ==
  /\ pc[t] \in {"refused", "failed"}
  /\ seen' = [seen EXCEPT ![t] = Nothing]
  /\ Goto(t, IF pc[t] = "refused" /\ Kind[t] = "request" THEN "reload" ELSE "err")
  /\ UNCHANGED <<entries, disk, image, lock, server, eventsLeft, torn>>

FailRefreshForGood(t) ==
  /\ pc[t] \in {"refused", "failed"}
  /\ Release(t)
  /\ seen' = [seen EXCEPT ![t] = Nothing]
  /\ Goto(t, IF pc[t] = "refused" /\ Kind[t] = "request" THEN "condemn" ELSE "err")
  /\ UNCHANGED <<entries, disk, image, server, eventsLeft, torn>>

FailRefresh(t) ==
  /\ pc[t] \in {"refused", "failed"}
  /\ Release(t)
  /\ seen' = [seen EXCEPT ![t] = Nothing]
  /\ Goto(t, IF pc[t] = "refused" /\ Kind[t] = "request" THEN "reload" ELSE "err")
  /\ UNCHANGED <<entries, disk, image, server, eventsLeft, torn>>

-----------------------------------------------------------------------------
(* persist_credentials, with the refresh lock or without.                  *)

Collect(t) ==
  /\ pc[t] = "persist"
  /\ image' = [image EXCEPT ![t] = entries]
  /\ Goto(t, "write")
  /\ UNCHANGED <<entries, disk, seen, lock, server, eventsLeft, torn>>

\* A refresh keeps the lock until here.  That the file could not be written is
\* only logged.
EndSave(t) ==
  /\ Release(t)
  /\ Goto(t, "ok")
  /\ seen' = [seen EXCEPT ![t] = Nothing]
  /\ image' = [image EXCEPT ![t] = [c \in Ids |-> Nothing]]

\* std::fs::write opens the file, which empties it,
Truncate(t) ==
  /\ pc[t] = "write"
  /\ \/ /\ damage' = "empty"
        /\ Goto(t, "writing")
        /\ UNCHANGED <<seen, image, lock, torn>>
     \/ /\ "write error" \in Events
        /\ EndSave(t)
        /\ torn' = torn \cup {Cred[t]}
        /\ UNCHANGED damage
  /\ UNCHANGED <<entries, file, server, eventsLeft>>

\* and then writes.  What another save has written meanwhile is overwritten from
\* the start, and the rest of it remains if it is longer.
Write(t) ==
  /\ pc[t] = "writing"
  /\ EndSave(t)
  /\ \/ file' = image[t] /\ damage' = "none" /\ UNCHANGED torn
     \/ /\ "write error" \in Events \/ damage # "empty"
        /\ damage' = "garbled" /\ torn' = Ids /\ UNCHANGED file
     \/ /\ "write error" \in Events
        /\ torn' = Ids /\ UNCHANGED disk
  /\ UNCHANGED <<entries, server, eventsLeft>>

-----------------------------------------------------------------------------
(* A request whose refresh token was refused: try_reload_credential_from_file *)
(* and report_refresh_token_invalid, without the lock.                     *)

\* A file that cannot be read, or not parsed, has nothing newer.
ReadFile(t) ==
  /\ pc[t] = "reload"
  /\ \/ /\ damage = "none"
        /\ seen' = [seen EXCEPT ![t] = file[Cred[t]]]
        /\ Goto(t, "compare")
     \/ /\ damage # "none"
        /\ Goto(t, "condemn")
        /\ UNCHANGED seen
  /\ UNCHANGED <<entries, disk, image, lock, server, eventsLeft, torn>>

Compare(t) ==
  /\ pc[t] = "compare"
  /\ Goto(t, IF seen[t].rt = entries[Cred[t]].rt THEN "condemn" ELSE "adopt")
  /\ UNCHANGED <<entries, disk, seen, image, lock, server, eventsLeft, torn>>

\* The selection begins anew.
Adopt(t) ==
  LET c == Cred[t] IN
  /\ pc[t] = "adopt"
  /\ entries' = [entries EXCEPT ![c].rt = seen[t].rt, ![c].at = seen[t].at,
                                ![c].disabled = FALSE]
  /\ seen' = [seen EXCEPT ![t] = Nothing]
  /\ Goto(t, "idle")
  /\ UNCHANGED <<disk, image, lock, server, eventsLeft, torn>>

Condemn(t) ==
  /\ pc[t] = "condemn"
  /\ entries' = [entries EXCEPT ![Cred[t]].disabled = TRUE]
  /\ Goto(t, "err")
  /\ UNCHANGED <<disk, seen, image, lock, server, eventsLeft, torn>>

-----------------------------------------------------------------------------
(* The operator, and what the server's other answers fill in.              *)

\* update_credential; also the profile ARN, the email and the subscription that
\* resolve_profile_arn_for and get_usage_limits_for fill in.
Edit(t) ==
  /\ pc[t] = "idle" /\ Kind[t] = "change"
  /\ entries' = [entries EXCEPT ![Cred[t]].note = @ + 1]
  /\ Goto(t, "persist")
  /\ UNCHANGED <<disk, seen, image, lock, server, eventsLeft, torn>>

SetDisabled(t) ==
  /\ pc[t] = "idle" /\ Kind[t] = "change"
  /\ \E disabled \in BOOLEAN :
       entries' = [entries EXCEPT ![Cred[t]].disabled = disabled]
  /\ Goto(t, "persist")
  /\ UNCHANGED <<disk, seen, image, lock, server, eventsLeft, torn>>

\* update_refresh_token, with a token of a new login and its access token or not.
ReplaceToken(t) ==
  LET c == Cred[t]
      n == issued[c] + 1 IN
  /\ pc[t] = "idle" /\ Kind[t] = "replace"
  /\ \/ /\ entries[c].disabled
        /\ issued' = [issued EXCEPT ![c] = n]
        /\ live' = [live EXCEPT ![c] = n]
        /\ \E at \in {0, n} :
             entries' = [entries EXCEPT ![c].rt = n, ![c].at = at]
        /\ Goto(t, "persist")
     \/ /\ ~entries[c].disabled
        /\ Goto(t, "err")
        /\ UNCHANGED <<entries, live, issued>>
  /\ UNCHANGED <<disk, seen, image, lock, aged, eventsLeft, torn>>

-----------------------------------------------------------------------------
(* The environment. *)

Event(e) == /\ e \in Events /\ eventsLeft > 0
            /\ eventsLeft' = eventsLeft - 1

\* What was issued earlier expires earlier.  A lifetime counts from the moment the
\* answer is read, and nothing awaits between that and Store.
Expire(c) ==
  /\ Event("expire")
  /\ \E n \in (1 .. issued[c]) \ aged[c] :
       /\ \A t \in Tasks : Cred[t] = c /\ pc[t] = "granted" => n < seen[t].at
       /\ aged' = [aged EXCEPT ![c] = @ \cup 0 .. n]
  /\ UNCHANGED <<entries, disk, task, live, issued, torn>>

\* The Kiro IDE renews the token it finds in the file.
IdeRotates(c) ==
  LET n == issued[c] + 1 IN
  /\ Event("ide") /\ damage = "none" /\ file[c].rt = live[c]
  /\ issued' = [issued EXCEPT ![c] = n]
  /\ live' = [live EXCEPT ![c] = n]
  /\ file' = [file EXCEPT ![c].rt = n, ![c].at = n]
  /\ UNCHANGED <<entries, damage, task, aged, torn>>

Saving == {"granted", "persist", "write", "writing"}

InFlight(c) == {t \in Tasks : Cred[t] = c /\ pc[t] \in Saving}

\* The program dies and CredentialsConfig::load reads what it left.  A death in
\* the middle of a write may leave a part.  An empty file is taken for one with no
\* credentials, and the start ends at one that cannot be parsed: either way none
\* of the credentials is there any more.
Restart ==
  /\ Event("restart")
  /\ damage' \in {damage} \cup
       IF \E t \in Tasks : pc[t] = "writing" THEN {"garbled"} ELSE {}
  /\ entries' = IF damage' = "none" THEN file ELSE [c \in Ids |-> Nothing]
  /\ lock' = NoTask
  /\ pc' = [t \in Tasks |-> IF pc[t] = "idle" /\ damage' = "none" THEN "idle" ELSE "err"]
  /\ torn' = IF damage' = "none" THEN torn \cup {c \in Ids : InFlight(c) # {}} ELSE Ids
  /\ UNCHANGED <<file, seen, image, server>>

\* The caller of a task that awaits the lock or the server goes away.
Cancel(t) ==
  /\ "cancel" \in Events
  /\ pc[t] \in {"lock", "exchange", "granted", "refused", "failed"}
  /\ Release(t)
  /\ Goto(t, "err")
  /\ torn' = IF pc[t] = "granted" THEN torn \cup {Cred[t]} ELSE torn
  /\ UNCHANGED <<entries, disk, seen, image, server, eventsLeft>>

-----------------------------------------------------------------------------
Step(t) ==
  \/ Begin(t) \/ AcquireLock(t) \/ Grant(t) \/ Refuse(t) \/ Store(t)
  \/ Discard(t) \/ FailRefresh(t) \/ Collect(t) \/ Truncate(t) \/ Write(t)
  \/ ReadFile(t) \/ Compare(t) \/ Adopt(t) \/ Condemn(t)
  \/ Edit(t) \/ SetDisabled(t) \/ ReplaceToken(t)

Finished == /\ \A t \in Tasks : pc[t] \in {"ok", "err"}
            /\ UNCHANGED vars

Next == \/ \E t \in Tasks : Step(t) \/ Cancel(t)
        \/ \E c \in Ids : Expire(c) \/ IdeRotates(c)
        \/ Restart
        \/ Finished

Spec == Init /\ [][Next]_vars

\* Tasks are scheduled and the HTTP client gives up after 60 seconds.
FairSpec == Spec /\ \A t \in Tasks : WF_vars(Step(t))

-----------------------------------------------------------------------------
(* Properties. *)

\* Types, and the lock is held exactly by the refresh that is between its second
\* look and the end of its write.
TypeOK ==
  /\ entries \in [Ids -> Credential] /\ file \in [Ids -> Credential]
  /\ damage \in {"none", "empty", "garbled"}
  /\ pc \in [Tasks -> PCs]
  /\ seen \in [Tasks -> Credential]
  /\ image \in [Tasks -> [Ids -> Credential]]
  /\ lock \in Tasks \cup {NoTask}
  /\ live \in [Ids -> Nat] /\ issued \in [Ids -> Nat]
  /\ aged \in [Ids -> SUBSET Nat]
  /\ eventsLeft \in Nat /\ torn \subseteq Ids
  /\ \A t \in Tasks :
       LET refreshing == \/ pc[t] \in {"exchange", "granted", "refused", "failed"}
                         \/ /\ pc[t] \in {"persist", "write", "writing"}
                            /\ Kind[t] \in {"request", "query", "force"}
       IN  lock = t <=> refreshing

\* However many tasks find a token expired, one of them renews it and the others
\* use what it got: the server never has two usable access tokens out, unless an
\* answer was lost on the way.
OneFreshToken ==
  \A c \in Ids \ torn : Cardinality((1 .. issued[c]) \ aged[c]) <= 1

\* A refresh token that the server has replaced is never presented again, which
\* would be refused and held against a healthy credential; unless the answer that
\* replaced it was lost on the way.
OldTokenNotPresented ==
  \A t \in Tasks :
    pc[t] = "exchange" /\ Cred[t] \notin torn => seen[t].rt = live[Cred[t]]

\* Once a refresh is over, memory and file hold the token the server accepts.  A
\* crash, a dropped task, a lost answer or a failed write costs the token of that
\* credential only if it came between the server's answer and the end of the
\* write.  But while any credential is saved the file holds none of them: a crash
\* or an error in the middle of the write costs the tokens of all.
TokenKept ==
  \A c \in Ids \ torn :
    InFlight(c) = {} =>
      /\ entries[c].rt = live[c]
      /\ \/ damage = "none" /\ file[c].rt = live[c]
         \/ \E t \in Tasks : pc[t] = "writing"

\* Who waits for the lock gets it, and every refresh ends.
EveryRefreshEnds ==
  \A t \in Tasks : pc[t] \in {"lock", "reload"} ~> pc[t] \in {"ok", "err"}
=============================================================================
