-------------------------- MODULE TokenRefresh_proofs --------------------------
(***************************************************************************)
(* Proofs about TokenRefresh for every set of credentials and tasks: its   *)
(* types and lock; that no refresh token is used twice and no two fresh    *)
(* access tokens are about, where nobody but the lock's holders changes    *)
(* tokens; and that the file then keeps the token the server accepts.      *)
(***************************************************************************)
EXTENDS TokenRefresh, FiniteSetTheorems, TLAPS

Renewers == {"request", "query", "force"}

\* Only a task that refreshes is ever in a step of a refresh, and only a request
\* recovers from a refused token.
WellPlaced ==
  \A t \in Tasks :
    /\ pc[t] \in {"lock", "exchange", "granted", "refused", "failed"}
         => Kind[t] \in Renewers
    /\ pc[t] \in {"reload", "compare", "adopt", "condemn"} => Kind[t] = "request"

Inv == TypeOK /\ WellPlaced

Refreshing(t) == \/ pc[t] \in {"exchange", "granted", "refused", "failed"}
                 \/ /\ pc[t] \in {"persist", "write", "writing"}
                    /\ Kind[t] \in Renewers

\* The types of everything that is not about where tasks are.
Typed ==
  /\ entries \in [Ids -> Credential] /\ file \in [Ids -> Credential]
  /\ damage \in {"none", "empty", "garbled"}
  /\ seen \in [Tasks -> Credential]
  /\ image \in [Tasks -> [Ids -> Credential]]
  /\ live \in [Ids -> Nat] /\ issued \in [Ids -> Nat]
  /\ aged \in [Ids -> SUBSET Nat]
  /\ eventsLeft \in Nat /\ torn \subseteq Ids

\* Where tasks are, and who holds the lock.
Placed ==
  /\ pc \in [Tasks -> PCs]
  /\ lock \in Tasks \cup {NoTask}
  /\ \A t \in Tasks : lock = t <=> Refreshing(t)
  /\ WellPlaced

LEMMA InvSplit == Inv <=> Typed /\ Placed
BY DEF Inv, TypeOK, Typed, Placed, Refreshing, Renewers

-----------------------------------------------------------------------------
(* Types. *)

LEMMA CredentialParts ==
  ASSUME NEW k \in Credential, NEW n \in Nat, NEW b \in BOOLEAN
  PROVE  /\ k.rt \in Nat /\ k.at \in Nat /\ k.note \in Nat /\ k.disabled \in BOOLEAN
         /\ [k EXCEPT !.rt = n] \in Credential
         /\ [k EXCEPT !.at = n] \in Credential
         /\ [k EXCEPT !.note = n] \in Credential
         /\ [k EXCEPT !.disabled = b] \in Credential
BY DEF Credential

LEMMA TwoEdits ==
  ASSUME NEW S, NEW T, NEW f \in [S -> T], NEW s \in S, NEW x, NEW y
  PROVE  [f EXCEPT ![s].rt = x, ![s].at = y]
           = [f EXCEPT ![s] = [[f[s] EXCEPT !.rt = x] EXCEPT !.at = y]]
OBVIOUS

LEMMA NothingTyped == Nothing \in Credential
BY DEF Nothing, Credential

LEMMA InitInv == Init => Inv
<1> SUFFICES ASSUME Init PROVE Typed /\ Placed
  BY InvSplit
<1>1. Typed
  <2>1. entries \in [Ids -> Credential]
    BY DEF Init, Credential
  <2>2. aged \in [Ids -> SUBSET Nat]
    <3> DEFINE Choices == {IF good THEN {0} ELSE {0, 1} : good \in StartsFresh}
    <3>1. Choices \subseteq SUBSET Nat
      OBVIOUS
    <3>2. aged \in [Ids -> Choices]
      BY DEF Init
    <3> HIDE DEF Choices
    <3> QED
      BY <3>1, <3>2
  <2> QED
    BY <2>1, <2>2, NothingTyped, EventsAssumption DEF Init, Typed
<1>2. Placed
  BY TaskAssumption DEF Init, Placed, WellPlaced, Refreshing, PCs
<1> QED
  BY <1>1, <1>2

LEMMA StepTyped ==
  ASSUME Inv, NEW t \in Tasks, Step(t)
  PROVE  Typed'
<1> USE NothingTyped DEF Typed, disk
<1>0. Typed /\ Cred[t] \in Ids
  BY InvSplit, TaskAssumption
<1> DEFINE c == Cred[t]
           n == issued[c] + 1
<1>c. entries[c] \in Credential /\ file[c] \in Credential /\ seen[t] \in Credential
      /\ n \in Nat
  BY <1>0
<1> HIDE DEF c, n
<1>h. c \in Ids
  BY <1>0 DEF c
<1>1. CASE Begin(t)
  BY <1>0, <1>c, <1>1 DEF Begin, server, c
<1>2. CASE AcquireLock(t)
  BY <1>0, <1>c, <1>2 DEF AcquireLock, server, c
<1>3. CASE Grant(t)
  <2>2. PICK rotates \in Rotations, lives \in Lifetimes :
          /\ live' = [live EXCEPT ![c] = IF rotates THEN n ELSE @]
          /\ aged' = [aged EXCEPT ![c] = IF lives THEN @ ELSE @ \cup {n}]
          /\ seen' = [seen EXCEPT ![t].rt = live'[c], ![t].at = n]
    BY <1>3 DEF Grant, c, n
  <2>3. live' \in [Ids -> Nat]
    BY <1>0, <1>c, <2>2
  <2>4. aged' \in [Ids -> SUBSET Nat]
    <3>1. aged[c] \cup {n} \in SUBSET Nat
      BY <1>0, <1>c, <1>h
    <3> QED
      BY <1>0, <2>2, <3>1
  <2>5. seen' \in [Tasks -> Credential]
    <3> DEFINE k == [seen[t] EXCEPT !.rt = live'[c]]
               l == [k EXCEPT !.at = n]
    <3>1. k \in Credential
      BY <1>c, <1>h, <2>3, CredentialParts
    <3>2. l \in Credential
      BY <1>c, <3>1, CredentialParts
    <3>3. seen' = [seen EXCEPT ![t] = l]
      <4> DEFINE x == live'[c]
      <4>1. seen' = [seen EXCEPT ![t].rt = x, ![t].at = n]
        BY <2>2
      <4> HIDE DEF x
      <4>2. seen' = [seen EXCEPT ![t] = [[seen[t] EXCEPT !.rt = x] EXCEPT !.at = n]]
        BY <1>0, <4>1, TwoEdits
      <4> QED
        BY <4>2 DEF x
    <3> QED
      BY <1>0, <3>2, <3>3
  <2>6. issued' \in [Ids -> Nat]
    BY <1>0, <1>c, <1>3 DEF Grant, c, n
  <2>7. UNCHANGED <<entries, disk, image, eventsLeft, torn>>
    BY <1>3 DEF Grant
  <2> QED
    BY <1>0, <2>3, <2>4, <2>5, <2>6, <2>7
<1>4. CASE Refuse(t)
  BY <1>0, <1>4 DEF Refuse, server
<1>5. CASE Store(t)
  <2>1. [seen[t] EXCEPT !.disabled = entries[c].disabled] \in Credential
    BY <1>c, CredentialParts
  <2>2. entries' \in [Ids -> Credential]
    BY <1>0, <1>5, <2>1 DEF Store, c
  <2> QED
    BY <1>0, <1>5, <2>2 DEF Store, server
<1>6. CASE Discard(t)
  BY <1>0, <1>6 DEF Discard, server
<1>7. CASE FailRefresh(t)
  BY <1>0, <1>7 DEF FailRefresh, server
<1>8. CASE Collect(t)
  BY <1>0, <1>8 DEF Collect, server
<1>9. CASE Truncate(t)
  <2>1. [d \in Ids |-> Nothing] \in [Ids -> Credential]
    OBVIOUS
  <2> QED
    BY <1>0, <1>h, <1>9, <2>1 DEF Truncate, EndSave, server, c
<1>17. CASE Write(t)
  <2>1. [d \in Ids |-> Nothing] \in [Ids -> Credential]
    OBVIOUS
  <2>2. image' \in [Tasks -> [Ids -> Credential]] /\ seen' \in [Tasks -> Credential]
    BY <1>0, <1>17, <2>1 DEF Write, EndSave
  <2>3. file' \in [Ids -> Credential] /\ damage' \in {"none", "empty", "garbled"}
        /\ torn' \subseteq Ids
    BY <1>0, <1>17 DEF Write
  <2> QED
    BY <1>0, <1>17, <2>2, <2>3 DEF Write, server
<1>10. CASE ReadFile(t)
  BY <1>0, <1>c, <1>10 DEF ReadFile, server, c
<1>11. CASE Compare(t)
  BY <1>0, <1>11 DEF Compare, server
<1>12. CASE Adopt(t)
  <2> DEFINE k == [entries[c] EXCEPT !.rt = seen[t].rt]
             l == [k EXCEPT !.at = seen[t].at]
             m == [l EXCEPT !.disabled = FALSE]
  <2>1. m \in Credential
    <3>1. seen[t].rt \in Nat /\ seen[t].at \in Nat
      BY <1>c, CredentialParts
    <3>2. k \in Credential
      BY <1>c, <3>1, CredentialParts
    <3>3. l \in Credential
      BY <3>1, <3>2, CredentialParts
    <3> QED
      BY <3>3, CredentialParts
  <2>2. entries' = [entries EXCEPT ![c] = m]
    BY <1>0, <1>12 DEF Adopt, c
  <2>3. entries' \in [Ids -> Credential]
    BY <1>0, <2>1, <2>2
  <2> QED
    BY <1>0, <1>12, <2>3 DEF Adopt, server
<1>13. CASE Condemn(t)
  <2>1. [entries[c] EXCEPT !.disabled = TRUE] \in Credential
    BY <1>c, CredentialParts
  <2>2. entries' \in [Ids -> Credential]
    BY <1>0, <1>13, <2>1 DEF Condemn, c
  <2> QED
    BY <1>0, <1>13, <2>2 DEF Condemn, server
<1>14. CASE Edit(t)
  <2>1. entries[c].note + 1 \in Nat
    BY <1>c DEF Credential
  <2>2. [entries[c] EXCEPT !.note = entries[c].note + 1] \in Credential
    BY <1>c, <2>1, CredentialParts
  <2>3. entries' \in [Ids -> Credential]
    BY <1>0, <1>14, <2>2 DEF Edit, c
  <2> QED
    BY <1>0, <1>14, <2>3 DEF Edit, server
<1>15. CASE SetDisabled(t)
  <2>1. PICK disabled \in BOOLEAN :
          entries' = [entries EXCEPT ![c].disabled = disabled]
    BY <1>15 DEF SetDisabled, c
  <2>2. [entries[c] EXCEPT !.disabled = disabled] \in Credential
    BY <1>c, CredentialParts
  <2>3. entries' \in [Ids -> Credential]
    BY <1>0, <2>1, <2>2
  <2> QED
    BY <1>0, <1>15, <2>3 DEF SetDisabled, server
<1>16. CASE ReplaceToken(t)
  <2>1. CASE UNCHANGED <<entries, live, issued>>
    BY <1>0, <1>16, <2>1 DEF ReplaceToken
  <2>2. CASE /\ issued' = [issued EXCEPT ![c] = n]
             /\ live' = [live EXCEPT ![c] = n]
             /\ \E at \in {0, n} :
                  entries' = [entries EXCEPT ![c].rt = n, ![c].at = at]
    <3>1. issued' \in [Ids -> Nat] /\ live' \in [Ids -> Nat]
      BY <1>0, <1>c, <2>2
    <3>2. PICK at \in {0, n} : entries' = [entries EXCEPT ![c].rt = n, ![c].at = at]
      BY <2>2
    <3> DEFINE k == [entries[c] EXCEPT !.rt = n]
               l == [k EXCEPT !.at = at]
    <3>3. k \in Credential
      BY <1>c, CredentialParts
    <3>4. l \in Credential
      BY <1>c, <3>3, CredentialParts
    <3>5. entries' = [entries EXCEPT ![c] = l]
      BY <1>0, <1>h, <3>2
    <3>6. entries' \in [Ids -> Credential]
      BY <1>0, <3>4, <3>5
    <3> QED
      BY <1>0, <1>16, <3>1, <3>6 DEF ReplaceToken
  <2> QED
    BY <1>16, <2>1, <2>2 DEF ReplaceToken, c, n
<1> QED
  BY <1>1, <1>2, <1>3, <1>4, <1>5, <1>6, <1>7, <1>8, <1>9, <1>10, <1>11,
     <1>12, <1>13, <1>14, <1>15, <1>16, <1>17 DEF Step

LEMMA StepPlaced ==
  ASSUME Inv, NEW t \in Tasks, Step(t)
  PROVE  Placed'
<1> USE TaskAssumption DEF Placed, WellPlaced, Refreshing, Renewers, PCs, Goto
<1>0. Placed
  BY InvSplit
<1>1. CASE Begin(t)
  BY <1>0, <1>1 DEF Begin
<1>2. CASE AcquireLock(t)
  BY <1>0, <1>2 DEF AcquireLock
<1>3. CASE Grant(t)
  BY <1>0, <1>3 DEF Grant
<1>4. CASE Refuse(t)
  BY <1>0, <1>4 DEF Refuse
<1>5. CASE Store(t)
  BY <1>0, <1>5 DEF Store
<1>6. CASE Discard(t)
  BY <1>0, <1>6 DEF Discard
<1>7. CASE FailRefresh(t)
  BY <1>0, <1>7 DEF FailRefresh, Release
<1>8. CASE Collect(t)
  BY <1>0, <1>8 DEF Collect
<1>9. CASE Truncate(t)
  <2>1. CASE Goto(t, "writing") /\ UNCHANGED lock
    BY <1>0, <1>9, <2>1 DEF Truncate
  <2>2. CASE EndSave(t)
    BY <1>0, <1>9, <2>2 DEF Truncate, EndSave, Release
  <2> QED
    BY <1>9, <2>1, <2>2 DEF Truncate
<1>17. CASE Write(t)
  BY <1>0, <1>17 DEF Write, EndSave, Release
<1>10. CASE ReadFile(t)
  BY <1>0, <1>10 DEF ReadFile
<1>11. CASE Compare(t)
  BY <1>0, <1>11 DEF Compare
<1>12. CASE Adopt(t)
  BY <1>0, <1>12 DEF Adopt
<1>13. CASE Condemn(t)
  BY <1>0, <1>13 DEF Condemn
<1>14. CASE Edit(t)
  BY <1>0, <1>14 DEF Edit
<1>15. CASE SetDisabled(t)
  BY <1>0, <1>15 DEF SetDisabled
<1>16. CASE ReplaceToken(t)
  BY <1>0, <1>16 DEF ReplaceToken
<1> QED
  BY <1>1, <1>2, <1>3, <1>4, <1>5, <1>6, <1>7, <1>8, <1>9, <1>10, <1>11,
     <1>12, <1>13, <1>14, <1>15, <1>16, <1>17 DEF Step

LEMMA CancelInv ==
  ASSUME Inv, NEW t \in Tasks, Cancel(t)
  PROVE  Inv'
<1>0. Typed /\ Placed
  BY InvSplit
<1>1. Typed'
  BY <1>0, TaskAssumption DEF Typed, Cancel, server, disk
<1>2. Placed'
  BY <1>0, TaskAssumption
     DEF Placed, Cancel, WellPlaced, Refreshing, Renewers, PCs, Goto, Release
<1> QED
  BY <1>1, <1>2, InvSplit DEF Inv, TypeOK, Typed, Placed, Refreshing, Renewers

LEMMA EnvironmentInv ==
  ASSUME Inv, (\E c \in Ids : Expire(c) \/ IdeRotates(c)) \/ Restart
  PROVE  Inv'
<1>0. Typed /\ Placed
  BY InvSplit
<1> SUFFICES Typed' /\ Placed'
  BY DEF Inv, TypeOK, Typed, Placed, Refreshing, Renewers
<1>1. CASE \E c \in Ids : Expire(c)
  <2>1. PICK c \in Ids : Expire(c)
    BY <1>1
  <2>2. PICK n \in (1 .. issued[c]) \ aged[c] :
          aged' = [aged EXCEPT ![c] = @ \cup 0 .. n]
    BY <2>1 DEF Expire
  <2>3. aged' \in [Ids -> SUBSET Nat]
    <3>1. aged[c] \cup 0 .. n \in SUBSET Nat
      BY <1>0 DEF Typed
    <3> QED
      BY <1>0, <2>2, <3>1 DEF Typed
  <2>4. Typed'
    BY <1>0, <2>1, <2>3 DEF Typed, Expire, Event, task, disk
  <2> QED
    BY <1>0, <2>1, <2>4 DEF Placed, WellPlaced, Refreshing, Expire, task
<1>2. CASE \E c \in Ids : IdeRotates(c)
  <2>1. PICK c \in Ids : IdeRotates(c)
    BY <1>2
  <2> DEFINE n == issued[c] + 1
             k == [file[c] EXCEPT !.rt = n]
             l == [k EXCEPT !.at = n]
  <2>2. n \in Nat /\ file[c] \in Credential
    BY <1>0 DEF Typed
  <2>3. k \in Credential /\ l \in Credential
    BY <2>2, CredentialParts
  <2>4. file' = [file EXCEPT ![c] = l]
    BY <1>0, <2>1, TwoEdits DEF Typed, IdeRotates
  <2>5. file' \in [Ids -> Credential]
    BY <1>0, <2>3, <2>4 DEF Typed
  <2>6. live' \in [Ids -> Nat] /\ issued' \in [Ids -> Nat]
    BY <1>0, <2>1, <2>2 DEF Typed, IdeRotates
  <2>7. Typed'
    BY <1>0, <2>1, <2>5, <2>6 DEF Typed, IdeRotates, Event, task
  <2> QED
    BY <1>0, <2>1, <2>7 DEF Placed, WellPlaced, Refreshing, IdeRotates, task
<1>3. CASE Restart
  <2>1. Typed'
    BY <1>0, <1>3, NothingTyped DEF Typed, Restart, Event, server
  <2> QED
    BY <1>0, <1>3, <2>1, TaskAssumption
       DEF Placed, WellPlaced, Refreshing, Renewers, PCs, Restart
<1> QED
  BY <1>1, <1>2, <1>3

LEMMA NextInv == Inv /\ [Next]_vars => Inv'
<1> SUFFICES ASSUME Inv, [Next]_vars PROVE Inv'
  OBVIOUS
<1>1. CASE \E t \in Tasks : Step(t)
  BY <1>1, StepTyped, StepPlaced, InvSplit
     DEF Inv, TypeOK, Typed, Placed, Refreshing, Renewers
<1>2. CASE \E t \in Tasks : Cancel(t)
  BY <1>2, CancelInv
<1>3. CASE (\E c \in Ids : Expire(c) \/ IdeRotates(c)) \/ Restart
  BY <1>3, EnvironmentInv
<1>4. CASE Finished \/ UNCHANGED vars
  BY <1>4 DEF Finished, vars, disk, task, server, Inv, TypeOK, WellPlaced
<1> QED
  BY <1>1, <1>2, <1>3, <1>4 DEF Next

\* Types, and refresh_lock is held by exactly the task whose refresh lies between
\* its second look and the end of its write: no two refreshes overlap.
THEOREM LockCorrect == Spec => []TypeOK
<1>1. Inv => TypeOK
  BY DEF Inv
<1> QED
  BY InitInv, NextInv, <1>1, PTL DEF Spec

-----------------------------------------------------------------------------
(* Used-up refresh tokens. *)

\* Nobody presents a refresh token it copied before it had the lock, as a forced
\* refresh does, and no token is replaced from outside.  refresh_unkept.cfg shows
\* what happens otherwise (ForcedOncePerToken, ReplacedOnlyWhenUnused).
LookTwice == \A t \in Tasks : Kind[t] \notin {"force", "replace"}

\* And the Kiro IDE gets no tokens of its own (CondemnedOnlyWhenDead), and no
\* restart brings back what was lost in the file (RotationReachesFile).
OnlyLockHoldersRenew == Events \cap {"ide", "restart"} = {} /\ LookTwice

\* Of a credential of which no answer was lost, memory holds the token the server
\* accepts unless a task has just been given a newer one, the holder of the lock
\* knows the token the server accepts, and none has been refused.
TokensInStep ==
  /\ \A c \in Ids \ torn :
       (\A t \in Tasks : Cred[t] = c => pc[t] # "granted")
         => entries[c].rt = live[c]
  /\ \A t \in Tasks : Cred[t] \notin torn =>
       /\ pc[t] \in {"exchange", "granted"} => seen[t].rt = live[Cred[t]]
       /\ pc[t] \notin {"refused", "reload", "compare", "adopt", "condemn"}

LEMMA InitInStep == Init => TokensInStep
BY TaskAssumption DEF Init, TokensInStep

LEMMA StepInStep ==
  ASSUME LookTwice, Inv, TokensInStep, NEW t \in Tasks, Step(t)
  PROVE  TokensInStep'
<1> USE DEF TokensInStep
<1>0. /\ Typed /\ Placed /\ Cred \in [Tasks -> Ids] /\ NoTask \notin Tasks
      /\ pc \in [Tasks -> PCs] /\ seen \in [Tasks -> Credential]
  BY InvSplit, TaskAssumption DEF Typed, Placed
<1>u. \A u \in Tasks : pc[u] \in {"exchange", "granted"} => lock = u
  BY <1>0 DEF Placed, Refreshing
<1>1. CASE Begin(t)
  BY <1>0, <1>1 DEF Begin, Goto, server, Typed
<1>2. CASE AcquireLock(t)
  BY <1>0, <1>u, <1>2 DEF AcquireLock, Goto, server, Typed, LookTwice
<1>3. CASE Grant(t)
  BY <1>0, <1>u, <1>3 DEF Grant, Goto, Typed, Credential
<1>4. CASE Refuse(t)
  BY <1>0, <1>4 DEF Refuse, Goto, server
<1>5. CASE Store(t)
  BY <1>0, <1>u, <1>5 DEF Store, Goto, server, Typed, Credential
<1>6. CASE Discard(t)
  BY <1>0, <1>6 DEF Discard, Goto, server
<1>7. CASE FailRefresh(t)
  BY <1>0, <1>7 DEF FailRefresh, Goto, server
<1>8. CASE Collect(t)
  BY <1>0, <1>8 DEF Collect, Goto, server
<1>9. CASE Truncate(t)
  <2>1. UNCHANGED <<entries, live>> /\ torn \subseteq torn'
    BY <1>9 DEF Truncate, server
  <2>2. pc[t] = "write" /\ pc'[t] \in {"writing", "ok"}
    BY <1>0, <1>9 DEF Truncate, EndSave, Goto
  <2>3. \A u \in Tasks : u # t => pc'[u] = pc[u] /\ seen'[u] = seen[u]
    BY <1>0, <1>9 DEF Truncate, EndSave, Goto
  <2> QED
    BY <1>0, <2>1, <2>2, <2>3
<1>17. CASE Write(t)
  BY <1>0, <1>17 DEF Write, EndSave, Goto, server
<1>10. CASE ReadFile(t)
  BY <1>0, <1>10 DEF ReadFile, Goto, server
<1>11. CASE Compare(t)
  BY <1>0, <1>11 DEF Compare, Goto, server
<1>12. CASE Adopt(t)
  BY <1>0, <1>12 DEF Adopt, Goto, server, Typed, Credential
<1>13. CASE Condemn(t)
  BY <1>0, <1>13 DEF Condemn, Goto, server, Typed, Credential
<1>14. CASE Edit(t)
  BY <1>0, <1>14 DEF Edit, Goto, server, Typed, Credential
<1>15. CASE SetDisabled(t)
  BY <1>0, <1>15 DEF SetDisabled, Goto, server, Typed, Credential
<1>16. CASE ReplaceToken(t)
  BY <1>16 DEF ReplaceToken, LookTwice
<1> QED
  BY <1>1, <1>2, <1>3, <1>4, <1>5, <1>6, <1>7, <1>8, <1>9, <1>10, <1>11,
     <1>12, <1>13, <1>14, <1>15, <1>16, <1>17 DEF Step

LEMMA NextInStep ==
  ASSUME OnlyLockHoldersRenew, Inv, TokensInStep, [Next]_vars
  PROVE  TokensInStep'
<1>1. CASE \E t \in Tasks : Step(t)
  BY <1>1, StepInStep DEF OnlyLockHoldersRenew
<1>2. CASE \E t \in Tasks : Cancel(t)
  <2>1. PICK t \in Tasks : Cancel(t)
    BY <1>2
  <2> QED
    BY <2>1, InvSplit DEF Cancel, Goto, server, TokensInStep, Placed
<1>3. CASE (\E c \in Ids : Expire(c) \/ IdeRotates(c)) \/ Restart
  <2>1. PICK c \in Ids : Expire(c)
    BY <1>3 DEF IdeRotates, Restart, Event, OnlyLockHoldersRenew
  <2> QED
    BY <2>1 DEF Expire, task, TokensInStep
<1>4. CASE Finished \/ UNCHANGED vars
  BY <1>4 DEF Finished, vars, task, server, TokensInStep
<1> QED
  BY <1>1, <1>2, <1>3, <1>4 DEF Next

\* As long as only holders of refresh_lock renew tokens, a refresh token that the
\* server has replaced is never presented again, however requests, queries and
\* the operator's edits interleave, and whatever fails: the second look under the
\* lock (try_ensure_token) is enough.
THEOREM TokensUsedOnce ==
  ASSUME OnlyLockHoldersRenew
  PROVE  Spec => []OldTokenNotPresented
<1>1. Init => Inv /\ TokensInStep
  BY InitInv, InitInStep
<1>2. Inv /\ TokensInStep /\ [Next]_vars => Inv' /\ TokensInStep'
  BY NextInv, NextInStep
<1>3. TokensInStep => OldTokenNotPresented
  BY DEF TokensInStep, OldTokenNotPresented
<1> QED
  BY <1>1, <1>2, <1>3, PTL DEF Spec

-----------------------------------------------------------------------------
(* Usable access tokens. *)

Usable(c) == (1 .. issued[c]) \ aged[c]

\* Of a credential of which no answer was lost, the only access token that may be
\* usable is the one in memory, or the one a task has just been given; and while
\* the server is asked for another there is none.
UsableInStep ==
  /\ \A c \in Ids \ torn :
       (\A t \in Tasks : Cred[t] = c => pc[t] # "granted")
         => Usable(c) \subseteq {entries[c].at}
  /\ \A t \in Tasks : Cred[t] \notin torn =>
       /\ pc[t] = "granted" => Usable(Cred[t]) \subseteq {seen[t].at}
       /\ pc[t] = "exchange" => Usable(Cred[t]) = {}

LEMMA InitUsable == Init => UsableInStep
BY TaskAssumption DEF Init, UsableInStep, Usable

\* The steps that leave the server, the tokens in memory and the tasks that have
\* new ones alone.
LEMMA QuietUsable ==
  ASSUME UsableInStep, UNCHANGED server, torn \subseteq torn',
         \A c \in Ids : entries'[c].at = entries[c].at,
         \A t \in Tasks : Cred[t] \in Ids,
         \A t \in Tasks : Cred[t] \notin torn' =>
           /\ pc'[t] = "exchange" => pc[t] = "exchange"
           /\ pc'[t] = "granted" => pc[t] = "granted" /\ seen'[t] = seen[t]
           /\ pc[t] = "granted" => pc'[t] = "granted"
  PROVE  UsableInStep'
<1>1. \A c : Usable(c)' = Usable(c)
  BY DEF Usable, server
<1> QED
  BY <1>1 DEF UsableInStep

LEMMA GrantUsable ==
  ASSUME Inv, UsableInStep, NEW t \in Tasks, Grant(t)
  PROVE  UsableInStep'
<1> DEFINE c == Cred[t]
           n == issued[c] + 1
<1>0. /\ Typed /\ c \in Ids /\ n \in Nat
      /\ pc \in [Tasks -> PCs] /\ Cred \in [Tasks -> Ids]
      /\ \A u \in Tasks : pc[u] \in {"exchange", "granted"} => u = t
  BY InvSplit, TaskAssumption DEF Typed, Placed, Refreshing, Grant
<1>1. PICK x \in {live[c], n}, lives \in BOOLEAN :
        /\ aged' = [aged EXCEPT ![c] = IF lives THEN @ ELSE @ \cup {n}]
        /\ seen' = [seen EXCEPT ![t].rt = x, ![t].at = n]
  <2>1. PICK rotates \in Rotations, lives \in Lifetimes :
          /\ live' = [live EXCEPT ![c] = IF rotates THEN n ELSE @]
          /\ aged' = [aged EXCEPT ![c] = IF lives THEN @ ELSE @ \cup {n}]
          /\ seen' = [seen EXCEPT ![t].rt = live'[c], ![t].at = n]
    BY DEF Grant
  <2>2. live'[c] \in {live[c], n} /\ lives \in BOOLEAN
    BY <1>0, <2>1, ServerAssumption DEF Typed
  <2> QED
    BY <2>1, <2>2
<1>2. /\ issued' = [issued EXCEPT ![c] = n]
      /\ pc' = [pc EXCEPT ![t] = "granted"]
      /\ UNCHANGED <<entries, torn>>
  BY DEF Grant, Goto
<1>3. seen'[t].at = n
  BY <1>0, <1>1 DEF Typed, Credential
<1>4. c \notin torn => Usable(c) = {}
  BY DEF Grant, UsableInStep
<1>5. c \notin torn => Usable(c)' \subseteq {n}
  <2>1. aged[c] \subseteq aged'[c] /\ issued'[c] = n /\ issued[c] \in Nat
    BY <1>0, <1>1, <1>2 DEF Typed
  <2> QED
    BY <1>4, <2>1 DEF Usable
<1>6. \A d \in Ids \ {c} : Usable(d)' = Usable(d)
  BY <1>0, <1>1, <1>2 DEF Usable, Typed
<1>7. ASSUME NEW d \in Ids \ torn',
             \A u \in Tasks : Cred[u] = d => pc'[u] # "granted"
      PROVE  Usable(d)' \subseteq {entries'[d].at}
  <2>1. pc'[t] = "granted"
    BY <1>0, <1>2
  <2>2. d # c
    BY <1>7, <2>1
  <2>3. \A u \in Tasks : Cred[u] = d => pc[u] # "granted"
    BY <1>0, <2>2
  <2> QED
    BY <1>2, <1>6, <2>2, <2>3 DEF UsableInStep
<1>8. ASSUME NEW u \in Tasks, Cred[u] \notin torn'
      PROVE  /\ pc'[u] = "granted" => Usable(Cred[u])' \subseteq {seen'[u].at}
             /\ pc'[u] = "exchange" => Usable(Cred[u])' = {}
  <2>1. pc'[u] \in {"exchange", "granted"} => u = t
    BY <1>0, <1>2
  <2>2. pc'[t] = "granted"
    BY <1>0, <1>2
  <2>3. u = t => Usable(c)' \subseteq {seen'[t].at}
    BY <1>2, <1>3, <1>5, <1>8
  <2> QED
    BY <2>1, <2>2, <2>3
<1> QED
  BY <1>7, <1>8 DEF UsableInStep

LEMMA StepUsable ==
  ASSUME OnlyLockHoldersRenew, Inv, TokensInStep, UsableInStep,
         NEW t \in Tasks, Step(t)
  PROVE  UsableInStep'
<1>0. /\ Typed /\ Placed /\ Cred \in [Tasks -> Ids] /\ NoTask \notin Tasks
      /\ pc \in [Tasks -> PCs] /\ seen \in [Tasks -> Credential]
      /\ entries \in [Ids -> Credential]
  BY InvSplit, TaskAssumption DEF Typed, Placed
<1>u. \A u \in Tasks : pc[u] \in {"exchange", "granted"} => lock = u
  BY <1>0 DEF Placed, Refreshing
<1>1. CASE Begin(t)
  BY <1>0, <1>1, QuietUsable DEF Begin, Goto
<1>2. CASE AcquireLock(t)
  <2>1. CASE pc'[t] # "exchange"
    BY <1>0, <1>2, <2>1, QuietUsable DEF AcquireLock, Goto
  <2>2. CASE pc'[t] = "exchange"
    <3>1. \A u \in Tasks : pc[u] # "granted"
      BY <1>0, <1>u, <1>2 DEF AcquireLock
    <3>2. entries[Cred[t]].at \in aged[Cred[t]]
      BY <1>0, <1>2, <2>2 DEF AcquireLock, OnlyLockHoldersRenew, LookTwice, Fresh,
                                   Goto
    <3>3. Cred[t] \notin torn => Usable(Cred[t]) = {}
      BY <1>0, <3>1, <3>2 DEF UsableInStep, Usable
    <3>4. /\ pc' = [pc EXCEPT ![t] = "exchange"]
          /\ UNCHANGED <<entries, server, torn>>
      BY <1>0, <1>2, <2>2 DEF AcquireLock, Goto
    <3>5. \A c : Usable(c)' = Usable(c)
      BY <3>4 DEF Usable, server
    <3> QED
      BY <1>0, <3>1, <3>3, <3>4, <3>5 DEF UsableInStep
  <2> QED
    BY <2>1, <2>2
<1>3. CASE Grant(t)
  BY <1>3, GrantUsable
<1>4. CASE Refuse(t)
  BY <1>0, <1>4, QuietUsable DEF Refuse, Goto
<1>5. CASE Store(t)
  <2>1. /\ entries' = [entries EXCEPT ![Cred[t]] =
                         [seen[t] EXCEPT !.disabled = entries[Cred[t]].disabled]]
        /\ pc' = [pc EXCEPT ![t] = "persist"] /\ pc[t] = "granted"
        /\ UNCHANGED <<seen, server, torn>>
    BY <1>5 DEF Store, Goto
  <2>2. \A c \in Ids : entries'[c].at = IF c = Cred[t] THEN seen[t].at ELSE entries[c].at
    BY <1>0, <2>1 DEF Credential
  <2>3. \A c : Usable(c)' = Usable(c)
    BY <2>1 DEF Usable, server
  <2> QED
    BY <1>0, <1>u, <2>1, <2>2, <2>3 DEF UsableInStep
<1>6. CASE Discard(t)
  BY <1>0, <1>6, QuietUsable DEF Discard, Goto
<1>7. CASE FailRefresh(t)
  BY <1>0, <1>7, QuietUsable DEF FailRefresh, Goto
<1>8. CASE Collect(t)
  BY <1>0, <1>8, QuietUsable DEF Collect, Goto
<1>9. CASE Truncate(t)
  BY <1>0, <1>9, QuietUsable DEF Truncate, EndSave, Goto
<1>17. CASE Write(t)
  BY <1>0, <1>17, QuietUsable DEF Write, EndSave, Goto, Typed
<1>10. CASE ReadFile(t)
  BY <1>0, <1>10, QuietUsable DEF ReadFile, Goto
<1>11. CASE Compare(t)
  BY <1>0, <1>11, QuietUsable DEF Compare, Goto
<1>12. CASE Adopt(t)
  <2>1. Cred[t] \in torn
    BY <1>12 DEF Adopt, TokensInStep
  <2>2. /\ \A c \in Ids \ torn : entries'[c] = entries[c]
        /\ pc' = [pc EXCEPT ![t] = "idle"] /\ pc[t] = "adopt"
        /\ \A u \in Tasks \ {t} : seen'[u] = seen[u]
        /\ UNCHANGED <<server, torn>>
    BY <1>0, <1>12, <2>1 DEF Adopt, Goto
  <2>3. \A c : Usable(c)' = Usable(c)
    BY <2>2 DEF Usable, server
  <2> QED
    BY <1>0, <2>2, <2>3 DEF UsableInStep
<1>13. CASE Condemn(t)
  BY <1>0, <1>13, QuietUsable DEF Condemn, Goto, Credential
<1>14. CASE Edit(t)
  BY <1>0, <1>14, QuietUsable DEF Edit, Goto, Credential
<1>15. CASE SetDisabled(t)
  BY <1>0, <1>15, QuietUsable DEF SetDisabled, Goto, Credential
<1>16. CASE ReplaceToken(t)
  BY <1>16 DEF ReplaceToken, OnlyLockHoldersRenew, LookTwice
<1> QED
  BY <1>1, <1>2, <1>3, <1>4, <1>5, <1>6, <1>7, <1>8, <1>9, <1>10, <1>11,
     <1>12, <1>13, <1>14, <1>15, <1>16, <1>17 DEF Step

LEMMA NextUsable ==
  ASSUME OnlyLockHoldersRenew, Inv, TokensInStep, UsableInStep, [Next]_vars
  PROVE  UsableInStep'
<1>0. /\ Typed /\ Cred \in [Tasks -> Ids] /\ pc \in [Tasks -> PCs]
  BY InvSplit, TaskAssumption DEF Placed
<1>1. CASE \E t \in Tasks : Step(t)
  BY <1>1, StepUsable
<1>2. CASE \E t \in Tasks : Cancel(t)
  <2>1. PICK t \in Tasks : Cancel(t)
    BY <1>2
  <2> QED
    BY <1>0, <2>1, QuietUsable DEF Cancel, Goto
<1>3. CASE (\E c \in Ids : Expire(c) \/ IdeRotates(c)) \/ Restart
  <2>1. PICK c \in Ids : Expire(c)
    BY <1>3 DEF IdeRotates, Restart, Event, OnlyLockHoldersRenew
  <2>2. \A d \in Ids : Usable(d)' \subseteq Usable(d)
    BY <1>0, <2>1 DEF Expire, Usable, Typed
  <2>3. UNCHANGED <<entries, pc, seen, torn>>
    BY <2>1 DEF Expire, task
  <2> QED
    BY <1>0, <2>2, <2>3 DEF UsableInStep
<1>4. CASE Finished \/ UNCHANGED vars
  BY <1>0, <1>4, QuietUsable DEF Finished, vars, task
<1> QED
  BY <1>1, <1>2, <1>3, <1>4 DEF Next

\* As long as only holders of refresh_lock renew tokens, the server never has two
\* usable access tokens of one credential out: of all the tasks that find a token
\* expired one renews it, because the others look again once they have the lock.
THEOREM OneTokenAtATime ==
  ASSUME OnlyLockHoldersRenew
  PROVE  Spec => []OneFreshToken
<1>1. Init => Inv /\ TokensInStep /\ UsableInStep
  BY InitInv, InitInStep, InitUsable
<1>2. Inv /\ TokensInStep /\ UsableInStep /\ [Next]_vars
        => Inv' /\ TokensInStep' /\ UsableInStep'
  BY NextInv, NextInStep, NextUsable
<1>3. Inv /\ UsableInStep => OneFreshToken
  <2> SUFFICES ASSUME Inv, UsableInStep, NEW c \in Ids \ torn
               PROVE  Cardinality(Usable(c)) <= 1
    BY DEF OneFreshToken, Usable
  <2>1. PICK n : Usable(c) \subseteq {n}
    BY DEF UsableInStep
  <2>2. IsFiniteSet({n}) /\ Cardinality({n}) = 1
    BY FS_Singleton
  <2>3. IsFiniteSet(Usable(c)) /\ Cardinality(Usable(c)) <= Cardinality({n})
    BY <2>1, <2>2, FS_Subset
  <2> QED
    BY <2>2, <2>3
<1> QED
  BY <1>1, <1>2, <1>3, PTL DEF Spec

-----------------------------------------------------------------------------
(* The file. *)

\* Nobody writes the file but the holders of refresh_lock.  (An edit of another
\* credential may write an older image of this one, as RotationReachesFile shows,
\* or garble the file.)  The program may be restarted at any time, in the middle of
\* a write too, and writing may fail.
OnlyLockHoldersWrite ==
  /\ "ide" \notin Events
  /\ \A t \in Tasks : Kind[t] \in {"request", "query"}

\* The file holds the token the server accepts unless a task is on its way to
\* write it, what is about to be written is what is in memory, and the file is
\* whole unless it is being written or everything in it was lost.
FileInStep ==
  /\ \A c \in Ids \ torn : InFlight(c) = {} => file[c].rt = live[c]
  /\ \A t \in Tasks : pc[t] \in {"write", "writing"} =>
       \A c \in Ids \ torn : image[t][c].rt = entries[c].rt
  /\ \/ damage = "none"
     \/ \E t \in Tasks : pc[t] = "writing"
     \/ torn = Ids

LEMMA InitFile == Init => FileInStep
BY DEF Init, FileInStep

\* The steps of a task that is not on its way to the file, before or after, and
\* that leave the refresh tokens alone.
LEMMA QuietFile ==
  ASSUME FileInStep, NEW t \in Tasks, pc \in [Tasks -> PCs],
         NEW l, pc' = [pc EXCEPT ![t] = l],
         {pc[t], l} \cap Saving = {},
         \A c \in Ids \ torn : entries'[c].rt = entries[c].rt,
         UNCHANGED <<disk, live, image, torn>>
  PROVE  FileInStep'
<1>1. \A c : InFlight(c)' = InFlight(c)
  BY DEF InFlight
<1>2. \A u \in Tasks : /\ pc'[u] \in {"write", "writing"} => pc'[u] = pc[u]
                       /\ pc[u] = "writing" => pc'[u] = "writing"
  BY DEF Saving
<1> QED
  BY <1>1, <1>2 DEF FileInStep, disk

LEMMA StepFile ==
  ASSUME OnlyLockHoldersWrite, Inv, TokensInStep, FileInStep,
         NEW t \in Tasks, Step(t)
  PROVE  FileInStep'
<1>0. /\ Typed /\ Cred \in [Tasks -> Ids] /\ pc \in [Tasks -> PCs]
      /\ Kind[t] \in {"request", "query"}
  BY InvSplit, TaskAssumption DEF Placed, OnlyLockHoldersWrite
<1>u. \A u \in Tasks : pc[u] = "exchange" \/ pc[u] \in Saving => lock = u
  BY <1>0, InvSplit DEF Placed, Refreshing, Renewers, OnlyLockHoldersWrite, Saving
<1>1. CASE Begin(t)
  BY <1>0, <1>1, QuietFile DEF Begin, Goto, server, Saving
<1>2. CASE AcquireLock(t)
  BY <1>0, <1>2, QuietFile DEF AcquireLock, Goto, server, Saving
<1>3. CASE Grant(t)
  <2>1. /\ pc' = [pc EXCEPT ![t] = "granted"]
        /\ \A c \in Ids \ {Cred[t]} : live'[c] = live[c]
        /\ UNCHANGED <<entries, disk, image, torn>>
    BY <1>0, <1>3 DEF Grant, Goto, Typed
  <2>2. t \in InFlight(Cred[t])'
    BY <1>0, <2>1 DEF InFlight, Saving
  <2>3. \A c : InFlight(c) \subseteq InFlight(c)'
    BY <1>0, <2>1 DEF InFlight, Saving
  <2>4. \A v \in Tasks : pc[v] \notin {"write", "writing"}
                        /\ pc'[v] \notin {"write", "writing"}
    BY <1>0, <1>u, <1>3, <2>1 DEF Grant, Saving
  <2> QED
    BY <2>1, <2>2, <2>3, <2>4 DEF FileInStep, disk
<1>4. CASE Refuse(t)
  BY <1>0, <1>4, QuietFile DEF Refuse, Goto, server, Saving
<1>5. CASE Store(t)
  <2>1. /\ pc[t] = "granted" /\ pc' = [pc EXCEPT ![t] = "persist"]
        /\ UNCHANGED <<disk, image, live, torn>>
    BY <1>5 DEF Store, Goto, server
  <2>2. \A c : InFlight(c)' = InFlight(c)
    BY <1>0, <2>1 DEF InFlight, Saving
  <2>3. \A v \in Tasks : pc[v] \notin {"write", "writing"}
                        /\ pc'[v] \notin {"write", "writing"}
    BY <1>0, <1>u, <2>1 DEF Saving
  <2> QED
    BY <2>1, <2>2, <2>3 DEF FileInStep, disk
<1>6. CASE Discard(t)
  <2>1. /\ pc[t] = "granted" /\ pc' = [pc EXCEPT ![t] = "failed"]
        /\ torn' = torn \cup {Cred[t]}
        /\ UNCHANGED <<entries, disk, image, live>>
    BY <1>6 DEF Discard, Goto, server
  <2>2. \A c : c # Cred[t] => InFlight(c)' = InFlight(c)
    BY <1>0, <2>1 DEF InFlight
  <2>3. \A v \in Tasks : pc[v] # "writing" /\ pc'[v] \in {"write", "writing"}
                           => pc'[v] = pc[v]
    BY <1>0, <2>1
  <2>4. (torn = Ids => torn' = Ids)
        /\ \A v \in Tasks : pc[v] = "writing" => pc'[v] = "writing"
    BY <1>0, <2>1 DEF Typed
  <2> QED
    BY <1>0, <2>1, <2>2, <2>3, <2>4 DEF FileInStep, disk
<1>7. CASE FailRefresh(t)
  BY <1>0, <1>7, QuietFile DEF FailRefresh, Goto, server, Saving
<1>8. CASE Collect(t)
  <2>1. /\ pc[t] = "persist" /\ pc' = [pc EXCEPT ![t] = "write"]
        /\ image' = [image EXCEPT ![t] = entries]
        /\ UNCHANGED <<entries, disk, live, torn>>
    BY <1>8 DEF Collect, Goto, server
  <2>2. \A c : InFlight(c)' = InFlight(c)
    BY <1>0, <2>1 DEF InFlight, Saving
  <2> QED
    BY <1>0, <2>1, <2>2 DEF FileInStep, Typed, disk
<1>9. CASE Truncate(t)
  <2>0. pc[t] = "write" /\ UNCHANGED <<entries, file, live>>
    BY <1>9 DEF Truncate, server
  <2>1. CASE damage' = "empty" /\ Goto(t, "writing") /\ UNCHANGED <<seen, image, lock, torn>>
    <3>1. \A c : InFlight(c)' = InFlight(c)
      BY <1>0, <2>0, <2>1 DEF InFlight, Saving, Goto
    <3>2. pc'[t] = "writing"
      BY <1>0, <2>1 DEF Goto
    <3>3. \A v \in Tasks : pc'[v] \in {"write", "writing"} => pc[v] \in {"write", "writing"}
      BY <1>0, <2>0, <2>1 DEF Goto
    <3> QED
      BY <2>0, <2>1, <3>1, <3>2, <3>3 DEF FileInStep
  <2>2. CASE EndSave(t) /\ torn' = torn \cup {Cred[t]} /\ UNCHANGED damage
    <3>1. \A c : c # Cred[t] => InFlight(c)' = InFlight(c)
      BY <1>0, <2>2 DEF InFlight, EndSave, Goto
    <3>2. \A v \in Tasks : pc'[v] \in {"write", "writing"} => v # t /\ pc'[v] = pc[v]
      BY <1>0, <2>2 DEF EndSave, Goto
    <3>3. \A v \in Tasks : v # t => image'[v] = image[v]
      BY <1>0, <2>2 DEF EndSave, Typed
    <3>4. (torn = Ids => torn' = Ids)
          /\ \A v \in Tasks : pc[v] = "writing" => pc'[v] = "writing"
      BY <1>0, <2>0, <2>2 DEF Typed, EndSave, Goto
    <3> QED
      BY <2>0, <2>2, <3>1, <3>2, <3>3, <3>4 DEF FileInStep
  <2> QED
    BY <1>9, <2>1, <2>2 DEF Truncate
<1>17. CASE Write(t)
  <2>1. /\ pc[t] = "writing" /\ pc' = [pc EXCEPT ![t] = "ok"]
        /\ UNCHANGED <<entries, live>>
    BY <1>17 DEF Write, EndSave, Goto, server
  <2>2. CASE torn' = Ids
    BY <2>2 DEF FileInStep
  <2>3. CASE file' = image[t] /\ damage' = "none" /\ UNCHANGED torn
    <3>1. \A v \in Tasks : pc[v] # "granted" /\ pc'[v] \notin {"write", "writing"}
      BY <1>0, <1>u, <2>1 DEF Saving
    <3>2. \A c \in Ids \ torn : image[t][c].rt = entries[c].rt
      BY <2>1 DEF FileInStep
    <3>3. \A c \in Ids \ torn : entries[c].rt = live[c]
      BY <3>1 DEF TokensInStep
    <3> QED
      BY <2>1, <2>3, <3>1, <3>2, <3>3 DEF FileInStep
  <2> QED
    BY <1>17, <2>2, <2>3 DEF Write
<1>10. CASE ReadFile(t)
  BY <1>0, <1>10, QuietFile DEF ReadFile, Goto, server, Saving
<1>11. CASE Compare(t)
  BY <1>0, <1>11, QuietFile DEF Compare, Goto, server, Saving
<1>12. CASE Adopt(t)
  <2>1. Cred[t] \in torn
    BY <1>12 DEF Adopt, TokensInStep
  <2>2. \A c \in Ids \ torn : entries'[c].rt = entries[c].rt
    BY <1>0, <1>12, <2>1 DEF Adopt, Typed
  <2> QED
    BY <1>0, <1>12, <2>2, QuietFile DEF Adopt, Goto, server, Saving
<1>13. CASE Condemn(t)
  <2>1. \A c \in Ids : entries'[c].rt = entries[c].rt
    BY <1>0, <1>13 DEF Condemn, Typed, Credential
  <2> QED
    BY <1>0, <1>13, <2>1, QuietFile DEF Condemn, Goto, server, Saving
<1>14. CASE Edit(t) \/ SetDisabled(t) \/ ReplaceToken(t)
  BY <1>0, <1>14 DEF Edit, SetDisabled, ReplaceToken
<1> QED
  BY <1>1, <1>2, <1>3, <1>4, <1>5, <1>6, <1>7, <1>8, <1>9, <1>10, <1>11,
     <1>12, <1>13, <1>14, <1>17 DEF Step

LEMMA NextFile ==
  ASSUME OnlyLockHoldersWrite, Inv, TokensInStep, FileInStep, [Next]_vars
  PROVE  TokensInStep' /\ FileInStep'
<1>0. /\ Typed /\ Cred \in [Tasks -> Ids] /\ pc \in [Tasks -> PCs]
  BY InvSplit, TaskAssumption DEF Placed
<1>1. CASE \E t \in Tasks : Step(t)
  BY <1>1, StepInStep, StepFile DEF OnlyLockHoldersWrite, LookTwice
<1>2. CASE \E t \in Tasks : Cancel(t)
  <2>1. PICK t \in Tasks : Cancel(t)
    BY <1>2
  <2>2. TokensInStep'
    BY <2>1, InvSplit DEF Cancel, Goto, server, TokensInStep, Placed
  <2>3. CASE pc[t] # "granted"
    <3>1. /\ pc' = [pc EXCEPT ![t] = "err"] /\ pc[t] \notin Saving
          /\ UNCHANGED <<entries, disk, image, live, torn>>
      BY <2>1, <2>3 DEF Cancel, Goto, server, Saving
    <3> QED
      BY <1>0, <2>2, <2>3, <3>1, QuietFile DEF Saving
  <2>4. CASE pc[t] = "granted"
    <3>1. /\ pc' = [pc EXCEPT ![t] = "err"] /\ torn' = torn \cup {Cred[t]}
          /\ UNCHANGED <<entries, disk, image, live>>
      BY <2>1, <2>4 DEF Cancel, Goto, server
    <3>2. \A c : c # Cred[t] => InFlight(c)' = InFlight(c)
      BY <1>0, <2>4, <3>1 DEF InFlight
    <3>3. (torn = Ids => torn' = Ids)
          /\ \A v \in Tasks : pc[v] = "writing" => pc'[v] = "writing"
      BY <1>0, <2>4, <3>1 DEF Typed
    <3> QED
      BY <1>0, <2>2, <2>4, <3>1, <3>2, <3>3 DEF FileInStep, disk
  <2> QED
    BY <2>3, <2>4
<1>3. CASE \E c \in Ids : Expire(c)
  BY <1>3 DEF Expire, task, disk, TokensInStep, FileInStep, InFlight
<1>4. CASE \E c \in Ids : IdeRotates(c)
  BY <1>4 DEF IdeRotates, Event, OnlyLockHoldersWrite
<1>5. CASE Restart
  <2>0. UNCHANGED <<file, live>> /\ \A t \in Tasks : pc'[t] \in {"idle", "err"}
    BY <1>5 DEF Restart, server
  <2>1. CASE damage' # "none"
    <3>1. torn' = Ids
      BY <1>5, <2>1 DEF Restart
    <3> QED
      BY <1>0, <2>0, <3>1 DEF TokensInStep, FileInStep
  <2>2. CASE damage' = "none"
    <3>1. entries' = file /\ torn' = torn \cup {c \in Ids : InFlight(c) # {}}
      BY <1>5, <2>2 DEF Restart
    <3>2. \A c \in Ids \ torn' : file[c].rt = live[c]
      BY <3>1 DEF FileInStep
    <3> QED
      BY <1>0, <2>0, <2>2, <3>1, <3>2 DEF TokensInStep, FileInStep
  <2> QED
    BY <2>1, <2>2
<1>6. CASE Finished \/ UNCHANGED vars
  BY <1>6 DEF Finished, vars, disk, task, server, TokensInStep, FileInStep, InFlight
<1> QED
  BY <1>1, <1>2, <1>3, <1>4, <1>5, <1>6 DEF Next

\* Where only refreshes write the file, a rotated refresh token outlives restarts,
\* dropped tasks and failures that come at any other moment than between the
\* server's answer and the end of the write, and none of the tokens of other
\* credentials is lost but by a death or an error in the middle of the write
\* itself, which empties the file first.  Saving under the lock (try_ensure_token)
\* is what makes it so.
THEOREM RotatedTokenKept ==
  ASSUME OnlyLockHoldersWrite
  PROVE  Spec => []TokenKept
<1>1. Init => Inv /\ TokensInStep /\ FileInStep
  BY InitInv, InitInStep, InitFile
<1>2. Inv /\ TokensInStep /\ FileInStep /\ [Next]_vars
        => Inv' /\ TokensInStep' /\ FileInStep'
  BY NextInv, NextFile
<1>3. TokensInStep /\ FileInStep => TokenKept
  BY DEF TokensInStep, FileInStep, TokenKept, InFlight, Saving
<1> QED
  BY <1>1, <1>2, <1>3, PTL DEF Spec
=============================================================================
