------------------------- MODULE AdminService_proofs -------------------------
(* The two parts of the admin service that keep state of their own: the       *)
(* logins in progress, for any number of requests, sessions, ports and        *)
(* accounts, and the update of the program, for any number of operators,      *)
(* releases, failures and deaths of the process.                              *)
EXTENDS LoginSessions, BinaryUpdate, TLAPS

------------------------------------------------------------------------------
(* The logins. *)

Exchanging == {"take", "exchange"}
Fields == {"session", "callback", "token", "id", "next"}
IsJob(j) == j = [f \in Fields |-> j[f]]

\* A task carries a job.  Only Verify leads to an exchange, which has compared
\* the callback; no save does.
TasksInStep ==
    /\ pc = [r \in Requests |-> pc[r]]
    /\ job = [r \in Requests |-> job[r]]
    /\ \A r \in Requests :
         /\ IsJob(job[r])
         /\ job[r].next \notin Exchanging
         /\ pc[r] \in Exchanging => job[r].callback = job[r].session

\* A code was exchanged only for a session that has left the map, to which
\* nothing comes back.
SessionsInStep ==
    /\ phase \in [Sessions -> {"unused", "open", "expired", "gone"}]
    /\ presented \in [Sessions -> 0 .. 1]
    /\ \A s \in Sessions : phase[s] # "gone" => presented[s] = 0

LoginInv == TasksInStep /\ SessionsInStep

LEMMA LoginsBegin == InitLogins => LoginInv
  BY DEF InitLogins, InitAccounts, LoginInv, TasksInStep, SessionsInStep, NoJob, IsJob, Fields, Exchanging

\* A task ends, or it goes on elsewhere with a job that is still one.
LEMMA EndsInStep ==
  ASSUME TasksInStep, NEW r \in Requests, NEW how, how \notin Exchanging, End(r, how)
  PROVE  TasksInStep'
  BY DEF TasksInStep, End, Goto, NoJob, IsJob, Fields, Exchanging

LEMMA AccountStepInStep ==
  ASSUME TasksInStep, NEW r \in Requests, AccountStep(r)
  PROVE  TasksInStep'
<1>1. ASSUME NEW t \in Pasted, BeginAdd(r, t) PROVE TasksInStep'
  BY <1>1 DEF BeginAdd, TasksInStep, Goto, IsJob, Fields, Exchanging
<1>2. ASSUME NEW i \in Ids, DeleteCredential(r, i) PROVE TasksInStep'
  BY <1>2 DEF DeleteCredential, TasksInStep, Goto, IsJob, Fields, Exchanging
<1>3. ASSUME NEW i \in Ids, BeginBalance(r, i) PROVE TasksInStep'
  BY <1>3 DEF BeginBalance, TasksInStep, Goto, IsJob, Fields, Exchanging
<1>4. ASSUME NEW i \in Ids, BeginQuota(r, i) PROVE TasksInStep'
  BY <1>4 DEF BeginQuota, TasksInStep, Goto, IsJob, Fields, Exchanging
<1>5. CASE Save(r)
  <2>1. CASE job[r].next = "done"
    BY <1>5, <2>1, EndsInStep DEF Save, Exchanging
  <2>2. CASE job[r].next # "done"
    BY <1>5, <2>2 DEF Save, TasksInStep, Goto, IsJob, Fields, Exchanging
  <2> QED
    BY <2>1, <2>2
<1>6. CASE SaveFails(r) \/ ForgetBalance(r) \/ BalanceAnswer(r)
  BY <1>6, EndsInStep DEF SaveFails, ForgetBalance, BalanceAnswer, Exchanging
<1>7. CASE CheckDuplicate(r)
  <2>1. CASE End(r, "failed")
    BY <2>1, EndsInStep DEF Exchanging
  <2>2. CASE Goto(r, "validate") /\ UNCHANGED job
    BY <2>2 DEF TasksInStep, Goto, IsJob, Fields, Exchanging
  <2> QED
    BY <1>7, <2>1, <2>2 DEF CheckDuplicate
<1>8. CASE Validate(r)
  <2>1. CASE End(r, "failed")
    BY <2>1, EndsInStep DEF Exchanging
  <2>2. CASE Goto(r, "number") /\ UNCHANGED job
    BY <2>2 DEF TasksInStep, Goto, IsJob, Fields, Exchanging
  <2>3. CASE Goto(r, "number") /\ job' = [job EXCEPT ![r].token.exchanged = @ + 1]
    BY <2>3 DEF TasksInStep, Goto, IsJob, Fields, Exchanging
  <2> QED
    BY <1>8, <2>1, <2>2, <2>3 DEF Validate
<1>9. CASE ChooseId(r)
  BY <1>9 DEF ChooseId, TasksInStep, Goto, IsJob, Fields, Exchanging
<1>10. ASSUME NEW es, NEW next, next \notin Exchanging, Change(r, es, next)
       PROVE  TasksInStep'
  BY <1>10 DEF Change, TasksInStep, Goto, IsJob, Fields, Exchanging
<1>11. CASE Push(r) \/ DisableTarget(r) \/ ReplaceToken(r) \/ EnableTarget(r)
            \/ DisableExceeded(r)
  <2>1. \/ End(r, "failed")
        \/ \E es, next : next \notin Exchanging /\ Change(r, es, next)
    BY <1>11 DEF Push, DisableTarget, ReplaceToken, EnableTarget, DisableExceeded,
                 Exchanging
  <2> QED
    BY <2>1, <1>10, EndsInStep DEF Exchanging
<1>12. CASE AskBalance(r)
  <2>1. CASE End(r, "done")
    BY <2>1, EndsInStep DEF Exchanging
  <2>2. ASSUME NEW t, job' = [job EXCEPT ![r].token = t], Goto(r, "asked")
        PROVE  TasksInStep'
    BY <2>2 DEF TasksInStep, Goto, IsJob, Fields, Exchanging
  <2> QED
    BY <1>12, <2>1, <2>2 DEF AskBalance
<1> QED
  BY <1>1, <1>2, <1>3, <1>4, <1>5, <1>6, <1>7, <1>8, <1>9, <1>11, <1>12
     DEF AccountStep

LEMMA TaskNext == ASSUME TasksInStep, [NextLogins]_loginVars PROVE TasksInStep'
<1>1. ASSUME NEW r \in Requests, AccountStep(r) PROVE TasksInStep'
  BY <1>1, AccountStepInStep
<1>2. ASSUME NEW r \in Requests, NEW s \in Sessions, PollSocial(r, s)
      PROVE  TasksInStep'
  <2>1. CASE End(r, "failed") \/ End(r, "done")
    BY <2>1, EndsInStep DEF Exchanging
  <2>2. CASE /\ job' = [job EXCEPT ![r].session = s, ![r].callback = channel[s]]
             /\ Goto(r, "verify")
    BY <2>2 DEF TasksInStep, Goto, IsJob, Fields, Exchanging
  <2> QED
    BY <1>2, <2>1, <2>2, Zenon DEF PollSocial
<1>3. ASSUME NEW r \in Requests, NEW s \in Sessions, NEW x \in Sessions,
             CompleteSocial(r, s, x)
      PROVE  TasksInStep'
  <2>1. CASE End(r, "failed")
    BY <2>1, EndsInStep DEF Exchanging
  <2>2. CASE /\ job' = [job EXCEPT ![r].session = s, ![r].callback = x]
             /\ Goto(r, "verify")
    BY <2>2 DEF TasksInStep, Goto, IsJob, Fields, Exchanging
  <2> QED
    BY <1>3, <2>1, <2>2 DEF CompleteSocial
<1>4. ASSUME NEW r \in Requests, NEW s \in Sessions, PollDevice(r, s)
      PROVE  TasksInStep'
  <2>1. CASE End(r, "failed")
    BY <2>1, EndsInStep DEF Exchanging
  <2>2. CASE Goto(r, "device") /\ job' = [job EXCEPT ![r].session = s]
    BY <2>2 DEF TasksInStep, Goto, IsJob, Fields, Exchanging
  <2> QED
    BY <1>4, <2>1, <2>2 DEF PollDevice
<1>5. ASSUME NEW r \in Requests, Verify(r) PROVE TasksInStep'
  <2>1. CASE End(r, "failed")
    BY <2>1, EndsInStep DEF Exchanging
  <2>2. CASE /\ job[r].callback = job[r].session
             /\ Goto(r, "take") /\ UNCHANGED job
    BY <2>2 DEF TasksInStep, Goto, IsJob, Fields, Exchanging
  <2> QED
    BY <1>5, <2>1, <2>2 DEF Verify
<1>6. ASSUME NEW r \in Requests, Take(r) PROVE TasksInStep'
  <2>1. CASE End(r, "failed")
    BY <2>1, EndsInStep DEF Exchanging
  <2>2. CASE pc[r] = "take" /\ Goto(r, "exchange") /\ UNCHANGED job
    BY <2>2 DEF TasksInStep, Goto, IsJob, Fields, Exchanging
  <2> QED
    BY <1>6, <2>1, <2>2 DEF Take, At
<1>7. ASSUME NEW r \in Requests, NEW s, Continue(r, s) PROVE TasksInStep'
  <2>1. PICK l : l \notin Exchanging /\ Goto(r, l)
    BY <1>7 DEF Continue, Exchanging
  <2>2. job' = [job EXCEPT ![r].session = s, ![r].token = Token(s), ![r].id = Target[s]]
    BY <1>7 DEF Continue
  <2>3. /\ pc' = [q \in Requests |-> pc'[q]] /\ pc'[r] \notin Exchanging
        /\ \A q \in Requests \ {r} : pc'[q] = pc[q]
    BY ONLY <2>1, TasksInStep, r \in Requests DEF TasksInStep, Goto
  <2>4. /\ job' = [q \in Requests |-> job'[q]]
        /\ job'[r] = [job[r] EXCEPT !.session = s, !.token = Token(s), !.id = Target[s]]
        /\ \A q \in Requests \ {r} : job'[q] = job[q]
    BY ONLY <2>2, TasksInStep, r \in Requests DEF TasksInStep
  <2>5. IsJob(job'[r]) /\ job'[r].next = job[r].next
    BY ONLY <2>4, TasksInStep, r \in Requests DEF TasksInStep, IsJob, Fields
  <2> QED
    BY ONLY <2>3, <2>4, <2>5, TasksInStep DEF TasksInStep
<1>8. ASSUME NEW r \in Requests, Exchange(r) \/ DeviceGranted(r) PROVE TasksInStep'
  BY <1>7, <1>8, EndsInStep DEF Exchange, DeviceGranted, Exchanging
<1>9. ASSUME NEW r \in Requests, Grant(r) PROVE TasksInStep'
  BY <1>9 DEF Grant, TasksInStep, Goto, IsJob, Fields, Exchanging
<1>10. ASSUME NEW r \in Requests, DeviceRefused(r) \/ Cancel(r) PROVE TasksInStep'
  BY <1>10, EndsInStep DEF DeviceRefused, Cancel, Exchanging
<1>11. CASE Restart
  BY <1>11 DEF Restart, RestartAccounts, TasksInStep, NoJob, IsJob, Fields, Exchanging
<1>12. ASSUME UNCHANGED tasks PROVE TasksInStep'
  BY <1>12 DEF tasks, TasksInStep
<1>13. ASSUME NEW s \in Sessions,
              \/ StartSocialLogin(s) \/ StartSocialRelogin(s)
              \/ StartIdcLogin(s) \/ StartIdcRelogin(s)
              \/ Approve(s) \/ Expire(s) \/ Read(s) \/ StopServer(s)
              \/ \E v \in Visits : Accept(s, v)
       PROVE  UNCHANGED tasks
  BY <1>13 DEF StartSocialLogin, StartSocialRelogin, OpenSocial, StartIdcLogin,
     StartIdcRelogin, OpenDevice, Approve, Expire, Read, StopServer, Accept
<1>14. ASSUME (\E i \in Ids : BalanceExpires(i)) \/ Clean \/ UNCHANGED loginVars
       PROVE  UNCHANGED tasks
  BY <1>14 DEF BalanceExpires, Clean, loginVars
<1> QED
  BY <1>1, <1>2, <1>3, <1>4, <1>5, <1>6, <1>8, <1>9, <1>10, <1>11, <1>12, <1>13, <1>14
     DEF NextLogins

LEMMA SessionNext == ASSUME SessionsInStep, [NextLogins]_loginVars PROVE SessionsInStep'
<1>1. ASSUME UNCHANGED <<phase, presented>> PROVE SessionsInStep'
  BY <1>1 DEF SessionsInStep
<1>2. ASSUME NEW ss, Drop(ss), UNCHANGED presented PROVE SessionsInStep'
  BY <1>2 DEF SessionsInStep, Drop
<1>3. ASSUME NEW s \in Sessions, OpenSocial(s) \/ OpenDevice(s) \/ Expire(s)
      PROVE  SessionsInStep'
  BY <1>3 DEF OpenSocial, OpenDevice, Expire, SessionsInStep
<1>4. ASSUME NEW r \in Requests, Take(r) PROVE SessionsInStep'
  <2>1. CASE ~InMap(job[r].session)
    BY <1>1, <1>4, <2>1 DEF Take
  <2>2. CASE InMap(job[r].session)
    BY <1>4, <2>2 DEF Take, Drop, InMap, SessionsInStep
  <2> QED
    BY <2>1, <2>2
<1>5. ASSUME NEW r \in Requests, NEW s \in Sessions,
             PollSocial(r, s) \/ PollDevice(r, s)
             \/ \E x \in Sessions : CompleteSocial(r, s, x)
      PROVE  SessionsInStep'
  BY <1>1, <1>2, <1>5 DEF PollSocial, PollDevice, CompleteSocial, sessions
<1>6. ASSUME NEW r \in Requests, DeviceGranted(r) \/ DeviceRefused(r)
      PROVE  SessionsInStep'
  BY <1>1, <1>2, <1>6 DEF DeviceGranted, DeviceRefused
<1>7. ASSUME NEW r \in Requests, Verify(r) \/ Exchange(r) \/ Grant(r) \/ Cancel(r)
      PROVE  SessionsInStep'
  BY <1>1, <1>7 DEF Verify, Exchange, Grant, Cancel, sessions
<1>8. ASSUME NEW s \in Sessions,
             Approve(s) \/ Read(s) \/ StopServer(s) \/ \E v \in Visits : Accept(s, v)
      PROVE  SessionsInStep'
  BY <1>1, <1>8 DEF Approve, Read, StopServer, Accept
<1>9. CASE Clean \/ Restart
  BY <1>2, <1>9 DEF Clean, Restart
<1>10. CASE UNCHANGED sessions \/ UNCHANGED loginVars
  BY <1>1, <1>10 DEF sessions, loginVars
<1> QED
  BY <1>3, <1>4, <1>5, <1>6, <1>7, <1>8, <1>9, <1>10
     DEF NextLogins, StartSocialLogin, StartSocialRelogin, StartIdcLogin, StartIdcRelogin

LEMMA LoginsHold == LoginSpec => []LoginInv
<1>1. LoginInv /\ [NextLogins]_loginVars => LoginInv'
  BY TaskNext, SessionNext DEF LoginInv
<1> QED
  BY <1>1, LoginsBegin, PTL DEF LoginSpec

\* The code of a login goes to the authentication server once, whatever polls,
\* pasted callbacks, expiries, cleanings and restarts come in between.
THEOREM ExchangedOnce == LoginSpec => []CodePresentedOnce
<1>1. LoginInv => CodePresentedOnce
  BY DEF LoginInv, SessionsInStep, CodePresentedOnce
<1> QED
  BY <1>1, LoginsHold, PTL

\* What is exchanged for a session is its own callback, whichever server or
\* dialog it came in through.
THEOREM OwnCallbackExchanged == LoginSpec => []OwnCallbackOnly
<1>1. LoginInv => OwnCallbackOnly
  BY DEF LoginInv, TasksInStep, OwnCallbackOnly, Exchanging
<1> QED
  BY <1>1, LoginsHold, PTL

--------------------------------------------------------------------------------
(* The update: its paths, files and tasks. *)

Kinds == {"backup", "staged", "rollback-current", "deleted", "closed"}
Path == Seq([kind : Kinds, version : Nat])
KindOf(p) == IF p = Exe THEN "exe" ELSE p[Len(p)].kind
VersionOf(p) == p[Len(p)].version

Record(r, fields) == r = [f \in fields |-> r[f]]
FileFields == {"version", "whole"}
TaskFields == {"at", "op", "exe", "version", "due"}
HistoryFields == {"ran", "restored", "overlapped", "disturbed"}

\* A staged file has the version that its name says.
IsFile(p, f) ==
    /\ p \in Path /\ KindOf(p) # "deleted"
    /\ Record(f, FileFields) /\ f.version \in Nat /\ f.whole \in BOOLEAN
    /\ KindOf(p) = "staged" => f.version = VersionOf(p)

FilesTyped ==
    /\ disk = [p \in DOMAIN disk |-> disk[p]]
    /\ \A p \in DOMAIN disk : IsFile(p, disk[p])
    /\ self \in Path /\ KindOf(self) # "staged"
    /\ open = [t \in Tasks |-> open[t]]

\* An apply goes on only with a release newer than what runs, v.
IsTask(a, v) ==
    /\ Record(a, TaskFields) /\ a.version \in Nat
    /\ a.exe \in Path /\ KindOf(a.exe) # "staged"
    /\ a.at \in {"place", "back"} => KindOf(a.exe) # "deleted"
    /\ a.at \in {"resolve", "stage", "create", "copy", "cleanup"} => a.op \in {"pull", "apply"}
    /\ a.at \in {"unback", "aside", "place"} => a.version > v
    /\ a.op = "apply" /\ a.at \in {"stage", "create", "copy", "cleanup"} => a.version > v

TasksTyped ==
    /\ task = [t \in Tasks |-> task[t]]
    /\ \A t \in Tasks : IsTask(task[t], running)
    /\ running = None => \A t \in Tasks : task[t] = Idle

RestTyped ==
    /\ latest \in Nat /\ running \in Nat /\ history.ran \in Nat
    /\ Record(history, HistoryFields)
    /\ history.restored \in BOOLEAN
    /\ Record(config, {"previous", "auto"}) /\ Record(runtime, {"previous", "auto"})

Typed == FilesTyped /\ TasksTyped /\ RestTyped

LEMMA FirstPaths ==
  /\ Exe \in Path /\ KindOf(Exe) = "exe"
  /\ Closed \in Path /\ KindOf(Closed) = "closed"
BY DEF Exe, Closed, Path, Kinds, KindOf, None

LEMMA SuffixedPaths ==
  ASSUME NEW p \in Path, NEW k \in Kinds, NEW v \in Nat
  PROVE  /\ Suffixed(p, k, v) \in Path /\ Suffixed(p, k, v) # p
         /\ KindOf(Suffixed(p, k, v)) = k /\ VersionOf(Suffixed(p, k, v)) = v
<1> DEFINE x == [kind |-> k, version |-> v]
<1>1. x \in [kind : Kinds, version : Nat] /\ x.kind = k /\ x.version = v
  OBVIOUS
<1>2. /\ Append(p, x) \in Path /\ Len(Append(p, x)) = Len(p) + 1 /\ Len(p) \in Nat
      /\ Append(p, x)[Len(p) + 1] = x
  BY <1>1 DEF Path
<1>3. Append(p, x) # p /\ Append(p, x) # << >>
  BY <1>2
<1> QED
  BY <1>1, <1>2, <1>3 DEF Suffixed, KindOf, VersionOf, Exe

\* The names beside a program, and that all differ from it.
LEMMA PathsBeside ==
  ASSUME NEW p \in Path
  PROVE  /\ Backup(p) \in Path /\ Backup(p) # p /\ KindOf(Backup(p)) = "backup"
         /\ Aside(p) \in Path /\ Aside(p) # p /\ KindOf(Aside(p)) = "rollback-current"
         /\ Deleted(p) \in Path /\ KindOf(Deleted(p)) = "deleted"
         /\ \A v \in Nat : /\ Staged(p, v) \in Path /\ Staged(p, v) # p
                           /\ KindOf(Staged(p, v)) = "staged" /\ VersionOf(Staged(p, v)) = v
<1>1. /\ None \in Nat
      /\ "backup" \in Kinds /\ "staged" \in Kinds /\ "rollback-current" \in Kinds
      /\ "deleted" \in Kinds
  BY DEF None, Kinds
<1> QED
  BY <1>1, SuffixedPaths DEF Backup, Aside, Deleted, Staged

Moved(p, q) ==
    /\ DOMAIN disk' = (DOMAIN disk \ {p}) \cup {q} /\ disk'[q] = disk[p]
    /\ disk' = [x \in DOMAIN disk' |-> disk'[x]]
    /\ \A x \in DOMAIN disk' \ {q} : x \in DOMAIN disk /\ disk'[x] = disk[x]
    /\ self' = IF self = p THEN q ELSE IF self = q THEN Deleted(q) ELSE self
    /\ open' = [t \in Tasks |-> IF open[t] = p THEN q
                                ELSE IF open[t] = q THEN Deleted(q) ELSE open[t]]

Removed(ps) ==
    /\ DOMAIN disk' = DOMAIN disk \ ps
    /\ disk' = [x \in DOMAIN disk' |-> disk'[x]]
    /\ \A x \in DOMAIN disk' : x \in DOMAIN disk /\ disk'[x] = disk[x]
    /\ self' = IF self \in ps \cap DOMAIN disk THEN Deleted(self) ELSE self
    /\ open' = [t \in Tasks |-> IF open[t] \in ps \cap DOMAIN disk THEN Deleted(open[t])
                                                                   ELSE open[t]]

LEMMA RenameDoes == ASSUME NEW p, NEW q, p # q, Exists(p), Rename(p, q) PROVE Moved(p, q)
BY DEF Rename, Exists, Moved

LEMMA UnlinkDoes == ASSUME NEW ps, Unlink(ps) PROVE Removed(ps)
BY DEF Unlink, Restrict, Removed

--------------------------------------------------------------------------------
(* What a step does to the files, those of the running program among them. *)

\* The file that the process was started from has its version.
Owned == Exists(self) => disk[self].version = running

Recent(p) == Exists(p) => disk[p].version >= history.ran

\* What is not staged is not replaced by something older than what ran.
Kept ==
    \A x : KindOf(x) # "staged" /\ Recent(x) => Recent(x)'

LEMMA Renaming ==
  ASSUME FilesTyped, Owned, NEW p, NEW q \in Path, p # q, Exists(p),
         KindOf(q) \notin {"staged", "deleted"}, Rename(p, q), UNCHANGED running
  PROVE  /\ FilesTyped' /\ Owned'
         /\ Recent(p) /\ history'.ran = history.ran => Kept /\ Recent(q)'
<1>1. Moved(p, q)
  BY RenameDoes
<1>2. Deleted(q) \in Path /\ KindOf(Deleted(q)) = "deleted"
  BY PathsBeside
<1>3. ASSUME NEW x \in DOMAIN disk' PROVE IsFile(x, disk'[x])
  <2>1. CASE x = q
    BY <1>1, <2>1 DEF Moved, FilesTyped, IsFile, Exists
  <2>2. CASE x # q
    BY <1>1, <1>3, <2>2 DEF Moved, FilesTyped
  <2> QED
    BY <2>1, <2>2
<1>4. FilesTyped'
  BY <1>1, <1>2, <1>3 DEF Moved, FilesTyped
<1>5. Owned'
  <2>1. CASE self = p
    BY <1>1, <2>1 DEF Moved, Owned, Exists
  <2>2. CASE self # p /\ self = q
    BY <1>1, <1>2, <1>3, <2>2 DEF Moved, Owned, Exists, IsFile
  <2>3. CASE self # p /\ self # q
    BY <1>1, <2>3 DEF Moved, Owned, Exists
  <2> QED
    BY <2>1, <2>2, <2>3
<1>6. ASSUME Recent(p), history'.ran = history.ran PROVE Kept /\ Recent(q)'
  BY <1>1, <1>6 DEF Moved, Recent, Exists, Kept
<1> QED
  BY <1>4, <1>5, <1>6

LEMMA Removing ==
  ASSUME FilesTyped, Owned, NEW ps, Unlink(ps), UNCHANGED running
  PROVE  /\ FilesTyped' /\ Owned'
         /\ history'.ran = history.ran => Kept
<1>1. Removed(ps)
  BY UnlinkDoes
<1>2. Deleted(self) \in Path /\ KindOf(Deleted(self)) = "deleted"
  BY PathsBeside DEF FilesTyped
<1>3. \A x \in DOMAIN disk' : IsFile(x, disk'[x])
  BY <1>1 DEF Removed, FilesTyped
<1>4. FilesTyped'
  BY <1>1, <1>2, <1>3 DEF Removed, FilesTyped
<1>5. Owned'
  <2>1. CASE self' = self
    BY <1>1, <2>1 DEF Removed, Owned, Exists
  <2>2. CASE self' = Deleted(self)
    BY <1>2, <1>3, <2>2 DEF Removed, Owned, Exists, IsFile
  <2> QED
    BY <1>1, <2>1, <2>2 DEF Removed
<1>6. ASSUME history'.ran = history.ran PROVE Kept
  BY <1>1, <1>6 DEF Removed, Recent, Exists, Kept
<1> QED
  BY <1>4, <1>5, <1>6

LEMMA FilesStand ==
  ASSUME FilesTyped, Owned, UNCHANGED <<disk, self, running>>, open' = [t \in Tasks |-> open'[t]]
  PROVE  /\ FilesTyped' /\ Owned'
         /\ history'.ran = history.ran => Kept
BY DEF FilesTyped, Owned, Kept, Recent, Exists

LEMMA Creating ==
  ASSUME FilesTyped, Owned, NEW t \in Tasks, CreateStaged(t), IsTask(task[t], running)
  PROVE  FilesTyped' /\ Owned' /\ Kept
<1> DEFINE v == task[t].version
           p == Staged(task[t].exe, v)
           f == [version |-> v, whole |-> FALSE]
<1>1. /\ p \in Path /\ KindOf(p) = "staged" /\ VersionOf(p) = v /\ v \in Nat
  BY PathsBeside DEF IsTask
<1>2. /\ disk' = [x \in DOMAIN disk \cup {p} |-> IF x = p THEN f ELSE disk[x]]
      /\ open' = [open EXCEPT ![t] = p] /\ UNCHANGED <<self, running, history>>
  BY DEF CreateStaged, process
<1>3. IsFile(p, f)
  BY <1>1 DEF IsFile, Record, FileFields
<1> HIDE DEF f, p
<1>4. FilesTyped'
  BY <1>1, <1>2, <1>3 DEF FilesTyped
<1>5. Owned'
  BY <1>1, <1>2 DEF FilesTyped, Owned, Exists
<1>6. Kept
  BY <1>1, <1>2 DEF Kept, Recent, Exists
<1> QED
  BY <1>4, <1>5, <1>6

LEMMA Copied ==
  ASSUME FilesTyped, Owned, NEW t \in Tasks, CopyEnds(t)
  PROVE  FilesTyped' /\ Owned' /\ Kept
<1>1. UNCHANGED <<self, running, history>> /\ open' = [open EXCEPT ![t] = Closed]
  BY DEF CopyEnds, process
<1>2. CASE UNCHANGED disk
  BY <1>1, <1>2, FilesStand DEF FilesTyped
<1>3. CASE Exists(open[t]) /\ disk' = [disk EXCEPT ![open[t]].whole = TRUE]
  <2>1. DOMAIN disk' = DOMAIN disk /\ disk' = [x \in DOMAIN disk' |-> disk'[x]]
    BY <1>3 DEF FilesTyped
  <2>2. ASSUME NEW x \in DOMAIN disk
        PROVE  disk'[x].version = disk[x].version /\ IsFile(x, disk'[x])
    <3>1. IsFile(x, disk[x])
      BY DEF FilesTyped
    <3>2. disk'[x] = disk[x] \/ disk'[x] = [disk[x] EXCEPT !.whole = TRUE]
      BY <1>3 DEF FilesTyped
    <3> QED
      BY <3>1, <3>2 DEF IsFile, Record, FileFields
  <2>3. FilesTyped'
    BY <1>1, <2>1, <2>2 DEF FilesTyped
  <2>4. Owned' /\ Kept
    BY <1>1, <2>1, <2>2 DEF Owned, Kept, Recent, Exists
  <2> QED
    BY <2>3, <2>4
<1> QED
  BY <1>2, <1>3 DEF CopyEnds

--------------------------------------------------------------------------------
(* Nothing older than what ran becomes the program, but for a backup. *)

\* Nor may what a task has moved aside be older: it is what it puts back.
Ahead(a) ==
    /\ a.at # "idle" => Recent(a.exe)
    /\ a.at = "place" => Recent(Backup(a.exe))
    /\ a.at = "back" => Recent(Aside(a.exe))

Forward ==
    /\ running # None => running = history.ran /\ Owned
    /\ \/ history.restored
       \/ Recent(Exe) /\ \A t \in Tasks : Ahead(task[t])

\* A step of a task that leaves it in a.
Onward(t, a) ==
    /\ task' = [task EXCEPT ![t] = a] /\ IsTask(a, running)
    /\ UNCHANGED running /\ history'.ran = history.ran
    /\ FilesTyped' /\ Owned' /\ RestTyped'
    /\ history'.restored \/ (~history.restored /\ Kept /\ Ahead(a)')

LEMMA AheadStays ==
  ASSUME Kept, NEW a, IsTask(a, running), Ahead(a)
  PROVE  Ahead(a)'
<1>1. /\ KindOf(a.exe) # "staged"
      /\ KindOf(Backup(a.exe)) # "staged" /\ KindOf(Aside(a.exe)) # "staged"
  BY PathsBeside DEF IsTask
<1> QED
  BY <1>1 DEF Kept, Ahead

LEMMA OnwardForward ==
  ASSUME Typed, Forward, running # None, NEW t \in Tasks, NEW a, Onward(t, a)
  PROVE  Typed' /\ Forward'
<1>1. task' = [u \in Tasks |-> IF u = t THEN a ELSE task[u]]
  BY DEF Typed, TasksTyped, Onward
<1>2. TasksTyped'
  BY <1>1 DEF Typed, TasksTyped, Onward
<1>3. ASSUME ~history'.restored PROVE Recent(Exe)' /\ \A u \in Tasks : Ahead(task[u])'
  <2>1. Kept /\ Ahead(a)' /\ Recent(Exe) /\ \A u \in Tasks : Ahead(task[u])
    BY <1>3 DEF Onward, Forward
  <2>2. Recent(Exe)'
    BY <2>1, FirstPaths DEF Kept
  <2>3. ASSUME NEW u \in Tasks PROVE Ahead(task[u])'
    <3>1. CASE u = t
      BY <1>1, <2>1, <3>1 DEF Ahead
    <3>2. CASE u # t
      <4>1. PICK b : b = task[u]
        OBVIOUS
      <4>2. Ahead(b) /\ IsTask(b, running)
        BY <2>1, <4>1 DEF Typed, TasksTyped
      <4>3. Ahead(b)'
        BY <2>1, <4>2, AheadStays
      <4>4. task'[u] = b
        BY <1>1, <3>2, <4>1
      <4> QED
        BY <4>3, <4>4 DEF Ahead
    <3> QED
      BY <3>1, <3>2
  <2> QED
    BY <2>2, <2>3
<1>4. Forward'
  BY <1>3 DEF Onward, Forward
<1> QED
  BY <1>2, <1>4 DEF Typed, Onward

LEMMA IdleTask == ASSUME NEW v PROVE IsTask(Idle, v) /\ Ahead(Idle) /\ Ahead(Idle)'
BY FirstPaths DEF Idle, IsTask, Record, TaskFields, None, Ahead

\* Where a task goes on, nothing else of it changes.
LEMMA Proceeds ==
  ASSUME Typed, NEW t \in Tasks, NEW s, Proceed(t, s)
  PROVE  \E a : /\ task' = [task EXCEPT ![t] = a] /\ a.at = s
                /\ a.op = task[t].op /\ a.exe = task[t].exe /\ a.version = task[t].version
                /\ Record(a, TaskFields)
<1>0. PICK a : a = [task[t] EXCEPT !.at = s]
  OBVIOUS
<1>1. task' = [task EXCEPT ![t] = a]
  BY <1>0 DEF Proceed
<1>2. /\ a.at = s /\ a.op = task[t].op /\ a.exe = task[t].exe /\ a.version = task[t].version
      /\ Record(a, TaskFields)
  BY <1>0 DEF Typed, TasksTyped, IsTask, Record, TaskFields
<1> QED
  BY <1>1, <1>2

LEMMA GoesOn ==
  ASSUME Typed, Forward, NEW t \in Tasks, Busy(t), running # None, NEW a,
         task' = [task EXCEPT ![t] = a], IsTask(a, running),
         a = Idle \/ (a.exe = task[t].exe /\ a.at \notin {"place", "back"}),
         UNCHANGED running, history'.ran = history.ran,
         history'.restored = history.restored,
         FilesTyped', Owned', RestTyped', Kept
  PROVE  Onward(t, a)
<1>1. ASSUME ~history.restored PROVE Ahead(a)'
  <2>1. CASE a = Idle
    BY <2>1, IdleTask
  <2>2. CASE a.exe = task[t].exe /\ a.at \notin {"place", "back"}
    <3>1. Recent(a.exe)
      BY <1>1, <2>2 DEF Forward, Ahead, Busy
    <3>2. Recent(a.exe)'
      BY <3>1 DEF Kept, IsTask
    <3> QED
      BY <2>2, <3>2 DEF Ahead
  <2> QED
    BY <2>1, <2>2
<1>2. history.restored \in BOOLEAN
  BY DEF Typed, RestTyped
<1> QED
  BY <1>1, <1>2 DEF Onward

\* Steps that touch no file.
LEMMA StandsAndGoesOn ==
  ASSUME Typed, Forward, NEW t \in Tasks, Busy(t), running # None, NEW a,
         task' = [task EXCEPT ![t] = a], IsTask(a, running),
         a = Idle \/ (a.exe = task[t].exe /\ a.at \notin {"place", "back"}),
         UNCHANGED <<disk, self, running>>, open' = [u \in Tasks |-> open'[u]],
         history'.ran = history.ran, history'.restored = history.restored, RestTyped'
  PROVE  Onward(t, a)
<1>1. Owned
  BY DEF Forward
<1>2. FilesTyped' /\ Owned' /\ Kept
  BY <1>1, FilesStand DEF Typed
<1> QED
  BY <1>2, GoesOn

LEMMA Resolving ==
  ASSUME Typed, Forward, NEW t \in Tasks, ResolveTargetVersion(t)
  PROVE  \E a : Onward(t, a)
<1>1. /\ running # None /\ task[t].at = "resolve" /\ Busy(t)
      /\ UNCHANGED <<disk, self, running, open, history, latest, config, runtime>>
  BY DEF ResolveTargetVersion, Doing, Busy
<1>2. RestTyped' /\ open' = [u \in Tasks |-> open'[u]]
  BY <1>1 DEF Typed, RestTyped, FilesTyped
<1>3. CASE Finish(t)
  <2>1. Onward(t, Idle)
    BY <1>1, <1>2, <1>3, IdleTask, StandsAndGoesOn DEF Finish
  <2> QED
    BY <2>1
<1>4. CASE /\ ~(task[t].op = "apply" /\ latest <= running)
           /\ task' = [task EXCEPT ![t].at = "stage", ![t].version = latest]
  <2>0. PICK a : a = [[task[t] EXCEPT !.at = "stage"] EXCEPT !.version = latest]
    OBVIOUS
  <2>1. task' = [task EXCEPT ![t] = a]
    BY <1>4, <2>0 DEF Typed, TasksTyped
  <2>2. IsTask(task[t], running) /\ latest \in Nat /\ running \in Nat
    BY DEF Typed, TasksTyped, RestTyped
  <2>3. a.exe = task[t].exe /\ a.at = "stage" /\ a.op = task[t].op /\ a.version = latest
        /\ Record(a, TaskFields)
    BY <2>0, <2>2 DEF IsTask, Record, TaskFields
  <2>4. IsTask(a, running)
    BY <1>1, <1>4, <2>2, <2>3 DEF IsTask
  <2>5. Onward(t, a)
    BY <1>1, <1>2, <2>1, <2>3, <2>4, StandsAndGoesOn
  <2> QED
    BY <2>5
<1> QED
  BY <1>3, <1>4 DEF ResolveTargetVersion

\* A task that goes on to the next step, or ends, beside what it does to files.
LEMMA NextAt ==
  ASSUME Typed, NEW t \in Tasks, NEW s, Proceed(t, s) \/ Finish(t),
         s \in {"create", "copy", "cleanup", "record", "aside", "forget", "unrecord"},
         \/ s \in {"create", "copy", "cleanup"} /\ task[t].at \in {"stage", "create", "copy"}
         \/ s = "aside" /\ task[t].at = "unback"
         \/ s \in {"record", "forget", "unrecord"}
  PROVE  \E a : /\ task' = [task EXCEPT ![t] = a] /\ IsTask(a, running)
                /\ a = Idle \/ (a.exe = task[t].exe /\ a.at \notin {"place", "back"})
<1>1. CASE Finish(t)
  BY <1>1, IdleTask DEF Finish
<1>2. CASE Proceed(t, s)
  <2>1. PICK a : /\ task' = [task EXCEPT ![t] = a] /\ a.at = s
                 /\ a.op = task[t].op /\ a.exe = task[t].exe /\ a.version = task[t].version
                 /\ Record(a, TaskFields)
    BY <1>2, Proceeds
  <2>2. IsTask(task[t], running)
    BY DEF Typed, TasksTyped
  <2>3. IsTask(a, running)
    BY <2>1, <2>2 DEF IsTask
  <2> QED
    BY <2>1, <2>3
<1> QED
  BY <1>1, <1>2

LEMMA Standing ==
  ASSUME Typed, Forward, NEW t \in Tasks,
         \/ UseStaged(t) \/ DownloadReleaseBinary(t) \/ DownloadFails(t)
         \/ CopyFails(t) \/ RecordApplied(t) \/ RecordRollback(t)
  PROVE  \E a : Onward(t, a)
<1>1. /\ running # None /\ Busy(t) /\ UNCHANGED <<disk, self, running, latest>>
      /\ open' = open \/ open' = [open EXCEPT ![t] = Closed]
      /\ history' = history \/ \E b : Disturbed(b)
      /\ \/ UNCHANGED <<config, runtime>>
         \/ /\ \E v : runtime' = [runtime EXCEPT !.previous = v]
            /\ config' = config \/ \E v : config' = [config EXCEPT !.previous = v]
  BY DEF UseStaged, DownloadReleaseBinary, DownloadFails, CopyFails, RecordApplied,
         RecordRollback, Doing, Busy, counts, process, SaveConfig
<1>2. open' = [u \in Tasks |-> open'[u]]
  BY <1>1 DEF Typed, FilesTyped
<1>3. /\ history'.ran = history.ran /\ history'.restored = history.restored
      /\ Record(history', HistoryFields)
  BY <1>1 DEF Typed, RestTyped, Record, HistoryFields, Disturbed
<1>4. Record(config', {"previous", "auto"}) /\ Record(runtime', {"previous", "auto"})
  BY <1>1 DEF Typed, RestTyped, Record, HistoryFields
<1>5. RestTyped'
  BY <1>1, <1>3, <1>4 DEF Typed, RestTyped
<1>6. PICK a : /\ task' = [task EXCEPT ![t] = a] /\ IsTask(a, running)
               /\ a = Idle \/ (a.exe = task[t].exe /\ a.at \notin {"place", "back"})
  <2>1. \/ Finish(t)
        \/ task[t].at = "stage" /\ (Proceed(t, "cleanup") \/ Proceed(t, "create"))
    BY DEF UseStaged, DownloadReleaseBinary, DownloadFails, CopyFails, RecordApplied,
           RecordRollback, Doing
  <2> QED
    BY <2>1, NextAt
<1>7. Onward(t, a)
  BY <1>1, <1>2, <1>3, <1>5, <1>6, StandsAndGoesOn
<1> QED
  BY <1>7

\* Steps that write or remove files beside the program.
LEMMA Writing ==
  ASSUME Typed, Forward, NEW t \in Tasks, CreateStaged(t) \/ CopyEnds(t)
  PROVE  \E a : Onward(t, a)
<1>1. /\ running # None /\ Busy(t) /\ UNCHANGED <<running, latest, config, runtime, history>>
      /\ IsTask(task[t], running) /\ Owned
  BY DEF CreateStaged, CopyEnds, Doing, Busy, counts, process, Typed, TasksTyped, Forward
<1>2. RestTyped'
  BY <1>1 DEF Typed, RestTyped
<1>3. FilesTyped' /\ Owned' /\ Kept
  BY <1>1, Creating, Copied DEF Typed
<1>4. PICK a : /\ task' = [task EXCEPT ![t] = a] /\ IsTask(a, running)
               /\ a = Idle \/ (a.exe = task[t].exe /\ a.at \notin {"place", "back"})
  <2>1. \/ task[t].at = "create" /\ Proceed(t, "copy")
        \/ task[t].at = "copy" /\ (Proceed(t, "cleanup") \/ Finish(t))
    BY DEF CreateStaged, CopyEnds, Doing
  <2> QED
    BY <2>1, NextAt
<1>5. Onward(t, a)
  BY <1>1, <1>2, <1>3, <1>4, GoesOn
<1> QED
  BY <1>5

LEMMA Clearing ==
  ASSUME Typed, Forward, NEW t \in Tasks,
         CleanupOtherStaged(t) \/ RemoveBackup(t) \/ ForgetUpdate(t)
  PROVE  \E a : Onward(t, a)
<1>1. /\ running # None /\ Busy(t) /\ UNCHANGED <<running, latest, config, runtime, history>>
      /\ IsTask(task[t], running) /\ Owned
      /\ \E ps : Unlink(ps)
  BY DEF CleanupOtherStaged, RemoveBackup, ForgetUpdate, Doing, Busy, counts, process,
         Typed, TasksTyped, Forward
<1>2. RestTyped'
  BY <1>1 DEF Typed, RestTyped
<1>3. FilesTyped' /\ Owned' /\ Kept
  BY <1>1, Removing DEF Typed
<1>4. PICK a : /\ task' = [task EXCEPT ![t] = a] /\ IsTask(a, running)
               /\ a = Idle \/ (a.exe = task[t].exe /\ a.at \notin {"place", "back"})
  <2>1. CASE task[t].at = "cleanup" /\ task[t].op # "pull" /\ Proceed(t, "unback")
    <3>1. PICK a : /\ task' = [task EXCEPT ![t] = a] /\ a.at = "unback"
                   /\ a.op = task[t].op /\ a.exe = task[t].exe /\ a.version = task[t].version
                   /\ Record(a, TaskFields)
      BY <2>1, Proceeds
    <3>2. IsTask(task[t], running)
      BY <1>1
    <3>3. task[t].op = "apply" /\ task[t].version > running
      BY <2>1, <3>2 DEF IsTask
    <3>4. IsTask(a, running)
      BY <3>1, <3>2, <3>3 DEF IsTask
    <3> QED
      BY <3>1, <3>4
  <2>2. CASE \/ Finish(t)
             \/ task[t].at = "unback" /\ Proceed(t, "aside")
             \/ Proceed(t, "unrecord")
    BY <2>2, NextAt
  <2> QED
    BY <2>1, <2>2 DEF CleanupOtherStaged, RemoveBackup, ForgetUpdate, Doing
<1>5. Onward(t, a)
  BY <1>1, <1>2, <1>3, <1>4, GoesOn
<1> QED
  BY <1>5

\* The program is renamed to q, and the task is to put something in its place.
LEMMA MovingAway ==
  ASSUME Typed, Forward, NEW t \in Tasks, running # None, Busy(t),
         NEW s \in {"place", "back"}, NEW q,
         \/ s = "place" /\ task[t].at = "aside" /\ q = Backup(task[t].exe)
         \/ s = "back" /\ q = Aside(task[t].exe),
         Exists(task[t].exe), Rename(task[t].exe, q), Proceed(t, s),
         UNCHANGED <<running, latest, config, runtime, history>>
  PROVE  \E a : Onward(t, a)
<1>1. IsTask(task[t], running) /\ Owned /\ RestTyped' /\ IsFile(task[t].exe, disk[task[t].exe])
  BY DEF Typed, TasksTyped, RestTyped, Forward, FilesTyped, Exists
<1>2. PICK a : /\ task' = [task EXCEPT ![t] = a] /\ a.at = s
               /\ a.op = task[t].op /\ a.exe = task[t].exe /\ a.version = task[t].version
               /\ Record(a, TaskFields)
  BY Proceeds
<1>3. IsTask(a, running)
  BY <1>1, <1>2 DEF IsTask, IsFile
<1>4. q \in Path /\ q # task[t].exe /\ KindOf(q) \notin {"staged", "deleted"}
  BY <1>1, PathsBeside DEF IsTask
<1>5. FilesTyped' /\ Owned' /\ (Recent(task[t].exe) => Kept /\ Recent(q)')
  BY <1>1, <1>4, Renaming DEF Typed
<1>6. ASSUME ~history.restored PROVE Kept /\ Ahead(a)'
  <2>1. Recent(a.exe)
    BY <1>2, <1>6 DEF Forward, Ahead, Busy
  <2>2. Kept /\ Recent(q)'
    BY <1>2, <1>5, <2>1
  <2>3. Recent(a.exe)'
    BY <1>3, <2>1, <2>2 DEF Kept, IsTask
  <2> QED
    BY <1>2, <2>2, <2>3 DEF Ahead
<1>7. history.restored \in BOOLEAN
  BY DEF Typed, RestTyped
<1>8. Onward(t, a)
  BY <1>1, <1>2, <1>3, <1>5, <1>6, <1>7 DEF Onward
<1> QED
  BY <1>8

\* What has been moved aside, or a release, is renamed to the program.
LEMMA MovingIn ==
  ASSUME Typed, Forward, NEW t \in Tasks, running # None,
         task[t].at \in {"place", "back"}, NEW p,
         p # task[t].exe, Exists(p), ~history.restored => Recent(p),
         Rename(p, task[t].exe),
         Finish(t) \/ Proceed(t, "record"),
         UNCHANGED <<running, latest, config, runtime, history>>
  PROVE  \E a : Onward(t, a)
<1>1. IsTask(task[t], running) /\ Owned /\ RestTyped' /\ Busy(t)
  BY DEF Typed, TasksTyped, RestTyped, Forward, Busy
<1>2. PICK a : /\ task' = [task EXCEPT ![t] = a] /\ IsTask(a, running)
               /\ a = Idle \/ (a.exe = task[t].exe /\ a.at \notin {"place", "back"})
  BY NextAt
<1>3. /\ task[t].exe \in Path /\ KindOf(task[t].exe) \notin {"staged", "deleted"}
  BY <1>1 DEF IsTask
<1>4. FilesTyped' /\ Owned' /\ (~history.restored => Kept)
  BY <1>1, <1>3, Renaming DEF Typed
<1>5. CASE ~history.restored
  BY <1>1, <1>2, <1>4, <1>5, GoesOn
<1>6. CASE history.restored
  BY <1>1, <1>2, <1>4, <1>6 DEF Onward
<1> QED
  BY <1>5, <1>6 DEF Typed, RestTyped

\* A step that gives up, whatever it changes beside the files.
LEMMA GivingUp ==
  ASSUME Typed, Forward, NEW t \in Tasks, running # None, Busy(t), Finish(t),
         \/ UNCHANGED <<disk, self, open>>
         \/ \E ps : Unlink(ps),
         UNCHANGED <<running, latest, config, runtime>>,
         UNCHANGED history \/ Disturbed(TRUE)
  PROVE  \E a : Onward(t, a)
<1>1. IsTask(Idle, running) /\ Owned /\ task' = [task EXCEPT ![t] = Idle]
  BY IdleTask DEF Forward, Finish
<1>2. /\ RestTyped' /\ history'.ran = history.ran /\ history'.restored = history.restored
  BY DEF Typed, RestTyped, Disturbed, Record, HistoryFields
<1>3. FilesTyped' /\ Owned' /\ Kept
  BY <1>1, <1>2, FilesStand, Removing DEF Typed, FilesTyped
<1>4. Onward(t, Idle)
  BY <1>1, <1>2, <1>3, GoesOn
<1> QED
  BY <1>4

LEMMA Moving ==
  ASSUME Typed, Forward, NEW t \in Tasks, MoveAside(t) \/ RestoreBackup(t)
  PROVE  \E a : Onward(t, a)
<1> DEFINE e == task[t].exe
<1>1. /\ running # None /\ Busy(t)
      /\ UNCHANGED <<running, latest, config, runtime, history>>
  BY DEF MoveAside, RestoreBackup, Doing, Busy
<1>2. \/ /\ task[t].at = "aside" /\ Exists(e) /\ Rename(e, Backup(e)) /\ Proceed(t, "place")
      \/ /\ Exists(e) /\ Rename(e, Aside(e)) /\ Proceed(t, "back")
      \/ Finish(t) /\ (UNCHANGED <<disk, self, open>> \/ \E ps : Unlink(ps))
  BY DEF MoveAside, RestoreBackup, Doing
<1>3. CASE task[t].at = "aside" /\ Exists(e) /\ Rename(e, Backup(e)) /\ Proceed(t, "place")
  BY <1>1, <1>3, MovingAway
<1>4. CASE Exists(e) /\ Rename(e, Aside(e)) /\ Proceed(t, "back")
  BY <1>1, <1>4, MovingAway
<1>5. CASE Finish(t) /\ (UNCHANGED <<disk, self, open>> \/ \E ps : Unlink(ps))
  BY <1>1, <1>5, GivingUp
<1> QED
  BY <1>2, <1>3, <1>4, <1>5

LEMMA Placing ==
  ASSUME Typed, Forward, NEW t \in Tasks, PlaceStaged(t)
  PROVE  \E a : Onward(t, a)
<1> DEFINE e == task[t].exe
           s == Staged(e, task[t].version)
<1>1. /\ running # None /\ Busy(t) /\ task[t].at = "place"
      /\ UNCHANGED <<running, latest, config, runtime>>
  BY DEF PlaceStaged, Doing, Busy
<1>2. IsTask(task[t], running) /\ running = history.ran /\ running \in Nat
  BY <1>1 DEF Typed, TasksTyped, RestTyped, Forward
<1>3. /\ e \in Path /\ s # e /\ KindOf(s) = "staged" /\ VersionOf(s) = task[t].version
      /\ Backup(e) # e
      /\ task[t].version \in Nat /\ task[t].version > running
  BY <1>1, <1>2, PathsBeside DEF IsTask
<1>4. CASE Exists(s) /\ Rename(s, e) /\ Proceed(t, "record") /\ UNCHANGED history
  <2>1. IsFile(s, disk[s])
    BY <1>4 DEF Typed, FilesTyped, Exists
  <2>2. Recent(s)
    BY <1>2, <1>3, <2>1 DEF IsFile, Recent
  <2> QED
    BY <1>1, <1>3, <1>4, <2>2, MovingIn
<1>5. CASE Finish(t) /\ Exists(Backup(e)) /\ Rename(Backup(e), e) /\ UNCHANGED history
  <2>1. ~history.restored => Recent(Backup(e))
    BY <1>1 DEF Forward, Ahead
  <2> QED
    BY <1>1, <1>3, <1>5, <2>1, MovingIn
<1>6. CASE Finish(t) /\ UNCHANGED <<disk, self, open>> /\ Disturbed(TRUE)
  BY <1>1, <1>6, GivingUp
<1> QED
  BY <1>4, <1>5, <1>6 DEF PlaceStaged, TakeBack

LEMMA PuttingBack ==
  ASSUME Typed, Forward, NEW t \in Tasks, PutBack(t)
  PROVE  \E a : Onward(t, a)
<1> DEFINE e == task[t].exe
<1>1. /\ running # None /\ Busy(t) /\ task[t].at = "back"
      /\ UNCHANGED <<running, latest, config, runtime>>
  BY DEF PutBack, Doing, Busy
<1>2. IsTask(task[t], running) /\ Owned
  BY <1>1 DEF Typed, TasksTyped, Forward
<1>3. /\ e \in Path /\ Backup(e) # e /\ Aside(e) # e /\ KindOf(e) \notin {"staged", "deleted"}
  BY <1>1, <1>2, PathsBeside DEF IsTask
<1>4. CASE /\ Exists(Backup(e)) /\ Rename(Backup(e), e) /\ Proceed(t, "forget")
           /\ history' = [history EXCEPT !.restored = TRUE]
  <2>1. PICK a : task' = [task EXCEPT ![t] = a] /\ IsTask(a, running)
    BY <1>4, NextAt
  <2>2. /\ history'.ran = history.ran /\ history'.restored
        /\ Record(history', HistoryFields)
    BY <1>4 DEF Typed, RestTyped, Record, HistoryFields
  <2>3. RestTyped'
    BY <1>1, <2>2 DEF Typed, RestTyped
  <2>4. FilesTyped' /\ Owned'
    BY <1>1, <1>2, <1>3, <1>4, Renaming DEF Typed
  <2>5. Onward(t, a)
    BY <1>1, <2>1, <2>2, <2>3, <2>4 DEF Onward
  <2> QED
    BY <2>5
<1>5. CASE Finish(t) /\ UNCHANGED history /\ Exists(Aside(e)) /\ Rename(Aside(e), e)
  <2>1. ~history.restored => Recent(Aside(e))
    BY <1>1 DEF Forward, Ahead
  <2> QED
    BY <1>1, <1>3, <1>5, <2>1, MovingIn
<1>6. CASE Finish(t) /\ UNCHANGED <<disk, self, open>> /\ Disturbed(TRUE)
  BY <1>1, <1>6, GivingUp
<1> QED
  BY <1>4, <1>5, <1>6 DEF PutBack, TakeBack

LEMMA StepForward ==
  ASSUME Typed, Forward, NEW t \in Tasks, Step(t)
  PROVE  Typed' /\ Forward'
<1>1. running # None
  BY DEF Step, ResolveTargetVersion, UseStaged, DownloadReleaseBinary, DownloadFails,
     CreateStaged, CopyEnds, CopyFails, CleanupOtherStaged, RemoveBackup, MoveAside,
     PlaceStaged, RecordApplied, RestoreBackup, PutBack, ForgetUpdate, RecordRollback, Doing
<1>2. \E a : Onward(t, a)
  BY Resolving, Standing, Writing, Clearing, Moving, Placing, PuttingBack DEF Step
<1> QED
  BY <1>1, <1>2, OnwardForward

\* A task begins with the path of the running program.
LEMMA BeginForward ==
  ASSUME Typed, Forward, NEW t \in Tasks, NEW op, NEW step, NEW due,
         Begin(t, op, step, due),
         <<op, step>> \in {<<"pull", "resolve">>, <<"apply", "resolve">>, <<"rollback", "restore">>},
         UNCHANGED <<disk, config, runtime, running, self, open, latest>>
  PROVE  Typed' /\ Forward'
<1>0. PICK a : a = [at |-> step, op |-> op, exe |-> self, version |-> None, due |-> due]
  OBVIOUS
<1>1. running # None /\ task' = [task EXCEPT ![t] = a]
  BY <1>0 DEF Begin
<1>2. IsTask(a, running)
  BY <1>0 DEF IsTask, Typed, FilesTyped, Record, TaskFields, None
<1>3. /\ history'.ran = history.ran /\ history'.restored = history.restored
      /\ Record(history', HistoryFields)
  BY DEF Begin, Typed, RestTyped, Record, HistoryFields
<1>4. FilesTyped' /\ Owned' /\ Kept
  BY <1>1, <1>3, FilesStand DEF Typed, FilesTyped, Forward
<1>5. RestTyped'
  BY <1>3 DEF Typed, RestTyped
<1>6. Recent(a.exe)' /\ history.restored \in BOOLEAN
  BY <1>0, <1>1, <1>3, <1>4 DEF Forward, Owned, Recent, Exists, Typed, RestTyped
<1>7. Ahead(a)'
  BY <1>0, <1>6 DEF Ahead
<1>8. Onward(t, a)
  BY <1>1, <1>2, <1>3, <1>4, <1>5, <1>6, <1>7 DEF Onward
<1> QED
  BY <1>1, <1>8, OnwardForward

LEMMA OtherForward ==
  ASSUME Typed, Forward,
         CheckUpdate \/ (\E auto \in BOOLEAN : SetUpdateConfig(auto)) \/ Release
           \/ UNCHANGED vars \/ SelfExit \/ Crash \/ ContainerStarts
  PROVE  Typed' /\ Forward'
<1>1. CASE CheckUpdate \/ (\E auto \in BOOLEAN : SetUpdateConfig(auto)) \/ Release
             \/ UNCHANGED vars
  <2>1. /\ UNCHANGED <<disk, self, open, running, history, task>>
        /\ Record(config', {"previous", "auto"}) /\ Record(runtime', {"previous", "auto"})
        /\ latest' \in Nat
    BY <1>1 DEF CheckUpdate, SetUpdateConfig, Release, vars, process, counts, Typed, RestTyped,
                Record, HistoryFields
  <2>2. Typed'
    BY <2>1 DEF Typed, FilesTyped, TasksTyped, RestTyped
  <2>3. Forward'
    BY <2>1 DEF Forward, Owned, Recent, Exists, Ahead
  <2> QED
    BY <2>2, <2>3
<1>2. CASE SelfExit \/ Crash
  <2>1. /\ UNCHANGED <<disk, self, latest, config, runtime>> /\ running' = None
        /\ task' = [t \in Tasks |-> Idle] /\ open' = [t \in Tasks |-> Closed]
        /\ history' = history \/ \E b : Disturbed(b)
    BY <1>2 DEF SelfExit, Crash, ProcessEnds
  <2>2. /\ history'.ran = history.ran /\ history'.restored = history.restored
        /\ Record(history', HistoryFields)
    BY <2>1 DEF Typed, RestTyped, Record, HistoryFields, Disturbed
  <2>3. Typed'
    <3>1. FilesTyped'
      BY <2>1 DEF Typed, FilesTyped
    <3>2. TasksTyped'
      BY <2>1, IdleTask DEF TasksTyped
    <3>3. RestTyped'
      BY <2>1, <2>2 DEF Typed, RestTyped, None
    <3> QED
      BY <3>1, <3>2, <3>3 DEF Typed
  <2>4. ASSUME Recent(Exe) PROVE Recent(Exe)'
    BY <2>1, <2>2, <2>4 DEF Recent, Exists
  <2>5. \A t \in Tasks : Ahead(task[t])'
    BY <2>1 DEF Idle, Ahead
  <2> QED
    BY <2>1, <2>2, <2>3, <2>4, <2>5 DEF Forward
<1>3. CASE ContainerStarts
  <2>1. /\ running = None /\ Exists(Exe)
        /\ running' = disk[Exe].version /\ self' = Exe /\ runtime' = config
        /\ history'.ran = disk[Exe].version /\ history'.restored = FALSE
        /\ Record(history', HistoryFields)
        /\ UNCHANGED <<disk, config, task, open, latest>>
    BY <1>3 DEF ContainerStarts, counts, Typed, RestTyped, Record, HistoryFields
  <2>2. /\ disk[Exe].version \in Nat
        /\ task = [t \in Tasks |-> Idle]
    BY <2>1 DEF Typed, FilesTyped, IsFile, Exists, TasksTyped
  <2>3. Typed'
    <3>1. FilesTyped'
      BY <2>1, FirstPaths DEF Typed, FilesTyped
    <3>2. TasksTyped'
      BY <2>1, <2>2, IdleTask DEF TasksTyped
    <3>3. RestTyped'
      BY <2>1, <2>2 DEF Typed, RestTyped
    <3> QED
      BY <3>1, <3>2, <3>3 DEF Typed
  <2>4. Owned' /\ Recent(Exe)'
    BY <2>1, <2>2 DEF Owned, Recent, Exists
  <2>5. \A t \in Tasks : Ahead(task[t])'
    BY <2>1, <2>2 DEF Idle, Ahead
  <2> QED
    BY <2>1, <2>3, <2>4, <2>5 DEF Forward
<1> QED
  BY <1>1, <1>2, <1>3

LEMMA NextForward == Typed /\ Forward /\ [Next]_vars => Typed' /\ Forward'
<1> SUFFICES ASSUME Typed, Forward, [Next]_vars PROVE Typed' /\ Forward'
  OBVIOUS
<1>1. ASSUME NEW t \in Operators,
             PullUpdateImage(t) \/ ApplyUpdateImage(t) \/ RollbackUpdateImage(t)
      PROVE  Typed' /\ Forward'
  <2>1. /\ t \in Tasks /\ UNCHANGED <<disk, config, runtime, running, self, open, latest>>
        /\ \/ Begin(t, "pull", "resolve", None) \/ Begin(t, "apply", "resolve", None)
           \/ Begin(t, "rollback", "restore", None)
    BY <1>1 DEF PullUpdateImage, ApplyUpdateImage, RollbackUpdateImage, Tasks, process
  <2> QED
    BY <2>1, BeginForward
<1>2. CASE SchedulerApplies
  <2>1. /\ Scheduler \in Tasks /\ UNCHANGED <<disk, config, runtime, running, self, open, latest>>
        /\ (\E due : Begin(Scheduler, "apply", "resolve", due)) \/ UNCHANGED <<task, history>>
    BY <1>2 DEF SchedulerApplies, Tasks
  <2>2. CASE UNCHANGED <<task, history>>
    BY <2>1, <2>2 DEF Typed, FilesTyped, TasksTyped, RestTyped, Forward, Owned, Recent, Exists,
                      Ahead
  <2> QED
    BY <2>1, <2>2, BeginForward
<1>3. ASSUME NEW t \in Tasks, Step(t) PROVE Typed' /\ Forward'
  BY <1>3, StepForward
<1> QED
  BY <1>1, <1>2, <1>3, OtherForward DEF Next

LEMMA InitForward == Init => Typed /\ Forward
<1> SUFFICES ASSUME Init PROVE Typed /\ Forward
  OBVIOUS
<1>1. /\ running \in 1 .. 2 /\ latest \in 1 .. 2 /\ self = Exe
      /\ disk = [p \in {Exe} |-> [version |-> running, whole |-> TRUE]]
      /\ config \in [previous : {None}, auto : BOOLEAN] /\ runtime = config
      /\ task = [t \in Tasks |-> Idle] /\ open = [t \in Tasks |-> Closed]
      /\ history = [ran |-> running, restored |-> FALSE, overlapped |-> FALSE,
                    disturbed |-> FALSE]
  BY DEF Init
<1>2. FilesTyped
  <2>1. DOMAIN disk = {Exe} /\ disk[Exe] = [version |-> running, whole |-> TRUE]
    BY <1>1
  <2>2. IsFile(Exe, [version |-> running, whole |-> TRUE])
    BY <1>1, FirstPaths DEF IsFile, Record, FileFields
  <2>3. disk = [p \in DOMAIN disk |-> disk[p]]
    BY <1>1
  <2> QED
    BY <1>1, <2>1, <2>2, <2>3, FirstPaths DEF FilesTyped
<1>3. TasksTyped
  BY <1>1, IdleTask DEF TasksTyped
<1>4. RestTyped
  BY <1>1 DEF RestTyped, Record, HistoryFields
<1>5. Owned /\ Recent(Exe)
  BY <1>1 DEF Owned, Recent
<1>6. \A t \in Tasks : Ahead(task[t])
  BY <1>1 DEF Idle, Ahead
<1> QED
  BY <1>1, <1>2, <1>3, <1>4, <1>5, <1>6 DEF Typed, Forward

\* A restart never brings an older version than ran before, unless a backup was put
\* back: whatever updates overlap, crash or fail, and however many there are.
THEOREM NeverDowngraded == Spec => NoDowngrade
<1>1. Typed /\ Forward /\ [Next]_vars
        => [running = None /\ running' # None => running' >= history.ran \/ history.restored]_vars
  <2> SUFFICES ASSUME Typed, Forward, Next, running = None, running' # None, ~history.restored
               PROVE  running' >= history.ran
    BY DEF vars, process
  <2>1. CASE ContainerStarts
    BY <2>1 DEF ContainerStarts, Forward, Recent
  <2>2. \A t \in Tasks : ~Step(t)
    BY DEF Step, ResolveTargetVersion, UseStaged, DownloadReleaseBinary, DownloadFails,
       CreateStaged, CopyEnds, CopyFails, CleanupOtherStaged, RemoveBackup, MoveAside,
       PlaceStaged, RecordApplied, RestoreBackup, PutBack, ForgetUpdate, RecordRollback, Doing
  <2>3. CASE \/ \E t \in Operators :
                  PullUpdateImage(t) \/ ApplyUpdateImage(t) \/ RollbackUpdateImage(t)
             \/ SchedulerApplies \/ CheckUpdate
             \/ \E auto \in BOOLEAN : SetUpdateConfig(auto)
             \/ SelfExit \/ Crash \/ Release
    BY <2>3 DEF PullUpdateImage, ApplyUpdateImage, RollbackUpdateImage, Begin, SchedulerApplies,
       CheckUpdate, SetUpdateConfig, SelfExit, Crash, Release, process
  <2> QED
    BY <2>1, <2>2, <2>3 DEF Next
<1>2. Spec => [](Typed /\ Forward)
  BY InitForward, NextForward, PTL DEF Spec
<1> QED
  BY <1>1, <1>2, PTL DEF Spec, NoDowngrade

--------------------------------------------------------------------------------
(* The program and its backup, as long as nothing has disturbed an update. *)

File(p, v) == Exists(p) /\ disk[p] = [version |-> v, whole |-> TRUE]

\* The backup is that of the recorded update.
Honest ==
    runtime.previous # None /\ Exists(Backup(Exe)) => File(Backup(Exe), runtime.previous)

Installs == {"place", "record", "back", "forget", "unrecord"}

\* Only t may be at work.
Alone(t) ==
    /\ \A u \in Tasks \ {t} : task[u].at = "idle" /\ open[u] = Closed
    /\ exiting => task[t].at = "idle"
    /\ task[t].at # "idle" => task[t].exe = Exe

\* The program is where its path says, but between the two renames of an
\* installation or of a rollback.
InPlace(t) ==
    LET at == task[t].at IN
    /\ at \notin {"place", "back"} => Exists(Exe) /\ disk[Exe].whole
    /\ running # None /\ ~exiting /\ at \notin Installs
         => self = Exe /\ disk[Exe].version = running
    /\ at = "place" => self = Backup(Exe)
    /\ at = "back" => self = Aside(Exe) /\ File(Aside(Exe), running)

\* The backup is what runs until that is recorded, and gone once it is put back.
Backed(t) ==
    LET at == task[t].at IN
    /\ at \in {"place", "record"} => File(Backup(Exe), running)
    /\ at \in {"forget", "unrecord"} => ~Exists(Backup(Exe))
    /\ at \notin {"place", "record"} => Honest
    /\ Exists(Backup(Exe)) => disk[Backup(Exe)].whole
    /\ config.previous = runtime.previous

\* A staged file that is not whole is being written.
Copying(t) ==
    LET at == task[t].at IN
    /\ at = "copy" => open[t] = Staged(Exe, task[t].version)
    /\ at # "copy" => open[t] = Closed
    /\ \A p \in DOMAIN disk : KindOf(p) = "staged" /\ ~disk[p].whole
                                => at = "copy" /\ p = open[t]

CalmOf(t) == Alone(t) /\ InPlace(t) /\ Backed(t) /\ Copying(t)

Calm == ~history.disturbed => \E t \in Tasks : CalmOf(t)

LEMMA PathsOfProgram ==
  /\ KindOf(Exe) = "exe" /\ Exe \in Path
  /\ Backup(Exe) \in Path /\ KindOf(Backup(Exe)) = "backup"
  /\ Aside(Exe) \in Path /\ KindOf(Aside(Exe)) = "rollback-current"
  /\ KindOf(Closed) = "closed"
  /\ \A v \in Nat : /\ Staged(Exe, v) \in Path /\ KindOf(Staged(Exe, v)) = "staged"
                    /\ VersionOf(Staged(Exe, v)) = v
BY FirstPaths, PathsBeside

\* The files of a release other than the one that is kept.
LEMMA OthersStaged ==
  ASSUME NEW v, NEW p \in OtherStaged(Exe, v)
  PROVE  KindOf(p) = "staged"
BY PathsOfProgram, UpdateAssumption DEF OtherStaged, Versions

\* What a rename or a removal does that nobody's open file has a part in.
LEMMA Renamed ==
  ASSUME Typed, NEW t \in Tasks, CalmOf(t), task[t].at # "copy",
         NEW p, NEW q, p # q, Exists(p), KindOf(p) # "closed", KindOf(q) # "closed",
         Rename(p, q)
  PROVE  Moved(p, q) /\ UNCHANGED open
<1>1. \A u \in Tasks : open[u] = Closed
  BY DEF CalmOf, Alone, InPlace, Backed, Copying
<1>2. p # Closed /\ q # Closed
  BY PathsOfProgram
<1>3. Moved(p, q)
  BY RenameDoes
<1> QED
  BY <1>1, <1>2, <1>3 DEF Moved, Typed, FilesTyped

LEMMA Unlinked ==
  ASSUME Typed, NEW t \in Tasks, CalmOf(t), task[t].at # "copy",
         NEW ps, \A x \in ps : KindOf(x) \notin {"exe", "closed"}, Unlink(ps)
  PROVE  Removed(ps) /\ UNCHANGED open /\ Exe \notin ps
<1>1. \A u \in Tasks : open[u] = Closed
  BY DEF CalmOf, Alone, InPlace, Backed, Copying
<1>2. Closed \notin ps /\ Exe \notin ps
  BY PathsOfProgram
<1>3. Removed(ps)
  BY UnlinkDoes
<1> QED
  BY <1>1, <1>2, <1>3 DEF Removed, Typed, FilesTyped

\* A task of a calm process goes on to another place.
LEMMA TaskAt ==
  ASSUME Typed, NEW t \in Tasks, NEW s,
         Proceed(t, s) \/ (s = "idle" /\ Finish(t))
  PROVE  /\ task'[t].at = s
         /\ s # "idle" => task'[t].exe = task[t].exe /\ task'[t].version = task[t].version
         /\ \A u \in Tasks \ {t} : task'[u] = task[u]
<1>1. CASE s = "idle" /\ Finish(t)
  BY <1>1 DEF Finish, Typed, TasksTyped, Idle
<1>2. CASE Proceed(t, s)
  BY <1>2 DEF Proceed, Typed, TasksTyped, IsTask, Record, TaskFields
<1> QED
  BY <1>1, <1>2

\* Steps that leave the files alone.
LEMMA CalmStands ==
  ASSUME NEW t \in Tasks, CalmOf(t),
         task[t].at \notin Installs \cup {"copy"}, task'[t].at \notin Installs \cup {"copy"},
         task'[t].at # "idle" => task'[t].exe = Exe /\ ~exiting,
         \A u \in Tasks \ {t} : task'[u] = task[u],
         UNCHANGED <<disk, self, open, running, exiting>>,
         config'.previous = config.previous, runtime'.previous = runtime.previous
  PROVE  CalmOf(t)'
<1>1. Alone(t)'
  BY DEF CalmOf, Alone
<1>2. InPlace(t)'
  BY DEF CalmOf, Alone, InPlace, Exists, Installs
<1>3. Backed(t)'
  BY DEF CalmOf, Backed, Honest, File, Exists, Installs
<1>4. Copying(t)'
  BY DEF CalmOf, Alone, Copying
<1> QED
  BY <1>1, <1>2, <1>3, <1>4 DEF CalmOf

LEMMA CalmUnlinks ==
  ASSUME Typed, NEW t \in Tasks, CalmOf(t), NEW ps, Unlink(ps),
         \A x \in ps : KindOf(x) \notin {"exe", "closed"},
         task[t].at \notin Installs \cup {"copy", "idle"},
         task'[t].at \notin Installs \cup {"copy"},
         task'[t].at # "idle" => task'[t].exe = Exe,
         \A u \in Tasks \ {t} : task'[u] = task[u],
         UNCHANGED <<running, exiting, config, runtime>>
  PROVE  CalmOf(t)'
<1>1. Removed(ps) /\ UNCHANGED open /\ Exe \notin ps
  BY Unlinked
<1>2. Alone(t)'
  BY <1>1 DEF CalmOf, Alone
<1>3. InPlace(t)'
  BY <1>1 DEF Removed, CalmOf, Alone, InPlace, Exists, Installs
<1>4. Backed(t)'
  BY <1>1 DEF Removed, CalmOf, Backed, Honest, File, Exists, Installs
<1>5. Copying(t)'
  BY <1>1 DEF Removed, CalmOf, Copying
<1> QED
  BY <1>2, <1>3, <1>4, <1>5 DEF CalmOf

LEMMA CalmStanding ==
  ASSUME Typed, NEW t \in Tasks, CalmOf(t), running # None,
         \/ ResolveTargetVersion(t) \/ UseStaged(t) \/ DownloadReleaseBinary(t)
         \/ DownloadFails(t)
  PROVE  CalmOf(t)'
<1>1. /\ task[t].at \in {"resolve", "stage"}
      /\ UNCHANGED <<disk, self, open, running, exiting, config, runtime>>
  BY DEF ResolveTargetVersion, UseStaged, DownloadReleaseBinary, DownloadFails, Doing,
         counts, process
<1>2. task[t].exe = Exe /\ ~exiting
  BY <1>1 DEF CalmOf, Alone, InPlace, Backed, Copying
<1>3. /\ task'[t].at \in {"idle", "stage", "cleanup", "create"}
      /\ task'[t].at # "idle" => task'[t].exe = task[t].exe
      /\ \A u \in Tasks \ {t} : task'[u] = task[u]
  <2>1. CASE \E s \in {"cleanup", "create"} : Proceed(t, s)
    BY <2>1, TaskAt
  <2>2. CASE Finish(t)
    BY <2>2, TaskAt
  <2>3. CASE task' = [task EXCEPT ![t].at = "stage", ![t].version = latest]
    BY <2>3 DEF Typed, TasksTyped, IsTask, Record, TaskFields
  <2> QED
    BY <2>1, <2>2, <2>3 DEF ResolveTargetVersion, UseStaged, DownloadReleaseBinary,
                            DownloadFails
<1> QED
  BY <1>1, <1>2, <1>3, CalmStands DEF Installs

LEMMA CalmCreates ==
  ASSUME Typed, NEW t \in Tasks, CalmOf(t), CreateStaged(t)
  PROVE  CalmOf(t)'
<1>1. /\ task[t].at = "create" /\ task[t].exe = Exe /\ Proceed(t, "copy")
      /\ UNCHANGED <<self, running, exiting, config, runtime>>
  BY DEF CreateStaged, Doing, CalmOf, Alone, InPlace, Backed, Copying, process
<1>2. PICK p : p = Staged(Exe, task[t].version)
  OBVIOUS
<1>3. /\ KindOf(p) = "staged" /\ p # Exe /\ p # Backup(Exe) /\ p # Aside(Exe)
  BY <1>2, PathsOfProgram DEF Typed, TasksTyped, IsTask
<1>4. /\ DOMAIN disk' = DOMAIN disk \cup {p}
      /\ \A x \in DOMAIN disk \ {p} : disk'[x] = disk[x]
      /\ open' = [open EXCEPT ![t] = p]
  BY <1>1, <1>2 DEF CreateStaged
<1>5. /\ task'[t].at = "copy" /\ task'[t].exe = Exe /\ task'[t].version = task[t].version
      /\ \A u \in Tasks \ {t} : task'[u] = task[u]
      /\ open'[t] = p /\ \A u \in Tasks \ {t} : open'[u] = open[u]
  BY <1>1, <1>4, TaskAt DEF Typed, FilesTyped
<1> QED
  BY <1>1, <1>2, <1>3, <1>4, <1>5 DEF CalmOf, Alone, InPlace, Backed, Copying, Honest, File, Exists, Installs

LEMMA CalmCopied ==
  ASSUME Typed, NEW t \in Tasks, CalmOf(t), CopyEnds(t)
  PROVE  CalmOf(t)'
<1>1. /\ task[t].at = "copy" /\ task[t].exe = Exe
      /\ UNCHANGED <<self, running, exiting, config, runtime>>
      /\ open' = [open EXCEPT ![t] = Closed]
  BY DEF CopyEnds, Doing, CalmOf, Alone, InPlace, Backed, Copying, process
<1>2. /\ task'[t].at \in {"cleanup", "idle"}
      /\ task'[t].at # "idle" => task'[t].exe = Exe
      /\ \A u \in Tasks \ {t} : task'[u] = task[u]
      /\ open'[t] = Closed /\ \A u \in Tasks \ {t} : open'[u] = open[u]
  <2>1. Proceed(t, "cleanup") \/ Finish(t)
    BY DEF CopyEnds
  <2> QED
    BY <1>1, <2>1, TaskAt DEF Typed, FilesTyped
<1>3. PICK p : p = open[t]
  OBVIOUS
<1>4. p = Staged(Exe, task[t].version)
  BY <1>1, <1>3 DEF CalmOf, Alone, InPlace, Backed, Copying
<1>5. /\ KindOf(p) = "staged" /\ p # Exe /\ p # Backup(Exe) /\ p # Aside(Exe) /\ p # Closed
  BY <1>4, PathsOfProgram DEF Typed, TasksTyped, IsTask
<1>6. /\ DOMAIN disk' = DOMAIN disk
      /\ \A x \in DOMAIN disk \ {p} : disk'[x] = disk[x]
      /\ Exists(p) => disk'[p].whole
  <2>1. \A u \in Tasks \ {t} : open[u] # p
    BY <1>5 DEF CalmOf, Alone, InPlace, Backed, Copying
  <2>2. CASE Exists(p)
    <3>1. disk' = [disk EXCEPT ![p].whole = TRUE]
      BY <1>3, <2>1, <2>2 DEF CopyEnds
    <3> QED
      BY <2>2, <3>1 DEF Typed, FilesTyped, IsFile, Record, FileFields, Exists
  <2>3. CASE ~Exists(p)
    BY <1>3, <2>3 DEF CopyEnds
  <2> QED
    BY <2>2, <2>3
<1>7. Alone(t)'
  BY <1>1, <1>2 DEF CalmOf, Alone
<1>8. InPlace(t)'
  BY <1>1, <1>2, <1>5, <1>6 DEF CalmOf, InPlace, Exists, Installs
<1>9. Backed(t)'
  BY <1>1, <1>2, <1>5, <1>6 DEF CalmOf, Backed, Honest, File, Exists, Installs
<1>10. Copying(t)'
  BY <1>1, <1>2, <1>3, <1>6 DEF CalmOf, Copying, Exists
<1> QED
  BY <1>7, <1>8, <1>9, <1>10 DEF CalmOf

LEMMA CalmClears ==
  ASSUME Typed, NEW t \in Tasks, CalmOf(t), CleanupOtherStaged(t) \/ RemoveBackup(t)
  PROVE  CalmOf(t)'
<1>1. /\ task[t].at \in {"cleanup", "unback"}
      /\ UNCHANGED <<running, exiting, config, runtime>>
  BY DEF CleanupOtherStaged, RemoveBackup, Doing
<1>2. task[t].exe = Exe
  BY <1>1 DEF CalmOf, Alone, InPlace, Backed, Copying
<1>3. /\ task'[t].at \in {"idle", "unback", "aside"}
      /\ task'[t].at # "idle" => task'[t].exe = task[t].exe
      /\ \A u \in Tasks \ {t} : task'[u] = task[u]
  <2>1. Finish(t) \/ Proceed(t, "unback") \/ Proceed(t, "aside")
    BY DEF CleanupOtherStaged, RemoveBackup
  <2> QED
    BY <2>1, TaskAt
<1>4. PICK ps : /\ Unlink(ps)
                /\ ps = {Backup(Exe)} \/ \E v : ps = OtherStaged(Exe, v)
  BY <1>2 DEF CleanupOtherStaged, RemoveBackup
<1>5. \A x \in ps : KindOf(x) \notin {"exe", "closed"}
  BY <1>4, OthersStaged, PathsOfProgram
<1> QED
  BY <1>1, <1>2, <1>3, <1>4, <1>5, CalmUnlinks DEF Installs

\* The program becomes the backup, or goes aside.
LEMMA CalmMovesAway ==
  ASSUME Typed, NEW t \in Tasks, CalmOf(t), running # None, NEW s, NEW q,
         task[t].at \notin Installs \cup {"copy", "idle"},
         \/ s = "place" /\ q = Backup(Exe)
         \/ s = "back" /\ q = Aside(Exe),
         Exists(Exe), Rename(Exe, q), Proceed(t, s),
         UNCHANGED <<running, exiting, config, runtime>>
  PROVE  CalmOf(t)'
<1>1. /\ task[t].exe = Exe /\ ~exiting /\ self = Exe
      /\ disk[Exe].version = running /\ disk[Exe].whole /\ Honest
  BY DEF CalmOf, Alone, InPlace, Backed, Copying, Installs
<1>2. /\ task'[t].at = s /\ task'[t].exe = Exe
      /\ \A u \in Tasks \ {t} : task'[u] = task[u]
  BY <1>1, TaskAt
<1>3. /\ q # Exe /\ KindOf(q) \notin {"closed", "staged"} /\ KindOf(Exe) \notin {"closed", "staged"}
      /\ Aside(Exe) # Backup(Exe)
  BY PathsOfProgram
<1>4. /\ UNCHANGED open
      /\ DOMAIN disk' = (DOMAIN disk \ {Exe}) \cup {q} /\ disk'[q] = disk[Exe]
      /\ \A x \in DOMAIN disk' \ {q} : x \in DOMAIN disk /\ disk'[x] = disk[x]
      /\ self' = q
  BY <1>1, <1>3, Renamed DEF Moved
<1>5. disk[Exe] = [version |-> running, whole |-> TRUE]
  <2>1. Record(disk[Exe], FileFields)
    BY DEF Typed, FilesTyped, IsFile, Exists
  <2> QED
    BY <1>1, <2>1 DEF Record, FileFields, CalmOf, Alone, InPlace, Backed, Copying
<1>6. File(q, running)'
  BY <1>4, <1>5 DEF File, Exists
<1>7. Alone(t)'
  BY <1>1, <1>2, <1>4 DEF CalmOf, Alone
<1>8. InPlace(t)'
  BY <1>1, <1>2, <1>4, <1>6 DEF CalmOf, InPlace, Exists, Installs
<1>9. Backed(t)'
  BY <1>1, <1>2, <1>3, <1>4, <1>6 DEF CalmOf, Backed, Honest, File, Exists, Installs
<1>10. Copying(t)'
  BY <1>2, <1>3, <1>4 DEF CalmOf, Copying, Installs
<1> QED
  BY <1>7, <1>8, <1>9, <1>10 DEF CalmOf

\* What was moved away comes back when a step fails.
LEMMA CalmMovesBack ==
  ASSUME Typed, NEW t \in Tasks, CalmOf(t), running # None, NEW p,
         \/ task[t].at = "place" /\ p = Backup(Exe)
         \/ task[t].at = "back" /\ p = Aside(Exe),
         Rename(p, Exe), Finish(t),
         UNCHANGED <<running, exiting, config, runtime>>
  PROVE  CalmOf(t)'
<1>1. /\ ~exiting /\ self = p /\ File(p, running)
      /\ task[t].at = "back" => Honest
  BY DEF CalmOf, Alone, InPlace, Backed, Copying
<1>2. /\ task'[t].at = "idle"
      /\ \A u \in Tasks \ {t} : task'[u] = task[u]
  BY TaskAt
<1>3. /\ p # Exe /\ KindOf(p) \notin {"closed", "staged"} /\ KindOf(Exe) \notin {"closed", "staged"}
      /\ Aside(Exe) # Backup(Exe) /\ Backup(Exe) # Exe /\ Exists(p)
  BY <1>1, PathsOfProgram DEF File
<1>4. /\ UNCHANGED open
      /\ DOMAIN disk' = (DOMAIN disk \ {p}) \cup {Exe} /\ disk'[Exe] = disk[p]
      /\ \A x \in DOMAIN disk' \ {Exe} : x \in DOMAIN disk /\ disk'[x] = disk[x]
      /\ self' = Exe
  BY <1>1, <1>3, Renamed DEF Moved
<1> QED
  BY <1>1, <1>2, <1>3, <1>4 DEF CalmOf, Alone, InPlace, Backed, Copying, Honest, File, Exists, Installs

LEMMA CalmMoves ==
  ASSUME Typed, NEW t \in Tasks, CalmOf(t), MoveAside(t) \/ RestoreBackup(t)
  PROVE  CalmOf(t)'
<1>1. /\ running # None /\ task[t].at \in {"aside", "restore"}
      /\ UNCHANGED <<running, exiting, config, runtime>>
  BY DEF MoveAside, RestoreBackup, Doing
<1>2. task[t].exe = Exe
  BY <1>1 DEF CalmOf, Alone, InPlace, Backed, Copying
<1>3. CASE Finish(t) /\ UNCHANGED <<disk, self, open>>
  <2>1. task'[t].at = "idle" /\ \A u \in Tasks \ {t} : task'[u] = task[u]
    BY <1>3, TaskAt
  <2> QED
    BY <1>1, <1>3, <2>1, CalmStands DEF Installs
<1>4. CASE Finish(t) /\ Unlink({Aside(Exe)})
  <2>1. task'[t].at = "idle" /\ \A u \in Tasks \ {t} : task'[u] = task[u]
    BY <1>4, TaskAt
  <2>2. \A x \in {Aside(Exe)} : KindOf(x) \notin {"exe", "closed"}
    BY PathsOfProgram
  <2> QED
    BY <1>1, <1>4, <2>1, <2>2, CalmUnlinks DEF Installs
<1>5. CASE Exists(Exe) /\ Rename(Exe, Backup(Exe)) /\ Proceed(t, "place")
  BY <1>1, <1>5, CalmMovesAway DEF Installs
<1>6. CASE Exists(Exe) /\ Rename(Exe, Aside(Exe)) /\ Proceed(t, "back")
  BY <1>1, <1>6, CalmMovesAway DEF Installs
<1> QED
  BY <1>2, <1>3, <1>4, <1>5, <1>6 DEF MoveAside, RestoreBackup

LEMMA NotDisturbed ==
  ASSUME Typed, ~history'.disturbed
  PROVE  ~Disturbed(TRUE)
BY DEF Disturbed, Typed, RestTyped, Record, HistoryFields

LEMMA CalmPlaces ==
  ASSUME Typed, NEW t \in Tasks, CalmOf(t), PlaceStaged(t), ~history'.disturbed
  PROVE  CalmOf(t)'
<1>1. /\ running # None /\ task[t].at = "place"
      /\ UNCHANGED <<running, exiting, config, runtime>>
  BY DEF PlaceStaged, Doing
<1>2. /\ task[t].exe = Exe /\ File(Backup(Exe), running) /\ ~exiting /\ self = Backup(Exe)
      /\ task[t].version \in Nat
  BY <1>1 DEF CalmOf, Alone, InPlace, Backed, Copying, Typed, TasksTyped, IsTask
<1>3. CASE Finish(t) /\ Rename(Backup(Exe), Exe)
  BY <1>1, <1>3, CalmMovesBack
<1>4. ASSUME NEW s, s = Staged(Exe, task[t].version),
             Exists(s), Rename(s, Exe), Proceed(t, "record")
      PROVE  CalmOf(t)'
  <2>1. /\ KindOf(s) = "staged" /\ s # Exe /\ s # Backup(Exe) /\ Backup(Exe) # Exe
        /\ KindOf(Exe) \notin {"closed", "staged"}
    BY <1>2, <1>4, PathsOfProgram
  <2>2. disk[s].whole
    BY <1>1, <1>4, <2>1 DEF CalmOf, Alone, InPlace, Backed, Copying, Exists
  <2>3. Moved(s, Exe) /\ UNCHANGED open
    BY <1>1, <1>4, <2>1, Renamed
  <2>4. /\ task'[t].at = "record" /\ task'[t].exe = Exe
        /\ \A u \in Tasks \ {t} : task'[u] = task[u]
    BY <1>2, <1>4, TaskAt
  <2>5. File(Backup(Exe), running)'
    BY <1>1, <1>2, <2>1, <2>3 DEF Moved, File, Exists
  <2>6. Alone(t)'
    BY <1>1, <1>2, <2>3, <2>4 DEF CalmOf, Alone
  <2>7. InPlace(t)'
    BY <2>2, <2>3, <2>4 DEF Moved, CalmOf, InPlace, Exists, Installs
  <2>8. Backed(t)'
    BY <1>1, <2>4, <2>5 DEF CalmOf, Backed, File, Exists
  <2>9. Copying(t)'
    BY <1>1, <2>1, <2>3, <2>4 DEF Moved, CalmOf, Copying
  <2> QED
    BY <2>6, <2>7, <2>8, <2>9 DEF CalmOf
<1> QED
  BY <1>2, <1>3, <1>4, NotDisturbed DEF PlaceStaged, TakeBack

LEMMA CalmPutsBack ==
  ASSUME Typed, NEW t \in Tasks, CalmOf(t), PutBack(t), ~history'.disturbed
  PROVE  CalmOf(t)'
<1>1. /\ running # None /\ task[t].at = "back"
      /\ UNCHANGED <<running, exiting, config, runtime>>
  BY DEF PutBack, Doing
<1>2. /\ task[t].exe = Exe /\ File(Aside(Exe), running) /\ ~exiting
  BY <1>1 DEF CalmOf, Alone, InPlace, Backed, Copying
<1>3. CASE Finish(t) /\ Rename(Aside(Exe), Exe)
  BY <1>1, <1>3, CalmMovesBack
<1>4. CASE Exists(Backup(Exe)) /\ Rename(Backup(Exe), Exe) /\ Proceed(t, "forget")
  <2>1. /\ Backup(Exe) # Exe /\ KindOf(Backup(Exe)) \notin {"closed", "staged"}
        /\ KindOf(Exe) \notin {"closed", "staged"}
    BY PathsOfProgram
  <2>2. /\ UNCHANGED open
        /\ DOMAIN disk' = (DOMAIN disk \ {Backup(Exe)}) \cup {Exe} /\ disk'[Exe] = disk[Backup(Exe)]
        /\ \A x \in DOMAIN disk' \ {Exe} : x \in DOMAIN disk /\ disk'[x] = disk[x]
    BY <1>1, <1>4, <2>1, Renamed DEF Moved
  <2>3. /\ task'[t].at = "forget" /\ task'[t].exe = Exe
        /\ \A u \in Tasks \ {t} : task'[u] = task[u]
    BY <1>2, <1>4, TaskAt
  <2> QED
    BY <1>1, <1>2, <1>4, <2>1, <2>2, <2>3 DEF CalmOf, Alone, InPlace, Backed, Copying, Honest, Exists, Installs
<1> QED
  BY <1>2, <1>3, <1>4, NotDisturbed DEF PutBack, TakeBack

LEMMA CalmForgets ==
  ASSUME Typed, NEW t \in Tasks, CalmOf(t), ForgetUpdate(t)
  PROVE  CalmOf(t)'
<1>1. /\ task[t].at = "forget" /\ Proceed(t, "unrecord")
      /\ UNCHANGED <<running, exiting, config, runtime>>
  BY DEF ForgetUpdate, Doing
<1>2. task[t].exe = Exe /\ ~exiting /\ ~Exists(Backup(Exe))
  BY <1>1 DEF CalmOf, Alone, InPlace, Backed, Copying
<1>3. /\ task'[t].at = "unrecord" /\ task'[t].exe = Exe
      /\ \A u \in Tasks \ {t} : task'[u] = task[u]
  BY <1>1, <1>2, TaskAt
<1>4. PICK ps : ps = OtherStaged(Exe, None) \cup {Aside(Exe)}
  OBVIOUS
<1>5. Unlink(ps) /\ \A x \in ps : KindOf(x) \notin {"exe", "closed"}
  BY <1>2, <1>4, OthersStaged, PathsOfProgram DEF ForgetUpdate
<1>6. /\ UNCHANGED open
      /\ DOMAIN disk' = DOMAIN disk \ ps
      /\ \A x \in DOMAIN disk' : disk'[x] = disk[x]
      /\ Exe \notin ps
  BY <1>1, <1>5, Unlinked DEF Removed
<1> QED
  BY <1>1, <1>2, <1>3, <1>6 DEF CalmOf, Alone, InPlace, Backed, Copying, Honest, Exists, Installs

\* The recorded version changes with the backup.
LEMMA CalmRecords ==
  ASSUME Typed, NEW t \in Tasks, CalmOf(t), ~history'.disturbed,
         RecordApplied(t) \/ RecordRollback(t)
  PROVE  CalmOf(t)'
<1>1. /\ running # None /\ task[t].at \in {"record", "unrecord"} /\ Finish(t)
      /\ UNCHANGED <<disk, self, open, running>> /\ exiting' = TRUE
  BY DEF RecordApplied, RecordRollback, Doing
<1>2. PICK v : /\ runtime' = [runtime EXCEPT !.previous = v]
               /\ SaveConfig([config EXCEPT !.previous = v])
               /\ v = IF task[t].at = "record" THEN running ELSE None
  BY DEF RecordApplied, RecordRollback, Doing
<1>3. config' = [config EXCEPT !.previous = v]
  <2>1. ~Disturbed(TRUE)
    BY DEF Disturbed, Typed, RestTyped, Record, HistoryFields
  <2> QED
    BY <1>2, <2>1 DEF SaveConfig
<1>4. config'.previous = v /\ runtime'.previous = v
  BY <1>2, <1>3 DEF Typed, RestTyped, Record, HistoryFields
<1>5. /\ task'[t].at = "idle"
      /\ \A u \in Tasks \ {t} : task'[u] = task[u]
  BY <1>1, TaskAt
<1>6. Honest'
  BY <1>1, <1>2, <1>4 DEF CalmOf, Alone, InPlace, Backed, Copying, Honest, File, Exists
<1> QED
  BY <1>1, <1>4, <1>5, <1>6 DEF CalmOf, Alone, InPlace, Backed, Copying, Exists, Installs

LEMMA StepCalm ==
  ASSUME Typed, NEW t \in Tasks, CalmOf(t), Step(t), ~history'.disturbed
  PROVE  CalmOf(t)'
<1>1. running # None
  BY DEF Step, ResolveTargetVersion, UseStaged, DownloadReleaseBinary, DownloadFails,
     CreateStaged, CopyEnds, CopyFails, CleanupOtherStaged, RemoveBackup, MoveAside,
     PlaceStaged, RecordApplied, RestoreBackup, PutBack, ForgetUpdate, RecordRollback, Doing
<1>2. ~CopyFails(t)
  BY DEF CopyFails, Disturbed, Typed, RestTyped, Record, HistoryFields
<1> QED
  BY <1>1, <1>2, CalmStanding, CalmCreates, CalmCopied, CalmClears, CalmMoves, CalmPlaces,
     CalmPutsBack, CalmForgets, CalmRecords DEF Step

\* When nobody is at work, any task may be the one.
LEMMA CalmOfAny ==
  ASSUME NEW t \in Tasks, CalmOf(t), ~Busy(t), NEW u \in Tasks
  PROVE  CalmOf(u) /\ \A w \in Tasks : ~Busy(w)
BY DEF CalmOf, Alone, InPlace, Backed, Copying, Busy

LEMMA BeginCalm ==
  ASSUME Typed, NEW t \in Tasks, CalmOf(t), ~history'.disturbed,
         NEW u \in Tasks, NEW op, NEW step \in {"resolve", "restore"}, NEW due,
         Begin(u, op, step, due),
         UNCHANGED <<disk, config, runtime, running, self, exiting, open>>
  PROVE  CalmOf(u)'
<1>1. /\ running # None
      /\ task' = [task EXCEPT ![u] = [at |-> step, op |-> op, exe |-> self,
                                      version |-> None, due |-> due]]
  BY DEF Begin
<1>2. ~exiting /\ ~Busy(t)
  BY DEF Begin, Typed, RestTyped, Record, HistoryFields
<1>3. CalmOf(u) /\ task[u].at = "idle" /\ self = Exe
  BY <1>1, <1>2, CalmOfAny DEF CalmOf, Alone, InPlace, Backed, Copying, Busy, Installs
<1>4. /\ task'[u].at = step /\ task'[u].exe = Exe
      /\ \A w \in Tasks \ {u} : task'[w] = task[w]
  BY <1>1, <1>3 DEF Typed, TasksTyped
<1> QED
  BY <1>2, <1>3, <1>4, CalmStands DEF Installs

LEMMA EndCalm ==
  ASSUME Typed, NEW t \in Tasks, CalmOf(t), ~history'.disturbed, SelfExit \/ Crash
  PROVE  CalmOf(t)'
<1>1. /\ running' = None /\ exiting' = FALSE /\ UNCHANGED <<disk, config, runtime>>
      /\ \A u \in Tasks : task'[u] = Idle /\ open'[u] = Closed
  BY DEF SelfExit, Crash, ProcessEnds
<1>2. task[t].at \notin {"copy", "place", "record", "back"}
  <2>1. CASE SelfExit
    BY <2>1 DEF SelfExit, CalmOf, Alone, InPlace, Backed, Copying
  <2>2. CASE Crash
    BY <2>2 DEF Crash, Disturbed, Typed, RestTyped, Record, HistoryFields
  <2> QED
    BY <2>1, <2>2
<1> QED
  BY <1>1, <1>2 DEF CalmOf, Alone, InPlace, Backed, Copying, Honest, File, Exists, Idle

LEMMA OtherCalm ==
  ASSUME Typed, NEW t \in Tasks, CalmOf(t),
         CheckUpdate \/ (\E auto \in BOOLEAN : SetUpdateConfig(auto)) \/ Release
           \/ UNCHANGED vars \/ ContainerStarts
  PROVE  CalmOf(t)'
<1>1. CASE ContainerStarts
  <2>1. /\ running = None /\ task[t] = Idle
        /\ running' = disk[Exe].version /\ self' = Exe /\ runtime' = config
        /\ UNCHANGED <<disk, config, exiting, task, open>>
        /\ task[t].at = "idle"
    BY <1>1 DEF ContainerStarts, Typed, TasksTyped, Idle
  <2>2. Alone(t)'
    BY <2>1 DEF CalmOf, Alone
  <2>3. InPlace(t)'
    BY <2>1 DEF CalmOf, InPlace, Exists, Installs
  <2>4. Backed(t)'
    BY <2>1 DEF CalmOf, Backed, Honest, File, Exists, Installs
  <2>5. Copying(t)'
    BY <2>1 DEF CalmOf, Copying
  <2> QED
    BY <2>2, <2>3, <2>4, <2>5 DEF CalmOf
<1>2. CASE CheckUpdate \/ (\E auto \in BOOLEAN : SetUpdateConfig(auto)) \/ Release
             \/ UNCHANGED vars
  <2>1. /\ UNCHANGED <<disk, self, open, running, exiting, task>>
        /\ config'.previous = config.previous /\ runtime'.previous = runtime.previous
    BY <1>2 DEF CheckUpdate, SetUpdateConfig, Release, vars, process, counts, Typed, RestTyped,
                Record, HistoryFields
  <2> QED
    BY <2>1 DEF CalmOf, Alone, InPlace, Backed, Copying, Honest, File, Exists
<1> QED
  BY <1>1, <1>2

\* What has disturbed an update, or overlapped, stays known.
LEMMA MarksStay ==
  ASSUME Typed, [Next]_vars
  PROVE  /\ history.disturbed => history'.disturbed
         /\ history.overlapped => history'.overlapped
<1> DEFINE Stay == /\ history.disturbed => history'.disturbed
                   /\ history.overlapped => history'.overlapped
<1>1. ASSUME history' = history \/ (\E b : Disturbed(b)) PROVE Stay
  BY <1>1 DEF Disturbed, Typed, RestTyped, Record, HistoryFields
<1>2. ASSUME NEW t, NEW op, NEW step, NEW due, Begin(t, op, step, due) PROVE Stay
  BY <1>2 DEF Begin, Typed, RestTyped, Record, HistoryFields
<1>3. ASSUME NEW t \in Tasks, Step(t) PROVE Stay
  <2>1. CASE history' = [history EXCEPT !.restored = TRUE]
    BY <2>1 DEF Typed, RestTyped, Record, HistoryFields
  <2>2. \/ history' = history \/ \E b : Disturbed(b)
        \/ history' = [history EXCEPT !.restored = TRUE]
    BY <1>3 DEF Step, ResolveTargetVersion, UseStaged, DownloadReleaseBinary, DownloadFails,
     CreateStaged, CopyEnds, CopyFails, CleanupOtherStaged, RemoveBackup, MoveAside,
     PlaceStaged, TakeBack, RecordApplied, RestoreBackup, PutBack, ForgetUpdate,
     RecordRollback, SaveConfig, counts
  <2> QED
    BY <1>1, <2>1, <2>2
<1>4. ASSUME NEW t \in Operators,
             PullUpdateImage(t) \/ ApplyUpdateImage(t) \/ RollbackUpdateImage(t)
      PROVE  Stay
  BY <1>2, <1>4 DEF PullUpdateImage, ApplyUpdateImage, RollbackUpdateImage
<1>5. CASE SchedulerApplies
  BY <1>1, <1>2, <1>5 DEF SchedulerApplies
<1>6. CASE ContainerStarts
  BY <1>6 DEF ContainerStarts, Typed, RestTyped, Record, HistoryFields
<1>7. CASE CheckUpdate \/ (\E auto \in BOOLEAN : SetUpdateConfig(auto))
             \/ SelfExit \/ Crash \/ Release \/ UNCHANGED vars
  <2>1. history' = history \/ \E b : Disturbed(b)
    BY <1>7 DEF CheckUpdate, SetUpdateConfig, SelfExit, Crash, Release, vars, counts
  <2> QED
    BY <1>1, <2>1
<1> QED
  BY <1>3, <1>4, <1>5, <1>6, <1>7 DEF Next

LEMMA NextCalm == Typed /\ Calm /\ [Next]_vars => Calm'
<1> SUFFICES ASSUME Typed, Calm, [Next]_vars, ~history'.disturbed
             PROVE  \E t \in Tasks : CalmOf(t)'
  BY DEF Calm
<1>1. PICK t \in Tasks : CalmOf(t)
  BY MarksStay DEF Calm
<1>2. ASSUME NEW u \in Tasks, Step(u) PROVE CalmOf(u)'
  <2>1. Busy(u)
    BY <1>2 DEF Step, ResolveTargetVersion, UseStaged, DownloadReleaseBinary, DownloadFails,
     CreateStaged, CopyEnds, CopyFails, CleanupOtherStaged, RemoveBackup, MoveAside,
     PlaceStaged, RecordApplied, RestoreBackup, PutBack, ForgetUpdate, RecordRollback, Doing,
     Busy
  <2>2. u = t
    BY <1>1, <2>1 DEF CalmOf, Alone, InPlace, Backed, Copying, Busy
  <2> QED
    BY <1>1, <1>2, <2>2, StepCalm
<1>3. ASSUME NEW u \in Operators,
             PullUpdateImage(u) \/ ApplyUpdateImage(u) \/ RollbackUpdateImage(u)
      PROVE  u \in Tasks /\ CalmOf(u)'
  <2>1. /\ u \in Tasks
        /\ UNCHANGED <<disk, config, runtime, running, self, exiting, open>>
        /\ \E op : \E step \in {"resolve", "restore"} : Begin(u, op, step, None)
    BY <1>3 DEF PullUpdateImage, ApplyUpdateImage, RollbackUpdateImage, Tasks, process
  <2> QED
    BY <1>1, <2>1, BeginCalm
<1>4. CASE SchedulerApplies
  <2>1. /\ Scheduler \in Tasks
        /\ UNCHANGED <<disk, config, runtime, running, self, exiting, open>>
        /\ (\E due : Begin(Scheduler, "apply", "resolve", due)) \/ UNCHANGED <<task, history>>
    BY <1>4 DEF SchedulerApplies, Tasks
  <2>2. CASE UNCHANGED <<task, history>>
    BY <1>1, <2>1, <2>2 DEF CalmOf, Alone, InPlace, Backed, Copying, Honest, File, Exists
  <2>3. ASSUME NEW due, Begin(Scheduler, "apply", "resolve", due) PROVE CalmOf(Scheduler)'
    BY <1>1, <2>1, <2>3, BeginCalm
  <2> QED
    BY <1>1, <2>1, <2>2, <2>3
<1>5. CASE SelfExit \/ Crash
  BY <1>1, <1>5, EndCalm
<1>6. CASE CheckUpdate \/ (\E auto \in BOOLEAN : SetUpdateConfig(auto)) \/ Release
             \/ UNCHANGED vars \/ ContainerStarts
  BY <1>1, <1>6, OtherCalm
<1> QED
  BY <1>2, <1>3, <1>4, <1>5, <1>6 DEF Next

LEMMA InitCalm == Init => Calm
<1> SUFFICES ASSUME Init PROVE CalmOf(Scheduler)
  BY DEF Calm, Tasks
<1>1. KindOf(Exe) = "exe" /\ Backup(Exe) # Exe /\ Scheduler \in Tasks
  BY PathsOfProgram DEF Tasks
<1> QED
  BY <1>1 DEF Init, CalmOf, Alone, InPlace, Backed, Copying, Honest, File, Exists, Idle, Installs

LEMMA UpdateHolds == Spec => [](Typed /\ Calm)
<1>1. Typed /\ Forward /\ Calm /\ [Next]_vars => (Typed /\ Forward /\ Calm)'
  BY NextForward, NextCalm
<1>2. Init => Typed /\ Forward /\ Calm
  BY InitForward, InitCalm
<1> QED
  BY <1>1, <1>2, PTL DEF Spec

--------------------------------------------------------------------------------
(* A program that works is at hand, as long as no two updates overlapped:        *)
(* whatever failed, the undoing of a rename included, and wherever it died.      *)

Before == {"resolve", "stage", "create", "copy", "cleanup", "unback", "aside", "restore"}

AtHand == \E p \in DOMAIN disk : Sound(p)

\* What lies beside a path of n names, or further, is whole if it is not staged.
Deep(n) == \A p \in DOMAIN disk : KindOf(p) # "staged" /\ Len(p) > n => disk[p].whole

Lone(t) ==
    /\ \A u \in Tasks \ {t} : task[u].at = "idle"
    /\ exiting => task[t].at = "idle"

\* The program that runs is where it was started from or where the task has renamed
\* it to, until a backup has taken its place.  A task that begins where there is no
\* program at Exe, since a rename was not taken back, never makes one appear there.
HeldBy(t) ==
    LET at == task[t].at
        e == task[t].exe
        home == IF at \in {"forget", "unrecord"} THEN e ELSE self
        base == IF at = "idle" THEN self ELSE e
    IN IF running = None \/ exiting
       THEN AtHand /\ (Exists(Exe) => Deep(0))
       ELSE /\ Sound(home) /\ Deep(Len(base)) /\ (base = Exe \/ ~Exists(Exe))
            /\ at \in Before => self = e
            /\ at \in {"place", "record"} => self = Backup(e)
            /\ at = "back" => self = Aside(e)
            /\ at \in {"place", "back"} => ~Exists(e)

InHand == ~history.overlapped => \E t \in Tasks : Lone(t) /\ HeldBy(t)

\* What is left but for staged files was there before.
Fewer ==
    \A p \in DOMAIN disk' : KindOf(p) # "staged" =>
        /\ p \in DOMAIN disk /\ disk'[p].version = disk[p].version
        /\ disk[p].whole => disk'[p].whole

LEMMA PathLengths ==
  /\ Len(Exe) = 0
  /\ \A p \in Path : /\ Len(p) \in Nat
                     /\ Len(Backup(p)) = Len(p) + 1 /\ Len(Aside(p)) = Len(p) + 1
BY DEF Exe, Path, Backup, Aside, Suffixed

LEMMA BesideIt ==
  ASSUME NEW e \in Path, NEW q, q = Backup(e) \/ q = Aside(e)
  PROVE  /\ q \in Path /\ q # e /\ KindOf(q) # "staged" /\ q # Exe
         /\ Len(e) \in Nat /\ Len(q) = Len(e) + 1
<1>1. q \in Path /\ q # e /\ KindOf(q) \in {"backup", "rollback-current"}
  BY PathsBeside
<1>2. q # Exe
  BY <1>1, FirstPaths
<1>3. Len(e) \in Nat /\ Len(q) = Len(e) + 1
  BY PathLengths
<1> QED
  BY <1>1, <1>2, <1>3

LEMMA HeldStays ==
  ASSUME Typed, NEW t \in Tasks, Lone(t), HeldBy(t), running # None, ~exiting,
         \/ task[t].at \in Before /\ task'[t].at \in Before \cup {"idle"} /\ self \in DOMAIN disk'
         \/ task[t].at = "forget" /\ task'[t].at = "unrecord" /\ task[t].exe \in DOMAIN disk',
         task'[t].at # "idle" => task'[t].exe = task[t].exe,
         \A u \in Tasks \ {t} : task'[u] = task[u],
         Fewer, task[t].at \in Before => self' = self, UNCHANGED <<running, exiting>>,
         history'.ran = history.ran, history'.restored = history.restored
  PROVE  Lone(t)' /\ HeldBy(t)'
<1>1. Lone(t)'
  BY DEF Lone
<1>2. \A n \in Nat : Deep(n) => Deep(n)'
  BY DEF Deep, Fewer
<1>3. KindOf(self) # "staged" /\ KindOf(task[t].exe) # "staged" /\ KindOf(Exe) # "staged"
      /\ Len(self) \in Nat /\ Len(task[t].exe) \in Nat
  BY FirstPaths, PathLengths DEF Typed, FilesTyped, TasksTyped, IsTask
<1>4. Exists(Exe)' => Exists(Exe)
  BY <1>3 DEF Fewer, Exists
<1>5. CASE /\ task[t].at \in Before /\ task'[t].at \in Before \cup {"idle"}
           /\ self \in DOMAIN disk'
  <2>1. Sound(self) /\ self = task[t].exe /\ self' = self
        /\ Deep(Len(self)) /\ (self = Exe \/ ~Exists(Exe))
    BY <1>5 DEF HeldBy, Before
  <2>2. Sound(self)'
    BY <1>3, <1>5, <2>1 DEF Sound, Fewer, Exists
  <2>3. Deep(Len(self))' /\ (self' = Exe \/ ~Exists(Exe)')
    BY <1>2, <1>3, <1>4, <2>1
  <2> QED
    BY <1>1, <1>5, <2>1, <2>2, <2>3 DEF HeldBy, Before
<1>6. CASE /\ task[t].at = "forget" /\ task'[t].at = "unrecord"
           /\ task[t].exe \in DOMAIN disk'
  <2>1. PICK e : e = task[t].exe
    OBVIOUS
  <2>2. Sound(e) /\ task'[t].exe = e /\ Deep(Len(e)) /\ (e = Exe \/ ~Exists(Exe))
    BY <1>6, <2>1 DEF HeldBy
  <2>3. Sound(e)'
    BY <1>3, <1>6, <2>1, <2>2 DEF Sound, Fewer, Exists
  <2>4. Deep(Len(e))' /\ (e = Exe \/ ~Exists(Exe)')
    BY <1>2, <1>3, <1>4, <2>1, <2>2
  <2> QED
    BY <1>1, <1>6, <2>2, <2>3, <2>4 DEF HeldBy, Before
<1> QED
  BY <1>5, <1>6

\* The steps up to the renames, and those that give up before them.
LEMMA HeldBefore ==
  ASSUME Typed, NEW t \in Tasks, Lone(t), HeldBy(t), running # None, ~exiting,
         task[t].at \in Before, UNCHANGED <<running, exiting>>,
         history'.ran = history.ran, history'.restored = history.restored,
         \/ \E s \in Before : Proceed(t, s)
         \/ Finish(t)
         \/ task' = [task EXCEPT ![t].at = "stage", ![t].version = latest],
         \/ UNCHANGED <<disk, self>>
         \/ CreateStaged(t) \/ CopyEnds(t)
         \/ Unlink({Backup(task[t].exe)}) \/ Unlink({Aside(task[t].exe)})
         \/ \E v : Unlink(OtherStaged(task[t].exe, v))
  PROVE  Lone(t)' /\ HeldBy(t)'
<1>1. /\ task'[t].at \in Before \cup {"idle"}
      /\ task'[t].at # "idle" => task'[t].exe = task[t].exe
      /\ \A u \in Tasks \ {t} : task'[u] = task[u]
  <2>1. CASE \E s \in Before : Proceed(t, s)
    BY <2>1, TaskAt DEF Before
  <2>2. CASE Finish(t)
    BY <2>2, TaskAt
  <2>3. CASE task' = [task EXCEPT ![t].at = "stage", ![t].version = latest]
    BY <2>3 DEF Typed, TasksTyped, IsTask, Record, TaskFields, Before
  <2> QED
    BY <2>1, <2>2, <2>3
<1>2. Exists(self) /\ self = task[t].exe /\ self \in Path /\ KindOf(self) # "staged"
  BY DEF HeldBy, Before, Sound, Typed, FilesTyped
<1>3. Fewer /\ self' = self /\ self \in DOMAIN disk'
  <2>1. CASE UNCHANGED <<disk, self>>
    BY <1>2, <2>1 DEF Fewer, Exists
  <2>2. CASE CreateStaged(t)
    <3>1. PICK p : /\ p = Staged(task[t].exe, task[t].version)
                   /\ disk' = [x \in DOMAIN disk \cup {p} |->
                                 IF x = p THEN [version |-> task[t].version, whole |-> FALSE]
                                          ELSE disk[x]]
                   /\ self' = self
      BY <2>2 DEF CreateStaged, process
    <3>2. KindOf(p) = "staged"
      BY <3>1, PathsBeside DEF Typed, TasksTyped, IsTask
    <3> QED
      BY <1>2, <3>1, <3>2 DEF Fewer, Exists
  <2>3. CASE CopyEnds(t)
    <3>1. self' = self
      BY <2>3 DEF CopyEnds, process
    <3>2. CASE UNCHANGED disk
      BY <1>2, <3>1, <3>2 DEF Fewer, Exists
    <3>3. CASE Exists(open[t]) /\ disk' = [disk EXCEPT ![open[t]].whole = TRUE]
      <4>1. DOMAIN disk' = DOMAIN disk
        BY <3>3 DEF Typed, FilesTyped
      <4>2. ASSUME NEW x \in DOMAIN disk
            PROVE  disk'[x].version = disk[x].version /\ (disk[x].whole => disk'[x].whole)
        <5>1. IsFile(x, disk[x])
          BY DEF Typed, FilesTyped
        <5>2. disk'[x] = disk[x] \/ disk'[x] = [disk[x] EXCEPT !.whole = TRUE]
          BY <3>3 DEF Typed, FilesTyped
        <5> QED
          BY <5>1, <5>2 DEF IsFile, Record, FileFields
      <4> QED
        BY <1>2, <3>1, <4>1, <4>2 DEF Fewer, Exists
    <3> QED
      BY <2>3, <3>2, <3>3 DEF CopyEnds
  <2>4. ASSUME NEW ps, Unlink(ps), self \notin ps PROVE Fewer /\ self' = self /\ self \in DOMAIN disk'
    <3>1. Removed(ps)
      BY <2>4, UnlinkDoes
    <3>2. self \in DOMAIN disk' /\ self' = self
      BY <1>2, <2>4, <3>1 DEF Removed, Exists
    <3>3. Fewer
      BY <3>1 DEF Removed, Fewer
    <3> QED
      BY <3>2, <3>3
  <2>5. self # Backup(self) /\ self # Aside(self)
    BY <1>2, PathsBeside
  <2>6. ASSUME NEW v PROVE self \notin OtherStaged(self, v)
    BY <1>2, PathsBeside, UpdateAssumption DEF OtherStaged, Versions
  <2> QED
    BY <1>2, <2>1, <2>2, <2>3, <2>4, <2>5, <2>6
<1> QED
  BY <1>1, <1>3, HeldStays

\* The program is moved beside where it was.
LEMMA HeldMovesAway ==
  ASSUME Typed, NEW t \in Tasks, Lone(t), HeldBy(t), running # None, ~exiting,
         task[t].at \in {"aside", "restore"}, NEW e, e = task[t].exe, NEW s, NEW q,
         \/ s = "place" /\ q = Backup(e)
         \/ s = "back" /\ q = Aside(e),
         Exists(e), Rename(e, q), Proceed(t, s), UNCHANGED <<running, exiting, history>>
  PROVE  Lone(t)' /\ HeldBy(t)'
<1>1. self = e /\ Sound(e) /\ Deep(Len(e)) /\ (e = Exe \/ ~Exists(Exe)) /\ e \in Path
  BY DEF HeldBy, Before, Typed, FilesTyped
<1>2. /\ q \in Path /\ q # e /\ KindOf(q) # "staged" /\ q # Exe
      /\ Len(e) \in Nat /\ Len(q) = Len(e) + 1
  BY <1>1, BesideIt
<1>3. Moved(e, q)
  BY <1>2, RenameDoes
<1>4. /\ task'[t].at = s /\ task'[t].exe = e
      /\ \A u \in Tasks \ {t} : task'[u] = task[u]
  BY TaskAt
<1>5. self' = q /\ Sound(q)' /\ ~Exists(e)'
  BY <1>1, <1>2, <1>3 DEF Moved, Sound, Exists
<1>6. Deep(Len(e))'
  BY <1>1, <1>2, <1>3 DEF Moved, Sound, Deep
<1>7. e = Exe \/ ~Exists(Exe)'
  BY <1>1, <1>2, <1>3 DEF Moved, Exists
<1>8. Lone(t)'
  BY <1>4 DEF Lone
<1> QED
  BY <1>4, <1>5, <1>6, <1>7, <1>8 DEF HeldBy, Before

\* It is renamed back, or that fails as well and it stays where it was moved to.
LEMMA HeldTakesBack ==
  ASSUME Typed, NEW t \in Tasks, Lone(t), HeldBy(t), running # None, ~exiting,
         NEW e, e = task[t].exe, NEW p,
         \/ task[t].at = "place" /\ p = Backup(e)
         \/ task[t].at = "back" /\ p = Aside(e),
         TakeBack(t, p), UNCHANGED <<running, exiting>>
  PROVE  Lone(t)' /\ HeldBy(t)'
<1>1. /\ self = p /\ Sound(p) /\ Deep(Len(e)) /\ (e = Exe \/ ~Exists(Exe)) /\ ~Exists(e)
      /\ e \in Path
  BY DEF HeldBy, Typed, TasksTyped, IsTask
<1>2. /\ p \in Path /\ p # e /\ p # Exe /\ Len(e) \in Nat /\ Len(p) = Len(e) + 1
  BY <1>1, BesideIt
<1>3. /\ task'[t].at = "idle"
      /\ \A u \in Tasks \ {t} : task'[u] = task[u]
  BY TaskAt DEF TakeBack
<1>4. Lone(t)'
  BY <1>3 DEF Lone
<1>5. history'.ran = history.ran /\ history'.restored = history.restored
  BY DEF TakeBack, Disturbed, Typed, RestTyped, Record, HistoryFields
<1>6. CASE Exists(p) /\ Rename(p, e)
  <2>1. Moved(p, e)
    BY <1>2, <1>6, RenameDoes
  <2>2. self' = e /\ Sound(e)'
    BY <1>1, <1>5, <2>1 DEF Moved, Sound, Exists
  <2>3. Deep(Len(e))'
    BY <1>1, <1>2, <2>1 DEF Moved, Deep
  <2>4. e = Exe \/ ~Exists(Exe)'
    BY <1>1, <2>1 DEF Moved, Exists
  <2> QED
    BY <1>3, <1>4, <2>2, <2>3, <2>4 DEF HeldBy, Before
<1>7. CASE UNCHANGED <<disk, self, open>>
  <2>1. self' = p /\ Sound(p)'
    BY <1>1, <1>5, <1>7 DEF Sound, Exists
  <2>2. Deep(Len(p))'
    BY <1>1, <1>2, <1>7 DEF Deep
  <2>3. ~Exists(Exe)'
    BY <1>1, <1>7 DEF Exists
  <2> QED
    BY <1>3, <1>4, <2>1, <2>2, <2>3 DEF HeldBy, Before
<1> QED
  BY <1>6, <1>7 DEF TakeBack

\* The staged file becomes the program, and what ran is kept as its backup.
LEMMA HeldPlaces ==
  ASSUME Typed, NEW t \in Tasks, Lone(t), HeldBy(t), running # None, ~exiting, PlaceStaged(t)
  PROVE  Lone(t)' /\ HeldBy(t)'
<1>1. PICK e : e = task[t].exe
  OBVIOUS
<1>2. PICK s : s = Staged(e, task[t].version)
  OBVIOUS
<1>3. /\ task[t].at = "place" /\ UNCHANGED <<running, exiting>>
      /\ \/ Exists(s) /\ Rename(s, e) /\ Proceed(t, "record") /\ UNCHANGED history
         \/ TakeBack(t, Backup(e))
  BY <1>1, <1>2 DEF PlaceStaged, Doing
<1>4. CASE TakeBack(t, Backup(e))
  BY <1>1, <1>3, <1>4, HeldTakesBack
<1>5. CASE Exists(s) /\ Rename(s, e) /\ Proceed(t, "record") /\ UNCHANGED history
  <2>1. PICK b : b = Backup(e)
    OBVIOUS
  <2>2. /\ self = b /\ Sound(b) /\ Deep(Len(e)) /\ (e = Exe \/ ~Exists(Exe)) /\ e \in Path
        /\ task[t].version \in Nat
    BY <1>1, <1>3, <2>1 DEF HeldBy, Typed, TasksTyped, IsTask
  <2>3. /\ s # e /\ s # b /\ b # e /\ Len(e) \in Nat
    <3>1. KindOf(s) = "staged" /\ s # e
      BY <1>2, <2>2, PathsBeside
    <3>2. KindOf(b) = "backup" /\ b # e
      BY <2>1, <2>2, PathsBeside
    <3> QED
      BY <2>2, <3>1, <3>2, PathLengths
  <2>4. Moved(s, e)
    BY <1>5, <2>3, RenameDoes
  <2>5. /\ task'[t].at = "record" /\ task'[t].exe = e
        /\ \A u \in Tasks \ {t} : task'[u] = task[u]
    BY <1>1, <1>5, TaskAt
  <2>6. self' = b /\ Sound(b)'
    BY <1>5, <2>2, <2>3, <2>4 DEF Moved, Sound, Exists
  <2>7. Deep(Len(e))'
    BY <2>2, <2>3, <2>4 DEF Moved, Deep
  <2>8. e = Exe \/ ~Exists(Exe)'
    BY <2>2, <2>4 DEF Moved, Exists
  <2>9. Lone(t)'
    BY <1>3, <2>5 DEF Lone
  <2> QED
    BY <1>3, <2>1, <2>5, <2>6, <2>7, <2>8, <2>9 DEF HeldBy, Before
<1> QED
  BY <1>3, <1>4, <1>5

\* The backup becomes the program: nothing beside a program is half a copy.
LEMMA HeldPutsBack ==
  ASSUME Typed, NEW t \in Tasks, Lone(t), HeldBy(t), running # None, ~exiting, PutBack(t)
  PROVE  Lone(t)' /\ HeldBy(t)'
<1>1. PICK e : e = task[t].exe
  OBVIOUS
<1>2. PICK b : b = Backup(e)
  OBVIOUS
<1>3. /\ task[t].at = "back" /\ UNCHANGED <<running, exiting>>
      /\ \/ /\ Exists(b) /\ Rename(b, e) /\ Proceed(t, "forget")
            /\ history' = [history EXCEPT !.restored = TRUE]
         \/ TakeBack(t, Aside(e))
  BY <1>1, <1>2 DEF PutBack, Doing
<1>4. CASE TakeBack(t, Aside(e))
  BY <1>1, <1>3, <1>4, HeldTakesBack
<1>5. CASE /\ Exists(b) /\ Rename(b, e) /\ Proceed(t, "forget")
           /\ history' = [history EXCEPT !.restored = TRUE]
  <2>1. Deep(Len(e)) /\ (e = Exe \/ ~Exists(Exe)) /\ e \in Path
    BY <1>1, <1>3 DEF HeldBy, Typed, TasksTyped, IsTask
  <2>2. b # e /\ KindOf(b) = "backup" /\ Len(e) \in Nat /\ Len(b) = Len(e) + 1
    BY <1>2, <2>1, PathsBeside, PathLengths
  <2>3. Moved(b, e)
    BY <1>5, <2>2, RenameDoes
  <2>4. /\ task'[t].at = "forget" /\ task'[t].exe = e
        /\ \A u \in Tasks \ {t} : task'[u] = task[u]
    BY <1>1, <1>5, TaskAt
  <2>5. disk[b].whole
    BY <1>5, <2>1, <2>2 DEF Deep, Exists
  <2>6. history'.restored
    BY <1>5 DEF Typed, RestTyped, Record, HistoryFields
  <2>7. Sound(e)'
    BY <2>3, <2>5, <2>6 DEF Moved, Sound, Exists
  <2>8. Deep(Len(e))'
    BY <2>1, <2>2, <2>3 DEF Moved, Deep
  <2>9. e = Exe \/ ~Exists(Exe)'
    BY <2>1, <2>3 DEF Moved, Exists
  <2>10. Lone(t)'
    BY <1>3, <2>4 DEF Lone
  <2> QED
    BY <1>3, <2>4, <2>7, <2>8, <2>9, <2>10 DEF HeldBy, Before
<1> QED
  BY <1>3, <1>4, <1>5

LEMMA HeldForgets ==
  ASSUME Typed, NEW t \in Tasks, Lone(t), HeldBy(t), running # None, ~exiting, ForgetUpdate(t)
  PROVE  Lone(t)' /\ HeldBy(t)'
<1>1. PICK e : e = task[t].exe
  OBVIOUS
<1>2. PICK ps : ps = OtherStaged(e, None) \cup {Aside(e)}
  OBVIOUS
<1>3. /\ task[t].at = "forget" /\ Proceed(t, "unrecord") /\ Removed(ps)
      /\ UNCHANGED <<running, exiting, history>>
  BY <1>1, <1>2, UnlinkDoes DEF ForgetUpdate, Doing, counts
<1>4. Exists(e) /\ e \in Path
  BY <1>1, <1>3 DEF HeldBy, Sound, Typed, TasksTyped, IsTask
<1>5. e \notin ps
  BY <1>2, <1>4, PathsBeside, UpdateAssumption DEF OtherStaged, Versions
<1>6. Fewer /\ e \in DOMAIN disk'
  BY <1>3, <1>4, <1>5 DEF Removed, Fewer, Exists
<1>7. /\ task'[t].at = "unrecord" /\ task'[t].exe = task[t].exe
      /\ \A u \in Tasks \ {t} : task'[u] = task[u]
  BY <1>3, TaskAt
<1> QED
  BY <1>1, <1>3, <1>6, <1>7, HeldStays DEF Before

\* The exit is scheduled, with a program at hand.
LEMMA HeldRecords ==
  ASSUME Typed, NEW t \in Tasks, Lone(t), HeldBy(t), running # None, ~exiting,
         RecordApplied(t) \/ RecordRollback(t)
  PROVE  Lone(t)' /\ HeldBy(t)'
<1>1. /\ task[t].at \in {"record", "unrecord"} /\ Finish(t)
      /\ UNCHANGED <<disk, self, running>> /\ exiting' = TRUE
      /\ history' = history \/ Disturbed(TRUE)
  BY DEF RecordApplied, RecordRollback, Doing, SaveConfig
<1>2. /\ task'[t].at = "idle"
      /\ \A u \in Tasks \ {t} : task'[u] = task[u]
  BY <1>1, TaskAt
<1>3. history'.ran = history.ran /\ history'.restored = history.restored
  BY <1>1 DEF Disturbed, Typed, RestTyped, Record, HistoryFields
<1>4. AtHand'
  BY <1>1, <1>3 DEF HeldBy, AtHand, Sound, Exists
<1>5. Exists(Exe)' => Deep(0)'
  BY <1>1, PathLengths DEF HeldBy, Deep, Exists
<1> QED
  BY <1>1, <1>2, <1>4, <1>5 DEF Lone, HeldBy

LEMMA StepHeld ==
  ASSUME Typed, NEW t \in Tasks, Lone(t), HeldBy(t), Step(t)
  PROVE  Lone(t)' /\ HeldBy(t)'
<1>1. running # None /\ task[t].at # "idle"
  BY DEF Step, ResolveTargetVersion, UseStaged, DownloadReleaseBinary, DownloadFails,
     CreateStaged, CopyEnds, CopyFails, CleanupOtherStaged, RemoveBackup, MoveAside,
     PlaceStaged, RecordApplied, RestoreBackup, PutBack, ForgetUpdate, RecordRollback, Doing
<1>2. ~exiting
  BY <1>1 DEF Lone
<1>3. CASE ResolveTargetVersion(t)
  <2>1. /\ task[t].at = "resolve" /\ UNCHANGED <<disk, self, running, exiting, history>>
        /\ Finish(t) \/ task' = [task EXCEPT ![t].at = "stage", ![t].version = latest]
    BY <1>3 DEF ResolveTargetVersion, Doing
  <2> QED
    BY <1>1, <1>2, <2>1, HeldBefore DEF Before
<1>4. CASE UseStaged(t) \/ DownloadReleaseBinary(t) \/ DownloadFails(t)
  <2>1. /\ task[t].at = "stage" /\ UNCHANGED <<disk, self, running, exiting, history>>
        /\ Finish(t) \/ Proceed(t, "cleanup") \/ Proceed(t, "create")
    BY <1>4 DEF UseStaged, DownloadReleaseBinary, DownloadFails, Doing, process
  <2> QED
    BY <1>1, <1>2, <2>1, HeldBefore DEF Before
<1>5. CASE CreateStaged(t) \/ CopyEnds(t)
  <2>1. /\ task[t].at \in {"create", "copy"} /\ UNCHANGED <<running, exiting, history>>
        /\ Finish(t) \/ Proceed(t, "cleanup") \/ Proceed(t, "copy")
    BY <1>5 DEF CreateStaged, CopyEnds, Doing, process
  <2> QED
    BY <1>1, <1>2, <1>5, <2>1, HeldBefore DEF Before
<1>6. CASE CopyFails(t)
  <2>1. /\ task[t].at = "copy" /\ UNCHANGED <<disk, self, running, exiting>> /\ Finish(t)
        /\ Disturbed(TRUE)
    BY <1>6 DEF CopyFails, Doing, process
  <2>2. history'.ran = history.ran /\ history'.restored = history.restored
    BY <2>1 DEF Disturbed, Typed, RestTyped, Record, HistoryFields
  <2> QED
    BY <1>1, <1>2, <2>1, <2>2, HeldBefore DEF Before
<1>7. CASE CleanupOtherStaged(t) \/ RemoveBackup(t)
  <2>1. /\ task[t].at \in {"cleanup", "unback"} /\ UNCHANGED <<running, exiting, history>>
        /\ Finish(t) \/ Proceed(t, "unback") \/ Proceed(t, "aside")
        /\ \/ Unlink({Backup(task[t].exe)})
           \/ \E v : Unlink(OtherStaged(task[t].exe, v))
    BY <1>7 DEF CleanupOtherStaged, RemoveBackup, Doing, counts
  <2> QED
    BY <1>1, <1>2, <2>1, HeldBefore DEF Before
<1>8. CASE MoveAside(t) \/ RestoreBackup(t)
  <2>1. PICK e : e = task[t].exe
    OBVIOUS
  <2>2. /\ task[t].at \in {"aside", "restore"} /\ UNCHANGED <<running, exiting, history>>
        /\ \/ Finish(t) /\ UNCHANGED <<disk, self>>
           \/ Finish(t) /\ Unlink({Aside(e)})
           \/ Exists(e) /\ Rename(e, Backup(e)) /\ Proceed(t, "place")
           \/ Exists(e) /\ Rename(e, Aside(e)) /\ Proceed(t, "back")
    BY <1>8, <2>1 DEF MoveAside, RestoreBackup, Doing
  <2>3. CASE Finish(t) /\ (UNCHANGED <<disk, self>> \/ Unlink({Aside(e)}))
    BY <1>1, <1>2, <2>1, <2>2, <2>3, HeldBefore DEF Before
  <2>4. CASE Exists(e) /\ Rename(e, Backup(e)) /\ Proceed(t, "place")
    BY <1>1, <1>2, <2>1, <2>2, <2>4, HeldMovesAway
  <2>5. CASE Exists(e) /\ Rename(e, Aside(e)) /\ Proceed(t, "back")
    BY <1>1, <1>2, <2>1, <2>2, <2>5, HeldMovesAway
  <2> QED
    BY <2>2, <2>3, <2>4, <2>5
<1> QED
  BY <1>1, <1>2, <1>3, <1>4, <1>5, <1>6, <1>7, <1>8, HeldPlaces, HeldPutsBack, HeldForgets,
     HeldRecords DEF Step

\* A task begins only where nothing else is at work, or updates overlap.
LEMMA BeginHeld ==
  ASSUME Typed, NEW t \in Tasks, Lone(t), HeldBy(t), ~history'.overlapped,
         NEW u \in Tasks, NEW op, NEW step \in {"resolve", "restore"}, NEW due,
         Begin(u, op, step, due), UNCHANGED <<disk, running, self, exiting>>
  PROVE  Lone(u)' /\ HeldBy(u)'
<1>1. /\ running # None
      /\ task' = [task EXCEPT ![u] = [at |-> step, op |-> op, exe |-> self,
                                      version |-> None, due |-> due]]
      /\ history' = [history EXCEPT !.overlapped = @ \/ exiting \/ \E w \in Tasks : Busy(w),
                                    !.disturbed = @ \/ exiting \/ \E w \in Tasks : Busy(w)]
  BY DEF Begin
<1>2. ~exiting /\ \A w \in Tasks : task[w].at = "idle"
  BY <1>1 DEF Busy, Typed, RestTyped, Record, HistoryFields
<1>3. history'.ran = history.ran /\ history'.restored = history.restored
  BY <1>1 DEF Typed, RestTyped, Record, HistoryFields
<1>4. /\ task'[u].at = step /\ task'[u].exe = self
      /\ \A w \in Tasks \ {u} : task'[w] = task[w]
  BY <1>1 DEF Typed, TasksTyped
<1>5. Sound(self) /\ Deep(Len(self)) /\ (self = Exe \/ ~Exists(Exe))
  BY <1>1, <1>2 DEF HeldBy
<1>6. Sound(self)' /\ Deep(Len(self))' /\ (self' = Exe \/ ~Exists(Exe)')
  BY <1>3, <1>5 DEF Sound, Deep, Exists
<1>7. Lone(u)'
  BY <1>2, <1>4 DEF Lone
<1> QED
  BY <1>1, <1>2, <1>4, <1>6, <1>7 DEF HeldBy, Before

\* The process ends with a program at hand, and begins with one at its path.
LEMMA EndHeld ==
  ASSUME Typed, NEW t \in Tasks, Lone(t), HeldBy(t), SelfExit \/ Crash
  PROVE  Lone(t)' /\ HeldBy(t)'
<1>1. /\ running' = None /\ exiting' = FALSE /\ UNCHANGED disk
      /\ \A u \in Tasks : task'[u] = Idle
      /\ history' = history \/ \E b : Disturbed(b)
  BY DEF SelfExit, Crash, ProcessEnds
<1>2. history'.ran = history.ran /\ history'.restored = history.restored
  BY <1>1 DEF Disturbed, Typed, RestTyped, Record, HistoryFields
<1>3. AtHand
  BY DEF HeldBy, AtHand, Sound, Exists
<1>4. Exists(Exe) => Deep(0)
  BY PathLengths DEF HeldBy
<1>5. AtHand' /\ (Exists(Exe)' => Deep(0)')
  BY <1>1, <1>2, <1>3, <1>4 DEF AtHand, Sound, Exists, Deep
<1> QED
  BY <1>1, <1>5 DEF Lone, HeldBy, Idle

LEMMA StartHeld ==
  ASSUME Typed, NEW t \in Tasks, Lone(t), HeldBy(t), ContainerStarts
  PROVE  Lone(t)' /\ HeldBy(t)'
<1>1. /\ running = None /\ Exists(Exe) /\ disk[Exe].whole
      /\ running' = disk[Exe].version /\ self' = Exe
      /\ UNCHANGED <<disk, exiting, task>>
      /\ history'.ran = disk[Exe].version
  BY DEF ContainerStarts, Typed, RestTyped, Record, HistoryFields
<1>2. \A u \in Tasks : task[u].at = "idle"
  BY <1>1 DEF Typed, TasksTyped, Idle
<1>3. disk[Exe].version \in Nat
  BY <1>1 DEF Typed, FilesTyped, IsFile, Exists
<1>4. Sound(Exe)'
  BY <1>1, <1>3 DEF Sound, Exists
<1>5. AtHand' /\ Deep(0)' /\ Len(Exe) = 0
  BY <1>1, <1>4, PathLengths DEF HeldBy, AtHand, Sound, Deep, Exists
<1> QED
  BY <1>1, <1>2, <1>4, <1>5 DEF Lone, HeldBy, Before

LEMMA OtherHeld ==
  ASSUME Typed, NEW t \in Tasks, Lone(t), HeldBy(t),
         UNCHANGED <<disk, self, running, exiting, history, task>>
  PROVE  Lone(t)' /\ HeldBy(t)'
BY DEF Lone, HeldBy, AtHand, Sound, Deep, Exists

LEMMA NextInHand == Typed /\ InHand /\ [Next]_vars => InHand'
<1> SUFFICES ASSUME Typed, InHand, [Next]_vars, ~history'.overlapped
             PROVE  \E t \in Tasks : Lone(t)' /\ HeldBy(t)'
  BY DEF InHand
<1>1. PICK t \in Tasks : Lone(t) /\ HeldBy(t)
  BY MarksStay DEF InHand
<1>2. ASSUME NEW u \in Tasks, Step(u) PROVE Lone(u)' /\ HeldBy(u)'
  <2>1. Busy(u)
    BY <1>2 DEF Step, ResolveTargetVersion, UseStaged, DownloadReleaseBinary, DownloadFails,
     CreateStaged, CopyEnds, CopyFails, CleanupOtherStaged, RemoveBackup, MoveAside,
     PlaceStaged, RecordApplied, RestoreBackup, PutBack, ForgetUpdate, RecordRollback, Doing,
     Busy
  <2>2. u = t
    BY <1>1, <2>1 DEF Lone, Busy
  <2> QED
    BY <1>1, <1>2, <2>2, StepHeld
<1>3. ASSUME NEW u \in Operators,
             PullUpdateImage(u) \/ ApplyUpdateImage(u) \/ RollbackUpdateImage(u)
      PROVE  u \in Tasks /\ Lone(u)' /\ HeldBy(u)'
  <2>1. /\ u \in Tasks /\ UNCHANGED <<disk, running, self, exiting>>
        /\ \E op : \E step \in {"resolve", "restore"} : Begin(u, op, step, None)
    BY <1>3 DEF PullUpdateImage, ApplyUpdateImage, RollbackUpdateImage, Tasks, process
  <2> QED
    BY <1>1, <2>1, BeginHeld
<1>4. CASE SchedulerApplies
  <2>1. /\ Scheduler \in Tasks /\ UNCHANGED <<disk, running, self, exiting>>
        /\ (\E due : Begin(Scheduler, "apply", "resolve", due)) \/ UNCHANGED <<task, history>>
    BY <1>4 DEF SchedulerApplies, Tasks
  <2>2. CASE UNCHANGED <<task, history>>
    BY <1>1, <2>1, <2>2, OtherHeld
  <2>3. ASSUME NEW due, Begin(Scheduler, "apply", "resolve", due)
        PROVE  Lone(Scheduler)' /\ HeldBy(Scheduler)'
    BY <1>1, <2>1, <2>3, BeginHeld
  <2> QED
    BY <2>1, <2>2, <2>3
<1>5. CASE SelfExit \/ Crash
  BY <1>1, <1>5, EndHeld
<1>6. CASE ContainerStarts
  BY <1>1, <1>6, StartHeld
<1>7. CASE CheckUpdate \/ (\E auto \in BOOLEAN : SetUpdateConfig(auto)) \/ Release
             \/ UNCHANGED vars
  <2>1. UNCHANGED <<disk, self, running, exiting, history, task>>
    BY <1>7 DEF CheckUpdate, SetUpdateConfig, Release, vars, process, counts
  <2> QED
    BY <1>1, <2>1, OtherHeld
<1> QED
  BY <1>2, <1>3, <1>4, <1>5, <1>6, <1>7 DEF Next

LEMMA InitInHand == Init => InHand
<1> SUFFICES ASSUME Init PROVE Lone(Scheduler) /\ HeldBy(Scheduler)
  BY DEF InHand, Tasks
<1>1. /\ Len(Exe) = 0 /\ Scheduler \in Tasks /\ running \in Nat /\ running # None
  BY PathLengths DEF Tasks, Init, None
<1>2. /\ DOMAIN disk = {Exe} /\ disk[Exe] = [version |-> running, whole |-> TRUE]
      /\ self = Exe /\ ~exiting /\ task = [t \in Tasks |-> Idle] /\ history.ran = running
  BY DEF Init
<1>3. Sound(Exe) /\ Deep(0)
  BY <1>1, <1>2 DEF Sound, Deep, Exists
<1> QED
  BY <1>1, <1>2, <1>3 DEF Lone, HeldBy, Before, Idle

LEMMA ProgramHolds == Spec => [](Typed /\ InHand)
<1>1. Typed /\ Forward /\ InHand /\ [Next]_vars => (Typed /\ Forward /\ InHand)'
  BY NextForward, NextInHand
<1>2. Init => Typed /\ Forward /\ InHand
  BY InitForward, InitInHand
<1> QED
  BY <1>1, <1>2, PTL DEF Spec

\* Whatever failed, the undoing of a rename included, and wherever the process died:
\* a whole program no older than what ran last, or a backup that was put back, is
\* still in the directory, unless updates overlapped.  It is at its path unless the
\* failure or the death came between the two renames or left half a copy.
THEOREM AlwaysStartable == Spec => []Startable
<1>1. ASSUME Typed, InHand, running = None, ~history.overlapped
      PROVE  \E p \in DOMAIN disk : Sound(p)
  BY <1>1 DEF InHand, HeldBy, AtHand
<1>2. ASSUME Typed, Calm, running = None, ~history.disturbed
      PROVE  Exists(Exe) /\ disk[Exe].whole
  <2>1. PICK t \in Tasks : CalmOf(t)
    BY <1>2 DEF Calm
  <2>2. task[t].at = "idle"
    BY <1>2 DEF Typed, TasksTyped, Idle
  <2> QED
    BY <1>2, <2>1, <2>2 DEF CalmOf, Alone, InPlace, Backed, Copying
<1>3. Typed /\ Calm /\ InHand => Startable
  BY <1>1, <1>2 DEF Startable
<1> QED
  BY <1>3, UpdateHolds, ProgramHolds, PTL

\* The backup is that of the update which config.json records, so that a rollback
\* puts back the version that it announces.  But for updates that overlapped, a death
\* in the middle of one, a rename that could not be taken back, half a copy and a
\* config.json that could not be written.
THEOREM RollbackAlwaysHonest == Spec => []RollbackHonest
<1>1. Typed /\ Calm => RollbackHonest
  BY DEF Calm, CalmOf, Alone, InPlace, Backed, Copying, Honest, File, Busy, RollbackHonest
<1> QED
  BY <1>1, UpdateHolds, PTL
==============================================================================
