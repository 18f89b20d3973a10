------------------------------ MODULE AccountList ------------------------------
(* How accounts come, are logged in again and go: add_credential,             *)
(* update_refresh_token, reset_and_enable and delete_credential of            *)
(* token_manager.rs, and the balances that admin/service.rs caches by id.     *)
(*                                                                            *)
(* A request of an administrator is a task.  It changes the list under its    *)
(* lock, one lock section after the other, saves after each and awaits the    *)
(* servers of Kiro in between; other tasks come at every such point.  A       *)
(* refresh token is the login it came from and how often it was exchanged     *)
(* since.  Priorities, groups and limits are those of CredentialPool, the     *)
(* halves of persist_credentials those of TokenRefresh.                       *)
EXTENDS Naturals, FiniteSets, SequencesExt

CONSTANTS
    Requests,    \* requests of administrators
    Pasted,      \* logins whose refresh token an administrator can paste
    Sessions,    \* logins through this program, see LoginSessions
    Old,         \* the login of the credential in the file at the first start
    OverQuota,   \* logins whose account has used up its quota
    Rotations,   \* whether validating a refresh token may replace it
    Failures,    \* what may fail: "validate", "save", "balance"
    Operations,  \* what each request may do: "login", "add", "delete", "balance",
                 \* "quota"
    MaxId        \* bound on the ids given out

Logins == Pasted \cup Sessions \cup {Old}
NoLogin == "none"
Ids == 1 .. MaxId
NoId == 0

ASSUME LoginsAssumption == NoLogin \notin Logins
ASSUME BoundAssumption == MaxId \in Nat \ {0}

VARIABLES
    up,        \* the process runs: MultiTokenManager::new succeeded
    entries,   \* the list, a Vec: nothing in its type keeps ids apart
    file,      \* credentials.json, in the form of an array
    balances,  \* balance_cache and its file: id -> whose balance, or NoLogin
    spent,     \* refresh tokens the authentication server has replaced
    pc,        \* where the task is
    job        \* what it carries: [session, callback, token, id, next]

accounts == <<up, entries, file, balances, spent>>
tasks == <<pc, job>>

Token(login) == [login |-> login, exchanged |-> 0]
NoToken == Token(NoLogin)
NoJob == [session |-> NoLogin, callback |-> NoLogin, token |-> NoToken,
          id |-> NoId, next |-> "done"]

Account(i, t) == [id |-> i, token |-> t, client |-> t.login, disabled |-> FALSE]

InitAccounts ==
    /\ up = TRUE
    /\ entries = <<Account(1, Token(Old))>>
    /\ file = entries
    /\ balances = [i \in Ids |-> NoLogin]
    /\ spent = {}
    /\ pc = [r \in Requests |-> "idle"]
    /\ job = [r \in Requests |-> NoJob]

Goto(r, label) == pc' = [pc EXCEPT ![r] = label]
At(r, label) == up /\ pc[r] = label

\* The task answers, well or not, and is gone.
End(r, how) == Goto(r, how) /\ job' = [job EXCEPT ![r] = NoJob]

IdsIn(es) == {es[i].id : i \in DOMAIN es}
TokensIn(es) == {es[i].token : i \in DOMAIN es}
Position(i) == SelectInSeq(entries, LAMBDA e : e.id = i)
NextId == Max({0} \cup IdsIn(entries)) + 1

\* persist_credentials follows every change; an error of it goes to the caller,
\* the change stands.  Then the task goes on at job.next.
Change(r, es, next) ==
    /\ entries' = es
    /\ job' = [job EXCEPT ![r].next = next]
    /\ Goto(r, "save")

Save(r) ==
    /\ At(r, "save")
    /\ file' = entries
    /\ IF job[r].next = "done" THEN End(r, "done")
       ELSE Goto(r, job[r].next) /\ UNCHANGED job
    /\ UNCHANGED <<up, entries, balances, spent>>

SaveFails(r) ==
    /\ At(r, "save") /\ "save" \in Failures
    /\ End(r, "failed")
    /\ UNCHANGED <<up, entries, file, balances, spent>>

(* ---------------------------- adding an account --------------------------- *)

\* A pasted token, of one account or of many (the page imports one by one).
BeginAdd(r, t) ==
    /\ At(r, "idle") /\ "add" \in Operations[r]
    /\ job' = [job EXCEPT ![r].token = Token(t)]
    /\ Goto(r, "check")
    /\ UNCHANGED accounts

CheckDuplicate(r) ==
    /\ At(r, "check")
    /\ IF job[r].token \in TokensIn(entries) THEN End(r, "failed")
       ELSE Goto(r, "validate") /\ UNCHANGED job
    /\ UNCHANGED accounts

\* refresh_token: the server refuses a token it has replaced.
Validate(r) ==
    /\ At(r, "validate")
    /\ LET t == job[r].token
       IN  \/ /\ t \in spent \/ "validate" \in Failures
              /\ End(r, "failed")
              /\ UNCHANGED spent
           \/ /\ t \notin spent
              /\ \E rotate \in Rotations :
                   /\ spent' = IF rotate THEN spent \cup {t} ELSE spent
                   /\ job' = IF rotate THEN [job EXCEPT ![r].token.exchanged = @ + 1] ELSE job
              /\ Goto(r, "number")
    /\ UNCHANGED <<up, entries, file, balances>>

\* The id is taken under one lock, the account put in under the next.
ChooseId(r) ==
    /\ At(r, "number") /\ NextId \in Ids
    /\ job' = [job EXCEPT ![r].id = NextId]
    /\ Goto(r, "push")
    /\ UNCHANGED accounts

Push(r) ==
    /\ At(r, "push")
    /\ Change(r, Append(entries, Account(job[r].id, job[r].token)), "balance")
    /\ UNCHANGED <<up, file, balances, spent>>

(* --------------------------- logging in again ----------------------------- *)

\* do_relogin_update, after the login: disable, replace the token, enable.
DisableTarget(r) ==
    /\ At(r, "relogin")
    /\ LET p == Position(job[r].id)
       IN  IF p = 0
           THEN End(r, "failed") /\ UNCHANGED entries
           ELSE Change(r, [entries EXCEPT ![p].disabled = TRUE], "replace")
    /\ UNCHANGED <<up, file, balances, spent>>

ReplaceToken(r) ==
    /\ At(r, "replace")
    /\ LET p == Position(job[r].id)
           refused == \/ p = 0
                      \/ ~entries[p].disabled
                      \/ \E i \in DOMAIN entries \ {p} : entries[i].token = job[r].token
       IN  IF refused
           THEN End(r, "failed") /\ UNCHANGED entries
           ELSE Change(r, [entries EXCEPT ![p].token = job[r].token], "enable")
    /\ UNCHANGED <<up, file, balances, spent>>

EnableTarget(r) ==
    /\ At(r, "enable")
    /\ LET p == Position(job[r].id)
       IN  IF p = 0
           THEN End(r, "failed") /\ UNCHANGED entries
           ELSE Change(r, [entries EXCEPT ![p].disabled = FALSE], "done")
    /\ UNCHANGED <<up, file, balances, spent>>

(* ------------------------------- deleting --------------------------------- *)

DeleteCredential(r, i) ==
    /\ At(r, "idle") /\ "delete" \in Operations[r] /\ i \in IdsIn(entries)
    /\ entries' = SelectSeq(entries, LAMBDA e : e.id # i)
    /\ job' = [job EXCEPT ![r].id = i, ![r].next = "forget"]
    /\ Goto(r, "save")
    /\ UNCHANGED <<up, file, balances, spent>>

ForgetBalance(r) ==
    /\ At(r, "forget")
    /\ balances' = [balances EXCEPT ![job[r].id] = NoLogin]
    /\ End(r, "done")
    /\ UNCHANGED <<up, entries, file, spent>>

(* ------------------------------- balances --------------------------------- *)

\* The page, or the task that refreshes all balances.
BeginBalance(r, i) ==
    /\ At(r, "idle") /\ "balance" \in Operations[r] /\ i \in IdsIn(entries)
    /\ job' = [job EXCEPT ![r].id = i]
    /\ Goto(r, "balance")
    /\ UNCHANGED accounts

\* get_balance: the cache, or a question to the server with a copy of the
\* credential that has the id now.
AskBalance(r) ==
    /\ At(r, "balance")
    /\ LET i == job[r].id
       IN  IF balances[i] # NoLogin \/ Position(i) = 0
           THEN End(r, "done")
           ELSE /\ job' = [job EXCEPT ![r].token = entries[Position(i)].token]
                /\ Goto(r, "asked")
    /\ UNCHANGED accounts

BalanceAnswer(r) ==
    /\ At(r, "asked")
    /\ End(r, "done")
    /\ \/ balances' = [balances EXCEPT ![job[r].id] = job[r].token.login]
       \/ "balance" \in Failures /\ UNCHANGED balances
    /\ UNCHANGED <<up, entries, file, spent>>

\* BALANCE_CACHE_TTL_SECS have passed.
BalanceExpires(i) ==
    /\ up /\ balances[i] # NoLogin
    /\ balances' = [balances EXCEPT ![i] = NoLogin]
    /\ UNCHANGED <<up, entries, file, spent, tasks>>

\* disable_quota_exceeded for one account of those the cache says have no quota
\* left: the cache and the list are looked at first, the account is disabled
\* after.
BeginQuota(r, i) ==
    /\ At(r, "idle") /\ "quota" \in Operations[r]
    /\ balances[i] \in OverQuota /\ Position(i) # 0
    /\ ~entries[Position(i)].disabled
    /\ job' = [job EXCEPT ![r].id = i]
    /\ Goto(r, "quota")
    /\ UNCHANGED accounts

DisableExceeded(r) ==
    /\ At(r, "quota")
    /\ LET p == Position(job[r].id)
       IN  IF p = 0
           THEN End(r, "failed") /\ UNCHANGED entries
           ELSE Change(r, [entries EXCEPT ![p].disabled = TRUE], "done")
    /\ UNCHANGED <<up, file, balances, spent>>

(* -------------------------------- restart --------------------------------- *)

\* The process ends and starts again.  new refuses a file with an id twice.
RestartAccounts ==
    /\ up
    /\ up' = (Cardinality(IdsIn(file)) = Len(file))
    /\ entries' = file
    /\ pc' = [r \in Requests |-> IF pc[r] = "idle" THEN "idle" ELSE "failed"]
    /\ job' = [r \in Requests |-> NoJob]
    /\ UNCHANGED <<file, balances, spent>>

AccountStep(r) ==
    \/ \E t \in Pasted : BeginAdd(r, t)
    \/ \E i \in Ids : DeleteCredential(r, i) \/ BeginBalance(r, i) \/ BeginQuota(r, i)
    \/ Save(r) \/ SaveFails(r)
    \/ CheckDuplicate(r) \/ Validate(r) \/ ChooseId(r) \/ Push(r)
    \/ DisableTarget(r) \/ ReplaceToken(r) \/ EnableTarget(r)
    \/ ForgetBalance(r) \/ AskBalance(r) \/ BalanceAnswer(r) \/ DisableExceeded(r)

-----------------------------------------------------------------------------
AccountTypeOK ==
    /\ up \in BOOLEAN
    /\ \A i \in DOMAIN entries : entries[i].id \in Ids /\ entries[i].token.login \in Logins
    /\ balances \in [Ids -> Logins \cup {NoLogin}]
    /\ \A r \in Requests : job[r].id \in Ids \cup {NoId}
==============================================================================
