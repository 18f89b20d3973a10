---------------------------- MODULE CredentialPool ----------------------------
(***************************************************************************)
(* MultiTokenManager (kiro/token_manager.rs) as its callers share it: many *)
(* requests select credentials, wait for slots, hold slot guards across an *)
(* upstream call and report how the call went, while the operator changes  *)
(* the pool.                                                               *)
(*                                                                         *)
(* One action is one critical section of a mutex, or several next to each  *)
(* other where nothing another task could do in between would be noticed.  *)
(* Tasks interleave between actions.  A task that sleeps or awaits may be  *)
(* dropped (the client went away); one that does neither may not.          *)
(*                                                                         *)
(* Time is abstract: a wait budget runs out, a cooldown ends and a session *)
(* binding is pruned by actions of their own.  Token refresh is only its   *)
(* outcome (module TokenRefresh has the rest), and so is the upstream call.*)
(***************************************************************************)
EXTENDS CredentialEntry

CONSTANTS
  Requests,           \* the client requests that may be in flight at once
  Sessions,           \* conversation ids that clients send
  Group, Opus, Session,  \* what request r asks for, functions of Requests
  StickyMaxWaiting,   \* STICKY_MAX_WAITING
  Outcomes,           \* what may happen to a refresh or a call, see below
  Catalogue,          \* the configurations of credentials that can be added
  InitialPools,       \* the pools the credentials file may describe
  Modes,              \* the load balancing modes in use
  AdminOps,           \* the operations the operator performs
  MaxCalls, MaxAdmin, MaxReloads  \* bounds on the environment

NoSession == "no session"

ASSUME RequestsAssumption == IsFiniteSet(Requests)
ASSUME RequestAssumption ==
  /\ Group \in [Requests -> Groups \cup {NoGroup}]
  /\ Opus \in [Requests -> BOOLEAN]
  /\ Session \in [Requests -> Sessions \cup {NoSession}]
ASSUME ModesAssumption == Modes \subseteq {"balanced", "priority"}
ASSUME OutcomesAssumption ==
  Outcomes \subseteq {"refresh error", "invalid_grant", "cancel",
                      "call error", "quota", "throttle", "neutral"}
ASSUME BoundsAssumption ==
  /\ StickyMaxWaiting \in Nat
  /\ MaxCalls \in Nat /\ MaxAdmin \in Nat /\ MaxReloads \in Nat
ASSUME CatalogueAssumption == Catalogue \subseteq Config
ASSUME InitialPoolsAssumption ==
  \A p \in InitialPools :
    /\ DOMAIN p \subseteq Ids
    /\ p = [c \in DOMAIN p |-> p[c]]
    /\ \A c \in DOMAIN p : \E k \in Catalogue, off \in BOOLEAN :
         p[c] = LoadedEntry(k, off)

VARIABLES
  entries,    \* [ids in the pool -> Entry]
  currentId,  \* current_id
  affinity,   \* session_affinity: NoId for a session that is not bound
  mode,       \* load_balancing_mode
  pc,         \* where request r is in acquire_context_for_session and beyond
  guard,      \* the credential whose slot guard r holds, or NoId
  target,     \* the bound credential r checks or waits for, the one it waits
              \* for in reserve_best_with_wait, or the one it reports on
  late,       \* the wait budget of r has run out
  attempts,   \* attempt_count
  budget,     \* max_attempts
  left,       \* calls r may still begin (bound)
  adminLeft, reloadsLeft,  \* bounds
  stale,      \* history: ids that were given to a new credential while guards
              \* on, or waits for, a deleted one with that id were out
  orphans     \* history: requests whose guard is on a deleted credential

pool    == <<entries, currentId, affinity, mode>>
request == <<pc, guard, target, late, attempts, budget, left>>
env     == <<adminLeft, reloadsLeft, stale, orphans>>
vars    == <<pool, request, env>>

PCs == {"idle", "reserve", "check", "one", "count", "join", "poll", "asleep",
        "unbind", "best", "heal", "ensure", "bind", "call", "held",
        "refresh error", "invalid_grant", "reload", "report"}

Q(r) == [group |-> Group[r], opus |-> Opus[r]]

Holders(c) == {r \in Requests : guard[r] = c}

\* The guards out on the present credential c, not on a deleted namesake.
Guards(c) == Holders(c) \ orphans

\* The requests that wait for a slot of c.
Waiters(c) == {r \in Requests : /\ target[r] = c
                                /\ pc[r] \in {"poll", "asleep", "best"}}

MaxOf(a, b) == IF a >= b THEN a ELSE b

TotalInGroup(g) == Cardinality({c \in DOMAIN entries : GroupMatches(entries[c], g)})

Goto(r, label) == pc' = [pc EXCEPT ![r] = label]

\* Entering reserve_best_with_wait: a new deadline and nothing waited for.
EnterBest(r) == /\ Goto(r, "best")
                /\ target' = [target EXCEPT ![r] = NoId]
                /\ late' = [late EXCEPT ![r] = FALSE]

Unbound(c) == [s \in Sessions |-> IF affinity[s] = c THEN NoId ELSE affinity[s]]

Forget(r) == IF Session[r] = NoSession THEN affinity
             ELSE [affinity EXCEPT ![Session[r]] = NoId]

\* Leave the selection with a slot of c, which es already counts.
Take(r, c, es) == /\ entries' = es
                  /\ guard' = [guard EXCEPT ![r] = c]
                  /\ target' = [target EXCEPT ![r] = NoId]
                  /\ late' = [late EXCEPT ![r] = FALSE]
                  /\ Goto(r, "ensure")

Init ==
  /\ entries \in InitialPools
  /\ currentId \in IF AnyEnabled(entries) THEN HighestPriority(entries) ELSE {NoId}
  /\ affinity = [s \in Sessions |-> NoId]
  /\ mode \in Modes
  /\ pc = [r \in Requests |-> "idle"]
  /\ guard = [r \in Requests |-> NoId]
  /\ target = [r \in Requests |-> NoId]
  /\ late = [r \in Requests |-> FALSE]
  /\ attempts = [r \in Requests |-> 0]
  /\ budget = [r \in Requests |-> 1]
  /\ left = [r \in Requests |-> MaxCalls]
  /\ adminLeft = MaxAdmin
  /\ reloadsLeft = MaxReloads
  /\ stale = {} /\ orphans = {}

-----------------------------------------------------------------------------
(* acquire_context_for_session and reserve_context.                        *)

Begin(r) ==
  /\ pc[r] = "idle" /\ left[r] > 0
  /\ left' = [left EXCEPT ![r] = @ - 1]
  /\ attempts' = [attempts EXCEPT ![r] = 0]
  /\ budget' = [budget EXCEPT ![r] = MaxOf(TotalInGroup(Group[r]) * MaxFailures, 1)]
  /\ Goto(r, "reserve")
  /\ UNCHANGED <<pool, guard, target, late, env>>

\* The locals of acquire_context_for_session go out of scope.
Return(r) == /\ attempts' = [attempts EXCEPT ![r] = 0]
             /\ budget' = [budget EXCEPT ![r] = 1]

\* A failed acquisition ends the call; the caller may begin another.
GiveUp(r) == /\ Goto(r, "idle")
             /\ target' = [target EXCEPT ![r] = NoId]
             /\ late' = [late EXCEPT ![r] = FALSE]
             /\ Return(r)

AttemptsExhausted(r) ==
  /\ pc[r] = "reserve" /\ attempts[r] >= budget[r]
  /\ GiveUp(r)
  /\ UNCHANGED <<pool, guard, left, env>>

ReserveContext(r) ==
  /\ pc[r] = "reserve" /\ attempts[r] < budget[r]
  /\ IF /\ mode = "balanced" /\ Session[r] # NoSession
        /\ affinity[Session[r]] # NoId
     THEN /\ Goto(r, "check")
          /\ target' = [target EXCEPT ![r] = affinity[Session[r]]]
          /\ UNCHANGED late
     ELSE EnterBest(r)
  /\ UNCHANGED <<pool, guard, attempts, budget, left, env>>

\* Second half of credential_for_session.
CheckBinding(r) ==
  /\ pc[r] = "check"
  /\ Goto(r, IF target[r] \in AvailableIds(entries, Q(r)) THEN "one" ELSE "unbind")
  /\ UNCHANGED <<pool, guard, target, late, attempts, budget, left, env>>

\* clear_session_affinity, then another credential.
Unbind(r) ==
  /\ pc[r] = "unbind"
  /\ affinity' = Forget(r)
  /\ EnterBest(r)
  /\ UNCHANGED <<entries, currentId, mode, guard, attempts, budget, left, env>>

ReserveOne(r) ==
  /\ pc[r] = "one"
  /\ \/ /\ target[r] \in Candidates(entries, Q(r))
        /\ Take(r, target[r], Occupy(entries, target[r]))
     \/ /\ target[r] \notin Candidates(entries, Q(r))
        /\ Goto(r, IF target[r] \in AvailableIds(entries, Q(r))
                   THEN "count" ELSE "unbind")
        /\ UNCHANGED <<entries, guard, target, late>>
  /\ UNCHANGED <<currentId, affinity, mode, attempts, budget, left, env>>

\* wait_for_sticky: the count is read and raised in two critical sections.
CountWaiting(r) ==
  /\ pc[r] = "count"
  /\ Goto(r, IF target[r] \in DOMAIN entries
                /\ entries[target[r]].waiting >= StickyMaxWaiting
             THEN "unbind" ELSE "join")
  /\ UNCHANGED <<pool, guard, target, late, attempts, budget, left, env>>

JoinWaiting(r) ==
  /\ pc[r] = "join"
  /\ entries' = StartWaiting(entries, target[r])
  /\ late' = [late EXCEPT ![r] = FALSE]
  /\ Goto(r, "poll")
  /\ UNCHANGED <<currentId, affinity, mode, guard, target, attempts, budget,
                 left, env>>

\* Mutant: after a sleep only the load is looked at again.
PollStickyUnchecked(r) ==
  LET c == target[r]
      free == c \in DOMAIN entries /\ ~IsFull(entries[c]) IN
  /\ pc[r] \in {"poll", "asleep"}
  /\ \/ /\ free
        /\ Take(r, c, StopWaiting(Occupy(entries, c), c))
     \/ /\ ~free /\ late[r]
        /\ entries' = StopWaiting(entries, c)
        /\ Goto(r, "unbind")
        /\ UNCHANGED <<guard, target, late>>
     \/ /\ ~free /\ ~late[r] /\ pc[r] = "poll"
        /\ Goto(r, "asleep")
        /\ UNCHANGED <<entries, guard, target, late>>
  /\ UNCHANGED <<currentId, affinity, mode, attempts, budget, left, env>>

PollSticky(r) ==
  LET c == target[r] IN
  /\ pc[r] \in {"poll", "asleep"}
  /\ \/ /\ c \in Candidates(entries, Q(r))
        /\ Take(r, c, StopWaiting(Occupy(entries, c), c))
     \/ /\ c \notin Candidates(entries, Q(r))
        /\ c \notin AvailableIds(entries, Q(r)) \/ late[r]
        /\ entries' = StopWaiting(entries, c)
        /\ Goto(r, "unbind")
        /\ UNCHANGED <<guard, target, late>>
     \/ /\ c \in AvailableIds(entries, Q(r)) \ Candidates(entries, Q(r))
        /\ ~late[r] /\ pc[r] = "poll"
        /\ Goto(r, "asleep")
        /\ UNCHANGED <<entries, guard, target, late>>
  /\ UNCHANGED <<currentId, affinity, mode, attempts, budget, left, env>>

\* One round of reserve_best_with_wait: take a slot, or wait for the idlest
\* full credential, or find nothing to wait for.
ReserveBest(r) ==
  /\ pc[r] = "best"
  /\ \E c \in BestChoices(entries, Q(r), mode) :
       /\ Take(r, c, StopWaiting(Occupy(entries, c), target[r]))
       /\ currentId' = c
  /\ UNCHANGED <<affinity, mode, attempts, budget, left, env>>

WaitForBest(r) ==
  /\ pc[r] = "best" /\ ~late[r]
  /\ Candidates(entries, Q(r)) = {}
  /\ \E c \in WaitTargets(entries, Q(r)) :
       /\ c # target[r]
       /\ entries' = StartWaiting(StopWaiting(entries, target[r]), c)
       /\ target' = [target EXCEPT ![r] = c]
  /\ UNCHANGED <<currentId, affinity, mode, pc, guard, late, attempts,
                 budget, left, env>>

\* CONCURRENCY_BUSY.
GiveUpBusy(r) ==
  /\ pc[r] = "best" /\ late[r]
  /\ Candidates(entries, Q(r)) = {} /\ WaitTargets(entries, Q(r)) # {}
  /\ entries' = StopWaiting(entries, target[r])
  /\ GiveUp(r)
  /\ UNCHANGED <<currentId, affinity, mode, guard, left, env>>

FindNone(r) ==
  /\ pc[r] = "best" /\ AvailableIds(entries, Q(r)) = {}
  /\ entries' = StopWaiting(entries, target[r])
  /\ target' = [target EXCEPT ![r] = NoId]
  /\ Goto(r, "heal")
  /\ UNCHANGED <<currentId, affinity, mode, guard, late, attempts, budget,
                 left, env>>

\* try_autoheal; the deadline of the wait is kept.
TryAutoheal(r) ==
  /\ pc[r] = "heal"
  /\ IF AutoDisabled(entries) # {}
     THEN /\ entries' = Autoheal(entries)
          /\ Goto(r, "best")
          /\ UNCHANGED <<target, late, attempts, budget>>
     ELSE GiveUp(r) /\ UNCHANGED entries
  /\ UNCHANGED <<currentId, affinity, mode, guard, left, env>>

-----------------------------------------------------------------------------
(* try_ensure_token: its outcome, and what the loop does with a failure.   *)

EnsureToken(r) ==
  LET c == guard[r] IN
  /\ pc[r] = "ensure"
  /\ c \in DOMAIN entries => entries[c].kind # "api_key_missing"
  /\ entries' = IF c \in DOMAIN entries /\ entries[c].kind = "oauth"
                THEN Put(entries, c, [entries[c] EXCEPT !.refreshFailures = 0])
                ELSE entries
  /\ Goto(r, "bind")
  /\ UNCHANGED <<currentId, affinity, mode, guard, target, late, attempts,
                 budget, left, env>>

\* remember_session_affinity, whatever happened to the credential meanwhile.
Bind(r) ==
  /\ pc[r] = "bind"
  /\ affinity' = IF mode = "balanced" /\ Session[r] # NoSession
                 THEN [affinity EXCEPT ![Session[r]] = guard[r]] ELSE affinity
  /\ Goto(r, "call")
  /\ Return(r)
  /\ UNCHANGED <<entries, currentId, mode, guard, target, late, left, env>>

\* ConcurrencyGuard::drop and release_active_slot.
DropGuard(r) ==
  /\ entries' = ReleaseSlot(entries, guard[r])
  /\ guard' = [guard EXCEPT ![r] = NoId]
  /\ orphans' = orphans \ {r}

\* What can fail: an API key that is not there, a refresh, a credential that
\* was deleted meanwhile.  The guard is dropped before the failure is reported.
EnsureTokenFails(r, why) ==
  LET c == guard[r] IN
  /\ pc[r] = "ensure"
  /\ c \in DOMAIN entries =>
       \/ entries[c].kind = "api_key_missing" /\ why = "refresh error"
       \/ entries[c].kind = "oauth" /\ why \in Outcomes
  /\ DropGuard(r)
  /\ target' = [target EXCEPT ![r] = c]
  /\ Goto(r, why)
  /\ UNCHANGED <<currentId, affinity, mode, late, attempts, budget, left,
                 adminLeft, reloadsLeft, stale>>

ForgetSession(r) ==
  /\ pc[r] \in {"refresh error", "invalid_grant"}
  /\ affinity' = Forget(r)
  /\ Goto(r, IF pc[r] = "invalid_grant" THEN "reload" ELSE "report")
  /\ UNCHANGED <<entries, currentId, mode, guard, target, late, attempts,
                 budget, left, env>>

\* The file holds another refresh token than memory: the attempt is repeated
\* and not counted.
ReloadFromFile(r) ==
  /\ pc[r] = "reload" /\ reloadsLeft > 0
  /\ target[r] \in DOMAIN entries
  /\ entries' = Reload(entries, target[r])
  /\ reloadsLeft' = reloadsLeft - 1
  /\ target' = [target EXCEPT ![r] = NoId]
  /\ Goto(r, "reserve")
  /\ UNCHANGED <<currentId, affinity, mode, guard, late, attempts, budget,
                 left, adminLeft, stale, orphans>>

\* The common tail of the report_* functions: when c becomes disabled, move
\* current_id and drop the sessions bound to c.
AfterReport(es, c) ==
  /\ entries' = es
  /\ IF c \in Enabled(entries) \ Enabled(es)
     THEN /\ currentId' \in IF AnyEnabled(es) THEN HighestPriority(es) ELSE {currentId}
          /\ affinity' = Unbound(c)
     ELSE UNCHANGED <<currentId, affinity>>

\* report_refresh_failure and report_refresh_token_invalid.
ReportRefresh(r, es) ==
  /\ AfterReport(es, target[r])
  /\ IF AnyEnabled(es)
     THEN /\ attempts' = [attempts EXCEPT ![r] = @ + 1]
          /\ target' = [target EXCEPT ![r] = NoId]
          /\ Goto(r, "reserve")
          /\ UNCHANGED <<late, budget>>
     ELSE GiveUp(r)
  /\ UNCHANGED <<mode, guard, left, env>>

ReportRefreshFailure(r) ==
  /\ pc[r] = "report"
  /\ ReportRefresh(r, FailRefresh(entries, target[r]))

ReportRefreshTokenInvalid(r) ==
  /\ pc[r] = "reload"
  /\ ReportRefresh(r, InvalidateRefreshToken(entries, target[r]))

-----------------------------------------------------------------------------
(* The upstream call, made and reported with the guard held (provider.rs). *)

ReportSuccess(r) ==
  /\ pc[r] = "call"
  /\ entries' = Succeed(entries, guard[r])
  /\ Goto(r, "held")
  /\ UNCHANGED <<currentId, affinity, mode, guard, target, late, attempts,
                 budget, left, env>>

\* report_failure and report_quota_exhausted.
ReportCall(r, es) ==
  /\ pc[r] = "call"
  /\ AfterReport(es, guard[r])
  /\ Goto(r, "held")
  /\ UNCHANGED <<mode, guard, target, late, attempts, budget, left, env>>

ReportFailure(r) == "call error" \in Outcomes /\ ReportCall(r, Fail(entries, guard[r]))

ReportQuotaExhausted(r) ==
  "quota" \in Outcomes /\ ReportCall(r, ExhaustQuota(entries, guard[r]))

ReportAccountThrottled(r) ==
  /\ "throttle" \in Outcomes /\ pc[r] = "call"
  /\ entries' = Throttle(entries, guard[r])
  /\ affinity' = Unbound(guard[r])
  /\ Goto(r, "held")
  /\ UNCHANGED <<currentId, mode, guard, target, late, attempts, budget,
                 left, env>>

\* Network errors, 5xx, rejected requests: reported to nobody.
CallUnreported(r) ==
  /\ "neutral" \in Outcomes /\ pc[r] = "call"
  /\ Goto(r, "held")
  /\ UNCHANGED <<pool, guard, target, late, attempts, budget, left, env>>

\* The guard is dropped with the body or the stream.
Finish(r) ==
  /\ pc[r] = "held"
  /\ DropGuard(r)
  /\ Goto(r, "idle")
  /\ UNCHANGED <<currentId, affinity, mode, target, late, attempts, budget,
                 left, adminLeft, reloadsLeft, stale>>

\* The future of a request is dropped where it awaits.  Its guard goes with it;
\* a sleeper's entry in `waiting` does not.
Asleep(r) == pc[r] = "asleep" \/ (pc[r] = "best" /\ target[r] # NoId)

Cancel(r) ==
  /\ "cancel" \in Outcomes
  /\ pc[r] \in {"ensure", "call", "held"} \/ Asleep(r)
  /\ IF guard[r] # NoId THEN DropGuard(r) ELSE UNCHANGED <<entries, guard,
                                                           orphans>>
  /\ GiveUp(r)
  /\ UNCHANGED <<currentId, affinity, mode, left, adminLeft, reloadsLeft,
                 stale>>

-----------------------------------------------------------------------------
(* Time. *)

WaitBudgetEnds(r) ==
  /\ pc[r] \in {"poll", "asleep", "best"} /\ ~late[r]
  /\ late' = [late EXCEPT ![r] = TRUE]
  /\ UNCHANGED <<pool, pc, guard, target, attempts, budget, left, env>>

CooldownEnds(c) ==
  /\ c \in DOMAIN entries /\ entries[c].throttled
  /\ entries' = Put(entries, c, [entries[c] EXCEPT !.throttled = FALSE])
  /\ UNCHANGED <<currentId, affinity, mode, request, env>>

\* SESSION_AFFINITY_TTL; pruned the next time the map is looked at.
BindingExpires(s) ==
  /\ affinity[s] # NoId
  /\ affinity' = [affinity EXCEPT ![s] = NoId]
  /\ UNCHANGED <<entries, currentId, mode, request, env>>

-----------------------------------------------------------------------------
(* The operator. *)

Admin(op) == /\ op \in AdminOps /\ adminLeft > 0
             /\ adminLeft' = adminLeft - 1
             /\ UNCHANGED <<request, reloadsLeft>>

Edit(c, e, aff) ==
  /\ entries' = Put(entries, c, e)
  /\ affinity' = aff
  /\ UNCHANGED <<mode, stale, orphans>>

SelectHighestPriority(es) ==
  currentId' \in IF AnyEnabled(es) THEN HighestPriority(es) ELSE {currentId}

\* set_disabled of the service: disabling the current credential moves
\* current_id with switch_to_next.
SetDisabled(c, off) ==
  /\ Admin("set_disabled")
  /\ Edit(c, IF off THEN Disable(entries[c], "Manual")
             ELSE [Enable(entries[c]) EXCEPT !.throttled = FALSE], Unbound(c))
  /\ IF off /\ c = currentId THEN SelectHighestPriority(entries')
     ELSE UNCHANGED currentId

ResetAndEnable(c) ==
  /\ Admin("reset_and_enable")
  /\ entries[c].reason # "InvalidConfig"
  /\ Edit(c, [Enable(entries[c]) EXCEPT !.throttled = FALSE], Unbound(c))
  /\ UNCHANGED currentId

DisableQuotaExceeded(c) ==
  /\ Admin("disable_quota_exceeded")
  /\ Edit(c, Disable(entries[c], "QuotaExceeded"), Unbound(c))
  /\ UNCHANGED currentId

ClearThrottle(c) ==
  /\ Admin("clear_throttle")
  /\ Edit(c, [entries[c] EXCEPT !.throttled = FALSE], affinity)
  /\ UNCHANGED currentId

SetPriority(c, p) ==
  /\ Admin("set_priority")
  /\ Edit(c, [entries[c] EXCEPT !.priority = p], affinity)
  /\ SelectHighestPriority(entries')

\* set_max_concurrency and the same field of update_credential.
SetMaxConcurrency(c, m) ==
  /\ Admin("set_max_concurrency")
  /\ Edit(c, [entries[c] EXCEPT !.max = m], affinity)
  /\ UNCHANGED currentId

\* update_credential with a list of groups.
SetGroups(c, gs) ==
  /\ Admin("set_groups")
  /\ Edit(c, [entries[c] EXCEPT !.groups = gs], Unbound(c))
  /\ UNCHANGED currentId

\* Removing a group takes it from every credential and unbinds all sessions.
RemoveGroup(g) ==
  /\ Admin("remove_group")
  /\ \E c \in DOMAIN entries : g \in entries[c].groups
  /\ entries' = [c \in DOMAIN entries |->
                   [entries[c] EXCEPT !.groups = @ \ {g}]]
  /\ affinity' = [s \in Sessions |-> NoId]
  /\ UNCHANGED <<currentId, mode, stale, orphans>>

SetMode(m) ==
  /\ Admin("set_mode") /\ m # mode
  /\ mode' = m
  /\ UNCHANGED <<entries, currentId, affinity, stale, orphans>>

\* The documentation asks for a disabled credential, the code does not.
DeleteCredential(c) ==
  LET es == [d \in DOMAIN entries \ {c} |-> entries[d]] IN
  /\ Admin("delete")
  /\ entries' = es
  /\ affinity' = Unbound(c)
  /\ IF DOMAIN es = {} THEN currentId' = NoId
     ELSE IF currentId = c THEN SelectHighestPriority(es)
     ELSE UNCHANGED currentId
  /\ orphans' = orphans \cup Holders(c)
  /\ UNCHANGED <<mode, stale>>

\* The id is one more than the largest in the pool, so deleting the last
\* credential and adding another gives it the id of the deleted one.
AddCredential(k) ==
  /\ Admin("add")
  /\ k.kind # "api_key_missing"
  /\ \E c \in Ids :
       /\ IF DOMAIN entries = {} THEN c = 1
          ELSE c - 1 \in DOMAIN entries /\ \A d \in DOMAIN entries : d < c
       /\ entries' = [d \in DOMAIN entries \cup {c} |->
                        IF d = c THEN NewEntry(k, FALSE, None) ELSE entries[d]]
       /\ stale' = IF Holders(c) \cup Waiters(c) = {} THEN stale \ {c}
                   ELSE stale \cup {c}
  /\ UNCHANGED <<currentId, affinity, mode, orphans>>

-----------------------------------------------------------------------------
\* The code of one request between two awaits.
Run(r) ==
  \/ AttemptsExhausted(r) \/ ReserveContext(r) \/ CheckBinding(r) \/ Unbind(r)
  \/ ReserveOne(r) \/ CountWaiting(r) \/ JoinWaiting(r) \/ PollSticky(r)
  \/ ReserveBest(r) \/ WaitForBest(r) \/ GiveUpBusy(r) \/ FindNone(r)
  \/ TryAutoheal(r) \/ Bind(r) \/ ForgetSession(r)
  \/ ReloadFromFile(r) \/ ReportRefreshFailure(r) \/ ReportRefreshTokenInvalid(r)

\* The answer of the authentication server, of the upstream API, and its end.
Refreshed(r) ==
  EnsureToken(r) \/ \E why \in {"refresh error", "invalid_grant"} : EnsureTokenFails(r, why)

Answered(r) == \/ ReportSuccess(r) \/ ReportFailure(r) \/ ReportQuotaExhausted(r)
               \/ ReportAccountThrottled(r) \/ CallUnreported(r)

Operator ==
  \/ \E c \in DOMAIN entries :
       \/ \E off \in BOOLEAN : SetDisabled(c, off)
       \/ ResetAndEnable(c) \/ DisableQuotaExceeded(c) \/ ClearThrottle(c)
       \/ \E k \in Catalogue : \/ SetPriority(c, k.priority)
                               \/ SetMaxConcurrency(c, k.max)
                               \/ SetGroups(c, k.groups)
       \/ DeleteCredential(c)
  \/ \E g \in Groups : RemoveGroup(g)
  \/ \E m \in Modes : SetMode(m)
  \/ \E k \in Catalogue : AddCredential(k)

\* Every request has made its calls: the bound on the environment is reached.
Done == /\ \A r \in Requests : pc[r] = "idle" /\ left[r] = 0
        /\ UNCHANGED vars

Next ==
  \/ \E r \in Requests : \/ Begin(r) \/ Run(r) \/ Refreshed(r) \/ Answered(r)
                         \/ Finish(r) \/ Cancel(r) \/ WaitBudgetEnds(r)
  \/ \E c \in Ids : CooldownEnds(c)
  \/ \E s \in Sessions : BindingExpires(s)
  \/ Operator
  \/ Done

Spec == Init /\ [][Next]_vars

\* Tasks are scheduled, the HTTP clients have timeouts, and the clock runs.
Fairness ==
  \A r \in Requests : /\ WF_vars(Run(r)) /\ WF_vars(Refreshed(r))
                      /\ WF_vars(Answered(r)) /\ WF_vars(Finish(r))
                      /\ WF_vars(WaitBudgetEnds(r))

FairSpec == Spec /\ Fairness

-----------------------------------------------------------------------------
(* Properties. *)

\* Types.  A request holds a guard exactly while it refreshes, calls or reads.
TypeOK ==
  /\ DOMAIN entries \subseteq Ids
  /\ entries \in [DOMAIN entries -> Entry]
  /\ currentId \in Ids \cup {NoId}
  /\ affinity \in [Sessions -> Ids \cup {NoId}]
  /\ mode \in Modes
  /\ pc \in [Requests -> PCs]
  /\ guard \in [Requests -> Ids \cup {NoId}]
  /\ target \in [Requests -> Ids \cup {NoId}]
  /\ late \in [Requests -> BOOLEAN]
  /\ attempts \in [Requests -> Nat]
  /\ budget \in [Requests -> Nat]
  /\ left \in [Requests -> Nat]
  /\ adminLeft \in Nat /\ reloadsLeft \in Nat
  /\ stale \subseteq Ids /\ orphans \subseteq Requests
  /\ \A r \in Requests :
       guard[r] # NoId <=> pc[r] \in {"ensure", "bind", "call", "held"}

\* `active` of a credential is the number of guards out on it, through failures,
\* cancellations, edits and deletions (release_active_slot); when it took its id
\* over from a deleted one while that was in use it may be less, never more.
SlotAccounting ==
  \A c \in DOMAIN entries :
    /\ entries[c].active <= Cardinality(Guards(c))
    /\ c \notin stale => entries[c].active = Cardinality(Guards(c))

\* max_concurrency is a hard limit: nobody gets a slot of a credential that has
\* as many guards out as it allows, even when the limit was just lowered.
LimitRespected ==
  [][\A c \in DOMAIN entries \ stale :
       Guards(c)' \ Guards(c) # {} =>
         entries[c].max = 0 \/ Cardinality(Guards(c)) < entries[c].max]_vars

\* Between looking a session's credential up and taking its slot, or while it
\* waits, the credential may be disabled, cooled down, moved to another group or
\* deleted; a slot is only ever taken of one that still suits the request.
OnlySuitableTaken ==
  [][\A r \in Requests :
       guard[r] = NoId /\ guard'[r] # NoId
         => guard'[r] \in AvailableIds(entries, Q(r))]_vars

\* The guards out are the holders of a semaphore for each credential: every
\* operation of the pool is an acquisition, a release or a change of limits of
\* it, or no step at all (as long as no id is given out twice).
Semaphores == INSTANCE SlotPool WITH
  holders <- [c \in Ids |-> Holders(c)],
  limit <- [c \in Ids |-> IF c \in DOMAIN entries THEN entries[c].max ELSE 0]

ImplementsSlotPool == Semaphores!Spec

\* reserve_best in priority mode goes to a lower tier only when every suitable
\* credential of a higher one has all its slots out, and within a tier, or in
\* balanced mode, to a credential with the fewest guards out.
LoadSpread ==
  [][\A r \in Requests :
       pc[r] = "best" /\ guard'[r] # NoId =>
         LET c == guard'[r]
             free == {d \in AvailableIds(entries, Q(r)) \ stale :
                        entries[d].max = 0 \/ Cardinality(Guards(d)) < entries[d].max}
             rivals == IF mode = "balanced" THEN free ELSE
                       {d \in free : entries[d].priority <= entries[c].priority}
         IN  c \notin stale => \A d \in rivals :
               /\ mode = "balanced" \/ entries[d].priority = entries[c].priority
               /\ Cardinality(Guards(c)) <= Cardinality(Guards(d))]_vars

\* `waiting`, which decides when a session gives its credential up, never
\* misses a request that waits.
WaitingCovered ==
  \A c \in DOMAIN entries \ stale :
    entries[c].waiting >= Cardinality(Waiters(c))

\* A credential is disabled iff there is a reason, and an enabled one is below
\* both failure thresholds, whatever enabled it: a fresh start always has all
\* its attempts, none is enabled one failure from being disabled for good.
EnabledBelowThreshold ==
  \A c \in DOMAIN entries :
    /\ entries[c].disabled <=> entries[c].reason # None
    /\ ~entries[c].disabled => /\ entries[c].failures < MaxFailures
                               /\ entries[c].refreshFailures < MaxFailures

\* Without the operator and without a newer token in the file, only a credential
\* disabled for failed calls comes back: neither an exhausted quota nor a dead
\* token nor the operator's own decision is undone by self-healing.
OnlyAutoDisabledHeals ==
  [][\A c \in DOMAIN entries \cap DOMAIN entries' :
       /\ adminLeft' = adminLeft /\ reloadsLeft' = reloadsLeft
       /\ entries[c].disabled /\ ~entries'[c].disabled
       => entries[c].reason = "TooManyFailures"]_vars

\* An acquisition ends, with a slot and a token or without: neither waiting nor
\* self-healing nor retrying goes on for ever.
EveryAcquisitionEnds ==
  \A r \in Requests : pc[r] = "reserve" ~> pc[r] \in {"call", "idle"}

\* When the requests are over all slots are free again, cancelled ones included.
SlotsDrain == <>[](\A c \in DOMAIN entries : entries[c].active = 0)
=============================================================================
