------------------------------ MODULE CallRetry ------------------------------
(***************************************************************************)
(* The retry loops of KiroProvider (kiro/provider.rs): call_api_with_retry *)
(* and call_mcp_with_retry, run by several requests over one pool.         *)
(*                                                                         *)
(* What the upstream answers depends on the persona of the credential that *)
(* is used, which is fixed: healthy, exhausted, blocked and so on.  So a   *)
(* property can say what an answer proves about a credential, and what a   *)
(* call must find in the pool.  A renewal of its token may fail whatever   *)
(* the credential is like: the login servers may be out of reach.          *)
(*                                                                         *)
(* An acquisition is one step here, or several when renewals fail in it:   *)
(* module CredentialPool has the waiting, the sessions, the reload of the  *)
(* file and the dropped requests.  A slot is taken with it and given back  *)
(* at the end of the iteration, reports and all, there being no await in   *)
(* between.  Cooldowns outlast the calls.                                  *)
(***************************************************************************)
EXTENDS CredentialEntry

CONSTANTS
  Requests,
  Kind,       \* "api" or "mcp", a function of Requests
  Group,
  Malformations,  \* the sets of requests that may be malformed
  Counted,    \* the requests whose calls `tries` counts
  MaxRetriesPerCredential, MaxTotalRetries,  \* as in the code
  Pools,      \* the pools a call may find
  Casts,      \* the personas the credentials may have, functions of Ids
  Modes

Personas == {"ok", "flaky",       \* answers; or fails now and then
             "revoked", "stuck",  \* 401, until its token is renewed or for good
             "forbidden",         \* 401 or 403 for another reason
             "no endpoint",       \* configured for an endpoint that is not there
             "no client",         \* no HTTP client can be built: a bad proxy, say
             "lapsed", "dead",    \* the access token is over; and cannot be renewed
             "spent", "limited"}  \* 402, and 429 for suspicious activity

ASSUME CallAssumption == /\ IsFiniteSet(Requests)
                         /\ Kind \in [Requests -> {"api", "mcp"}]
                         /\ Group \in [Requests -> Groups \cup {NoGroup}]
                         /\ \A r \in Requests : Kind[r] = "mcp" => Group[r] = NoGroup
                         /\ Malformations \subseteq SUBSET Requests
                         /\ Counted \subseteq Requests
ASSUME RetryAssumption == /\ MaxRetriesPerCredential \in Nat \ {0}
                          /\ MaxTotalRetries \in 1 .. 20
\* As MultiTokenManager::new leaves them: nothing is in flight.
ASSUME PoolsAssumption ==
  \A pool \in Pools :
    /\ DOMAIN pool \subseteq Ids /\ pool \in [DOMAIN pool -> Entry]
    /\ \A c \in DOMAIN pool : pool[c].active = 0
ASSUME CastAssumption == Casts \subseteq [Ids -> Personas]

VARIABLES
  entries,
  persona,    \* of each credential
  mode,       \* load_balancing_mode
  malformed,  \* the requests whose content the upstream rejects
  pc,
  attempt,    \* of the loop
  budget,     \* max_retries
  guard,      \* the credential whose slot guard r holds, or NoId
  refreshed,  \* force_refreshed: the credentials r had a token renewed of
  issued,     \* of each credential, how many times its tokens were renewed
  token,      \* the one of these that r has in its hands
  outages,    \* history: the credentials a renewal of which failed for no
              \* fault of the refresh token
  tries       \* history: the calls r made with each credential

loop == <<pc, attempt, budget, guard, refreshed, token>>
vars == <<entries, persona, mode, malformed, loop, issued, outages, tries>>

Over == {"done", "failed", "busy", "rejected"}
PCs  == {"idle", "acquire", "call", "refresh", "backoff", "stream"} \cup Over

Q(r) == [group |-> Group[r], opus |-> FALSE]

Suits(r, c) == c \in DOMAIN entries /\ GroupMatches(entries[c], Group[r])

Goto(r, label) == pc' = [pc EXCEPT ![r] = label]

MinOf(a, b) == IF a <= b THEN a ELSE b
MaxOf(a, b) == IF a >= b THEN a ELSE b

\* Mutant: the budget of a single credential.
BudgetOfOne(r) == MinOf(MaxRetriesPerCredential, MaxTotalRetries)

\* max_retries.  Only an API call makes at least one round without credentials.
Budget(r) ==
  LET total == Cardinality({c \in DOMAIN entries : Suits(r, c)})
      n == IF Kind[r] = "api" THEN MaxOf(total, 1) ELSE total
  IN  MinOf(n * MaxRetriesPerCredential, MaxTotalRetries)

\* The binding of its session may lead the first attempt to any free credential.
Choices(r) ==
  IF Kind[r] = "api" /\ attempt[r] = 0 /\ mode = "balanced"
  THEN Candidates(entries, Q(r)) ELSE BestChoices(entries, Q(r), mode)

Init ==
  /\ entries \in Pools
  /\ persona \in Casts
  /\ mode \in Modes
  /\ malformed \in Malformations
  /\ pc = [r \in Requests |-> "idle"]
  /\ attempt = [r \in Requests |-> 0]
  /\ budget = [r \in Requests |-> 0]
  /\ guard = [r \in Requests |-> NoId]
  /\ refreshed = [r \in Requests |-> {}]
  /\ issued = [c \in Ids |-> 0]
  /\ token = [r \in Requests |-> 0]
  /\ outages = {}
  /\ tries = [r \in Requests |-> [c \in Ids |-> 0]]

-----------------------------------------------------------------------------
(* The frame of the loop. *)

Begin(r) ==
  /\ pc[r] = "idle"
  /\ budget' = [budget EXCEPT ![r] = Budget(r)]
  /\ Goto(r, "acquire")
  /\ UNCHANGED <<entries, persona, mode, malformed, attempt, guard, refreshed,
                 issued, token, outages, tries>>

\* Mutant: the slot guard outlives the iteration.
LeaveWithSlot(r, es, label, n) ==
  /\ entries' = es
  /\ guard' = [guard EXCEPT ![r] = NoId]
  /\ token' = [token EXCEPT ![r] = 0]
  /\ attempt' = [attempt EXCEPT ![r] = n]
  /\ Goto(r, label)

\* The slot guard is dropped with the other locals of the iteration.
Leave(r, es, label, n) ==
  /\ entries' = ReleaseSlot(es, guard[r])
  /\ guard' = [guard EXCEPT ![r] = NoId]
  /\ token' = [token EXCEPT ![r] = 0]
  /\ attempt' = [attempt EXCEPT ![r] = n]
  /\ Goto(r, label)

\* Mutant: an attempt that got no credential is not counted.
NextAttemptUncounted(r, es) ==
  Leave(r, es, "acquire", IF guard[r] = NoId THEN attempt[r] ELSE attempt[r] + 1)

NextAttempt(r, es) == Leave(r, es, "acquire", attempt[r] + 1)

Return(r, es, label) == Leave(r, es, label, 0)

GiveUp(r) ==
  /\ pc[r] = "acquire" /\ attempt[r] >= budget[r]
  /\ Return(r, entries, "failed")
  /\ UNCHANGED <<persona, mode, malformed, budget, refreshed, issued, outages, tries>>

Acquiring(r) == pc[r] = "acquire" /\ attempt[r] < budget[r]

-----------------------------------------------------------------------------
(* acquire_context_for_session and its outcomes. *)

\* A renewal, or a token that needs none, clears the count of those that failed.
Renewed(es, c) == Put(es, c, [es[c] EXCEPT !.refreshFailures = 0])

\* Whether try_ensure_token has to renew the access token.
Expired(c) == \/ persona[c] = "dead"
              \/ persona[c] = "lapsed" /\ issued[c] = 0

Acquire(r) ==
  /\ Acquiring(r)
  /\ \E c \in Choices(r) :
       LET n == IF Expired(c) THEN 1 ELSE issued[c] IN
       /\ persona[c] # "dead"
       /\ entries' = Occupy(Renewed(entries, c), c)
       /\ guard' = [guard EXCEPT ![r] = c]
       /\ issued' = [issued EXCEPT ![c] = n]
       /\ token' = [token EXCEPT ![r] = n]
  /\ Goto(r, "call")
  /\ UNCHANGED <<persona, mode, malformed, attempt, budget, refreshed, outages, tries>>

\* The renewal fails, for some reason or because the refresh token is refused:
\* report_refresh_failure or report_refresh_token_invalid, then any credential in
\* the same acquisition.  Its own limit, of MaxFailures failures for each of the
\* credentials of the group, is not met before all of these are disabled.
AcquireFails(r) ==
  /\ Acquiring(r)
  /\ \E c \in Choices(r), refused \in BOOLEAN :
       LET es == IF refused THEN InvalidateRefreshToken(entries, c)
                 ELSE FailRefresh(entries, c) IN
       /\ Expired(c) /\ (refused => persona[c] = "dead")
       /\ IF AnyEnabled(es)
          THEN entries' = es /\ UNCHANGED <<pc, attempt, guard, token>>
          ELSE NextAttempt(r, es)
       /\ outages' = outages \cup (IF refused THEN {} ELSE {c})
  /\ UNCHANGED <<persona, mode, malformed, budget, refreshed, issued, tries>>

\* All that suit are full for CONCURRENCY_WAIT_BUDGET.  An API call returns that,
\* an MCP call counts an attempt.
FindFull(r) ==
  /\ Acquiring(r)
  /\ AvailableIds(entries, Q(r)) # {} /\ Candidates(entries, Q(r)) = {}
  /\ IF Kind[r] = "api" THEN Return(r, entries, "busy") ELSE NextAttempt(r, entries)
  /\ UNCHANGED <<persona, mode, malformed, budget, refreshed, issued, outages, tries>>

FindNone(r) ==
  /\ Acquiring(r)
  /\ AvailableIds(entries, Q(r)) = {}
  /\ IF AutoDisabled(entries) # {}
     THEN entries' = Autoheal(entries) /\ UNCHANGED <<pc, attempt, guard, token>>
     ELSE NextAttempt(r, entries)
  /\ UNCHANGED <<persona, mode, malformed, budget, refreshed, issued, outages, tries>>

-----------------------------------------------------------------------------
(* The call, its answer and what is made of that. *)

\* What may come back, for the credential whose slot r holds.
Answers(r) ==
  LET who == persona[guard[r]]
      fine == IF r \in malformed THEN "bad request" ELSE "success"
  IN  CASE who = "flaky" -> {fine, "transient", "gateway timeout"}
        [] who = "revoked" -> {IF token[r] = 0 THEN "invalid token" ELSE fine}
        [] who = "stuck" -> {"invalid token"}
        [] who = "no client" -> {}
        [] who = "forbidden" -> {"denied"}
        [] who = "no endpoint" -> {"no endpoint"}
        [] who = "spent" -> {"quota"}
        [] who = "limited" -> {"suspicious"}
        [] OTHER -> {fine}

\* An MCP call takes suspicion and gateway timeouts for transient failures.
Transient(r) == {"transient"} \cup
  (IF Kind[r] = "mcp" THEN {"suspicious", "gateway timeout"} ELSE {})

Answered(r, as) ==
  /\ pc[r] = "call" /\ Answers(r) \cap as # {}
  /\ tries' = IF r \in Counted THEN [tries EXCEPT ![r][guard[r]] = @ + 1] ELSE tries
  /\ UNCHANGED <<persona, mode, malformed, budget, outages>>

\* The error of client_for, or of the request that cannot be built, leaves the
\* call at once: nothing is reported and no other credential tried.
NoClient(r) ==
  /\ pc[r] = "call" /\ persona[guard[r]] = "no client"
  /\ Return(r, entries, "failed")
  /\ UNCHANGED <<persona, mode, malformed, budget, refreshed, issued, outages, tries>>

\* The guard goes to the caller with the response of an API call, and is dropped
\* when an MCP call returns its own.
Succeeds(r) ==
  LET es == Succeed(entries, guard[r]) IN
  /\ Answered(r, {"success"})
  /\ IF Kind[r] = "mcp" THEN Return(r, es, "done")
     ELSE /\ entries' = es /\ Goto(r, "stream")
          /\ UNCHANGED <<attempt, guard, token>>
  /\ UNCHANGED <<refreshed, issued>>

\* 400, a client validation error, and the gateway timeout of an API call.
Rejected(r) ==
  /\ Answered(r, {"bad request", "gateway timeout"} \ Transient(r))
  /\ Return(r, entries, "rejected")
  /\ UNCHANGED <<refreshed, issued>>

\* The tail of a report: the loop goes on while any credential is enabled.
Blame(r, es) ==
  IF AnyEnabled(es) THEN NextAttempt(r, es) ELSE Return(r, es, "failed")

QuotaExhausted(r) ==
  /\ Answered(r, {"quota"})
  /\ Blame(r, ExhaustQuota(entries, guard[r]))
  /\ UNCHANGED <<refreshed, issued>>

\* 401 and 403; an invalid token for the second time counts as that.
Denied(r) ==
  /\ \/ Answered(r, {"denied"})
     \/ Answered(r, {"invalid token"}) /\ guard[r] \in refreshed[r]
  /\ Blame(r, Fail(entries, guard[r]))
  /\ UNCHANGED <<refreshed, issued>>

NoEndpoint(r) ==
  /\ Answered(r, {"no endpoint"})
  /\ NextAttempt(r, Fail(entries, guard[r]))
  /\ UNCHANGED <<refreshed, issued>>

AccountThrottled(r) ==
  LET es == Throttle(entries, guard[r]) IN
  /\ Answered(r, {"suspicious"} \ Transient(r))
  /\ IF Schedulable(es) = {} THEN Return(r, es, "failed") ELSE NextAttempt(r, es)
  /\ UNCHANGED <<refreshed, issued>>

\* The first part of force_refresh_token_for: a copy of the credential.
ForceRefresh(r) ==
  /\ Answered(r, {"invalid token"}) /\ guard[r] \notin refreshed[r]
  /\ refreshed' = [refreshed EXCEPT ![r] = @ \cup {guard[r]}]
  /\ token' = [token EXCEPT ![r] = issued[guard[r]]]
  /\ Goto(r, "refresh")
  /\ UNCHANGED <<entries, attempt, guard, issued>>

\* The exchange, under refresh_lock.  A refresh token is good for one renewal.
Renew(r) ==
  LET c == guard[r] IN
  /\ pc[r] = "refresh" /\ token[r] = issued[c]
  /\ issued' = [issued EXCEPT ![c] = @ + 1]
  /\ NextAttempt(r, Renewed(entries, c))
  /\ UNCHANGED <<persona, mode, malformed, budget, refreshed, outages, tries>>

\* Any error of the exchange counts against the credential: its refresh token
\* was used by another call meanwhile, or the server is out of reach, answers
\* 5xx or not in time.
RenewFails(r) ==
  LET c == guard[r] IN
  /\ pc[r] = "refresh"
  /\ outages' = outages \cup (IF token[r] = issued[c] THEN {c} ELSE {})
  /\ Blame(r, Fail(entries, c))
  /\ UNCHANGED <<persona, mode, malformed, budget, refreshed, issued, tries>>

\* Mutant: a failure of the upstream counts against the credential.
StumbleBlamed(r) ==
  /\ Answered(r, Transient(r))
  /\ IF attempt[r] + 1 < budget[r]
     THEN /\ entries' = Fail(entries, guard[r]) /\ Goto(r, "backoff")
          /\ UNCHANGED <<attempt, guard, token>>
     ELSE Return(r, Fail(entries, guard[r]), "failed")
  /\ UNCHANGED <<refreshed, issued>>

\* No connection, 408, 429, 5xx: sleep, unless it was the last attempt.
Stumble(r) ==
  /\ Answered(r, Transient(r))
  /\ IF attempt[r] + 1 < budget[r]
     THEN Goto(r, "backoff") /\ UNCHANGED <<entries, attempt, guard, token>>
     ELSE Return(r, entries, "failed")
  /\ UNCHANGED <<refreshed, issued>>

\* The sleep is part of the iteration, so the slot is held through it.
Wake(r) ==
  /\ pc[r] = "backoff"
  /\ NextAttempt(r, entries)
  /\ UNCHANGED <<persona, mode, malformed, budget, refreshed, issued, outages, tries>>

\* The response has been read, or its reader is gone.
Finish(r) ==
  /\ pc[r] = "stream"
  /\ Return(r, entries, "done")
  /\ UNCHANGED <<persona, mode, malformed, budget, refreshed, issued, outages, tries>>

-----------------------------------------------------------------------------
Step(r) ==
  \/ Begin(r) \/ GiveUp(r) \/ Acquire(r) \/ AcquireFails(r) \/ FindFull(r)
  \/ FindNone(r) \/ NoClient(r) \/ Succeeds(r) \/ Rejected(r) \/ QuotaExhausted(r)
  \/ Denied(r) \/ NoEndpoint(r) \/ AccountThrottled(r) \/ ForceRefresh(r)
  \/ Renew(r) \/ RenewFails(r) \/ Stumble(r) \/ Wake(r) \/ Finish(r)

Finished == /\ \A r \in Requests : pc[r] \in Over
            /\ UNCHANGED vars

Next == (\E r \in Requests : Step(r)) \/ Finished

Spec == Init /\ [][Next]_vars

\* Tasks are scheduled, sleeps end and the HTTP clients have timeouts.
FairSpec == Spec /\ \A r \in Requests : WF_vars(Step(r))

-----------------------------------------------------------------------------
(* Properties. *)

\* Every variable has its type.
TypeOK ==
  /\ DOMAIN entries \subseteq Ids /\ entries \in [DOMAIN entries -> Entry]
  /\ persona \in [Ids -> Personas] /\ mode \in Modes
  /\ malformed \in Malformations /\ outages \subseteq Ids
  /\ pc \in [Requests -> PCs]
  /\ attempt \in [Requests -> 0 .. MaxTotalRetries]
  /\ budget \in [Requests -> 0 .. MaxTotalRetries]
  /\ guard \in [Requests -> Ids \cup {NoId}]
  /\ refreshed \in [Requests -> SUBSET Ids]
  /\ issued \in [Ids -> Nat] /\ token \in [Requests -> Nat]
  /\ tries \in [Requests -> [Ids -> Nat]]

\* Each path out of an iteration (refused, blamed, backed off, renewed, streamed)
\* gives its slot back once and no earlier than its end: the count of a credential
\* is the number of the requests in the middle of an iteration on it.
SlotsReturned ==
  /\ \A r \in Requests :
       guard[r] # NoId <=> pc[r] \in {"call", "refresh", "backoff", "stream"}
  /\ \A c \in DOMAIN entries :
       entries[c].active = Cardinality({r \in Requests : guard[r] = c})

\* Whether r may spend its attempts on credentials that are in no way bad, or
\* meet one that ends the call at once.
Starves(r) ==
  \/ \E c \in DOMAIN entries :
       /\ Suits(r, c)
       /\ \/ persona[c] \in {"flaky", "no client"}
          \/ persona[c] = "limited" /\ Kind[r] = "mcp"
  \/ Kind[r] = "mcp" /\ \E c \in DOMAIN entries : entries[c].max > 0

\* Whether a credential answers whatever is well formed.
Works(c) == \/ persona[c] = "ok"
            \/ persona[c] = "lapsed" /\ c \notin outages

\* A call fails only if no credential of its group works: the budget of attempts
\* is enough to try, blame and disable every bad one first, renewals included,
\* those that fail as well, while other calls do the same.
FailoverReaches ==
  \A r \in Requests :
    pc[r] = "failed" /\ r \notin malformed /\ ~Starves(r)
      => \A c \in DOMAIN entries : Suits(r, c) => ~Works(c)

\* Neither malformed requests nor failures of the upstream nor an access token
\* that is over or revoked, met by several calls at once, disable or cool down a
\* good credential, unless a renewal fails for no fault of it.
Blameless ==
  \A c \in DOMAIN entries :
    persona[c] \in {"ok", "flaky", "revoked", "lapsed"} /\ c \notin outages
      => ~entries[c].disabled /\ ~entries[c].throttled

\* Every call comes back, whatever the pool is made of: with no credential that
\* suits, with all of them full, or healed only to fail again.
EveryCallEnds == \A r \in Requests : pc[r] = "acquire" ~> pc[r] \in Over
=============================================================================
