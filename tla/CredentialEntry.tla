--------------------------- MODULE CredentialEntry ---------------------------
(***************************************************************************)
(* The credential entries of MultiTokenManager (kiro/token_manager.rs) and *)
(* what each operation does to them, as operators on `es`, a function from *)
(* the ids in the pool to entries.  Every operator here is the body of one *)
(* critical section of the `entries` mutex; the modules that extend this   *)
(* one say who runs it and what may happen between two of them.            *)
(*                                                                         *)
(* Left out of an entry, being read by nothing but the admin pages:        *)
(* total_failure_count and last_used_at.  Token strings and expiry belong  *)
(* to module TokenRefresh.  The order of the entries vector decides only   *)
(* ties that the code breaks by first-found; here any of the tied ids may  *)
(* be taken.                                                               *)
(***************************************************************************)
EXTENDS Naturals, FiniteSets

CONSTANTS
  Ids,              \* the ids a credential can have (a bound on u64)
  Groups,           \* account groups
  MaxFailures       \* MAX_FAILURES_PER_CREDENTIAL

NoGroup == "no group"      \* the key of the request is bound to no group
NoId    == 0               \* also the value of current_id when nothing is usable

ASSUME IdsAssumption == /\ Ids \subseteq Nat \ {NoId}
                        /\ IsFiniteSet(Ids)
ASSUME GroupsAssumption == NoGroup \notin Groups
ASSUME MaxFailuresAssumption == MaxFailures \in Nat \ {0}

\* api_key_missing: authMethod = api_key without a kiroApiKey.
Kinds == {"oauth", "api_key", "api_key_missing"}

None == "none"
Reasons == {None, "Manual", "TooManyFailures", "TooManyRefreshFailures",
            "QuotaExceeded", "InvalidRefreshToken", "InvalidConfig"}

\* What the credentials file or the operator says of a credential.
Config == [priority : Nat, max : Nat, groups : SUBSET Groups,
           opus : BOOLEAN, kind : Kinds]

Entry == [priority : Nat, max : Nat, groups : SUBSET Groups,
          opus : BOOLEAN, kind : Kinds,
          disabled : BOOLEAN, reason : Reasons,
          failures : Nat, refreshFailures : Nat, successes : Nat,
          throttled : BOOLEAN, active : Nat, waiting : Nat]

NewEntry(k, off, why) ==
  [priority |-> k.priority, max |-> k.max, groups |-> k.groups,
   opus |-> k.opus, kind |-> k.kind,
   disabled |-> off, reason |-> why,
   failures |-> 0, refreshFailures |-> 0, successes |-> 0,
   throttled |-> FALSE, active |-> 0, waiting |-> 0]

\* An entry as MultiTokenManager::new builds it: a credential disabled in the
\* file is Manual whatever disabled it before, one without its key is
\* InvalidConfig.
LoadedEntry(k, off) ==
  IF k.kind = "api_key_missing" THEN NewEntry(k, TRUE, "InvalidConfig")
  ELSE NewEntry(k, off, IF off THEN "Manual" ELSE None)

-----------------------------------------------------------------------------
(* Selection. *)

GroupMatches(e, g) == g = NoGroup \/ g \in e.groups

\* q is a request: its group and whether it asks for an opus model.
Available(e, q) ==
  /\ ~e.disabled
  /\ ~e.throttled
  /\ q.opus => e.opus
  /\ GroupMatches(e, q.group)

\* Mutant: the limit is off by one.
IsFullOffByOne(e) == e.max > 0 /\ e.active > e.max

IsFull(e) == e.max > 0 /\ e.active >= e.max

AvailableIds(es, q) == {c \in DOMAIN es : Available(es[c], q)}

Candidates(es, q) == {c \in AvailableIds(es, q) : ~IsFull(es[c])}

Enabled(es) == {c \in DOMAIN es : ~es[c].disabled}

AnyEnabled(es) == Enabled(es) # {}

\* What available_count and the result of report_account_throttled count.
Schedulable(es) == {c \in Enabled(es) : ~es[c].throttled}

LessLoaded(e, d) == \/ e.active < d.active
                    \/ e.active = d.active /\ e.successes < d.successes

\* The ids reserve_best may choose: the least loaded candidates when balanced,
\* the least active ones of the best candidate tier otherwise.
BestChoices(es, q, mode) ==
  LET cs == Candidates(es, q)
      tier == {c \in cs : \A d \in cs : es[c].priority <= es[d].priority}
  IN  IF mode = "balanced"
      THEN {c \in cs : \A d \in cs : ~LessLoaded(es[d], es[c])}
      ELSE {c \in tier : \A d \in tier : es[c].active <= es[d].active}

\* When all available credentials are full: the one whose waiting is shown.
WaitTargets(es, q) ==
  LET as == AvailableIds(es, q)
  IN  {c \in as : \A d \in as :
         \/ es[c].active < es[d].active
         \/ es[c].active = es[d].active /\ es[c].priority <= es[d].priority}

HighestPriority(es) ==
  {c \in Enabled(es) : \A d \in Enabled(es) : es[c].priority <= es[d].priority}

-----------------------------------------------------------------------------
(* Updates.  An id that is not in the pool is skipped by all of them.      *)

Put(es, c, e) == [d \in DOMAIN es |-> IF d = c THEN e ELSE es[d]]

Occupy(es, c) == Put(es, c, [es[c] EXCEPT !.active = @ + 1])

\* Mutants: only enabled credentials are looked at; a plain subtraction.
ReleaseSlotEnabled(es, c) ==
  IF c \notin Enabled(es) THEN es
  ELSE Put(es, c, [es[c] EXCEPT !.active = IF @ > 0 THEN @ - 1 ELSE 0])

ReleaseSlotUnsaturated(es, c) == Put(es, c, [es[c] EXCEPT !.active = @ - 1])

\* saturating_sub: a guard whose credential was deleted, and whose id was
\* given to a new one, finds active = 0 or takes a slot from another request.
ReleaseSlot(es, c) ==
  Put(es, c, [es[c] EXCEPT !.active = IF @ > 0 THEN @ - 1 ELSE 0])

StartWaiting(es, c) == Put(es, c, [es[c] EXCEPT !.waiting = @ + 1])

StopWaiting(es, c) ==
  Put(es, c, [es[c] EXCEPT !.waiting = IF @ > 0 THEN @ - 1 ELSE 0])

Disable(e, why) == [e EXCEPT !.disabled = TRUE, !.reason = why]

Enable(e) == [e EXCEPT !.disabled = FALSE, !.reason = None, !.failures = 0,
                       !.refreshFailures = 0]

Succeed(es, c) ==
  Put(es, c, [es[c] EXCEPT !.failures = 0, !.refreshFailures = 0,
                           !.successes = @ + 1, !.throttled = FALSE])

\* Mutant: the threshold is off by one.
FailLate(es, c) ==
  LET e == [es[c] EXCEPT !.failures = @ + 1]
  IN  IF c \notin Enabled(es) THEN es
      ELSE Put(es, c, IF e.failures > MaxFailures
                      THEN Disable(e, "TooManyFailures") ELSE e)

\* The reports of failure leave a disabled credential alone.
Fail(es, c) ==
  LET e == [es[c] EXCEPT !.failures = @ + 1]
  IN  IF c \notin Enabled(es) THEN es
      ELSE Put(es, c, IF e.failures >= MaxFailures
                      THEN Disable(e, "TooManyFailures") ELSE e)

FailRefresh(es, c) ==
  LET e == [es[c] EXCEPT !.refreshFailures = @ + 1]
  IN  IF c \notin Enabled(es) THEN es
      ELSE Put(es, c, IF e.refreshFailures >= MaxFailures
                      THEN Disable(e, "TooManyRefreshFailures") ELSE e)

ExhaustQuota(es, c) ==
  IF c \notin Enabled(es) THEN es
  ELSE Put(es, c, Disable([es[c] EXCEPT !.failures = MaxFailures],
                          "QuotaExceeded"))

InvalidateRefreshToken(es, c) ==
  IF c \notin Enabled(es) THEN es
  ELSE Put(es, c, Disable(es[c], "InvalidRefreshToken"))

Throttle(es, c) == Put(es, c, [es[c] EXCEPT !.throttled = TRUE])

\* What try_reload_credential_from_file does besides replacing the tokens.
Reload(es, c) == Put(es, c, Enable(es[c]))

AutoDisabled(es) == {c \in DOMAIN es : es[c].reason = "TooManyFailures"}

\* Mutant: the counters are reset, the credential stays disabled.
AutohealCountersOnly(es) ==
  [c \in DOMAIN es |-> IF c \in AutoDisabled(es)
                       THEN [es[c] EXCEPT !.failures = 0] ELSE es[c]]

Autoheal(es) ==
  [c \in DOMAIN es |->
     IF c \in AutoDisabled(es)
     THEN [es[c] EXCEPT !.disabled = FALSE, !.reason = None, !.failures = 0]
     ELSE es[c]]
=============================================================================
