----------------------------- MODULE MCCallRetry -----------------------------
(***************************************************************************)
(* Instances of CallRetry, and the statements of the sources that the code *)
(* does not keep.                                                          *)
(***************************************************************************)
EXTENDS CallRetry, Sequences, TLC

CONSTANTS a1, a2, a3, a4, m1   \* requests, named for their kind

Kinds2 == [r \in Requests |-> IF r = m1 THEN "mcp" ELSE "api"]
NoGroups == [r \in Requests |-> NoGroup]

Cfg(p, m, gs) == [priority |-> p, max |-> m, groups |-> gs, opus |-> TRUE,
                  kind |-> "oauth"]

\* The best credential by priority comes first, and alone is in the group.
PoolOf(max) ==
  [c \in Ids |-> LoadedEntry(Cfg(c, max, IF c = 1 THEN {"g"} ELSE {}), FALSE)]

Unlimited == {PoolOf(0)}
Mixed == {PoolOf(0), PoolOf(1), [c \in {} |-> 0]}

\* Each credential may be good or wrong in any of the ways there are.
AnyCast == [Ids -> Personas]

\* Any two different ones, the better one last: in the other order calls by priority
\* hardly get to the second credential, and balanced ones do not tell them apart.
FromBest == <<"ok", "lapsed", "flaky", "revoked", "limited", "spent", "stuck",
              "forbidden", "no endpoint", "dead", "no client">>
Rank(p) == CHOOSE i \in DOMAIN FromBest : FromBest[i] = p
BestLast == {cast \in AnyCast : \A c, d \in Ids : c < d => Rank(cast[c]) > Rank(cast[d])}

-----------------------------------------------------------------------------
(* Statements of the sources that the code does not keep. *)

\* provider.rs:427: a credential is retried MAX_RETRIES_PER_CREDENTIAL times at
\* most.  Nothing counts that; only the total is bounded.
TriesPerCredential ==
  \A r \in Requests, c \in Ids : tries[r][c] <= MaxRetriesPerCredential

\* CHANGELOG.md:334: an account under suspicion is not hit again and again.  An
\* MCP call does not report it and comes back to it.
SuspicionHeeded ==
  \A r \in Requests, c \in Ids : persona[c] = "limited" => tries[r][c] <= 1

\* README.md:669: a credential whose bearer token is invalid is renewed once and
\* retried.  Of many calls that meet it at once all but one are refused the
\* renewal, and count that against the credential.
RevokedSurvives == Blameless

\* provider.rs:237: a call fails over to another credential.  One whose client
\* cannot be built ends the call instead.
ClientErrorsFailOver ==
  (\A c \in Ids : persona[c] \in {"ok", "no client"})
    => \A r \in Requests : pc[r] = "failed"
         => \A c \in DOMAIN entries : Suits(r, c) => persona[c] # "ok"

\* provider.rs:564: a network that fails for some time must not disable the
\* credentials.  Where it fails a renewal it does.
OutagesForgiven ==
  \A c \in DOMAIN entries : persona[c] = "lapsed" => ~entries[c].disabled
=============================================================================
