--------------------------- MODULE MCCredentialPool ---------------------------
(***************************************************************************)
(* Instances of CredentialPool: values for its constants, and the          *)
(* statements of the sources that the code does not keep.                  *)
(***************************************************************************)
EXTENDS CredentialPool, TLC

CONSTANTS r1, r2, r3, s1

Cfg(p, m, gs) == [priority |-> p, max |-> m, groups |-> gs,
                  opus |-> TRUE, kind |-> "oauth"]

On(k)  == LoadedEntry(k, FALSE)
Off(k) == LoadedEntry(k, TRUE)

NoGroups   == [r \in Requests |-> NoGroup]
AnyModel   == [r \in Requests |-> FALSE]
NoSessions == [r \in Requests |-> NoSession]
OneSession == [r \in Requests |-> s1]

\* One tier for conversations: the second credential is in group "g" as well,
\* and r2 asks for that group.
Twins == {Cfg(0, 1, {}), Cfg(0, 1, {"g"})}
TwinPools == {(1 :> On(Cfg(0, 1, {}))) @@ (2 :> On(Cfg(0, 1, {"g"})))}
SecondInGroup == [r \in Requests |-> IF r = r2 THEN "g" ELSE NoGroup]

\* Everything that can be wrong with a call, on an ordinary credential and on
\* one that only has an API key and no opus models; r2 asks for opus.
ApiKey == [Cfg(0, 0, {}) EXCEPT !.kind = "api_key", !.opus = FALSE]
SecondOpus == [r \in Requests |-> r = r2]

\* Some of each, and one that leaves an id for a credential added later.
Varied == {Cfg(0, 1, {}), Cfg(1, 0, {"g"}), ApiKey}
VariedPools == {1 :> On(Cfg(0, 1, {})),
                (1 :> On(Cfg(0, 1, {}))) @@ (2 :> On(Cfg(1, 0, {"g"}))),
                (1 :> On(Cfg(0, 1, {}))) @@ (2 :> On(ApiKey))}

-----------------------------------------------------------------------------
(* Statements of the sources that the code does not keep. *)

\* token_manager.rs:762: `waiting` is the number of requests that wait
\* for the credential now.  A request dropped while it sleeps stays counted.
WaitingExact ==
  \A c \in DOMAIN entries \ stale :
    entries[c].waiting = Cardinality(Waiters(c))

\* token_manager.rs:757 and 1256: `active` is the number of requests in flight on
\* the credential, and a guard of a deleted credential releases nothing.  It
\* takes a slot from a new credential with the same id.
ActiveExact ==
  \A c \in DOMAIN entries : entries[c].active = Cardinality(Guards(c))

\* token_manager.rs:1924: a reload from the file replaces tokens only.  It also
\* enables the credential, even one the operator disabled during the refresh.
OperatorsDisableHolds ==
  [][\A c \in DOMAIN entries \cap DOMAIN entries' :
       entries[c].reason = "Manual" /\ adminLeft' = adminLeft
         => entries'[c].disabled]_vars

\* token_manager.rs:1530: self-healing runs when all credentials are disabled.
\* It runs when none suits one request, others being enabled.
HealsOnlyWhenAllDisabled ==
  [][\A r \in Requests :
       pc[r] = "heal" /\ pc'[r] = "best" => ~AnyEnabled(entries)]_vars

\* token_manager.rs:3412 and 3416: only a disabled credential can be deleted.
DeletesOnlyDisabled ==
  [][\A c \in DOMAIN entries \ DOMAIN entries' : entries[c].disabled]_vars
=============================================================================
