---------------------------- MODULE MCLoginSessions ----------------------------
(* Instances of LoginSessions, and the statements of the sources that the     *)
(* code does not keep.                                                        *)
EXTENDS LoginSessions

CONSTANTS s1, s2, t1, old, r1, r2, r3, r4

\* The second session renews account 1.
Renewals == [s \in Sessions |-> IF s = s1 THEN NoId ELSE 1]
Logging == [s \in Sessions |-> NoId]

Visit(s, k) == [of |-> s, kind |-> k]
Mixed == {Visit(s1, "silent"), Visit(s1, "callback"), Visit(s2, "error")}
Callbacks == {Visit(s, "callback") : s \in Sessions}
SilentToo == Callbacks \cup {Visit(s1, "silent")}

Anything == {"login", "add", "delete", "balance", "quota"}
AnyOperation == [r \in Requests |-> Anything]
OneLogsIn == [r \in Requests |-> IF r = r1 THEN {"login"} ELSE Anything]
LoggingIn == [r \in Requests |-> {"login"}]

-----------------------------------------------------------------------------
\* service.rs:2543: one lock section for the checks and the callback removes the
\* races.  A second poll finds the channel used up and drops the session before
\* the first one has looked it up: the callback is lost.
CallbackUsed ==
    [][\A s \in Sessions :
         (phase[s] = "open" /\ phase'[s] = "gone" /\ restarts' = restarts)
           => (\A r \in Requests : ~(job[r].session = s /\ job[r].callback = s))
              \/ \E r \in Requests : pc[r] = "take" /\ pc'[r] = "exchange"]_loginVars

\* service.rs:2595: when the state does not match, the session is kept and can be
\* polled on.  The channel is used up, so the next poll drops the session.
MismatchKeepsPolling ==
    [][\A s \in Sessions :
         (Social(s) /\ phase[s] = "open" /\ phase'[s] = "gone" /\ restarts' = restarts)
           => \E r \in Requests : job[r].session = s]_loginVars

\* social.rs:42: the handle is dropped, the server leaves its loop and frees the
\* port.  Not while a connection is open that says nothing.
PortReleased ==
    \A s \in Sessions : phase[s] = "gone" ~> server[s] = Off

UnfairToServers == LoginSpec /\ LoginFairness

\* token_manager.rs:1128 refuses a file in which an id occurs twice, which the
\* program itself can have written: two accounts added at once get one id.
FileLoads == up

\* token_manager.rs:3191: an account whose refresh token is there is refused.
TokensApart ==
    \A i, j \in DOMAIN entries : i # j => entries[i].token # entries[j].token

\* service.rs:2907: disable, update, reset, enable.  When one of the steps fails
\* the account stays disabled.
RenewalEnables ==
    [][\A r \in Requests :
         pc[r] \in {"relogin", "replace", "enable", "save"} /\ pc'[r] = "failed" /\ up'
         /\ job[r].session # NoLogin /\ Target[job[r].session] # NoId
           => \A i \in DOMAIN entries' :
                entries'[i].id = job[r].id => ~entries'[i].disabled]_loginVars

\* service.rs:2796: the credential is written with the client it was registered
\* with.  A renewal writes the refresh token alone, which another client got.
ClientMatches ==
    \A i \in DOMAIN entries :
      entries[i].token.login \in Sessions /\ ~Social(entries[i].token.login)
        => entries[i].client = entries[i].token.login

\* service.rs:703: those over their quota are disabled.  A balance that was asked
\* for before the account was deleted stands under its id, which the next
\* account gets.
QuotaOfOwner ==
    [][\A r \in Requests : pc[r] = "quota" /\ pc'[r] = "save" =>
         \A i \in DOMAIN entries : entries[i].id = job[r].id =>
           entries[i].token.login \in OverQuota]_loginVars
==============================================================================
