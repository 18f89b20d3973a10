----------------------------- MODULE LoginSessions -----------------------------
(* The logins in progress: admin/service.rs with kiro/auth/social.rs and      *)
(* idc.rs.                                                                    *)
(*                                                                            *)
(* A social session waits for the browser to come back to a callback server   *)
(* of its own on one of a few ports.  The page polls; the poll that finds the *)
(* callback, or a request in which the callback was pasted, takes the session *)
(* out, exchanges the code and adds an account or renews one.  An IdC session *)
(* has no server: each poll asks the token endpoint.  A cleaner drops expired *)
(* sessions, and a dropped session tells its callback server to stop.         *)
EXTENDS AccountList

CONSTANTS
    Target,      \* session -> the id to renew (relogin_target_id), or NoId
    Ports,       \* CALLBACK_PORTS
    Visits,      \* what browsers do at callback ports: [of, kind], see below
    MaxRestarts  \* bound

NoPort == 0

\* A visit comes to the port that session `of` had: "callback" with its code and
\* state, "error" from the portal, "other" (an icon), or "silent", a connection
\* that was opened in advance and says nothing until it is closed.
ASSUME VisitsAssumption ==
    Visits \subseteq [of : Sessions, kind : {"callback", "error", "other", "silent"}]
ASSUME PortsAssumption == Ports \subseteq Nat \ {NoPort}
ASSUME TargetAssumption == Target \in [Sessions -> Ids \cup {NoId}]

VARIABLES
    phase,     \* session -> "unused", "open" or, past expires_at, "expired" (both
               \* in the map), "gone"
    port,      \* session -> the port of its callback server, NoPort of an IdC one
    server,    \* session -> Off, Listening, or the visit it reads
    channel,   \* session -> "empty", the session whose callback is in it,
               \* "closed" (taken, or the sender is gone)
    approved,  \* IdC sessions the user has approved
    granted,   \* IdC sessions the token endpoint has given its tokens for
    visited,   \* visits that have taken place
    presented, \* history: session -> how often a code was exchanged for it
    restarts

sessions == <<phase, port, server, channel, approved, granted, visited,
              presented, restarts>>
loginVars == <<accounts, tasks, sessions>>

\* What a callback server does when it reads no visit.
Off == [of |-> NoLogin, kind |-> "off"]
Listening == [of |-> NoLogin, kind |-> "listening"]
Held(s) == server[s] # Off
FreePorts == Ports \ {port[s] : s \in {x \in Sessions : Held(x)}}

InitLogins ==
    /\ InitAccounts
    /\ phase = [s \in Sessions |-> "unused"]
    /\ approved = {} /\ granted = {} /\ visited = {}
    /\ port = [s \in Sessions |-> NoPort]
    /\ server = [s \in Sessions |-> Off]
    /\ channel = [s \in Sessions |-> "empty"]
    /\ presented = [s \in Sessions |-> 0]
    /\ restarts = 0

Social(s) == port[s] # NoPort
InMap(s) == phase[s] \in {"open", "expired"}

\* Sessions leave their map: the receiver of a channel is dropped with it.
Drop(ss) ==
    /\ phase' = [s \in Sessions |-> IF s \in ss THEN "gone" ELSE phase[s]]
    /\ channel' = [s \in Sessions |-> IF s \in ss THEN "closed" ELSE channel[s]]


-----------------------------------------------------------------------------
(* Starting a login. *)

\* A session with a callback server, on the first port that can be bound.
OpenSocial(s) ==
    /\ up /\ phase[s] = "unused"
    /\ \E p \in FreePorts : port' = [port EXCEPT ![s] = p]
    /\ server' = [server EXCEPT ![s] = Listening]
    /\ phase' = [phase EXCEPT ![s] = "open"]
    /\ UNCHANGED <<accounts, tasks, channel, approved, granted, visited, presented,
                   restarts>>

StartSocialLogin(s) == Target[s] = NoId /\ OpenSocial(s)

\* The account to renew is looked for now; the login takes minutes.
StartSocialRelogin(s) ==
    Target[s] # NoId /\ Position(Target[s]) # 0 /\ OpenSocial(s)

\* A session with a device code, after the awaits of its registration.
OpenDevice(s) ==
    /\ up /\ phase[s] = "unused"
    /\ phase' = [phase EXCEPT ![s] = "open"]
    /\ UNCHANGED <<accounts, tasks, port, server, channel, approved, granted, visited,
                   presented, restarts>>

StartIdcLogin(s) == Target[s] = NoId /\ OpenDevice(s)

StartIdcRelogin(s) ==
    Target[s] # NoId /\ Position(Target[s]) # 0 /\ OpenDevice(s)

(* The callback server: run_callback_server. *)

Accept(s, v) ==
    /\ up /\ server[s] = Listening /\ v \in Visits \ visited
    /\ port[v.of] = port[s]
    /\ server' = [server EXCEPT ![s] = v]
    /\ visited' = visited \cup {v}
    /\ UNCHANGED <<accounts, tasks, phase, port, channel, approved, granted,
                   presented, restarts>>

\* The server cares for nothing else while it waits for the visitor to speak or
\* to leave.  After a callback or an error it is done.
Read(s) ==
    /\ up /\ server[s] \in Visits
    /\ LET v == server[s]
       IN  /\ server' = [server EXCEPT ![s] =
                           IF v.kind \in {"callback", "error"} THEN Off ELSE Listening]
           /\ channel' = [channel EXCEPT ![s] =
                            CASE v.kind = "error" \/ ~InMap(s) -> "closed"
                              [] v.kind = "callback" /\ InMap(s) -> v.of
                              [] OTHER -> @]
    /\ UNCHANGED <<accounts, tasks, phase, port, approved, granted, visited,
                   presented, restarts>>

\* ServerHandle was dropped with its session.
StopServer(s) ==
    /\ up /\ server[s] = Listening /\ phase[s] = "gone"
    /\ server' = [server EXCEPT ![s] = Off]
    /\ channel' = [channel EXCEPT ![s] = "closed"]
    /\ UNCHANGED <<accounts, tasks, phase, port, approved, granted, visited,
                   presented, restarts>>

-----------------------------------------------------------------------------
(* Social logins. *)

\* poll_social_login: one look under the lock.
PollSocial(r, s) ==
    /\ At(r, "idle") /\ "login" \in Operations[r] /\ Social(s)
    /\ CASE phase[s] = "gone" ->
              End(r, "failed") /\ UNCHANGED <<phase, channel>>
         [] phase[s] = "expired" \/ (phase[s] = "open" /\ channel[s] = "closed") ->
              Drop({s}) /\ End(r, "failed")
         [] phase[s] = "open" /\ channel[s] = "empty" ->
              End(r, "done") /\ UNCHANGED <<phase, channel>>
         [] OTHER ->
              /\ job' = [job EXCEPT ![r].session = s, ![r].callback = channel[s]]
              /\ channel' = [channel EXCEPT ![s] = "closed"]
              /\ Goto(r, "verify")
              /\ UNCHANGED phase
    /\ UNCHANGED <<accounts, port, server, approved, granted, visited, presented,
                   restarts>>

\* complete_social_login: the callback of x, which is in the address bar of the
\* browser, is pasted into the dialog of s.
CompleteSocial(r, s, x) ==
    /\ At(r, "idle") /\ "login" \in Operations[r] /\ Social(s) /\ Social(x)
    /\ IF phase[s] # "open" THEN End(r, "failed")
       ELSE /\ job' = [job EXCEPT ![r].session = s, ![r].callback = x]
            /\ Goto(r, "verify")
    /\ UNCHANGED <<accounts, sessions>>

\* Mutant: the state of the callback is not looked at.
VerifyNothing(r) ==
    /\ At(r, "verify")
    /\ IF InMap(job[r].session) THEN Goto(r, "take") /\ UNCHANGED job
       ELSE End(r, "failed")
    /\ UNCHANGED <<accounts, sessions>>

\* do_complete_social_login: the state is compared under one lock, ...
Verify(r) ==
    /\ At(r, "verify")
    /\ IF InMap(job[r].session) /\ job[r].callback = job[r].session
       THEN Goto(r, "take") /\ UNCHANGED job
       ELSE End(r, "failed")
    /\ UNCHANGED <<accounts, sessions>>

\* Mutant: the session is looked up and stays until the login is over.
TakeLooking(r) ==
    /\ At(r, "take")
    /\ LET s == job[r].session
       IN  IF ~InMap(s)
           THEN End(r, "failed") /\ UNCHANGED presented
           ELSE /\ Goto(r, "exchange")
                /\ presented' = [presented EXCEPT ![s] = @ + 1]
                /\ UNCHANGED job
    /\ UNCHANGED <<accounts, phase, port, server, channel, approved, granted, visited,
                   restarts>>

\* ... and the session is taken out under the next.
Take(r) ==
    /\ At(r, "take")
    /\ LET s == job[r].session
       IN  IF ~InMap(s)
           THEN End(r, "failed") /\ UNCHANGED <<phase, channel, presented>>
           ELSE /\ Drop({s})
                /\ Goto(r, "exchange")
                /\ presented' = [presented EXCEPT ![s] = @ + 1]
                /\ UNCHANGED job
    /\ UNCHANGED <<accounts, port, server, approved, granted, visited, restarts>>

\* What a login leads to, once there are tokens: a new account or a renewed one.
Continue(r, s) ==
    /\ job' = [job EXCEPT ![r].session = s, ![r].token = Token(s), ![r].id = Target[s]]
    /\ Goto(r, IF Target[s] = NoId THEN "check" ELSE "relogin")

\* exchange_code_for_token: the server takes a code once, with the verifier of
\* the session it was made for.
Exchange(r) ==
    /\ At(r, "exchange")
    /\ LET s == job[r].session
       IN  \/ /\ job[r].callback = s /\ presented[s] = 1
              /\ Continue(r, s)
           \/ End(r, "failed")
    /\ UNCHANGED <<accounts, sessions>>

-----------------------------------------------------------------------------
(* IdC logins. *)

\* The user enters the code at the identity provider.
Approve(s) ==
    /\ phase[s] # "unused" /\ ~Social(s) /\ s \notin approved
    /\ approved' = approved \cup {s}
    /\ UNCHANGED <<accounts, tasks, phase, port, server, channel, granted,
                   visited, presented, restarts>>

\* poll_idc_login: a copy of the session, then the token endpoint.
PollDevice(r, s) ==
    /\ At(r, "idle") /\ "login" \in Operations[r]
    /\ phase[s] # "unused" /\ ~Social(s)
    /\ IF phase[s] # "open" THEN End(r, "failed")
       ELSE Goto(r, "device") /\ job' = [job EXCEPT ![r].session = s]
    /\ UNCHANGED <<accounts, sessions>>

\* The endpoint gives the tokens of a device code once; the answer may be lost
\* after that, or the request be dropped.
Grant(r) ==
    /\ At(r, "device") /\ job[r].session \in approved \ granted
    /\ granted' = granted \cup {job[r].session}
    /\ Goto(r, "granted")
    /\ UNCHANGED <<accounts, job, phase, port, server, channel, approved, visited,
                   presented, restarts>>

DeviceGranted(r) ==
    /\ At(r, "granted")
    /\ \/ Drop({job[r].session}) /\ Continue(r, job[r].session)
       \/ End(r, "failed") /\ UNCHANGED <<phase, channel>>
    /\ UNCHANGED <<accounts, port, server, approved, granted, visited, presented,
                   restarts>>

\* "authorization_pending" and errors leave the session, "expired_token" takes it
\* out.
DeviceRefused(r) ==
    /\ At(r, "device")
    /\ LET s == job[r].session
       IN  \/ s \notin approved /\ End(r, "done") /\ UNCHANGED <<phase, channel>>
           \/ Drop({s}) /\ End(r, "done")
           \/ End(r, "failed") /\ UNCHANGED <<phase, channel>>
    /\ UNCHANGED <<accounts, port, server, approved, granted, visited, presented,
                   restarts>>

-----------------------------------------------------------------------------
(* Time, dropped requests, restarts. *)

Expire(s) ==
    /\ phase[s] = "open"
    /\ phase' = [phase EXCEPT ![s] = "expired"]
    /\ UNCHANGED <<accounts, tasks, port, server, channel, approved, granted, visited,
                   presented, restarts>>

Overdue == {s \in Sessions : phase[s] = "expired"}

\* Mutant: only the device sessions are cleaned.
CleanDevices ==
    /\ up /\ \E s \in Overdue : ~Social(s)
    /\ Drop({s \in Overdue : ~Social(s)})
    /\ UNCHANGED <<accounts, tasks, port, server, approved, granted, visited,
                   presented, restarts>>

\* Every five minutes: expired sessions of both maps are dropped.
Clean ==
    /\ up /\ Overdue # {}
    /\ Drop(Overdue)
    /\ UNCHANGED <<accounts, tasks, port, server, approved, granted, visited,
                   presented, restarts>>

\* The browser of the administrator goes away: the request ends where it awaits.
Cancel(r) ==
    /\ up /\ pc[r] \in {"exchange", "device", "granted", "validate", "asked"}
    /\ End(r, "failed")
    /\ UNCHANGED <<accounts, sessions>>

\* Sessions and servers are not in any file.
Restart ==
    /\ restarts < MaxRestarts
    /\ restarts' = restarts + 1
    /\ RestartAccounts
    /\ Drop({s \in Sessions : InMap(s)})
    /\ server' = [s \in Sessions |-> Off]
    /\ UNCHANGED <<port, approved, granted, visited, presented>>

NextLogins ==
    \/ \E r \in Requests :
         \/ AccountStep(r) /\ UNCHANGED sessions
         \/ \E s \in Sessions :
              \/ PollSocial(r, s) \/ PollDevice(r, s)
              \/ \E x \in Sessions : CompleteSocial(r, s, x)
         \/ Verify(r) \/ Take(r) \/ Exchange(r)
         \/ Grant(r) \/ DeviceGranted(r) \/ DeviceRefused(r)
         \/ Cancel(r)
    \/ \E s \in Sessions :
         \/ StartSocialLogin(s) \/ StartSocialRelogin(s)
         \/ StartIdcLogin(s) \/ StartIdcRelogin(s)
         \/ Approve(s) \/ Expire(s)
         \/ Read(s) \/ StopServer(s)
         \/ \E v \in Visits : Accept(s, v)
    \/ \E i \in Ids : BalanceExpires(i) /\ UNCHANGED sessions
    \/ Clean \/ Restart

LoginSpec == InitLogins /\ [][NextLogins]_loginVars

\* Time passes, the cleaner runs and so does a callback server.
LoginFairness ==
    /\ \A s \in Sessions : WF_loginVars(Expire(s))
    /\ WF_loginVars(Clean)
    /\ \A s \in Sessions : WF_loginVars(StopServer(s))

\* Who opened a connection speaks or closes it, sooner or later.
VisitorsSpeak == \A s \in Sessions : WF_loginVars(Read(s))

FairLoginSpec == LoginSpec /\ LoginFairness /\ VisitorsSpeak

-----------------------------------------------------------------------------
TypeOK ==
    /\ AccountTypeOK
    /\ phase \in [Sessions -> {"unused", "open", "expired", "gone"}]
    /\ port \in [Sessions -> Ports \cup {NoPort}]

\* However polls of several tabs and a pasted callback race for one session, its
\* code goes to the authentication server once: the one that took the session out
\* exchanges, the others fail (do_complete_social_login).
CodePresentedOnce == \A s \in Sessions : presented[s] <= 1

\* A session never exchanges the code of another login, not even when its server
\* got the port of an earlier session and hears that one's callback, or when a
\* callback was pasted into the wrong dialog.
OwnCallbackOnly ==
    \A r \in Requests : pc[r] = "exchange" => job[r].callback = job[r].session

\* A login that nobody finishes leaves nothing: its session goes and its port is
\* free again.
SessionsEnd ==
    \A s \in Sessions :
      phase[s] = "open" ~>
        (phase[s] = "gone" /\ server[s] = Off)
==============================================================================
