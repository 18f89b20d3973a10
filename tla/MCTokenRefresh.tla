---------------------------- MODULE MCTokenRefresh ----------------------------
(***************************************************************************)
(* Instances of TokenRefresh, and the statements of the sources that the   *)
(* code does not keep.                                                     *)
(***************************************************************************)
EXTENDS TokenRefresh, TLC

CONSTANTS r1, r2, r3, q1, f1, f2, op1, op2, op3  \* tasks, named for their kind

\* Requests, queries and forced refreshes do what their names say.
Usual == [t \in Tasks |-> CASE t \in {r1, r2, r3} -> "request"
                            [] t = q1 -> "query"
                            [] t \in {f1, f2} -> "force"
                            [] t \in {op1, op2} -> "change"
                            [] t = op3 -> "replace"]

OneCred == [t \in Tasks |-> 1]
TwoCreds == [t \in Tasks |-> IF t \in {r1, r2} THEN 1 ELSE 2]

-----------------------------------------------------------------------------
(* Statements of the sources that the code does not keep. *)

\* token_manager.rs:3554: a forced refresh takes the lock to prevent concurrent
\* refreshes.  It presents the token it read before it had the lock.
ForcedOncePerToken == OldTokenNotPresented

\* token_manager.rs:1161: the file is kept in the format that lets a
\* rotated token be written.  Another task that collected the credentials before
\* may write them after.
RotationReachesFile ==
  (\A t \in Tasks : pc[t] \notin Saving)
     => \A c \in Ids : file[c].rt = entries[c].rt

\* token_manager.rs:1827: that a refresh could not be saved does not concern this
\* request, so it is only logged; of the other credentials nothing is said.  The
\* file is emptied before it is written, and a crash then costs all of them.
OnlyOwnTokenLost ==
  [][\A c \in torn' \ torn : InFlight(c) # {}]_vars

\* token_manager.rs:3262: update_credential updates the editable fields.  A
\* refresh that was under way takes the edit back.
EditsKept ==
  [][\A c \in Ids : entries'[c].note >= entries[c].note]_vars

\* token_manager.rs:3475: a token is replaced only on a disabled credential, lest
\* one in use be overwritten.  One can be in use although it is disabled.
ReplacedOnlyWhenUnused ==
  [][\A t \in Tasks :
       Kind[t] = "replace" /\ pc[t] = "idle" /\ pc'[t] = "persist"
         => lock = NoTask \/ Cred[lock] # Cred[t]]_vars

\* token_manager.rs:95 and 2337: a credential is disabled for its refresh token
\* when that is dead for good.  Two requests that hit a rotated token disable a
\* credential whose new token the first of them has just loaded from the file.
CondemnedOnlyWhenDead ==
  [][\A t \in Tasks :
       pc[t] = "condemn" /\ pc'[t] = "err" => entries[Cred[t]].rt # live[Cred[t]]]_vars
=============================================================================
