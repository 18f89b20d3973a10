----------------------------- MODULE MCCacheMeter -----------------------------
(***************************************************************************)
(* Instance of CacheMeter: two sessions, one of them that of a client key,  *)
(* and a conversation of up to three messages whose system prompt has a     *)
(* block that changes every turn.                                          *)
(***************************************************************************)
EXTENDS CacheMeter, TLC

MCTokensOf == [rules |-> 2, clock1 |-> 1, clock2 |-> 1, m1 |-> 1, m2 |-> 2, m3 |-> 1, none |-> 0]

Turn(user, clock, n, ttl) ==
  [user |-> user, key |-> 1, tools |-> <<>>, ttl |-> ttl,
   system |-> <<[text |-> clock, cached |-> FALSE], [text |-> "rules", cached |-> TRUE]>>,
   messages |-> SubSeq(<<"m1", "m2", "m3">>, 1, n)]

InSession == [form |-> "json", id |-> "s1", uuid |-> TRUE]
NoSession == [form |-> "legacy", id |-> "s1", uuid |-> FALSE]

\* Two turns of a session and one of the client key without a session.
MCPrompts == {Turn(InSession, "clock1", 1, 1), Turn(InSession, "clock2", 2, 2),
              Turn(NoSession, "clock1", 2, 0)}

\* A file of a version that kept no seeds.
MCOldFile ==
  (<< <<"sess", "s1">>, <<"rules">> >>) :>
     [tokens |-> 2, expires_at |-> 1, last_hit_at |-> 0, session_seed |-> <<>>]

Symmetry == Permutations(Requests)

\* The design note (doc, layer three: same-session singleflight) gives one
\* writer per deepest prefix: two writers that both missed it are two
\* creations of one prefix.
OneWriter ==
  \A r, q \in Requests :
    (/\ r # q
     /\ {req[r].pc, req[q].pc} \subseteq {"record", "finish"}
     /\ req[r].writer /\ req[q].writer /\ req[r].read = 0 /\ req[q].read = 0)
    => Deepest(req[r].prompt).hash # Deepest(req[q].prompt).hash

\* SavedWhenClean without its exception: a failed write is tried again.
FailedWriteRetried ==
  (~dirty /\ flush = <<>> /\ file # <<>>) =>
    \A h \in DOMAIN entries : h \in DOMAIN file[1] /\ file[1][h].expires_at = entries[h].expires_at

=============================================================================
