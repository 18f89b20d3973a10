---------------------------- MODULE MCClientAccess ----------------------------
(* ClientAccess with one account, two names of groups and two     *)
(* deployments: a usual one, with a key bound to a group, and an old one in    *)
(* which the key of config.json has the id of an ordinary key.                 *)
EXTENDS ClientAccess, TLC

CONSTANT c1

MCCreds == {c1}
MCSecrets == {"csk1", "csk2"}
MoreSecrets == {"csk1", "csk2", "csk3"}

Usual ==
    [keys |-> (0 :> NewKey("root", NoGroup, TRUE)) @@ (1 :> NewKey("csk1", "g1", FALSE)),
     groups |-> {"g1"},
     groups_of |-> [c \in MCCreds |-> {"g1"}]]

Old ==
    [keys |-> (1 :> NewKey("root", NoGroup, FALSE)) @@ (2 :> NewKey("csk1", "g1", FALSE)),
     groups |-> {},
     groups_of |-> [c \in MCCreds |-> {"g1"}]]

MCDeployments == {Usual, Old}
===============================================================================
