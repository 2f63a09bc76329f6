--------------------------- MODULE MCNodeKilling ---------------------------
(* NodeKilling on small instances. *)
EXTENDS NodeKilling, TLC

CONSTANTS n1, n2, rs, zombie, twin, ds, bare, k1, k2, h1, h2, s1, s2

(* Pods of a ReplicaSet (zombie is one that may never terminate), a pod  *)
(* with two owners, a pod of a DaemonSet, a pod without an owner.        *)
MCOwners ==
  [p \in Pod |-> CASE p \in {rs, zombie} -> <<"ReplicaSet">>
                  [] p = twin -> <<"ReplicaSet", "Database">>
                  [] p = ds -> <<"DaemonSet">>
                  [] OTHER -> <<>>]

(* The spotter's own algorithm, for a day of four ticks with one interval. *)
CONSTANT MCMinute
Expiry == INSTANCE ExpiryTime WITH Day <- 4, Minute <- MCMinute
MCExpiryTimes == [t \in Time |-> Expiry!ExpiryTimestamps({<<1, 2>>}, t)]

(* The names are interchangeable: Init and every action treat them alike. *)
Names == Permutations(NodeName)
=============================================================================
