---------------------------- MODULE MCPreemption ----------------------------
(* Preemption on a small instance. *)
EXTENDS Preemption

CONSTANTS n1, rs, ds, k1, h1, h2, spotter

(* A pod of a ReplicaSet and one of a DaemonSet. *)
MCOwners == [p \in Pod |-> IF p = ds THEN <<"DaemonSet">> ELSE <<"ReplicaSet">>]
=============================================================================
