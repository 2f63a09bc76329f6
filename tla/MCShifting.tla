----------------------------- MODULE MCShifting -----------------------------
(* Shifting with two on-demand pools that fall back for one preemptible one. *)
EXTENDS Shifting, TLC

CONSTANTS m1, m2, m3, m4, o1, o2, p1, za, zb, rs, s1

MCPoolOf == [n \in NodeName |-> IF n = m4 THEN o2 ELSE o1]
MCZoneOf == [n \in NodeName |-> za]
MCLabels == [p \in OnDemand \cup Preemptible |-> "services"]
MCMachineType == [p \in OnDemand \cup Preemptible |-> "n1-standard-4"]
CONSTANT MCMinimum
MCMinNodeCount == [o \in OnDemand |-> MCMinimum]
MCOwners == [p \in Pod |-> <<"ReplicaSet">>]
MCInterval == {<<0, 0>>}

(* The nodes of o1 are interchangeable. *)
Names == Permutations(NodeName \ {m4})
=============================================================================
