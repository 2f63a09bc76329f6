--------------------------- MODULE NodeLifecycle ---------------------------
(***************************************************************************)
(* What Silent Assassin promises about each preemptible node, whoever      *)
(* works on it and however often that work fails and starts again: a node  *)
(* joins once, is marked once with an expiry time, is cordoned for good,   *)
(* only then loses its load for good, and leaves when its machine is gone, *)
(* or when it has expired, is cordoned and carries no load any more.       *)
(*                                                                         *)
(* The nodes go through this independently: a step moves any of them.      *)
(***************************************************************************)
EXTENDS Integers

CONSTANTS
  Node,
  Unmarked       \* the expiry of a node without one

VARIABLES
  stage,         \* stage[n]: "unborn", "open", "cordoned" or "gone"
  expiry,        \* expiry[n]: when n expires, once it is marked
  load,          \* load[n]: what has to be evacuated from n
  machines,      \* the nodes whose machine runs
  now

vars == <<stage, expiry, load, machines, now>>

Init ==
  /\ stage \in [Node -> {"unborn", "open"}]
  /\ expiry = [n \in Node |-> Unmarked]
  /\ load = [n \in Node |-> {}]
  /\ machines = {n \in Node : stage[n] = "open"}
  /\ now = 0

Becomes(n, s, t) == stage'[n] = s /\ expiry'[n] = t

Join(n) ==
  /\ stage[n] = "unborn"
  /\ Becomes(n, "open", Unmarked)

Mark(n) ==
  /\ stage[n] \in {"open", "cordoned"} /\ expiry[n] = Unmarked
  /\ Becomes(n, stage[n], expiry'[n])

Cordon(n) ==
  /\ stage[n] = "open"
  /\ Becomes(n, "cordoned", expiry[n])

Retire(n) ==
  /\ stage[n] = "cordoned" /\ load[n] = {}
  /\ expiry[n] # Unmarked /\ expiry[n] <= now
  /\ Becomes(n, "gone", Unmarked)

(* The machine has gone first. *)
Collect(n) ==
  /\ stage[n] \in {"open", "cordoned"} /\ n \notin machines
  /\ Becomes(n, "gone", Unmarked)

Stay(n) == Becomes(n, stage[n], expiry[n])

(* A node takes load only while it is open. *)
Carry(n) == stage[n] = "open" \/ load'[n] \subseteq load[n]

(* A machine starts as the machine of a node that joins, and may go at any *)
(* time: it is preemptible.                                                *)
Run(n) == n \in machines' => n \in machines \/ Join(n)

Next ==
  /\ now <= now'
  /\ \A n \in Node :
       /\ Join(n) \/ Mark(n) \/ Cordon(n) \/ Retire(n) \/ Collect(n) \/ Stay(n)
       /\ Carry(n)
       /\ Run(n)

Spec == Init /\ [][Next]_vars
=============================================================================
