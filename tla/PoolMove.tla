------------------------------ MODULE PoolMove ------------------------------
(***************************************************************************)
(* What the shifter promises about the on-demand nodes, whoever works on   *)
(* them and however often that work fails and starts again: each is born   *)
(* at most once, is cordoned for good, only then loses its load for good,  *)
(* and leaves when its machine is gone, or when it carries nothing any     *)
(* more and a mover has room elsewhere.  A mover gets room for a ration of *)
(* nodes at a time, and pays for every node that it knows to have left.    *)
(*                                                                         *)
(* A node may leave unpaid, when the mover is not told that it did.        *)
(***************************************************************************)
EXTENDS Integers

CONSTANTS
  Node,
  Mover,
  Ration         \* the nodes that there is room for after one resize

VARIABLES
  stage,         \* stage[n]: "unborn", "open", "cordoned" or "gone"
  load,          \* load[n]: what has to be evacuated from n
  machines,      \* the nodes whose machine runs
  room           \* room[m]: the nodes that m may still delete

vars == <<stage, load, machines, room>>

Init ==
  /\ stage \in [Node -> {"unborn", "open"}]
  /\ load = [n \in Node |-> {}]
  /\ machines = {n \in Node : stage[n] = "open"}
  /\ room = [m \in Mover |-> 0]

Join(n) == stage[n] = "unborn" /\ stage'[n] = "open"

Cordon(n) == stage[n] = "open" /\ stage'[n] = "cordoned"

Leave(n) == stage[n] = "cordoned" /\ load[n] = {} /\ stage'[n] = "gone"

Retire(n) == Leave(n) /\ \E m \in Mover : room[m] > 0

(* The machine has gone first. *)
Collect(n) ==
  /\ stage[n] \in {"open", "cordoned"} /\ n \notin machines
  /\ stage'[n] = "gone"

Stay(n) == stage'[n] = stage[n]

(* A node takes load only while it is open. *)
Carry(n) == stage[n] = "open" \/ load'[n] \subseteq load[n]

(* A machine starts as the machine of a node that joins. *)
Run(n) == n \in machines' => n \in machines \/ Join(n)

Grow(m) == room'[m] = room[m] + Ration

Pay(m) ==
  /\ room[m] > 0 /\ room'[m] = room[m] - 1
  /\ \E n \in Node : Leave(n)

(* The pool is done with, or the mover gives up: the next starts anew. *)
Forget(m) == room'[m] = 0

Next ==
  /\ \A n \in Node :
       /\ Join(n) \/ Cordon(n) \/ Retire(n) \/ Collect(n) \/ Stay(n)
       /\ Carry(n)
       /\ Run(n)
  /\ \A m \in Mover : Grow(m) \/ Pay(m) \/ Forget(m) \/ room'[m] = room[m]

Spec == Init /\ [][Next]_vars
=============================================================================
