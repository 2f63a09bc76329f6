------------------------------ MODULE Workers ------------------------------
(***************************************************************************)
(* The killer and the termination handlers together: every composition     *)
(* that has both of them work on preemptible nodes is built on this, and   *)
(* promises the same about the life of each node.                          *)
(***************************************************************************)
EXTENDS Killer, TerminationHandler

ASSUME WorkerAssumption == Worker = Killer \cup Handler /\ Killer \cap Handler = {}

work == <<clusterVars, evacuationVars, queue>>

(* The server's process ends: whatever its workers were doing is forgotten. *)
WorkLost ==
  /\ pc' = [w \in Worker |-> "idle"]
  /\ target' = [w \in Worker |-> NoNode]
  /\ held' = [w \in Worker |-> NotFound]
  /\ todo' = [w \in Worker |-> {}]
  /\ queue' = [k \in Killer |-> {}]
  /\ UNCHANGED clusterVars

---------------------------------------------------------------------------
(***************************************************************************)
(* The promise of NodeLifecycle, seen in the objects of the cluster.       *)
(***************************************************************************)
Expiries == [n \in NodeName |-> IF nodes[n] = NotFound THEN NoExpiry ELSE nodes[n].expiry]

Lifecycle == INSTANCE NodeLifecycle WITH
  Node <- NodeName, Unmarked <- NoExpiry,
  stage <- Stages, expiry <- Expiries, load <- Loads, machines <- vms, now <- clock

(* The loops, the handlers and the cluster, crashes and stale copies       *)
(* included, keep that promise, if no name is used twice and only the pods *)
(* that an evacuation spares tolerate a cordon (spot, kill, deleteNode,    *)
(* EvacuatePodsFromNode).                                                  *)
KeepsLifecycle == Lifecycle!Spec

---------------------------------------------------------------------------
(***************************************************************************)
(* More of the inductive invariants behind the safety properties.          *)
(***************************************************************************)

(* What a worker or a killer's queue is about has been seen before: a name *)
(* that is not used twice is not given to a new node from then on.         *)
SeenInv ==
  /\ \A n \in NodeName : nodes[n] # NotFound => Seen(n)
  /\ \A w \in Worker : pc[w] # "idle" => Seen(target[w])
  /\ \A k \in Killer : \A n \in queue[k] : Seen(n)

(* From the list on the killer's nodes are expired, until they are gone. *)
GoneOrExpired(n) ==
  nodes[n] = NotFound \/ (nodes[n].expiry # NoExpiry /\ nodes[n].expiry <= clock)

ExpiryInv ==
  \A k \in Killer :
    /\ \A n \in queue[k] : GoneOrExpired(n)
    /\ pc[k] \notin {"idle", "failed"} => GoneOrExpired(target[k])
    /\ pc[k] = "deleteInstance" => nodes[target[k]] = NotFound
=============================================================================
