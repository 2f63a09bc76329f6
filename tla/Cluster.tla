------------------------------ MODULE Cluster ------------------------------
(***************************************************************************)
(* The Kubernetes API server and Compute Engine, as Silent Assassin uses   *)
(* them through pkg/k8s and pkg/gcloud.  Neither is part of the            *)
(* repository.  Every call of the two clients is one atomic step here; the *)
(* code between two calls belongs to the step of the call that follows.    *)
(*                                                                         *)
(* A call that fails was either rejected, which changes nothing, or was    *)
(* applied and its answer lost: both are an error to the caller, which is  *)
(* why the operators below take the caller's outcome as a parameter.       *)
(***************************************************************************)
EXTENDS Integers

CONSTANTS
  NodeName,      \* names of nodes; a node and its VM share one
  Pod,           \* pods that may run on them
  Owners,        \* Owners[p]: the kinds of the ownerReferences of pod p, in order
  Mirror,        \* the pods with the mirror annotation (static pods)
  Tolerant,      \* the pods that tolerate the unschedulable taint
  Stuck,         \* the pods whose termination may never finish
  NameReuse,     \* may a name that was deleted be given to a new VM?
  NotFound,      \* the answer for an object the API server does not have
  NoExpiry,      \* no silent-assassin/expiry-time annotation
  NoNode,        \* no node
  MaxTime,       \* bound on the clock
  MaxRevision    \* bound on the revisions that the kubelet writes

VARIABLES
  nodes,         \* nodes[n]: the v1.Node object called n, or NotFound
  revision,      \* revision[n]: the last resourceVersion given to that name
  host,          \* host[p]: the node pod p is bound to, or NoNode
  terminating,   \* the pods with a deletion timestamp
  vms,           \* the names of the Compute Engine instances that run
  clock          \* the wall clock

clusterVars == <<nodes, revision, host, terminating, vms, clock>>

Time == 0 .. MaxTime

NodeObject == [rv : Nat, created : Time, unschedulable : BOOLEAN,
               expiry : Nat \cup {NoExpiry}]

ASSUME ClusterAssumption ==
  /\ NotFound \notin NodeObject
  /\ NoExpiry \notin Nat
  /\ NoNode \notin NodeName
  /\ Mirror \subseteq Pod
  /\ Tolerant \subseteq Pod
  /\ NameReuse \in BOOLEAN
  /\ MaxTime \in Nat
  /\ MaxRevision \in Nat

ClusterTypeOK ==
  /\ nodes \in [NodeName -> NodeObject \cup {NotFound}]
  /\ revision \in [NodeName -> Nat]
  /\ host \in [Pod -> NodeName \cup {NoNode}]
  /\ terminating \subseteq Pod
  /\ vms \subseteq NodeName
  /\ clock \in Time

(***************************************************************************)
(* A fresh node: registered by its kubelet, schedulable and not annotated. *)
(***************************************************************************)
Registered(rv) == [rv |-> rv, created |-> clock, unschedulable |-> FALSE,
                   expiry |-> NoExpiry]

ClusterInit ==
  /\ clock = 0
  /\ vms \in SUBSET NodeName
  /\ revision = [n \in NodeName |-> IF n \in vms THEN 1 ELSE 0]
  /\ nodes = [n \in NodeName |-> IF n \in vms THEN Registered(1) ELSE NotFound]
  /\ host = [p \in Pod |-> NoNode]
  /\ terminating = {}

(* A name that has been in use: without reuse no new node gets it. *)
Seen(n) == revision[n] > 0

PodsOn(n) == {p \in Pod : host[p] = n}

---------------------------------------------------------------------------
(***************************************************************************)
(* The calls.  An Update is a PUT of the whole object: the API server      *)
(* applies it only to the revision it was read from, and gives the object  *)
(* a new revision unless nothing changes.                                  *)
(***************************************************************************)
Current(n, o) == nodes[n] # NotFound /\ nodes[n].rv = o.rv

Stored(n, o) ==
  IF o = nodes[n]
    THEN UNCHANGED <<nodes, revision>>
    ELSE /\ revision' = [revision EXCEPT ![n] = @ + 1]
         /\ nodes' = [nodes EXCEPT ![n] = [o EXCEPT !.rv = revision[n] + 1]]

UpdateNode(n, o, ok) ==
  /\ \/ Current(n, o) /\ Stored(n, o)
     \/ ~ok /\ UNCHANGED <<nodes, revision>>
  /\ UNCHANGED <<host, terminating, vms, clock>>

DeleteNodeObject(n, ok) ==
  /\ \/ nodes[n] # NotFound /\ nodes' = [nodes EXCEPT ![n] = NotFound]
     \/ ~ok /\ UNCHANGED nodes
  /\ UNCHANGED <<revision, host, terminating, vms, clock>>

(* DeletePod sets the deletion timestamp; the kubelet removes the pod later. *)
(* The pod of that name may by now be one that waits for a node: it goes at  *)
(* once, and its owner puts another in its place.                            *)
DeletePodObject(p, ok) ==
  /\ \/ host[p] # NoNode /\ terminating' = terminating \cup {p}
     \/ (~ok \/ host[p] = NoNode) /\ UNCHANGED terminating
  /\ UNCHANGED <<nodes, revision, host, vms, clock>>

DeleteInstance(n, ok) ==
  /\ \/ n \in vms /\ vms' = vms \ {n}
     \/ ~ok /\ UNCHANGED vms
  /\ UNCHANGED <<nodes, revision, host, terminating, clock>>

---------------------------------------------------------------------------
(***************************************************************************)
(* The rest of the cluster.                                                *)
(***************************************************************************)
Tick ==
  /\ clock < MaxTime
  /\ clock' = clock + 1
  /\ UNCHANGED <<nodes, revision, host, terminating, vms>>

(* The kubelet's status update: same contents, new revision. *)
Heartbeat(n) ==
  /\ nodes[n] # NotFound /\ n \in vms
  /\ revision[n] < MaxRevision
  /\ revision' = [revision EXCEPT ![n] = @ + 1]
  /\ nodes' = [nodes EXCEPT ![n].rv = revision[n] + 1]
  /\ UNCHANGED <<host, terminating, vms, clock>>

(* The scheduler binds a pod; a cordoned node only takes tolerant pods. *)
Schedule(p, n) ==
  /\ host[p] = NoNode
  /\ nodes[n] # NotFound /\ n \in vms
  /\ nodes[n].unschedulable => p \in Tolerant
  /\ host' = [host EXCEPT ![p] = n]
  /\ UNCHANGED <<nodes, revision, terminating, vms, clock>>

(* A pod object goes away: its termination finished, its owner scaled down, *)
(* or the garbage collector removed it after its node.                      *)
PodGone(p) ==
  /\ host[p] # NoNode
  /\ host' = [host EXCEPT ![p] = NoNode]
  /\ terminating' = terminating \ {p}
  /\ UNCHANGED <<nodes, revision, vms, clock>>

(* Compute Engine takes a preemptible VM back. *)
Preempt(n) ==
  /\ n \in vms
  /\ vms' = vms \ {n}
  /\ UNCHANGED <<nodes, revision, host, terminating, clock>>

(* The node controller removes the object of a VM that is gone. *)
CollectNode(n) ==
  /\ nodes[n] # NotFound /\ n \notin vms
  /\ nodes' = [nodes EXCEPT ![n] = NotFound]
  /\ UNCHANGED <<revision, host, terminating, vms, clock>>

(* The managed instance group creates a VM and its kubelet registers.  It  *)
(* may give the VM the name of one that went: NameReuse.                   *)
Provision(n) ==
  /\ revision[n] = 0 \/ (NameReuse /\ revision[n] < MaxRevision)
  /\ nodes[n] = NotFound /\ n \notin vms
  /\ vms' = vms \cup {n}
  /\ revision' = [revision EXCEPT ![n] = @ + 1]
  /\ nodes' = [nodes EXCEPT ![n] = Registered(revision[n] + 1)]
  /\ UNCHANGED <<host, terminating, clock>>

Environment ==
  \/ Tick
  \/ \E n \in NodeName : Heartbeat(n)
  \/ \E p \in Pod, n \in NodeName : Schedule(p, n)
  \/ \E p \in Pod : PodGone(p)
  \/ \E n \in NodeName : Preempt(n)
  \/ \E n \in NodeName : CollectNode(n)
  \/ \E n \in NodeName : Provision(n)
=============================================================================
