-------------------------- MODULE EvacuationProofs --------------------------
(***************************************************************************)
(* Facts about the evacuations that the proofs about every composition     *)
(* need, for any workers.                                                  *)
(***************************************************************************)
EXTENDS Evacuation, TLAPS

---------------------------------------------------------------------------
(***************************************************************************)
(* Types.                                                                  *)
(***************************************************************************)

LEMMA ObjectTypes ==
  ASSUME NEW o \in NodeObject, NEW rv \in Nat
  PROVE  /\ [o EXCEPT !.rv = rv] \in NodeObject
         /\ Cordoned(o) \in NodeObject
         /\ o.rv \in Nat /\ o.created \in Time
BY DEF NodeObject, Cordoned

LEMMA UpdateNodeType ==
  ASSUME ClusterTypeOK, NEW n \in NodeName, NEW o \in NodeObject, NEW ok \in BOOLEAN,
         UpdateNode(n, o, ok)
  PROVE  ClusterTypeOK'
<1>1. [o EXCEPT !.rv = revision[n] + 1] \in NodeObject
  BY ObjectTypes DEF ClusterTypeOK
<1> QED
  BY <1>1 DEF ClusterTypeOK, UpdateNode, Stored

LEMMA EnvironmentType ==
  ASSUME ClusterTypeOK, Environment
  PROVE  ClusterTypeOK'
<1> USE DEF ClusterTypeOK
<1>1. ASSUME NEW n \in NodeName PROVE Registered(revision[n] + 1) \in NodeObject
  BY DEF Registered, NodeObject
<1>2. CASE Tick
  BY <1>2, ClusterAssumption DEF Tick, Time
<1>3. ASSUME NEW n \in NodeName, Heartbeat(n) PROVE ClusterTypeOK'
  BY <1>3, ObjectTypes DEF Heartbeat
<1>4. ASSUME NEW p \in Pod, NEW n \in NodeName, Schedule(p, n) PROVE ClusterTypeOK'
  BY <1>4 DEF Schedule
<1>5. ASSUME NEW p \in Pod, PodGone(p) PROVE ClusterTypeOK'
  BY <1>5 DEF PodGone
<1>6. ASSUME NEW n \in NodeName, Preempt(n) PROVE ClusterTypeOK'
  BY <1>6 DEF Preempt
<1>7. ASSUME NEW n \in NodeName, CollectNode(n) PROVE ClusterTypeOK'
  BY <1>7 DEF CollectNode
<1>8. ASSUME NEW n \in NodeName, Provision(n) PROVE ClusterTypeOK'
  BY <1>1, <1>8 DEF Provision
<1> QED
  BY <1>2, <1>3, <1>4, <1>5, <1>6, <1>7, <1>8 DEF Environment

LEMMA EvacuationStepType ==
  ASSUME ClusterTypeOK, EvacuationTypeOK, ControlInv,
         NEW w \in Worker, EvacuationStep(w)
  PROVE  ClusterTypeOK' /\ EvacuationTypeOK' /\ ControlInv'
<1> USE DEF EvacuationTypeOK, ControlInv, Goto, Label
<1>1. CASE GetNode(w)
  BY <1>1 DEF GetNode, clusterVars, ClusterTypeOK
<1>2. CASE Cordon(w)
  <2>1. PICK ok \in BOOLEAN : UpdateNode(target[w], Cordoned(held[w]), ok)
    BY <1>2 DEF Cordon
  <2>2. target[w] \in NodeName /\ held[w] \in NodeObject
    BY <1>2 DEF Cordon
  <2>3. Cordoned(held[w]) \in NodeObject
    BY <2>2 DEF NodeObject, Cordoned
  <2>4. ClusterTypeOK'
    BY <2>1, <2>2, <2>3, UpdateNodeType
  <2> QED
    BY <1>2, <2>4 DEF Cordon
<1>3. CASE ListPods(w)
  <2>1. PodsToBeDeleted(target[w]) \subseteq UNION {Entries(p) : p \in Pod}
    BY DEF PodsToBeDeleted, PodsOn
  <2> QED
    BY <1>3, <2>1 DEF ListPods, clusterVars, ClusterTypeOK
<1>4. ASSUME NEW e \in todo[w], DeletePod(w, e)
      PROVE  ClusterTypeOK' /\ EvacuationTypeOK' /\ ControlInv'
  <2>1. e[1] \in Pod
    BY DEF Entries
  <2>2. ClusterTypeOK'
    BY <1>4, <2>1 DEF DeletePod, DeletePodObject, ClusterTypeOK
  <2> QED
    BY <1>4, <2>2 DEF DeletePod
<1>5. CASE DrainFinished(w)
  BY <1>5 DEF DrainFinished, clusterVars, ClusterTypeOK
<1>6. CASE DrainFailed(w)
  BY <1>6 DEF DrainFailed, clusterVars, ClusterTypeOK
<1> QED
  BY <1>1, <1>2, <1>3, <1>4, <1>5, <1>6 DEF EvacuationStep

---------------------------------------------------------------------------
(***************************************************************************)
(* What a step does to the node objects.  Only an update whose copy is up  *)
(* to date goes through, so it changes the field it means to change.       *)
(***************************************************************************)

Kept(n) == nodes'[n] = nodes[n] /\ revision'[n] = revision[n]

Removed(n) == nodes'[n] = NotFound /\ revision'[n] = revision[n]

Rewritten(n) ==
  /\ nodes[n] # NotFound /\ nodes'[n] # NotFound
  /\ revision'[n] = revision[n] + 1 /\ nodes'[n].rv = revision'[n]
  /\ nodes'[n].created = nodes[n].created
  /\ nodes[n].unschedulable => nodes'[n].unschedulable
  /\ nodes[n].expiry # NoExpiry => nodes'[n].expiry = nodes[n].expiry
  /\ nodes'[n].unschedulable = nodes[n].unschedulable \/ nodes'[n].expiry = nodes[n].expiry

Born(n) ==
  /\ nodes[n] = NotFound /\ nodes'[n] # NotFound
  /\ revision'[n] = revision[n] + 1 /\ nodes'[n].rv = revision'[n]
  /\ ~ nodes'[n].unschedulable /\ nodes'[n].expiry = NoExpiry
  /\ revision[n] = 0 \/ NameReuse

NodesStep == \A n \in NodeName : Kept(n) \/ Removed(n) \/ Rewritten(n) \/ Born(n)

(* An update from an agreeing copy fails, or it finds the object as it was *)
(* copied.                                                                 *)
LEMMA UpdateApplied ==
  ASSUME ClusterTypeOK, NEW m \in NodeName, NEW o \in NodeObject, NEW u \in NodeObject,
         Agrees(m, o), u.rv = o.rv, NEW ok \in BOOLEAN, UpdateNode(m, u, ok)
  PROVE  \/ UNCHANGED <<nodes, revision>>
         \/ /\ nodes[m] = o /\ o # NotFound
            /\ revision' = [revision EXCEPT ![m] = @ + 1]
            /\ nodes' = [nodes EXCEPT ![m] = [u EXCEPT !.rv = revision[m] + 1]]
            /\ [u EXCEPT !.rv = revision[m] + 1] \in NodeObject
<1>1. CASE Current(m, u) /\ Stored(m, u)
  <2>1. nodes[m] = o /\ o # NotFound
    BY <1>1 DEF Current, Agrees
  <2>2. [u EXCEPT !.rv = revision[m] + 1] \in NodeObject
    BY ObjectTypes DEF ClusterTypeOK
  <2> QED
    BY <1>1, <2>1, <2>2 DEF Stored
<1> QED
  BY <1>1 DEF UpdateNode

LEMMA UpdateRewrites ==
  ASSUME ClusterTypeOK, NEW m \in NodeName, NEW o \in NodeObject, NEW u \in NodeObject,
         Agrees(m, o), u.rv = o.rv, u.created = o.created,
         o.unschedulable => u.unschedulable,
         o.expiry # NoExpiry => u.expiry = o.expiry,
         u.unschedulable = o.unschedulable \/ u.expiry = o.expiry,
         NEW ok \in BOOLEAN, UpdateNode(m, u, ok)
  PROVE  NodesStep
<1>1. CASE UNCHANGED <<nodes, revision>>
  BY <1>1 DEF NodesStep, Kept
<1>2. CASE /\ nodes[m] = o /\ o # NotFound
           /\ revision' = [revision EXCEPT ![m] = @ + 1]
           /\ nodes' = [nodes EXCEPT ![m] = [u EXCEPT !.rv = revision[m] + 1]]
           /\ [u EXCEPT !.rv = revision[m] + 1] \in NodeObject
  <2>1. Rewritten(m)
    BY <1>2, ClusterAssumption DEF Rewritten, ClusterTypeOK, NodeObject
  <2>2. \A n \in NodeName : n # m => Kept(n)
    BY <1>2 DEF Kept, ClusterTypeOK
  <2> QED
    BY <2>1, <2>2 DEF NodesStep
<1> QED
  BY <1>1, <1>2, UpdateApplied

LEMMA EnvironmentNodes ==
  ASSUME ClusterTypeOK, Environment
  PROVE  NodesStep
<1> USE DEF ClusterTypeOK, NodesStep
<1>1. CASE UNCHANGED <<nodes, revision>>
  BY <1>1 DEF Kept
<1>2. ASSUME NEW m \in NodeName, Heartbeat(m) PROVE NodesStep
  <2>1. [nodes[m] EXCEPT !.rv = revision[m] + 1] \in NodeObject /\ nodes[m] \in NodeObject
    BY <1>2, ObjectTypes DEF Heartbeat
  <2>2. Rewritten(m)
    BY <1>2, <2>1, ClusterAssumption DEF Heartbeat, Rewritten, NodeObject
  <2>3. \A n \in NodeName : n # m => Kept(n)
    BY <1>2 DEF Heartbeat, Kept
  <2> QED
    BY <2>2, <2>3
<1>3. ASSUME NEW m \in NodeName, CollectNode(m) PROVE NodesStep
  BY <1>3 DEF CollectNode, Kept, Removed
<1>4. ASSUME NEW m \in NodeName, Provision(m) PROVE NodesStep
  <2>1. Registered(revision[m] + 1) \in NodeObject
    BY DEF Registered, NodeObject
  <2>2. Born(m)
    BY <1>4, <2>1, ClusterAssumption DEF Provision, Born, Registered
  <2>3. \A n \in NodeName : n # m => Kept(n)
    BY <1>4 DEF Provision, Kept
  <2> QED
    BY <2>2, <2>3
<1> QED
  BY <1>1, <1>2, <1>3, <1>4 DEF Environment, Tick, Schedule, PodGone, Preempt

LEMMA DeletionNodes ==
  ASSUME ClusterTypeOK, NEW m \in NodeName, NEW ok \in BOOLEAN, DeleteNodeObject(m, ok)
  PROVE  NodesStep
BY DEF DeleteNodeObject, NodesStep, Kept, Removed, ClusterTypeOK

LEMMA EvacuationNodes ==
  ASSUME ClusterTypeOK, ControlInv, HeldInv, NEW w \in Worker, EvacuationStep(w)
  PROVE  NodesStep
<1>1. CASE UNCHANGED <<nodes, revision>>
  BY <1>1 DEF NodesStep, Kept
<1>2. CASE Cordon(w)
  <2>1. /\ target[w] \in NodeName /\ held[w] \in NodeObject
        /\ Agrees(target[w], held[w])
    BY <1>2 DEF Cordon, ControlInv, HeldInv
  <2>2. PICK ok \in BOOLEAN : UpdateNode(target[w], Cordoned(held[w]), ok)
    BY <1>2 DEF Cordon
  <2>3. /\ Cordoned(held[w]) \in NodeObject
        /\ Cordoned(held[w]).rv = held[w].rv
        /\ Cordoned(held[w]).created = held[w].created
        /\ Cordoned(held[w]).expiry = held[w].expiry
        /\ Cordoned(held[w]).unschedulable
    BY <2>1 DEF Cordoned, NodeObject
  <2> QED
    BY <2>1, <2>2, <2>3, UpdateRewrites
<1> QED
  BY <1>1, <1>2
  DEF EvacuationStep, GetNode, ListPods, DeletePod, DeletePodObject, DrainFinished,
      DrainFailed, clusterVars

---------------------------------------------------------------------------
(***************************************************************************)
(* Who deletes a node object, and who starts a machine.                    *)
(***************************************************************************)

LEMMA UpdateDeletesNone ==
  ASSUME ClusterTypeOK, NEW m \in NodeName, NEW o \in NodeObject, NEW ok \in BOOLEAN,
         UpdateNode(m, o, ok), NEW n \in NodeName, nodes[n] # NotFound
  PROVE  nodes'[n] # NotFound
<1>1. [o EXCEPT !.rv = revision[m] + 1] \in NodeObject
  BY ObjectTypes DEF ClusterTypeOK
<1> QED
  BY <1>1, ClusterAssumption DEF UpdateNode, Stored, ClusterTypeOK

(* The cluster itself removes only the objects of machines that are gone. *)
LEMMA EnvironmentDeletes ==
  ASSUME ClusterTypeOK, Environment, NEW n \in NodeName,
         nodes[n] # NotFound, nodes'[n] = NotFound
  PROVE  n \notin vms
<1> USE DEF ClusterTypeOK
<1>1. \A m \in NodeName : Registered(revision[m] + 1) \in NodeObject
  BY DEF Registered, NodeObject
<1>2. \A m \in NodeName : nodes[m] # NotFound =>
        [nodes[m] EXCEPT !.rv = revision[m] + 1] \in NodeObject
  BY ObjectTypes
<1> QED
  BY <1>1, <1>2, ClusterAssumption
  DEF Environment, Tick, Heartbeat, Schedule, PodGone, Preempt, CollectNode, Provision

LEMMA EvacuationDeletesNone ==
  ASSUME ClusterTypeOK, ControlInv, NEW w \in Worker, EvacuationStep(w),
         NEW n \in NodeName, nodes[n] # NotFound
  PROVE  nodes'[n] # NotFound
<1>1. CASE Cordon(w)
  <2>1. target[w] \in NodeName /\ Cordoned(held[w]) \in NodeObject
    BY <1>1 DEF Cordon, ControlInv, Cordoned, NodeObject
  <2> QED
    BY <1>1, <2>1, UpdateDeletesNone DEF Cordon
<1> QED
  BY <1>1
  DEF EvacuationStep, GetNode, ListPods, DeletePod, DeletePodObject, DrainFinished,
      DrainFailed, clusterVars

LEMMA EnvironmentMachines ==
  ASSUME ClusterTypeOK, Environment, NEW n \in NodeName, n \in vms', n \notin vms
  PROVE  /\ nodes[n] = NotFound /\ nodes'[n] = Registered(revision[n] + 1)
         /\ revision[n] = 0 \/ NameReuse
BY DEF ClusterTypeOK, Environment, Tick, Heartbeat, Schedule, PodGone, Preempt, CollectNode,
       Provision

LEMMA EvacuationMachines ==
  ASSUME NEW w \in Worker, EvacuationStep(w)
  PROVE  UNCHANGED vms
BY DEF EvacuationStep, GetNode, Cordon, ListPods, DeletePod, DrainFinished, DrainFailed,
       UpdateNode, DeletePodObject, clusterVars

---------------------------------------------------------------------------
(***************************************************************************)
(* The copies stay copies of what is there or of what was there before.    *)
(***************************************************************************)

LEMMA AgreesStep ==
  ASSUME ClusterTypeOK, HeldInv, NodesStep, NEW n \in NodeName, NEW o \in NodeObject,
         Agrees(n, o)
  PROVE  Agrees(n, o)'
<1>1. o.rv \in Nat /\ revision[n] \in Nat
  BY ObjectTypes DEF ClusterTypeOK
<1> QED
  BY <1>1 DEF Agrees, Current, NodesStep, Kept, Removed, Rewritten, Born

LEMMA AgreesNow ==
  ASSUME ClusterTypeOK, HeldInv, NEW n \in NodeName, nodes[n] # NotFound
  PROVE  Agrees(n, nodes[n])
BY DEF Agrees, HeldInv, ClusterTypeOK

(* A worker about to cordon has just fetched the node, or had it before. *)
LEMMA HeldKept ==
  ASSUME ClusterTypeOK, EvacuationTypeOK, ControlInv, HeldInv, NodesStep,
         \A w \in Worker : pc'[w] = "cordon" =>
           \/ pc[w] = "cordon" /\ target'[w] = target[w] /\ held'[w] = held[w]
           \/ GetNode(w)
  PROVE  HeldInv'
<1>1. \A n \in NodeName : nodes'[n] # NotFound => nodes'[n].rv = revision'[n]
  BY DEF HeldInv, NodesStep, Kept, Removed, Rewritten, Born
<1>2. ASSUME NEW w \in Worker, pc'[w] = "cordon"
      PROVE  Agrees(target[w], held[w])'
  <2>1. CASE pc[w] = "cordon" /\ target'[w] = target[w] /\ held'[w] = held[w]
    BY <2>1, AgreesStep DEF ControlInv, HeldInv, Agrees, Current
  <2>2. CASE GetNode(w)
    <3>1. /\ nodes[target[w]] # NotFound /\ target[w] \in NodeName
          /\ held'[w] = nodes[target[w]] /\ target'[w] = target[w]
          /\ nodes' = nodes /\ revision' = revision
      BY <1>2, <2>2 DEF GetNode, Goto, EvacuationTypeOK, ControlInv, clusterVars
    <3> QED
      BY <3>1, AgreesNow DEF Agrees, Current
  <2> QED
    BY <1>2, <2>1, <2>2
<1> QED
  BY <1>1, <1>2 DEF HeldInv

LEMMA EvacuationHolds ==
  ASSUME EvacuationTypeOK, NEW v \in Worker, EvacuationStep(v),
         NEW w \in Worker, pc'[w] = "cordon"
  PROVE  \/ pc[w] = "cordon" /\ target'[w] = target[w] /\ held'[w] = held[w]
         \/ GetNode(w)
BY DEF EvacuationStep, GetNode, Cordon, ListPods, DeletePod, DrainFinished, DrainFailed,
       Goto, EvacuationTypeOK

---------------------------------------------------------------------------
(***************************************************************************)
(* What no step of the system does to a node: open it again once it is     *)
(* cordoned or gone, or put a pod there that a cordon keeps away.          *)
(***************************************************************************)

Shut(n) == Seen(n) /\ GoneOrCordoned(n)

ObjectsSeen == \A n \in NodeName : nodes[n] # NotFound => Seen(n)

Orderly ==
  /\ \A n \in NodeName : Seen(n) => Seen(n)'
  /\ \A n \in NodeName : Shut(n) => Shut(n)'
  /\ ObjectsSeen'
  /\ \A p \in Pod, n \in NodeName : host'[p] = n =>
       \/ host[p] = n
       \/ nodes[n] # NotFound /\ (nodes[n].unschedulable => p \in Tolerant)

LEMMA QuietOrderly ==
  ASSUME ObjectsSeen, UNCHANGED <<nodes, revision, host>>
  PROVE  Orderly
BY DEF Orderly, Shut, Seen, GoneOrCordoned, ObjectsSeen

LEMMA UpdateOrderly ==
  ASSUME ClusterTypeOK, ObjectsSeen, NEW m \in NodeName, NEW o \in NodeObject,
         NEW ok \in BOOLEAN, UpdateNode(m, o, ok),
         nodes[m] # NotFound /\ nodes[m].unschedulable => o.unschedulable
  PROVE  Orderly
<1>1. CASE UNCHANGED <<nodes, revision>>
  BY <1>1, QuietOrderly DEF UpdateNode
<1>2. CASE Current(m, o) /\ o # nodes[m] /\ Stored(m, o)
  <2>1. /\ revision' = [revision EXCEPT ![m] = @ + 1]
        /\ nodes' = [nodes EXCEPT ![m] = [o EXCEPT !.rv = revision[m] + 1]]
        /\ nodes[m] # NotFound
    BY <1>2 DEF Stored, Current
  <2>2. [o EXCEPT !.rv = revision[m] + 1].unschedulable = o.unschedulable
    BY DEF NodeObject
  <2>3. \A n \in NodeName : revision[n] \in Nat
    BY DEF ClusterTypeOK
  <2>4. \A n \in NodeName : Seen(n) => Seen(n)'
    BY <2>1, <2>3 DEF Seen, ClusterTypeOK
  <2>5. ASSUME NEW n \in NodeName, GoneOrCordoned(n) PROVE GoneOrCordoned(n)'
    BY <2>1, <2>2, <2>5 DEF GoneOrCordoned, ClusterTypeOK
  <2>6. ObjectsSeen'
    BY <2>1, <2>3 DEF ObjectsSeen, Seen, ClusterTypeOK
  <2> QED
    BY <2>4, <2>5, <2>6 DEF Orderly, Shut, UpdateNode
<1> QED
  BY <1>1, <1>2 DEF UpdateNode, Stored

LEMMA CopyOrderly ==
  ASSUME ClusterTypeOK, ObjectsSeen, NEW m \in NodeName, NEW o \in NodeObject,
         NEW u \in NodeObject, Agrees(m, o), u.rv = o.rv,
         o.unschedulable => u.unschedulable,
         NEW ok \in BOOLEAN, UpdateNode(m, u, ok)
  PROVE  Orderly
<1>1. CASE UNCHANGED <<nodes, revision>>
  BY <1>1, QuietOrderly DEF UpdateNode
<1>2. CASE Current(m, u)
  BY <1>2, UpdateOrderly DEF Current, Agrees
<1> QED
  BY <1>1, <1>2 DEF UpdateNode

LEMMA EnvironmentOrderly ==
  ASSUME ~ NameReuse, ClusterTypeOK, ObjectsSeen, Environment
  PROVE  Orderly
<1> USE DEF ClusterTypeOK
<1>1. CASE UNCHANGED <<nodes, revision, host>>
  BY <1>1, QuietOrderly
<1>2. ASSUME NEW m \in NodeName, Heartbeat(m) PROVE Orderly
  <2>1. /\ nodes[m] \in NodeObject
        /\ nodes' = [nodes EXCEPT ![m] = [nodes[m] EXCEPT !.rv = revision[m] + 1]]
    BY <1>2 DEF Heartbeat
  <2>2. [nodes[m] EXCEPT !.rv = revision[m] + 1].unschedulable = nodes[m].unschedulable
    BY <2>1 DEF NodeObject
  <2> QED
    BY <1>2, <2>1, <2>2 DEF Heartbeat, Orderly, Shut, Seen, GoneOrCordoned, ObjectsSeen
<1>3. ASSUME NEW p \in Pod, NEW m \in NodeName, Schedule(p, m) PROVE Orderly
  BY <1>3 DEF Schedule, Orderly, Shut, Seen, GoneOrCordoned, ObjectsSeen
<1>4. ASSUME NEW p \in Pod, PodGone(p) PROVE Orderly
  BY <1>4, ClusterAssumption
  DEF PodGone, Orderly, Shut, Seen, GoneOrCordoned, ObjectsSeen
<1>5. ASSUME NEW m \in NodeName, CollectNode(m) PROVE Orderly
  BY <1>5 DEF CollectNode, Orderly, Shut, Seen, GoneOrCordoned, ObjectsSeen
<1>6. ASSUME NEW m \in NodeName, Provision(m) PROVE Orderly
  BY <1>6 DEF Provision, Orderly, Shut, Seen, GoneOrCordoned, ObjectsSeen
<1> QED
  BY <1>1, <1>2, <1>3, <1>4, <1>5, <1>6 DEF Environment, Tick, Preempt

LEMMA EvacuationOrderly ==
  ASSUME ClusterTypeOK, ControlInv, ObjectsSeen, NEW w \in Worker, EvacuationStep(w)
  PROVE  Orderly
<1>1. CASE Cordon(w)
  <2>1. PICK ok \in BOOLEAN : UpdateNode(target[w], Cordoned(held[w]), ok)
    BY <1>1 DEF Cordon
  <2>2. target[w] \in NodeName /\ held[w] \in NodeObject
    BY <1>1 DEF Cordon, ControlInv
  <2>3. Cordoned(held[w]) \in NodeObject /\ Cordoned(held[w]).unschedulable
    BY <2>2 DEF NodeObject, Cordoned
  <2> QED
    BY <2>1, <2>2, <2>3, UpdateOrderly
<1>2. CASE ~ Cordon(w)
  BY <1>2, QuietOrderly
  DEF EvacuationStep, GetNode, ListPods, DeletePod, DeletePodObject, DrainFinished,
      DrainFailed, clusterVars
<1> QED
  BY <1>1, <1>2

(* What is shut and drained stays drained. *)
LEMMA DrainedStays ==
  ASSUME OnlyDaemonsTolerate, Orderly, NEW n \in NodeName, Shut(n), PodsToBeDeleted(n) = {}
  PROVE  PodsToBeDeleted(n)' = {}
<1>1. ASSUME NEW p \in Pod, host'[p] = n PROVE Entries(p) = {}
  <2>1. CASE host[p] = n
    BY <2>1 DEF PodsToBeDeleted, PodsOn
  <2>2. CASE host[p] # n
    BY <1>1, <2>2 DEF Orderly, Shut, GoneOrCordoned, OnlyDaemonsTolerate
  <2> QED
    BY <2>1, <2>2
<1> QED
  BY <1>1 DEF PodsToBeDeleted, PodsOn, Entries

---------------------------------------------------------------------------
(***************************************************************************)
(* What a step does to one worker: it is not busy, it begins with a node   *)
(* that has been seen, or it goes on with the node that it has.            *)
(***************************************************************************)

Advance(w) ==
  \/ pc'[w] = "idle"
  \/ pc'[w] = "getNode" /\ Seen(target'[w])
  \/ /\ pc[w] # "idle" /\ target'[w] = target[w]
     /\ \/ pc'[w] \in {pc[w], "cordon", "failed", "deleteInstance"}
        \/ pc'[w] = "listPods" /\ GoneOrCordoned(target[w])'
        \/ pc[w] \in {"listPods", "deletePod", "wait"} /\ pc'[w] \in {"deletePod", "wait"}
        \/ pc'[w] = "evacuated" /\ pc[w] = "wait" /\ PodsToBeDeleted(target[w]) = {}

LEMMA UpdateCordons ==
  ASSUME ClusterTypeOK, NEW n \in NodeName, NEW o \in NodeObject,
         UpdateNode(n, Cordoned(o), TRUE)
  PROVE  GoneOrCordoned(n)'
<1>1. /\ Cordoned(o).unschedulable
      /\ [Cordoned(o) EXCEPT !.rv = revision[n] + 1].unschedulable
  BY DEF NodeObject, Cordoned
<1> QED
  BY <1>1 DEF UpdateNode, Stored, GoneOrCordoned, ClusterTypeOK

LEMMA EvacuationAdvances ==
  ASSUME ClusterTypeOK, EvacuationTypeOK, ControlInv, NEW w \in Worker, EvacuationStep(w)
  PROVE  /\ \A v \in Worker : Advance(v)
         /\ \A v \in Worker : target'[v] = target[v]
         /\ \A v \in Worker : pc[v] # "idle" => pc'[v] # "idle"
<1> USE DEF EvacuationTypeOK
<1>1. PICK l \in Label : Goto(w, l) /\ pc[w] # "idle" /\ l # "idle" /\ target' = target
  BY DEF EvacuationStep, GetNode, Cordon, ListPods, DeletePod, DrainFinished, DrainFailed, Label
<1>2. ASSUME NEW v \in Worker, v # w PROVE pc'[v] = pc[v] /\ target'[v] = target[v]
  BY <1>1, <1>2 DEF Goto
<1>3. pc'[w] = l /\ target'[w] = target[w]
  BY <1>1 DEF Goto
<1>4. Advance(w)
  <2>1. CASE Cordon(w)
    <3>1. PICK ok \in BOOLEAN :
             UpdateNode(target[w], Cordoned(held[w]), ok)
             /\ Goto(w, IF ok THEN "listPods" ELSE "failed")
      BY <2>1 DEF Cordon
    <3>2. CASE ok
      <4>1. target[w] \in NodeName /\ held[w] \in NodeObject
        BY <2>1 DEF Cordon, ControlInv
      <4>2. UpdateNode(target[w], Cordoned(held[w]), TRUE)
        BY <3>1, <3>2
      <4>3. ASSUME NEW n \in NodeName, n = target[w] PROVE GoneOrCordoned(n)'
        BY <4>1, <4>2, <4>3, UpdateCordons
      <4>4. GoneOrCordoned(target[w])'
        BY <1>3, <4>1, <4>3 DEF GoneOrCordoned
      <4>5. pc'[w] = "listPods"
        BY <3>1, <3>2 DEF Goto
      <4> QED
        BY <1>1, <1>3, <4>4, <4>5 DEF Advance
    <3>3. CASE ~ ok
      <4>1. pc'[w] = "failed"
        BY <3>1, <3>3 DEF Goto
      <4> QED
        BY <1>1, <1>3, <4>1 DEF Advance
    <3> QED
      BY <3>2, <3>3
  <2>2. CASE GetNode(w)
    BY <1>1, <1>3, <2>2 DEF GetNode, Goto, Advance
  <2>3. CASE ListPods(w)
    BY <1>1, <1>3, <2>3 DEF ListPods, Goto, Advance
  <2>4. ASSUME NEW e \in todo[w], DeletePod(w, e) PROVE Advance(w)
    BY <1>1, <1>3, <2>4 DEF DeletePod, Goto, Advance
  <2>5. CASE DrainFinished(w)
    BY <1>1, <1>3, <2>5 DEF DrainFinished, Goto, Advance
  <2>6. CASE DrainFailed(w)
    BY <1>1, <1>3, <2>6 DEF DrainFailed, Goto, Advance
  <2> QED
    BY <2>1, <2>2, <2>3, <2>4, <2>5, <2>6 DEF EvacuationStep
<1> QED
  BY <1>1, <1>2, <1>3, <1>4 DEF Advance

(* An orderly step in which every worker advances keeps what each of them  *)
(* relies on: its target is known, and, if a cordon keeps out all that an  *)
(* evacuation is for, drained once it is evacuated.                        *)
LEMMA TargetsSeen ==
  ASSUME \A w \in Worker : pc[w] # "idle" => Seen(target[w]),
         Orderly, \A w \in Worker : Advance(w), ControlInv'
  PROVE  \A w \in Worker : pc'[w] # "idle" => Seen(target[w])'
<1> SUFFICES ASSUME NEW w \in Worker, pc'[w] # "idle" PROVE Seen(target[w])'
  OBVIOUS
<1>1. target'[w] \in NodeName
  BY DEF ControlInv
<1>2. Seen(target'[w])
  BY DEF Advance
<1>3. \A n \in NodeName : Seen(n) => Seen(n)'
  BY DEF Orderly
<1> QED
  BY <1>1, <1>2, <1>3 DEF Seen

LEMMA AdvanceKeeps ==
  ASSUME OnlyDaemonsTolerate, EvacuationTypeOK, ControlInv, DrainInv,
         \A w \in Worker : pc[w] # "idle" => Seen(target[w]),
         Orderly, \A w \in Worker : Advance(w), ControlInv'
  PROVE  DrainInv'
<1>1. ASSUME NEW w \in Worker,
             pc'[w] \in {"listPods", "deletePod", "wait", "evacuated"}
      PROVE  GoneOrCordoned(target[w])'
  <2>1. pc[w] # "idle" /\ target'[w] = target[w] /\ target[w] \in NodeName
    BY <1>1 DEF Advance, ControlInv
  <2>2. CASE pc[w] \in {"listPods", "deletePod", "wait", "evacuated"}
    <3>1. Shut(target[w])
      BY <2>1, <2>2 DEF Shut, DrainInv
    <3>2. \A n \in NodeName : Shut(n) => GoneOrCordoned(n)'
      BY DEF Orderly, Shut
    <3> QED
      BY <2>1, <3>1, <3>2 DEF GoneOrCordoned
  <2>3. CASE pc[w] \notin {"listPods", "deletePod", "wait", "evacuated"}
    BY <1>1, <2>3 DEF Advance
  <2> QED
    BY <2>2, <2>3
<1>2. ASSUME NEW w \in Worker, pc'[w] = "evacuated"
      PROVE  PodsToBeDeleted(target[w])' = {}
  <2>1. pc[w] # "idle" /\ target'[w] = target[w] /\ target[w] \in NodeName
    BY <1>2 DEF Advance, ControlInv
  <2>2. pc[w] \in {"wait", "evacuated"} /\ PodsToBeDeleted(target[w]) = {}
    BY <1>2 DEF Advance, DrainInv
  <2>3. Shut(target[w])
    BY <2>1, <2>2 DEF Shut, DrainInv
  <2>4. ASSUME NEW n \in NodeName, Shut(n), PodsToBeDeleted(n) = {}
        PROVE  PodsToBeDeleted(n)' = {}
    BY <2>4, DrainedStays
  <2> QED
    BY <2>1, <2>2, <2>3, <2>4 DEF PodsToBeDeleted, PodsOn
<1> QED
  BY <1>1, <1>2 DEF DrainInv
---------------------------------------------------------------------------
(***************************************************************************)
(* The life of a node, as the abstract specifications see it.              *)
(***************************************************************************)

(* An object that is removed was there, open or cordoned. *)
Left(n) ==
  /\ nodes[n] # NotFound /\ nodes'[n] = NotFound
  /\ Stages[n] = IF nodes[n].unschedulable THEN "cordoned" ELSE "open"
  /\ Stages'[n] = "gone"

LEMMA StagesFollow ==
  ASSUME ~ NameReuse, ClusterTypeOK, ObjectsSeen, NodesStep, NEW n \in NodeName
  PROVE  \/ Stages'[n] = Stages[n]
         \/ Stages[n] = "unborn" /\ Stages'[n] = "open"
         \/ Stages[n] = "open" /\ Stages'[n] = "cordoned"
         \/ Left(n)
<1>1. revision[n] \in Nat /\ (nodes[n] # NotFound => Seen(n))
  BY DEF ClusterTypeOK, ObjectsSeen
<1>2. CASE Kept(n)
  BY <1>2 DEF Kept, Stages, Seen
<1>3. CASE Removed(n) /\ nodes[n] # NotFound
  BY <1>1, <1>3 DEF Removed, Stages, Seen, Left
<1>4. CASE Removed(n) /\ nodes[n] = NotFound
  BY <1>4 DEF Removed, Stages, Seen
<1>5. CASE Rewritten(n)
  BY <1>5 DEF Rewritten, Stages, ClusterTypeOK, NodeObject
<1>6. CASE Born(n)
  BY <1>1, <1>6 DEF Born, Stages, Seen
<1> QED
  BY <1>2, <1>3, <1>4, <1>5, <1>6 DEF NodesStep

(* Load goes to open nodes only. *)
LEMMA LoadFollows ==
  ASSUME OnlyDaemonsTolerate, Orderly, NEW n \in NodeName, Stages[n] # "open"
  PROVE  PodsToBeDeleted(n)' \subseteq PodsToBeDeleted(n)
<1>1. nodes[n] # NotFound => nodes[n].unschedulable
  BY DEF Stages, Seen
<1>2. ASSUME NEW p \in Pod, host'[p] = n PROVE host[p] = n \/ Entries(p) = {}
  BY <1>1, <1>2 DEF Orderly, OnlyDaemonsTolerate
<1> QED
  BY <1>2 DEF PodsToBeDeleted, PodsOn

(* What starts is the machine of a node that joins. *)
LEMMA JoinFollows ==
  ASSUME ~ NameReuse, ClusterTypeOK, NEW n \in NodeName,
         nodes[n] = NotFound, nodes'[n] = Registered(revision[n] + 1),
         revision[n] = 0 \/ NameReuse
  PROVE  /\ Stages[n] = "unborn" /\ Stages'[n] = "open"
         /\ nodes'[n] # NotFound /\ nodes'[n].expiry = NoExpiry
<1>1. Registered(revision[n] + 1) \in NodeObject
  BY DEF ClusterTypeOK, Registered, NodeObject
<1>2. nodes'[n] # NotFound
  BY <1>1, ClusterAssumption
<1>3. ~ nodes'[n].unschedulable /\ nodes'[n].expiry = NoExpiry
  BY DEF Registered
<1> QED
  BY <1>2, <1>3 DEF Stages, Seen

LEMMA StagesInit ==
  ASSUME ClusterInit
  PROVE  /\ Stages \in [NodeName -> {"unborn", "open"}]
         /\ vms = {n \in NodeName : Stages[n] = "open"}
         /\ Loads = [n \in NodeName |-> {}]
<1>1. vms \subseteq NodeName /\ clock = 0 /\ clock \in Time
  BY ClusterAssumption DEF ClusterInit, Time
<1>2. Registered(1) # NotFound /\ ~ Registered(1).unschedulable
  <2>1. Registered(1) \in NodeObject
    BY <1>1 DEF Registered, NodeObject
  <2> QED
    BY <2>1, ClusterAssumption DEF Registered
<1>3. ASSUME NEW n \in NodeName
      PROVE  /\ Stages[n] = IF n \in vms THEN "open" ELSE "unborn"
             /\ PodsToBeDeleted(n) = {}
  <2>1. nodes[n] = (IF n \in vms THEN Registered(1) ELSE NotFound)
    BY DEF ClusterInit
  <2>2. revision[n] = IF n \in vms THEN 1 ELSE 0
    BY DEF ClusterInit
  <2>3. PodsOn(n) = {}
    BY ClusterAssumption DEF PodsOn, ClusterInit
  <2> QED
    BY <1>2, <2>1, <2>2, <2>3 DEF Stages, Seen, PodsToBeDeleted
<1>4. Stages = [n \in NodeName |-> IF n \in vms THEN "open" ELSE "unborn"]
  BY <1>3 DEF Stages
<1>5. Loads = [n \in NodeName |-> {}]
  BY <1>3 DEF Loads
<1>6. vms = {n \in NodeName : Stages[n] = "open"}
  BY <1>1, <1>3
<1> QED
  BY <1>4, <1>5, <1>6
=============================================================================
