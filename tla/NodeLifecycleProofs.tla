------------------------ MODULE NodeLifecycleProofs ------------------------
(***************************************************************************)
(* The killer and the handlers implement NodeLifecycle, in any composition *)
(* whose steps do no more to the cluster and the workers than WorkStep.    *)
(***************************************************************************)
EXTENDS WorkerProofs

(* One step of the code, seen at one node, is one action of the lifecycle. *)
StageStep(n) ==
  \/ Stages[n] = "unborn" /\ Stages'[n] = "open" /\ Expiries'[n] = NoExpiry
  \/ /\ Stages[n] \in {"open", "cordoned"} /\ Expiries[n] = NoExpiry
     /\ Stages'[n] = Stages[n]
  \/ Stages[n] = "open" /\ Stages'[n] = "cordoned" /\ Expiries'[n] = Expiries[n]
  \/ /\ Stages[n] = "cordoned" /\ PodsToBeDeleted(n) = {}
     /\ Expiries[n] # NoExpiry /\ Expiries[n] <= clock
     /\ Stages'[n] = "gone" /\ Expiries'[n] = NoExpiry
  \/ /\ Stages[n] \in {"open", "cordoned"} /\ n \notin vms
     /\ Stages'[n] = "gone" /\ Expiries'[n] = NoExpiry
  \/ Stages'[n] = Stages[n] /\ Expiries'[n] = Expiries[n]

LEMMA StageFollows ==
  ASSUME ~ NameReuse, WorkInv, WorkStep, NEW n \in NodeName
  PROVE  StageStep(n)
<1> USE DEF WorkInv
<1>1. NodesStep /\ revision[n] \in Nat /\ (nodes[n] # NotFound => Seen(n))
  BY WorkNodes DEF WorkTypeOK, ClusterTypeOK, SeenInv
<1>2. nodes[n] # NotFound =>
        nodes[n].unschedulable \in BOOLEAN /\ nodes[n].expiry \in Nat \cup {NoExpiry}
  BY DEF WorkTypeOK, ClusterTypeOK, NodeObject
<1>3. CASE Kept(n)
  BY <1>3 DEF Kept, StageStep, Stages, Expiries, Seen
<1>4. CASE Removed(n) /\ nodes[n] # NotFound
  <2>1. Stages'[n] = "gone" /\ Expiries'[n] = NoExpiry
    BY <1>1, <1>4 DEF Removed, Stages, Expiries, Seen
  <2>2. Stages[n] = "open" \/ Stages[n] = "cordoned"
    BY <1>2, <1>4 DEF Stages, Seen
  <2>3. CASE n \in vms
    <3>1. PICK k \in Killer : pc[k] = "evacuated" /\ target[k] = n
      BY <1>4, <2>3, WhoDeletes DEF Removed
    <3>2. GoneOrCordoned(n) /\ PodsToBeDeleted(n) = {}
      BY <3>1, WorkerAssumption DEF DrainInv
    <3>3. GoneOrExpired(n)
      BY <3>1 DEF ExpiryInv
    <3> QED
      BY <1>4, <2>1, <3>2, <3>3 DEF GoneOrCordoned, GoneOrExpired, Stages, Expiries, StageStep
  <2> QED
    BY <2>1, <2>2, <2>3 DEF StageStep
<1>5. CASE Removed(n) /\ nodes[n] = NotFound
  BY <1>3, <1>5 DEF Removed, Kept
<1>6. CASE Rewritten(n)
  BY <1>2, <1>6 DEF Rewritten, StageStep, Stages, Expiries
<1>7. CASE Born(n)
  BY <1>1, <1>7 DEF Born, StageStep, Stages, Expiries, Seen
<1> QED
  BY <1>1, <1>3, <1>4, <1>5, <1>6, <1>7 DEF NodesStep

LEMMA MachineFollows ==
  ASSUME ~ NameReuse, WorkInv, WorkStep, NEW n \in NodeName, n \in vms', n \notin vms
  PROVE  Stages[n] = "unborn" /\ Stages'[n] = "open" /\ Expiries'[n] = NoExpiry
<1>1. /\ nodes[n] = NotFound /\ nodes'[n] = Registered(revision[n] + 1)
      /\ revision[n] = 0 \/ NameReuse
  BY WorkMachines DEF WorkInv
<1>2. Stages[n] = "unborn" /\ Stages'[n] = "open" /\ nodes'[n].expiry = NoExpiry
  BY <1>1, JoinFollows DEF WorkInv, WorkTypeOK
<1> QED
  BY <1>2 DEF Expiries

(* The refinement mapping: initial states are initial, a step of the code  *)
(* is a step of every node's life.                                         *)
LEMMA LifecycleInit ==
  ASSUME ClusterInit
  PROVE  Lifecycle!Init
<1>1. \A m \in NodeName : nodes[m] # NotFound => nodes[m].expiry = NoExpiry
  BY DEF ClusterInit, Registered
<1>2. Expiries = [n \in NodeName |-> NoExpiry]
  BY <1>1 DEF Expiries
<1>3. clock = 0
  BY DEF ClusterInit
<1> QED
  BY <1>2, <1>3, StagesInit DEF Lifecycle!Init

LEMMA LifecycleStep ==
  ASSUME ~ NameReuse, OnlyDaemonsTolerate, WorkInv, WorkStep
  PROVE  Lifecycle!Next
<1>1. clock <= clock'
  BY WorkClock DEF WorkInv
<1>2. Orderly
  BY WorkOrderly DEF WorkInv
<1>3. ASSUME NEW n \in NodeName
      PROVE  /\ \/ Lifecycle!Join(n) \/ Lifecycle!Mark(n) \/ Lifecycle!Cordon(n)
                \/ Lifecycle!Retire(n) \/ Lifecycle!Collect(n) \/ Lifecycle!Stay(n)
             /\ Lifecycle!Carry(n)
             /\ Lifecycle!Run(n)
  BY <1>2, <1>3, StageFollows, LoadFollows, MachineFollows
  DEF Loads, StageStep, Lifecycle!Becomes, Lifecycle!Join, Lifecycle!Mark, Lifecycle!Cordon,
      Lifecycle!Retire, Lifecycle!Collect, Lifecycle!Stay, Lifecycle!Carry, Lifecycle!Run
<1> QED
  BY <1>1, <1>3 DEF Lifecycle!Next
=============================================================================
