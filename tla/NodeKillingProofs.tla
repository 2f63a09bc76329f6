------------------------- MODULE NodeKillingProofs -------------------------
(***************************************************************************)
(* Proofs about NodeKilling, for any nodes, pods, killers, handlers and    *)
(* spotters.                                                               *)
(***************************************************************************)
EXTENDS NodeKilling, NodeLifecycleProofs, ExpiryTimeProofs

(* What holds whether or not names are used twice. *)
CopiesInv ==
  /\ WorkTypeOK /\ HeldInv
  /\ SpotterTypeOK /\ ListedInv

(* One turn of a spotter's loop that updates an object. *)
Annotates(s, n, t, ok) ==
  /\ listed[s][n] # NotFound
  /\ t \in ExpiryTimes[listed[s][n].created]
  /\ UpdateNode(n, Annotated(listed[s][n], t), ok)

LEMMA SpotterUpdates ==
  ASSUME NEW s \in SpotterThread, SpotterStep(s)
  PROVE  \/ UNCHANGED clusterVars
         \/ \E n \in NodeName, ok \in BOOLEAN : \E t : Annotates(s, n, t, ok)
BY DEF SpotterStep, ListNodes, Annotate, Annotates

(* What a spotter annotates is an unmarked copy, of the object or of an    *)
(* older one of that name.                                                 *)
LEMMA AnnotatesCopy ==
  ASSUME CopiesInv, NEW s \in SpotterThread, NEW n \in NodeName,
         NEW t, NEW ok \in BOOLEAN, Annotates(s, n, t, ok)
  PROVE  /\ listed[s][n] \in NodeObject /\ Agrees(n, listed[s][n])
         /\ listed[s][n].expiry = NoExpiry
         /\ t \in Nat /\ UpdateNode(n, Marked(listed[s][n], t), ok)
<1>1. listed[s][n] \in NodeObject
  BY DEF Annotates, CopiesInv, SpotterTypeOK
<1>2. t \in Nat
  BY <1>1, ExpiryTimesAssumption, ObjectTypes DEF Annotates
<1> QED
  BY <1>1, <1>2 DEF Annotates, CopiesInv, ListedInv, Annotated, Marked

LEMMA StepsWork ==
  ASSUME CopiesInv, [Next]_vars
  PROVE  WorkStep
<1>1. ASSUME NEW s \in SpotterThread, SpotterStep(s), UNCHANGED <<evacuationVars, queue>>
      PROVE  WorkStep
  <2>1. CASE UNCHANGED clusterVars
    BY <1>1, <2>1 DEF WorkStep, work
  <2>2. ASSUME NEW n \in NodeName, NEW t, NEW ok \in BOOLEAN, Annotates(s, n, t, ok)
        PROVE  MarkStep
    BY <2>2, AnnotatesCopy DEF MarkStep
  <2> QED
    BY <1>1, <2>1, <2>2, SpotterUpdates DEF WorkStep
<1> QED
  BY <1>1 DEF Next, Crash, WorkStep, work, vars

LEMMA ListedStep ==
  ASSUME CopiesInv, [Next]_vars, NEW s \in SpotterThread, NEW n \in NodeName
  PROVE  \/ listed'[s][n] = listed[s][n]
         \/ listed'[s][n] = NotFound
         \/ /\ nodes[n] # NotFound /\ nodes[n].expiry = NoExpiry
            /\ listed'[s][n] = nodes[n]
            /\ nodes' = nodes /\ revision' = revision
<1> USE DEF CopiesInv, SpotterTypeOK
<1>1. ASSUME NEW r \in SpotterThread, ListNodes(r)
      PROVE  \/ listed'[s][n] = listed[s][n]
             \/ listed'[s][n] = NotFound
             \/ /\ nodes[n] # NotFound /\ nodes[n].expiry = NoExpiry
                /\ listed'[s][n] = nodes[n]
                /\ nodes' = nodes /\ revision' = revision
  BY <1>1 DEF ListNodes, clusterVars
<1>2. ASSUME NEW r \in SpotterThread, NEW m \in NodeName, Annotate(r, m)
      PROVE  listed'[s][n] = listed[s][n] \/ listed'[s][n] = NotFound
  BY <1>2 DEF Annotate
<1> QED
  BY <1>1, <1>2 DEF Next, Crash, SpotterStep, vars

LEMMA CopiesStep ==
  ASSUME CopiesInv, [Next]_vars
  PROVE  CopiesInv'
<1>1. WorkStep /\ NodesStep
  BY StepsWork, WorkNodes DEF CopiesInv
<1>2. WorkTypeOK' /\ HeldInv'
  BY <1>1, WorkType, CopiesKept DEF CopiesInv
<1>3. SpotterTypeOK'
  <2>1. CASE UNCHANGED listed
    BY <2>1 DEF CopiesInv, SpotterTypeOK
  <2>2. ASSUME NEW s \in SpotterThread, SpotterStep(s) PROVE SpotterTypeOK'
    BY <2>2
    DEF SpotterStep, ListNodes, Annotate, CopiesInv, SpotterTypeOK, WorkTypeOK, ClusterTypeOK
  <2>3. CASE Crash
    BY <2>3 DEF Crash, SpotterTypeOK
  <2> QED
    BY <2>1, <2>2, <2>3 DEF Next, vars
<1>4. ASSUME NEW s \in SpotterThread, NEW n \in NodeName, listed'[s][n] # NotFound
      PROVE  Agrees(n, listed[s][n])' /\ listed'[s][n].expiry = NoExpiry
  <2>1. CASE listed'[s][n] = listed[s][n]
    <3>1. /\ listed[s][n] \in NodeObject /\ Agrees(n, listed[s][n])
          /\ listed[s][n].expiry = NoExpiry
      BY <1>4, <2>1 DEF CopiesInv, SpotterTypeOK, ListedInv
    <3>2. ASSUME NEW o \in NodeObject, Agrees(n, o) PROVE Agrees(n, o)'
      BY <1>1, <3>2, AgreesStep DEF CopiesInv, WorkTypeOK
    <3> QED
      BY <2>1, <3>1, <3>2 DEF Agrees, Current
  <2>2. CASE /\ nodes[n] # NotFound /\ nodes[n].expiry = NoExpiry
             /\ listed'[s][n] = nodes[n]
             /\ nodes' = nodes /\ revision' = revision
    BY <2>2, AgreesNow DEF CopiesInv, WorkTypeOK, Agrees, Current
  <2> QED
    BY <1>4, <2>1, <2>2, ListedStep
<1> QED
  BY <1>2, <1>3, <1>4 DEF CopiesInv, ListedInv

LEMMA CopiesAlways == Spec => []CopiesInv
<1>1. Init => CopiesInv
  BY WorkInit DEF Init, CopiesInv, SpotterInit, SpotterTypeOK, ListedInv
<1>2. CopiesInv /\ [Next]_vars => CopiesInv'
  BY CopiesStep
<1> QED
  BY <1>1, <1>2, PTL DEF Spec

(* Type correctness of the spotter, the killer and the handlers together. *)
THEOREM TypeCorrect == Spec => []TypeOK
<1>1. CopiesInv => TypeOK
  BY DEF CopiesInv, WorkTypeOK, TypeOK
<1> QED
  BY <1>1, CopiesAlways, PTL

---------------------------------------------------------------------------
(***************************************************************************)
(* Theorems that need no assumption about names: whole objects are written *)
(* back, but only over the revision they were read from.                   *)
(***************************************************************************)

(* No update loses another's: a cordon stays and an expiry time, once        *)
(* written, does not change, for any number of spotters, killers and         *)
(* handlers writing whole objects back (spot, makeNodeUnschedulable).  Names *)
(* may be used twice.                                                        *)
THEOREM LostUpdatesImpossible == Spec => NoLostUpdate
<1>1. CopiesInv /\ [Next]_vars =>
        [\A n \in NodeName :
           nodes[n] # NotFound /\ nodes'[n] # NotFound =>
             /\ nodes[n].unschedulable => nodes'[n].unschedulable
             /\ nodes[n].expiry # NoExpiry => nodes'[n].expiry = nodes[n].expiry]_vars
  BY StepsWork, WorkNodes DEF CopiesInv, NodesStep, Kept, Removed, Rewritten, Born
<1> QED
  BY <1>1, CopiesAlways, PTL DEF Spec, NoLostUpdate

(* An update that goes through finds the object as it was copied. *)
LEMMA UpdateFinds ==
  ASSUME ClusterTypeOK, NEW m \in NodeName, NEW o \in NodeObject, NEW u \in NodeObject,
         Agrees(m, o), u.rv = o.rv, NEW ok \in BOOLEAN, UpdateNode(m, u, ok),
         NEW n \in NodeName, nodes[n] # NotFound, nodes'[n] # NotFound,
         nodes'[n].expiry # nodes[n].expiry
  PROVE  n = m /\ nodes[n] = o /\ nodes'[n].expiry = u.expiry
<1>1. Current(m, u) /\ Stored(m, u) /\ nodes' # nodes
  BY DEF UpdateNode
<1>2. nodes[m] = o
  BY <1>1 DEF Current, Agrees
<1>3. /\ nodes' = [nodes EXCEPT ![m] = [u EXCEPT !.rv = revision[m] + 1]]
      /\ [u EXCEPT !.rv = revision[m] + 1].expiry = u.expiry
  BY <1>1 DEF Stored, NodeObject
<1> QED
  BY <1>2, <1>3 DEF ClusterTypeOK

(* Only a spotter marks, and only the object that it listed. *)
LEMMA WhoMarks ==
  ASSUME CopiesInv, [Next]_vars, NEW n \in NodeName,
         nodes[n] # NotFound, nodes'[n] # NotFound, nodes'[n].expiry # nodes[n].expiry
  PROVE  nodes'[n].expiry \in ExpiryTimes[nodes[n].created]
<1> USE DEF CopiesInv, WorkTypeOK
<1>1. ASSUME Environment PROVE FALSE
  BY <1>1
  DEF Environment, Tick, Heartbeat, Schedule, PodGone, Preempt, CollectNode, Provision,
      ClusterTypeOK, NodeObject
<1>2. ASSUME NEW w \in Worker, Cordon(w) PROVE FALSE
  <2>1. PICK ok \in BOOLEAN : UpdateNode(target[w], Cordoned(held[w]), ok)
    BY <1>2 DEF Cordon
  <2>2. target[w] \in NodeName /\ held[w] \in NodeObject /\ Agrees(target[w], held[w])
    BY <1>2 DEF Cordon, ControlInv, HeldInv
  <2>3. /\ Cordoned(held[w]) \in NodeObject /\ Cordoned(held[w]).rv = held[w].rv
        /\ Cordoned(held[w]).expiry = held[w].expiry
    BY <2>2 DEF Cordoned, NodeObject
  <2> QED
    BY <2>1, <2>2, <2>3, UpdateFinds
<1>3. ASSUME NEW w \in Worker, EvacuationStep(w) PROVE FALSE
  BY <1>2, <1>3
  DEF EvacuationStep, GetNode, ListPods, DeletePod, DeletePodObject, DrainFinished,
      DrainFailed, clusterVars
<1>4. ASSUME NEW k \in Killer, KillerStep(k) PROVE FALSE
  BY <1>4
  DEF KillerStep, FindExpiredTimeNodes, NextExpired, DeleteNode, DeleteNodeObject,
      DeleteVM, DeleteInstance, ClusterTypeOK, clusterVars
<1>5. ASSUME NEW h \in Handler, HandlerStep(h) PROVE FALSE
  BY <1>5 DEF HandlerStep, AcceptRequest, Answer, clusterVars
<1>6. ~ Crash /\ ~ UNCHANGED vars
  BY DEF Crash, WorkLost, clusterVars, vars
<1>7. ASSUME NEW s \in SpotterThread, NEW m \in NodeName, NEW t, NEW ok \in BOOLEAN,
             Annotates(s, m, t, ok)
      PROVE  nodes'[n].expiry \in ExpiryTimes[nodes[n].created]
  <2> DEFINE o == listed[s][m]
  <2>1. /\ o \in NodeObject /\ Agrees(m, o) /\ t \in Nat
        /\ UpdateNode(m, Marked(o, t), ok)
    BY <1>7, AnnotatesCopy
  <2>2. /\ Marked(o, t) \in NodeObject /\ Marked(o, t).rv = o.rv
        /\ Marked(o, t).expiry = t
    BY <2>1, MarkedObject
  <2>3. nodes[n] = o /\ nodes'[n].expiry = t
    BY <2>1, <2>2, UpdateFinds
  <2> QED
    BY <1>7, <2>3 DEF Annotates
<1>8. ASSUME NEW s \in SpotterThread, SpotterStep(s)
      PROVE  nodes'[n].expiry \in ExpiryTimes[nodes[n].created]
  BY <1>7, <1>8, SpotterUpdates DEF clusterVars
<1> QED
  BY <1>1, <1>3, <1>4, <1>5, <1>6, <1>8 DEF Next

(* The mark of a node is its own, chosen for its own creation time, however  *)
(* late the spotter comes to a node that it listed (spot,                    *)
(* getExpiryTimestamp, UpdateNode).  Names may be used twice.                *)
THEOREM MarksAreOwn == Spec => []MarkedForItself
<1>1. Init => MarkedForItself
  BY DEF Init, ClusterInit, Registered, MarkedForItself
<1>2. CopiesInv /\ MarkedForItself /\ [Next]_vars => MarkedForItself'
  <2> SUFFICES ASSUME CopiesInv, MarkedForItself, [Next]_vars, NEW n \in NodeName,
                      nodes'[n] # NotFound, nodes'[n].expiry # NoExpiry
               PROVE  nodes'[n].expiry \in ExpiryTimes[nodes'[n].created]
    BY DEF MarkedForItself
  <2>1. Kept(n) \/ Rewritten(n)
    BY StepsWork, WorkNodes DEF CopiesInv, NodesStep, Removed, Born
  <2>2. nodes[n] # NotFound /\ nodes'[n].created = nodes[n].created
    BY <2>1 DEF Kept, Rewritten
  <2>3. CASE nodes'[n].expiry = nodes[n].expiry
    BY <2>2, <2>3 DEF MarkedForItself
  <2>4. CASE nodes'[n].expiry # nodes[n].expiry
    BY <2>2, <2>4, WhoMarks
  <2> QED
    BY <2>3, <2>4
<1> QED
  BY <1>1, <1>2, CopiesAlways, PTL DEF Spec

(* The spotter with its own algorithm: a node expires in the day that      *)
(* Compute Engine gives it, counted from the creation of that very object, *)
(* and at a time of day that the white list has.                           *)
InItsHours(wl, o) ==
  /\ o.created < o.expiry /\ o.expiry < o.created + Day
  /\ \E i \in wl : Within(SinceMidnight(o.expiry), i) \/ SinceMidnight(o.expiry) = i[2]

MarkedInHours(wl) ==
  \A n \in NodeName :
    nodes[n] # NotFound /\ nodes[n].expiry # NoExpiry => InItsHours(wl, nodes[n])

(* For every white list, whatever the copies that the spotter updates and  *)
(* even when names are used twice: each mark in the cluster is one that    *)
(* getExpiryTimestamp may choose, in the hours of its own node (spot,      *)
(* getExpiryTimestamp, initWhitelist).                                     *)
THEOREM MarksAreInHours ==
  ASSUME NEW wl \in SUBSET Interval,
         \A t \in Time : ExpiryTimes[t] = ExpiryTimestamps(wl, t)
  PROVE  Spec => []MarkedInHours(wl)
<1>1. WorkTypeOK /\ MarkedForItself => MarkedInHours(wl)
  <2> SUFFICES ASSUME WorkTypeOK, MarkedForItself, NEW n \in NodeName,
                      nodes[n] # NotFound, nodes[n].expiry # NoExpiry
               PROVE  InItsHours(wl, nodes[n])
    BY DEF MarkedInHours
  <2>1. nodes[n].created \in Time /\ nodes[n].created \in Nat
    <3>1. nodes[n] \in NodeObject
      BY DEF WorkTypeOK, ClusterTypeOK
    <3>2. nodes[n].created \in Time
      BY <3>1 DEF NodeObject
    <3> QED
      BY <3>2, ClusterAssumption DEF Time
  <2>2. nodes[n].expiry \in ExpiryTimestamps(wl, nodes[n].created)
    BY <2>1 DEF MarkedForItself
  <2> QED
    BY <2>1, <2>2, CandidateWithinADay, CandidateInWhitelist DEF InItsHours
<1>2. Spec => []MarkedForItself
  BY MarksAreOwn
<1> QED
  BY <1>1, <1>2, CopiesAlways, PTL DEF CopiesInv

---------------------------------------------------------------------------
(***************************************************************************)
(* Theorems about names that are used once: what the killer and the        *)
(* handlers rely on after their copies have grown old.                     *)
(***************************************************************************)

LEMMA ExpiryAlways ==
  ASSUME ~ NameReuse
  PROVE  Spec => [](SeenInv /\ ExpiryInv)
<1>1. Init => SeenInv /\ ExpiryInv
  BY WorkInit DEF Init
<1>2. CopiesInv /\ CopiesInv' /\ SeenInv /\ ExpiryInv /\ [Next]_vars => (SeenInv /\ ExpiryInv)'
  BY StepsWork, SeenKept, ExpiryKept DEF CopiesInv
<1> QED
  BY <1>1, <1>2, CopiesAlways, PTL DEF Spec

LEMMA WorkAlways ==
  ASSUME ~ NameReuse, OnlyDaemonsTolerate
  PROVE  Spec => [](CopiesInv /\ WorkInv)
<1>1. Init => WorkInv
  BY WorkInit DEF Init, WorkInv
<1>2. CopiesInv /\ WorkInv /\ [Next]_vars => WorkInv'
  BY StepsWork, WorkKept
<1> QED
  BY <1>1, <1>2, CopiesAlways, PTL DEF Spec

(* An evacuation that succeeds leaves, for good, no pod of those it is     *)
(* for: a 204 answer can be relied on (handleTermination,                  *)
(* EvacuatePodsFromNode), if no name is used twice and only the pods that  *)
(* an evacuation spares tolerate a cordon.                                 *)
THEOREM SuccessIsDrained ==
  ASSUME ~ NameReuse, OnlyDaemonsTolerate
  PROVE  Spec => []SuccessMeansDrained
<1>1. WorkInv => SuccessMeansDrained
  BY DEF WorkInv, DrainInv, SuccessMeansDrained
<1> QED
  BY <1>1, WorkAlways, PTL

(* The VM is deleted after its node object (deleteNode), if no name is     *)
(* used twice.                                                             *)
THEOREM InstanceIsLast ==
  ASSUME ~ NameReuse
  PROVE  Spec => []InstanceAfterNode
<1>1. ExpiryInv => InstanceAfterNode
  BY DEF ExpiryInv, InstanceAfterNode
<1> QED
  BY <1>1, ExpiryAlways, PTL

(* Only an expired node is deleted, if no name is used twice               *)
(* (findExpiredTimeNodes, kill, deleteNode).                               *)
THEOREM OnlyExpiredDeleted ==
  ASSUME ~ NameReuse
  PROVE  Spec => DeletesOnlyExpired
<1>1. CopiesInv /\ ExpiryInv /\ [Next]_vars =>
        [\A n \in NodeName :
           nodes[n] # NotFound /\ nodes'[n] = NotFound /\ n \in vms
             => nodes[n].expiry # NoExpiry /\ nodes[n].expiry <= clock]_vars
  BY StepsWork, WhoDeletes DEF CopiesInv, ExpiryInv, GoneOrExpired
<1> QED
  BY <1>1, CopiesAlways, ExpiryAlways, PTL DEF Spec, DeletesOnlyExpired

(* Only a drained node is deleted, if no name is used twice and only the   *)
(* pods that an evacuation spares tolerate a cordon (EvacuatePodsFromNode, *)
(* deleteNode).                                                            *)
THEOREM OnlyDrainedDeleted ==
  ASSUME ~ NameReuse, OnlyDaemonsTolerate
  PROVE  Spec => DeletesOnlyDrained
<1>1. CopiesInv /\ WorkInv /\ [Next]_vars =>
        [\A n \in NodeName :
           nodes[n] # NotFound /\ nodes'[n] = NotFound /\ n \in vms
             => PodsToBeDeleted(n) = {}]_vars
  BY StepsWork, WhoDeletes, WorkerAssumption DEF WorkInv, DrainInv
<1> QED
  BY <1>1, WorkAlways, PTL DEF Spec, DeletesOnlyDrained

(* The refinement: what the spotter, the killer and the handlers do to the *)
(* objects of the cluster is the lifecycle of the nodes, if no name is     *)
(* used twice and only the pods that an evacuation spares tolerate a       *)
(* cordon (spot, kill, deleteNode, EvacuatePodsFromNode).                  *)
THEOREM LifecycleKept ==
  ASSUME ~ NameReuse, OnlyDaemonsTolerate
  PROVE  Spec => KeepsLifecycle
<1>1. Init => Lifecycle!Init
  BY LifecycleInit DEF Init
<1>2. CopiesInv /\ WorkInv /\ [Next]_vars => [Lifecycle!Next]_(Lifecycle!vars)
  BY StepsWork, LifecycleStep
<1> QED
  BY <1>1, <1>2, WorkAlways, PTL DEF Spec, KeepsLifecycle, Lifecycle!Spec
=============================================================================
