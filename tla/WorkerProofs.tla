---------------------------- MODULE WorkerProofs ----------------------------
(***************************************************************************)
(* Facts about the killer and the handlers, for any composition of them    *)
(* whose steps do no more to the cluster and the workers than WorkStep.    *)
(***************************************************************************)
EXTENDS Workers, EvacuationProofs

LEMMA KillerStepType ==
  ASSUME ClusterTypeOK, EvacuationTypeOK, KillerTypeOK, ControlInv, Killer \subseteq Worker,
         NEW k \in Killer, KillerStep(k)
  PROVE  ClusterTypeOK' /\ EvacuationTypeOK' /\ KillerTypeOK' /\ ControlInv'
<1> USE DEF EvacuationTypeOK, KillerTypeOK, ControlInv, Goto, Finish, Label
<1>1. CASE FindExpiredTimeNodes(k)
  BY <1>1 DEF FindExpiredTimeNodes, clusterVars, ClusterTypeOK
<1>2. CASE NextExpired(k)
  BY <1>2 DEF NextExpired, Evacuate, clusterVars, ClusterTypeOK
<1>3. CASE DeleteNode(k)
  BY <1>3 DEF DeleteNode, DeleteNodeObject, ClusterTypeOK
<1>4. CASE DeleteVM(k)
  BY <1>4 DEF DeleteVM, DeleteInstance, ClusterTypeOK
<1> QED
  BY <1>1, <1>2, <1>3, <1>4 DEF KillerStep

LEMMA HandlerStepType ==
  ASSUME ClusterTypeOK, EvacuationTypeOK, ControlInv, Handler \subseteq Worker,
         NEW h \in Handler, HandlerStep(h)
  PROVE  ClusterTypeOK' /\ EvacuationTypeOK' /\ ControlInv'
<1> USE DEF EvacuationTypeOK, ControlInv, Goto, Finish, Label
<1>1. ASSUME NEW n \in NodeName, AcceptRequest(h, n)
      PROVE  ClusterTypeOK' /\ EvacuationTypeOK' /\ ControlInv'
  BY <1>1 DEF AcceptRequest, Evacuate, clusterVars, ClusterTypeOK
<1>2. CASE Answer(h)
  BY <1>2 DEF Answer, clusterVars, ClusterTypeOK
<1> QED
  BY <1>1, <1>2 DEF HandlerStep

LEMMA KillerOrderly ==
  ASSUME ClusterTypeOK, ObjectsSeen, NEW k \in Killer, KillerStep(k)
  PROVE  Orderly
<1>1. CASE DeleteNode(k)
  BY <1>1
  DEF DeleteNode, DeleteNodeObject, Orderly, Shut, Seen, GoneOrCordoned, ObjectsSeen,
      ClusterTypeOK
<1>2. CASE ~ DeleteNode(k)
  BY <1>2, QuietOrderly
  DEF KillerStep, FindExpiredTimeNodes, NextExpired, DeleteVM, DeleteInstance, clusterVars
<1> QED
  BY <1>1, <1>2

LEMMA KillerAdvances ==
  ASSUME EvacuationTypeOK, KillerTypeOK, SeenInv, Killer \subseteq Worker,
         NEW k \in Killer, KillerStep(k)
  PROVE  /\ \A v \in Worker : Advance(v)
         /\ \A v \in Worker \ {k} : pc'[v] = pc[v] /\ target'[v] = target[v]
         /\ \A j \in Killer : queue'[j] \subseteq queue[j]
              \cup {n \in NodeName : nodes[n] # NotFound}
<1> USE DEF EvacuationTypeOK, KillerTypeOK, Goto, Finish
<1>1. CASE FindExpiredTimeNodes(k)
  BY <1>1 DEF FindExpiredTimeNodes, Advance
<1>2. CASE NextExpired(k)
  <2>1. PICK n \in queue[k] :
           queue' = [queue EXCEPT ![k] = @ \ {n}] /\ Evacuate(k, n)
    BY <1>2 DEF NextExpired
  <2>2. Seen(n)
    BY DEF SeenInv
  <2>3. pc'[k] = "getNode" /\ target'[k] = n
    BY <2>1 DEF Evacuate
  <2>4. \A v \in Worker \ {k} : pc'[v] = pc[v] /\ target'[v] = target[v]
    BY <2>1 DEF Evacuate
  <2> QED
    BY <2>1, <2>2, <2>3, <2>4 DEF Advance
<1>3. CASE DeleteNode(k)
  BY <1>3 DEF DeleteNode, Advance
<1>4. CASE DeleteVM(k)
  BY <1>4 DEF DeleteVM, Advance
<1> QED
  BY <1>1, <1>2, <1>3, <1>4 DEF KillerStep

LEMMA HandlerAdvances ==
  ASSUME EvacuationTypeOK, ObjectsSeen, Handler \subseteq Worker,
         NEW h \in Handler, HandlerStep(h)
  PROVE  /\ \A v \in Worker : Advance(v)
         /\ \A v \in Worker \ {h} : pc'[v] = pc[v] /\ target'[v] = target[v]
<1> USE DEF EvacuationTypeOK, Goto, Finish
<1>1. ASSUME NEW n \in NodeName, AcceptRequest(h, n)
      PROVE  /\ \A v \in Worker : Advance(v)
             /\ \A v \in Worker \ {h} : pc'[v] = pc[v] /\ target'[v] = target[v]
  <2>1. pc'[h] = "getNode" /\ target'[h] = n /\ Seen(n)
    BY <1>1 DEF AcceptRequest, Evacuate, ObjectsSeen
  <2>2. \A v \in Worker \ {h} : pc'[v] = pc[v] /\ target'[v] = target[v]
    BY <1>1 DEF AcceptRequest, Evacuate
  <2> QED
    BY <2>1, <2>2 DEF Advance
<1>2. CASE Answer(h)
  BY <1>2 DEF Answer, Advance
<1> QED
  BY <1>1, <1>2 DEF HandlerStep
---------------------------------------------------------------------------
(***************************************************************************)
(* All that a step does to the cluster and the workers, in a server that   *)
(* marks nodes with an expiry time, kills them and answers requests.       *)
(***************************************************************************)

Marked(o, t) == [o EXCEPT !.expiry = t]

(* The update of an unmarked copy, which may be out of date by now. *)
MarkStep ==
  \E n \in NodeName, o \in NodeObject, t \in Nat, ok \in BOOLEAN :
    /\ Agrees(n, o) /\ o.expiry = NoExpiry
    /\ UpdateNode(n, Marked(o, t), ok)

WorkStep ==
  \/ Environment /\ UNCHANGED <<evacuationVars, queue>>
  \/ \E w \in Worker : EvacuationStep(w) /\ UNCHANGED queue
  \/ \E k \in Killer : KillerStep(k)
  \/ \E h \in Handler : HandlerStep(h) /\ UNCHANGED queue
  \/ MarkStep /\ UNCHANGED <<evacuationVars, queue>>
  \/ WorkLost
  \/ UNCHANGED work

LEMMA MarkedObject ==
  ASSUME NEW o \in NodeObject, NEW t \in Nat
  PROVE  /\ Marked(o, t) \in NodeObject
         /\ Marked(o, t).rv = o.rv /\ Marked(o, t).created = o.created
         /\ Marked(o, t).unschedulable = o.unschedulable /\ Marked(o, t).expiry = t
BY DEF Marked, NodeObject

WorkTypeOK == ClusterTypeOK /\ EvacuationTypeOK /\ KillerTypeOK /\ ControlInv

LEMMA WorkInit ==
  ASSUME ClusterInit, EvacuationInit, KillerInit
  PROVE  WorkTypeOK /\ HeldInv /\ SeenInv /\ DrainInv /\ ExpiryInv
<1>1. clock \in Time
  BY ClusterAssumption DEF ClusterInit, Time
<1>2. Registered(1) \in NodeObject
  BY <1>1 DEF Registered, NodeObject
<1>3. WorkTypeOK
  BY <1>1, <1>2
  DEF ClusterInit, EvacuationInit, KillerInit, WorkTypeOK, ClusterTypeOK,
      EvacuationTypeOK, KillerTypeOK, ControlInv, Label
<1>4. HeldInv
  BY <1>2, ClusterAssumption DEF HeldInv, ClusterInit, EvacuationInit, Registered
<1>5. SeenInv
  BY DEF SeenInv, Seen, ClusterInit, EvacuationInit, KillerInit
<1>6. DrainInv /\ ExpiryInv
  BY WorkerAssumption DEF DrainInv, ExpiryInv, EvacuationInit, KillerInit
<1> QED
  BY <1>3, <1>4, <1>5, <1>6

LEMMA WorkType ==
  ASSUME WorkTypeOK, WorkStep
  PROVE  WorkTypeOK'
<1> USE DEF WorkTypeOK
<1>1. CASE Environment /\ UNCHANGED <<evacuationVars, queue>>
  BY <1>1, EnvironmentType DEF evacuationVars, EvacuationTypeOK, KillerTypeOK, ControlInv
<1>2. ASSUME NEW w \in Worker, EvacuationStep(w), UNCHANGED queue PROVE WorkTypeOK'
  BY <1>2, EvacuationStepType DEF KillerTypeOK
<1>3. ASSUME NEW k \in Killer, KillerStep(k) PROVE WorkTypeOK'
  BY <1>3, KillerStepType, WorkerAssumption
<1>4. ASSUME NEW h \in Handler, HandlerStep(h), UNCHANGED queue PROVE WorkTypeOK'
  BY <1>4, HandlerStepType, WorkerAssumption DEF KillerTypeOK
<1>5. CASE MarkStep /\ UNCHANGED <<evacuationVars, queue>>
  <2>1. ClusterTypeOK'
    BY <1>5, MarkedObject, UpdateNodeType DEF MarkStep
  <2> QED
    BY <1>5, <2>1 DEF evacuationVars, EvacuationTypeOK, KillerTypeOK, ControlInv
<1>6. CASE WorkLost
  BY <1>6
  DEF WorkLost, clusterVars, ClusterTypeOK, EvacuationTypeOK, KillerTypeOK, ControlInv, Label
<1>7. CASE UNCHANGED work
  BY <1>7
  DEF work, clusterVars, evacuationVars, ClusterTypeOK, EvacuationTypeOK, KillerTypeOK,
      ControlInv
<1> QED
  BY <1>1, <1>2, <1>3, <1>4, <1>5, <1>6, <1>7 DEF WorkStep

---------------------------------------------------------------------------
(***************************************************************************)
(* What such a step does to the node objects.                              *)
(***************************************************************************)

LEMMA WorkNodes ==
  ASSUME WorkTypeOK, HeldInv, WorkStep
  PROVE  NodesStep
<1> USE DEF WorkTypeOK
<1>1. CASE UNCHANGED <<nodes, revision>>
  BY <1>1 DEF NodesStep, Kept
<1>2. CASE MarkStep
  BY <1>2, MarkedObject, UpdateRewrites DEF MarkStep
<1>3. ASSUME NEW k \in Killer, KillerStep(k) PROVE NodesStep
  <2>1. CASE DeleteNode(k)
    BY <2>1, DeletionNodes, WorkerAssumption DEF DeleteNode, ControlInv
  <2> QED
    BY <1>1, <1>3, <2>1
    DEF KillerStep, FindExpiredTimeNodes, NextExpired, DeleteVM, DeleteInstance, clusterVars
<1>4. ASSUME NEW h \in Handler, HandlerStep(h) PROVE NodesStep
  BY <1>1, <1>4 DEF HandlerStep, AcceptRequest, Answer, clusterVars
<1>5. CASE WorkLost \/ UNCHANGED work
  BY <1>1, <1>5 DEF WorkLost, work, clusterVars
<1> QED
  BY <1>2, <1>3, <1>4, <1>5, EnvironmentNodes, EvacuationNodes DEF WorkStep

LEMMA CopiesKept ==
  ASSUME WorkTypeOK, HeldInv, WorkStep
  PROVE  HeldInv'
<1> USE DEF WorkTypeOK
<1>1. ASSUME NEW w \in Worker, pc'[w] = "cordon"
      PROVE  \/ pc[w] = "cordon" /\ target'[w] = target[w] /\ held'[w] = held[w]
             \/ GetNode(w)
  <2>1. ASSUME NEW k \in Killer, KillerStep(k)
        PROVE  pc[w] = "cordon" /\ target'[w] = target[w] /\ held'[w] = held[w]
    BY <1>1, <2>1, WorkerAssumption
    DEF KillerStep, FindExpiredTimeNodes, NextExpired, DeleteNode, DeleteVM, Free,
        Evacuate, Finish, Goto, EvacuationTypeOK
  <2>2. ASSUME NEW h \in Handler, HandlerStep(h)
        PROVE  pc[w] = "cordon" /\ target'[w] = target[w] /\ held'[w] = held[w]
    BY <1>1, <2>2, WorkerAssumption
    DEF HandlerStep, AcceptRequest, Answer, Evacuate, Finish, Goto, EvacuationTypeOK
  <2>3. CASE UNCHANGED evacuationVars
    BY <1>1, <2>3 DEF evacuationVars
  <2>4. ~ WorkLost
    BY <1>1 DEF WorkLost
  <2> QED
    BY <1>1, <2>1, <2>2, <2>3, <2>4, EvacuationHolds DEF WorkStep, work, evacuationVars
<1> QED
  BY <1>1, WorkNodes, HeldKept

LEMMA WorkClock ==
  ASSUME WorkTypeOK, WorkStep
  PROVE  clock \in Nat /\ clock' \in Nat /\ clock <= clock'
<1> USE ClusterAssumption DEF WorkTypeOK, ClusterTypeOK, Time
<1>1. CASE clock' = clock
  BY <1>1
<1>2. CASE Environment
  BY <1>1, <1>2
  DEF Environment, Tick, Heartbeat, Schedule, PodGone, Preempt, CollectNode, Provision
<1>3. ASSUME NEW w \in Worker, EvacuationStep(w) PROVE clock' = clock
  BY <1>3
  DEF EvacuationStep, GetNode, Cordon, ListPods, DeletePod, DrainFinished, DrainFailed,
      UpdateNode, DeletePodObject, clusterVars
<1>4. ASSUME NEW k \in Killer, KillerStep(k) PROVE clock' = clock
  BY <1>4
  DEF KillerStep, FindExpiredTimeNodes, NextExpired, DeleteNode, DeleteVM,
      DeleteNodeObject, DeleteInstance, clusterVars
<1>5. ASSUME NEW h \in Handler, HandlerStep(h) PROVE clock' = clock
  BY <1>5 DEF HandlerStep, AcceptRequest, Answer, clusterVars
<1>6. CASE MarkStep \/ WorkLost \/ UNCHANGED work
  BY <1>1, <1>6 DEF MarkStep, UpdateNode, WorkLost, work, clusterVars
<1> QED
  BY <1>1, <1>2, <1>3, <1>4, <1>5, <1>6 DEF WorkStep

(* A machine that starts belongs to a node that joins. *)
LEMMA WorkMachines ==
  ASSUME WorkTypeOK, WorkStep, NEW n \in NodeName, n \in vms', n \notin vms
  PROVE  /\ nodes[n] = NotFound /\ nodes'[n] = Registered(revision[n] + 1)
         /\ revision[n] = 0 \/ NameReuse
<1> USE DEF WorkTypeOK, ClusterTypeOK
<1>1. ASSUME vms' \subseteq vms PROVE FALSE
  BY <1>1
<1>2. CASE Environment
  BY <1>2, EnvironmentMachines
<1>3. ASSUME NEW w \in Worker, EvacuationStep(w) PROVE FALSE
  BY <1>1, <1>3, EvacuationMachines
<1>4. ASSUME NEW k \in Killer, KillerStep(k) PROVE FALSE
  BY <1>1, <1>4
  DEF KillerStep, FindExpiredTimeNodes, NextExpired, DeleteNode, DeleteVM,
      DeleteNodeObject, DeleteInstance, clusterVars
<1>5. ASSUME NEW h \in Handler, HandlerStep(h) PROVE FALSE
  BY <1>1, <1>5 DEF HandlerStep, AcceptRequest, Answer, clusterVars
<1>6. CASE MarkStep \/ WorkLost \/ UNCHANGED work
  BY <1>1, <1>6 DEF MarkStep, UpdateNode, WorkLost, work, clusterVars
<1> QED
  BY <1>2, <1>3, <1>4, <1>5, <1>6 DEF WorkStep

(* Only the killer's deletion takes the object of a VM that runs. *)
LEMMA WhoDeletes ==
  ASSUME WorkTypeOK, HeldInv, WorkStep, NEW n \in NodeName,
         nodes[n] # NotFound, nodes'[n] = NotFound, n \in vms
  PROVE  \E k \in Killer : pc[k] = "evacuated" /\ target[k] = n
<1> USE DEF WorkTypeOK, ClusterTypeOK
<1>1. ASSUME NEW m \in NodeName, NEW o \in NodeObject, NEW ok \in BOOLEAN,
             UpdateNode(m, o, ok)
      PROVE  FALSE
  BY <1>1, UpdateDeletesNone
<1>2. ASSUME Environment PROVE FALSE
  BY <1>2, EnvironmentDeletes
<1>3. ASSUME NEW w \in Worker, EvacuationStep(w) PROVE FALSE
  BY <1>3, EvacuationDeletesNone
<1>4. ASSUME NEW h \in Handler, HandlerStep(h) PROVE FALSE
  BY <1>4 DEF HandlerStep, AcceptRequest, Answer, clusterVars
<1>5. CASE MarkStep
  BY <1>1, <1>5, MarkedObject DEF MarkStep
<1>6. CASE WorkLost \/ UNCHANGED work
  BY <1>6 DEF WorkLost, work, clusterVars
<1>7. ASSUME NEW k \in Killer, KillerStep(k)
      PROVE  pc[k] = "evacuated" /\ target[k] = n
  BY <1>7
  DEF KillerStep, FindExpiredTimeNodes, NextExpired, DeleteNode, DeleteNodeObject,
      DeleteVM, DeleteInstance, clusterVars
<1> QED
  BY <1>2, <1>3, <1>4, <1>5, <1>6, <1>7 DEF WorkStep

---------------------------------------------------------------------------
(***************************************************************************)
(* What the workers rely on: a name seen stays seen, and without the reuse *)
(* of names what is gone stays gone, what is cordoned, drained or expired  *)
(* stays so.                                                               *)
(***************************************************************************)

(* Every step is orderly, and every worker goes on with what it has. *)
LEMMA WorkOrderly ==
  ASSUME ~ NameReuse, WorkTypeOK, SeenInv, WorkStep
  PROVE  /\ Orderly
         /\ \A w \in Worker : Advance(w)
         /\ \A k \in Killer : \A n \in queue'[k] : Seen(n)
<1> USE DEF WorkTypeOK
<1>1. ObjectsSeen
  BY DEF SeenInv, ObjectsSeen
<1>2. ASSUME UNCHANGED evacuationVars PROVE \A w \in Worker : Advance(w)
  BY <1>2 DEF evacuationVars, Advance
<1>3. ASSUME UNCHANGED queue PROVE \A k \in Killer : \A n \in queue'[k] : Seen(n)
  BY <1>3 DEF SeenInv
<1>4. CASE Environment /\ UNCHANGED <<evacuationVars, queue>>
  BY <1>1, <1>2, <1>3, <1>4, EnvironmentOrderly
<1>5. ASSUME NEW w \in Worker, EvacuationStep(w), UNCHANGED queue
      PROVE  Orderly /\ (\A v \in Worker : Advance(v))
  BY <1>1, <1>5, EvacuationOrderly, EvacuationAdvances
<1>6. ASSUME NEW k \in Killer, KillerStep(k)
      PROVE  /\ Orderly
             /\ \A v \in Worker : Advance(v)
             /\ \A j \in Killer : \A n \in queue'[j] : Seen(n)
  <2>1. \A j \in Killer : queue'[j] \subseteq queue[j]
                             \cup {n \in NodeName : nodes[n] # NotFound}
    BY <1>6, KillerAdvances, WorkerAssumption
  <2>2. \A v \in Worker : Advance(v)
    BY <1>6, KillerAdvances, WorkerAssumption
  <2> QED
    BY <1>1, <1>6, <2>1, <2>2, KillerOrderly DEF SeenInv
<1>7. ASSUME NEW h \in Handler, HandlerStep(h), UNCHANGED queue
      PROVE  Orderly /\ (\A v \in Worker : Advance(v))
  <2>1. UNCHANGED clusterVars
    BY <1>7 DEF HandlerStep, AcceptRequest, Answer
  <2> QED
    BY <1>1, <1>7, <2>1, QuietOrderly, HandlerAdvances, WorkerAssumption DEF clusterVars
<1>8. ASSUME MarkStep PROVE Orderly
  BY <1>1, <1>8, MarkedObject, CopyOrderly DEF MarkStep
<1>9. CASE WorkLost
  BY <1>1, <1>9, QuietOrderly DEF WorkLost, Advance, clusterVars
<1>10. CASE UNCHANGED work
  BY <1>1, <1>2, <1>3, <1>10, QuietOrderly DEF work, clusterVars
<1> QED
  BY <1>2, <1>3, <1>4, <1>5, <1>6, <1>7, <1>8, <1>9, <1>10 DEF WorkStep, WorkLost

LEMMA SeenKept ==
  ASSUME ~ NameReuse, WorkTypeOK, WorkTypeOK', SeenInv, WorkStep
  PROVE  SeenInv'
<1>1. /\ Orderly
      /\ \A w \in Worker : Advance(w)
      /\ \A k \in Killer : \A n \in queue'[k] : Seen(n)
  BY WorkOrderly
<1>2. \A w \in Worker : pc'[w] # "idle" => Seen(target[w])'
  BY <1>1, TargetsSeen DEF WorkTypeOK, SeenInv
<1>3. \A k \in Killer : \A n \in queue'[k] : n \in NodeName /\ Seen(n)'
  BY <1>1 DEF WorkTypeOK, KillerTypeOK, Orderly
<1>4. ObjectsSeen'
  BY <1>1 DEF Orderly
<1> QED
  BY <1>2, <1>3, <1>4 DEF SeenInv, ObjectsSeen

LEMMA DrainKept ==
  ASSUME ~ NameReuse, OnlyDaemonsTolerate, WorkTypeOK, WorkTypeOK', SeenInv, DrainInv, WorkStep
  PROVE  DrainInv'
BY WorkOrderly, AdvanceKeeps DEF WorkTypeOK, SeenInv

LEMMA GoneStep ==
  ASSUME ~ NameReuse, ClusterTypeOK, NodesStep, NEW n \in NodeName, Seen(n),
         nodes[n] = NotFound
  PROVE  nodes'[n] = NotFound
BY DEF Seen, NodesStep, Kept, Removed, Rewritten, Born, ClusterTypeOK

LEMMA ExpiredStep ==
  ASSUME ~ NameReuse, WorkTypeOK, HeldInv, WorkStep, NEW n \in NodeName, Seen(n),
         GoneOrExpired(n)
  PROVE  GoneOrExpired(n)'
<1>1. NodesStep
  BY WorkNodes
<1>2. CASE nodes[n] = NotFound
  BY <1>1, <1>2, GoneStep DEF GoneOrExpired, WorkTypeOK
<1>3. CASE nodes[n] # NotFound
  <2>1. /\ nodes[n].expiry # NoExpiry /\ nodes[n].expiry <= clock
        /\ nodes[n].expiry \in Nat
    BY <1>3 DEF GoneOrExpired, WorkTypeOK, ClusterTypeOK, NodeObject
  <2>2. nodes'[n] = NotFound \/ nodes'[n].expiry = nodes[n].expiry
    BY <1>1, <1>3, <2>1 DEF NodesStep, Kept, Removed, Rewritten, Born
  <2> QED
    BY <2>1, <2>2, WorkClock DEF GoneOrExpired
<1> QED
  BY <1>2, <1>3

(* A busy killer has the target it had, or the next one of its queue; it   *)
(* gets to the VM by deleting the node object.                             *)
LEMMA KillerTarget ==
  ASSUME WorkTypeOK, WorkStep, NEW k \in Killer, pc'[k] # "idle"
  PROVE  /\ \/ /\ pc[k] # "idle" /\ target'[k] = target[k]
               /\ pc[k] = "failed" => pc'[k] = "failed"
            \/ target'[k] \in queue[k] /\ pc'[k] = "getNode"
         /\ pc'[k] = "deleteInstance" => pc[k] = "deleteInstance" \/ DeleteNode(k)
<1> USE WorkerAssumption DEF WorkTypeOK, EvacuationTypeOK, Goto, Evacuate, Finish
<1>1. ASSUME NEW v \in Worker, EvacuationStep(v)
      PROVE  /\ pc[k] # "idle" /\ target'[k] = target[k]
             /\ pc[k] = "failed" => pc'[k] = "failed"
             /\ pc'[k] = "deleteInstance" => pc[k] = "deleteInstance"
  BY <1>1
  DEF EvacuationStep, GetNode, Cordon, ListPods, DeletePod, DrainFinished, DrainFailed
<1>2. ASSUME NEW j \in Killer, KillerStep(j)
      PROVE  /\ \/ /\ pc[k] # "idle" /\ target'[k] = target[k]
                   /\ pc[k] = "failed" => pc'[k] = "failed"
                \/ target'[k] \in queue[k] /\ pc'[k] = "getNode"
             /\ pc'[k] = "deleteInstance" => pc[k] = "deleteInstance" \/ DeleteNode(k)
  <2>1. CASE j = k
    BY <1>2, <2>1 DEF KillerStep, FindExpiredTimeNodes, NextExpired, DeleteNode, DeleteVM, Free
  <2>2. CASE j # k
    BY <1>2, <2>2 DEF KillerStep, FindExpiredTimeNodes, NextExpired, DeleteNode, DeleteVM, Free
  <2> QED
    BY <2>1, <2>2
<1>3. ASSUME NEW h \in Handler, HandlerStep(h)
      PROVE  pc'[k] = pc[k] /\ target'[k] = target[k]
  BY <1>3 DEF HandlerStep, AcceptRequest, Answer
<1>4. CASE UNCHANGED evacuationVars
  BY <1>4 DEF evacuationVars
<1>5. ~ WorkLost
  BY DEF WorkLost
<1> QED
  BY <1>1, <1>2, <1>3, <1>4, <1>5 DEF WorkStep, work, evacuationVars

(* The queue only loses names, except for those listed just now. *)
LEMMA QueueStep ==
  ASSUME WorkTypeOK, WorkStep, NEW k \in Killer, NEW n \in queue'[k]
  PROVE  \/ n \in queue[k]
         \/ /\ nodes[n] # NotFound /\ Expired(nodes[n]) /\ n \in NodeName
            /\ nodes' = nodes /\ clock' = clock
<1>1. ASSUME NEW j \in Killer, KillerStep(j)
      PROVE  \/ n \in queue[k]
             \/ /\ nodes[n] # NotFound /\ Expired(nodes[n]) /\ n \in NodeName
                /\ nodes' = nodes /\ clock' = clock
  BY <1>1
  DEF KillerStep, FindExpiredTimeNodes, NextExpired, DeleteNode, DeleteVM, WorkTypeOK,
      KillerTypeOK, clusterVars
<1> QED
  BY <1>1 DEF WorkStep, WorkLost, work

(* The killer's nodes are expired, however long ago it listed them. *)
LEMMA ExpiryKept ==
  ASSUME ~ NameReuse, WorkTypeOK, HeldInv, SeenInv, ExpiryInv, WorkStep
  PROVE  ExpiryInv'
<1> USE DEF WorkTypeOK
<1>1. \A n \in NodeName : Seen(n) /\ GoneOrExpired(n) => GoneOrExpired(n)'
  BY ExpiredStep
<1>2. ASSUME NEW k \in Killer, NEW n \in queue'[k] PROVE GoneOrExpired(n)'
  <2>1. CASE n \in queue[k]
    BY <1>1, <2>1 DEF KillerTypeOK, SeenInv, ExpiryInv
  <2>2. CASE /\ nodes[n] # NotFound /\ Expired(nodes[n])
             /\ nodes' = nodes /\ clock' = clock
    BY <2>2 DEF GoneOrExpired, Expired
  <2> QED
    BY <1>2, <2>1, <2>2, QueueStep
<1>3. ASSUME NEW k \in Killer, pc'[k] \notin {"idle", "failed"}
      PROVE  GoneOrExpired(target[k])'
  <2>1. k \in Worker
    BY WorkerAssumption
  <2>2. CASE /\ pc[k] # "idle" /\ target'[k] = target[k]
             /\ (pc[k] = "failed" => pc'[k] = "failed")
    <3>1. target[k] \in NodeName /\ Seen(target[k]) /\ GoneOrExpired(target[k])
      BY <1>3, <2>1, <2>2 DEF ControlInv, SeenInv, ExpiryInv
    <3> QED
      BY <1>1, <2>2, <3>1 DEF GoneOrExpired
  <2>3. CASE target'[k] \in queue[k]
    <3>1. target'[k] \in NodeName /\ Seen(target'[k]) /\ GoneOrExpired(target'[k])
      BY <2>3 DEF KillerTypeOK, SeenInv, ExpiryInv
    <3> QED
      BY <1>1, <3>1 DEF GoneOrExpired
  <2> QED
    BY <1>3, <2>2, <2>3, KillerTarget
<1>4. ASSUME NEW k \in Killer, pc'[k] = "deleteInstance"
      PROVE  nodes'[target'[k]] = NotFound
  <2>1. k \in Worker
    BY WorkerAssumption
  <2>2. CASE pc[k] = "deleteInstance"
    <3>1. /\ target[k] \in NodeName /\ Seen(target[k]) /\ nodes[target[k]] = NotFound
      BY <2>1, <2>2 DEF ControlInv, SeenInv, ExpiryInv
    <3>2. target'[k] = target[k]
      BY <1>4, <2>2, KillerTarget
    <3> QED
      BY <3>1, <3>2, GoneStep, WorkNodes
  <2>3. CASE DeleteNode(k)
    <3>1. target[k] \in NodeName
      BY <2>1, <2>3 DEF DeleteNode, ControlInv
    <3>2. target'[k] = target[k] /\ nodes' = [nodes EXCEPT ![target[k]] = NotFound]
      BY <1>4, <2>1, <2>3
      DEF DeleteNode, DeleteNodeObject, Goto, Finish, EvacuationTypeOK
    <3> QED
      BY <3>1, <3>2 DEF ClusterTypeOK
  <2> QED
    BY <1>4, <2>2, <2>3, KillerTarget
<1> QED
  BY <1>2, <1>3, <1>4 DEF ExpiryInv

(* All that is known of every reachable state. *)
WorkInv == WorkTypeOK /\ HeldInv /\ SeenInv /\ DrainInv /\ ExpiryInv

LEMMA WorkKept ==
  ASSUME ~ NameReuse, OnlyDaemonsTolerate, WorkInv, WorkStep
  PROVE  WorkInv'
BY WorkType, CopiesKept, SeenKept, DrainKept, ExpiryKept DEF WorkInv
=============================================================================
