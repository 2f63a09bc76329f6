---------------------------- MODULE NodeKilling ----------------------------
(***************************************************************************)
(* The server's work on the preemptible nodes: the spotter, the killer and *)
(* the termination handlers, which share nothing but the cluster, together *)
(* with the cluster and with crashes of the server.                        *)
(***************************************************************************)
EXTENDS Workers, Spotter

vars == <<clusterVars, evacuationVars, queue, listed>>

TypeOK ==
  /\ ClusterTypeOK
  /\ EvacuationTypeOK
  /\ KillerTypeOK
  /\ SpotterTypeOK

Init ==
  /\ ClusterInit
  /\ EvacuationInit
  /\ KillerInit
  /\ SpotterInit

(* The server dies and is started again: all it knew is gone. *)
Crash ==
  /\ WorkLost
  /\ listed' = [s \in SpotterThread |-> [n \in NodeName |-> NotFound]]

Next ==
  \/ Environment /\ UNCHANGED <<evacuationVars, queue, listed>>
  \/ \E w \in Worker : EvacuationStep(w) /\ UNCHANGED <<queue, listed>>
  \/ \E k \in Killer : KillerStep(k) /\ UNCHANGED listed
  \/ \E h \in Handler : HandlerStep(h) /\ UNCHANGED <<queue, listed>>
  \/ \E s \in SpotterThread : SpotterStep(s) /\ UNCHANGED <<evacuationVars, queue>>
  \/ Crash

Spec == Init /\ [][Next]_vars

---------------------------------------------------------------------------
(***************************************************************************)
(* Safety.                                                                 *)
(***************************************************************************)

(* No update loses another's: as long as the object exists, a cordon stays *)
(* and an expiry time once written never changes, although the spotter,    *)
(* the killer and the handlers each write back whole objects that they     *)
(* read some steps before (spot, makeNodeUnschedulable).                   *)
NoLostUpdate ==
  [][\A n \in NodeName :
       nodes[n] # NotFound /\ nodes'[n] # NotFound =>
         /\ nodes[n].unschedulable => nodes'[n].unschedulable
         /\ nodes[n].expiry # NoExpiry => nodes'[n].expiry = nodes[n].expiry]_vars

(* The mark of a node is its own: the expiry time was chosen for the       *)
(* creation time of that very object, although the spotter writes it some  *)
(* steps after the list, when the name may have passed to a younger node   *)
(* (spot, getExpiryTimestamp).  Holds even when names are used twice.      *)
MarkedForItself ==
  \A n \in NodeName :
    nodes[n] # NotFound /\ nodes[n].expiry # NoExpiry =>
      nodes[n].expiry \in ExpiryTimes[nodes[n].created]

(* Only an expired node is deleted: when the object of a VM that still     *)
(* runs goes, its expiry time has passed, however old the killer's list is *)
(* (findExpiredTimeNodes, kill).  Holds when no name is used twice.        *)
DeletesOnlyExpired ==
  [][\A n \in NodeName :
       nodes[n] # NotFound /\ nodes'[n] = NotFound /\ n \in vms
         => nodes[n].expiry # NoExpiry /\ nodes[n].expiry <= clock]_vars

(* Only a drained node is deleted: none of the pods an evacuation is for   *)
(* is on it, whoever scheduled pods between the worker's list and the      *)
(* deletion (EvacuatePodsFromNode, deleteNode).                            *)
DeletesOnlyDrained ==
  [][\A n \in NodeName :
       nodes[n] # NotFound /\ nodes'[n] = NotFound /\ n \in vms
         => PodsToBeDeleted(n) = {}]_vars

(* A VM is deleted after its node object, never with the object in place:  *)
(* the API server does not keep a node that has no machine (deleteNode).   *)
InstanceAfterNode ==
  \A k \in Killer : pc[k] = "deleteInstance" => nodes[target[k]] = NotFound

(* 204 is not an empty promise: when a request is answered with success,   *)
(* no pod to evacuate is on its node, and none gets there later            *)
(* (handleTermination, waitforDrainToFinish).                              *)
SuccessMeansDrained ==
  \A w \in Worker : pc[w] = "evacuated" => PodsToBeDeleted(target[w]) = {}

---------------------------------------------------------------------------
(***************************************************************************)
(* Fairness.  The Go scheduler runs every goroutine: a loop that can take  *)
(* a step does.  Time passes, and a pod that was asked to terminate does,  *)
(* unless it is Stuck.  Faults stop at some time; until then there may be  *)
(* any number of them.  Faults are crashes, errors of a call that the      *)
(* cluster had no reason to refuse, and updates that meet a newer revision *)
(* of their node: neither the spotter nor a worker fetches and tries again *)
(* at once, and the kubelet, whose heartbeats are under no fairness, could *)
(* defeat every one of their updates.                                      *)
(***************************************************************************)
KillerLoop(k) ==
  \/ EvacuationStep(k) /\ UNCHANGED <<queue, listed>>
  \/ KillerStep(k) /\ UNCHANGED listed

HandlerRun(h) == (EvacuationStep(h) \/ Answer(h)) /\ UNCHANGED <<queue, listed>>

SpotterLoop(s) == SpotterStep(s) /\ UNCHANGED <<evacuationVars, queue>>

KillerFault(k) ==
  \/ pc[k] = "evacuated" /\ pc'[k] = "idle" /\ nodes[target[k]] # NotFound
  \/ pc[k] = "deleteInstance" /\ pc'[k] = "idle" /\ target[k] \in vms'

SpotterFault(s, n) ==
  /\ listed[s][n] # NotFound /\ listed'[s][n] = NotFound
  /\ nodes[n] # NotFound /\ ExpiryTimes[listed[s][n].created] # {}
  /\ nodes' = nodes

(* A crash that no step of the loops or the handlers looks like: those may *)
(* go on for ever, the idle server's pass that finds nothing included.     *)
CrashFault ==
  /\ Crash
  /\ ~ \E k \in Killer : KillerLoop(k)
  /\ ~ \E h \in Handler : HandlerRun(h)
  /\ ~ \E s \in SpotterThread : SpotterLoop(s)

Fault ==
  \/ CrashFault
  \/ \E w \in Worker : WorkerFault(w)
  \/ \E k \in Killer : KillerFault(k)
  \/ \E s \in SpotterThread, n \in NodeName : SpotterFault(s, n)

Alone(A) == A /\ UNCHANGED <<evacuationVars, queue, listed>>

Fairness ==
  /\ \A k \in Killer : WF_vars(KillerLoop(k))
  /\ \A h \in Handler : WF_vars(HandlerRun(h))
  /\ \A s \in SpotterThread : WF_vars(SpotterLoop(s))
  /\ WF_vars(Alone(Tick))
  /\ \A p \in Pod \ Stuck : WF_vars(Alone(p \in terminating /\ PodGone(p)))
  /\ <>[][~ Fault]_vars

FairSpec == Spec /\ Fairness

(***************************************************************************)
(* Liveness.                                                               *)
(***************************************************************************)

(* A node for which there is an expiry time gets one, or goes: an update   *)
(* that fails, or meets a newer revision, loses the node only until the    *)
(* next list.  Fairness supposes that not every update meets one (spot).   *)
EveryNodeIsMarked ==
  \A n \in NodeName :
    (nodes[n] # NotFound /\ ExpiryTimes[nodes[n].created] # {})
      ~> (nodes[n] = NotFound \/ nodes[n].expiry # NoExpiry)

(* A node that has expired goes, and not even a pod of another node that   *)
(* never terminates can prevent it; only one of its own can.  Fairness     *)
(* supposes that the cordon does not meet a newer revision every time      *)
(* (kill, waitforDrainToFinish).                                           *)
ExpiredNodeGoes ==
  \A n \in NodeName :
    (nodes[n] # NotFound /\ Expired(nodes[n]))
      ~> (nodes[n] = NotFound \/ \E p \in Stuck : host[p] = n)

(* A node is deleted together with its VM (deleteNode).  The code does not *)
(* keep this: the second call is not tried again when it fails, and the VM *)
(* runs on until Compute Engine takes it, which may be most of a day.      *)
InstanceGoesToo ==
  \A n \in NodeName :
    (nodes[n] = NotFound /\ n \in vms) ~> (n \notin vms \/ nodes[n] # NotFound)

---------------------------------------------------------------------------
(* The part of the inductive invariant that is about the spotters' copies. *)
ListedInv ==
  \A s \in SpotterThread, n \in NodeName :
    listed[s][n] # NotFound =>
      Agrees(n, listed[s][n]) /\ listed[s][n].expiry = NoExpiry
=============================================================================
