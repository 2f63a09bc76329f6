------------------------------ MODULE Shifting ------------------------------
(***************************************************************************)
(* The shifter with the on-demand nodes, their pods, the preemptible pools *)
(* and crashes of the server.  The server's other loops only touch nodes   *)
(* with the preemptible label; what they do to the preemptible pools is    *)
(* part of PoolEnvironment.                                                *)
(***************************************************************************)
EXTENDS Shifter

ASSUME OnlyShifters == Worker = Shifter

vars == <<clusterVars, evacuationVars, poolVars, shifterVars>>

TypeOK ==
  /\ ClusterTypeOK
  /\ EvacuationTypeOK
  /\ PoolTypeOK
  /\ ShifterTypeOK

Init ==
  /\ ClusterInit
  /\ EvacuationInit
  /\ PoolInit
  /\ ShifterInit

Crash ==
  /\ pc' = [w \in Worker |-> "idle"]
  /\ target' = [w \in Worker |-> NoNode]
  /\ held' = [w \in Worker |-> NotFound]
  /\ todo' = [w \in Worker |-> {}]
  /\ due' = [s \in Shifter |-> {}]
  /\ shift' = [s \in Shifter |-> Resting]
  /\ grown' = [s \in Shifter |-> 0]
  /\ UNCHANGED <<clusterVars, poolVars>>

ShifterLoop(s) ==
  \/ ShifterStep(s)
  \/ EvacuationStep(s) /\ UNCHANGED <<poolVars, shifterVars>>

Next ==
  \/ \E s \in Shifter : ShifterLoop(s)
  \/ Environment /\ UNCHANGED <<evacuationVars, poolVars, shifterVars>>
  \/ PoolEnvironment /\ UNCHANGED <<clusterVars, evacuationVars, shifterVars>>
  \/ Crash

Spec == Init /\ [][Next]_vars

---------------------------------------------------------------------------
(* A source node is drained before it is deleted: no pod the evacuation is *)
(* for is on it when its object goes, whatever the scheduler did since the *)
(* shifter listed and cordoned the pool (shift).                           *)
SourceIsDrained ==
  [][\A n \in NodeName :
       nodes[n] # NotFound /\ nodes'[n] = NotFound /\ n \in vms
         => PodsToBeDeleted(n) = {}]_vars

(* While the shifter moves a pool, none of the nodes it has still to come  *)
(* to is open: the pods it evacuates cannot land on the next node of the   *)
(* list, hours after that list was made (makeNodeUnschedulable, shift).    *)
SourceStaysShut ==
  \A s \in Shifter :
    shift[s].at \in {"node", "size", "resize", "evacuate"} =>
      \A n \in NodeName :
        n \in shift[s].source \cup {shift[s].node} => GoneOrCordoned(n)

(* The comment over the resize says that it is to the current size of the  *)
(* preemptible pool and one, so one that succeeds should leave the pool    *)
(* larger by one at least.  But what is read, some steps before, is not    *)
(* the size of the pool but the number of nodes that are registered in its *)
(* fullest zone: after a preemption, or while machines are not to be had,  *)
(* the call asks for what the pool has already, or for less               *)
(* (getNodePoolSize, shift).                                               *)
ResizeAddsOne ==
  [][\A s \in Shifter :
       grown'[s] = grown[s] + 1 =>
         LET p == shift[s].pool[2] IN size'[p] >= Min({size[p] + 1, MaxSize})]_vars

(* The promise of PoolMove, seen in the objects of the cluster and in what *)
(* each shifter counts.  Room is counted in resizes that succeeded: it is  *)
(* what the shifter takes itself to have, not nodes that are there.        *)
Rooms == [s \in Shifter |-> NumberOfZones * grown[s] - shift[s].deleted]

Move == INSTANCE PoolMove WITH
  Node <- NodeName, Mover <- Shifter, Ration <- NumberOfZones,
  stage <- Stages, load <- Loads, machines <- vms, room <- Rooms

(* The shifters and the cluster keep that promise, errors, lost answers    *)
(* and crashes included, if no name is used twice and only the pods that   *)
(* an evacuation spares tolerate a cordon (shift, makeNodeUnschedulable,   *)
(* EvacuatePodsFromNode, SetNodePoolSize).                                 *)
MovesInOrder == Move!Spec

---------------------------------------------------------------------------
(***************************************************************************)
(* Fairness, as in NodeKilling: goroutines run, pods terminate, and the    *)
(* errors the cluster had no reason for, or that come of a newer revision  *)
(* of a node, come to an end.                                              *)
(***************************************************************************)
ShifterFault(s) ==
  LET at == shift[s].at
  IN \/ at = "idle" /\ due'[s] # due[s] /\ due[s] # {} /\ shift'[s].at = "idle"
     \/ /\ at = "pool" /\ shift'[s].at = "pool"
        /\ \E pool \in shift[s].pools \ shift'[s].pools :
             OnDemandSize(pool[1]) > MinNodeCount[pool[1]]
     \/ at = "list" /\ shift'[s].at = "pool"
     \/ /\ at = "cordon" /\ shift'[s].at = "pool"
        /\ \A n \in shift[s].uncordoned : nodes[n] # NotFound
     \/ at \in {"size", "resize"} /\ shift'[s].at = "idle"
     \/ /\ at = "evacuate" /\ pc[s] = "evacuated" /\ nodes[shift[s].node] # NotFound
        /\ shift'[s].deleted = shift[s].deleted

CrashFault == Crash /\ ~ \E s \in Shifter : ShifterLoop(s)

Fault ==
  \/ CrashFault
  \/ \E s \in Shifter : WorkerFault(s) \/ ShifterFault(s)

Alone(A) == A /\ UNCHANGED <<evacuationVars, poolVars, shifterVars>>

Fairness ==
  /\ \A s \in Shifter : WF_vars(ShifterLoop(s))
  /\ \A p \in Pod \ Stuck : WF_vars(Alone(p \in terminating /\ PodGone(p)))
  /\ <>[][~ Fault]_vars

FairSpec == Spec /\ Fairness

(* The docs say that a pool over its minimum is moved and its nodes are    *)
(* killed; so a node that the shifter cordons should go in the end.  But a *)
(* node left behind by a failed drain is not come back to once the others  *)
(* are gone and the pool is at its minimum: it stays, and takes no pods    *)
(* (shift, makeNodeUnschedulable).                                         *)
CordonedSourceGoes ==
  \A n \in NodeName :
    (nodes[n] # NotFound /\ nodes[n].unschedulable) ~> nodes[n] = NotFound
=============================================================================
