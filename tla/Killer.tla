------------------------------- MODULE Killer -------------------------------
(***************************************************************************)
(* The killer loop (pkg/killer/killer.go, pkg/killer/node.go): list the    *)
(* nodes, keep those whose expiry time has passed, and for each of them    *)
(* evacuate, delete the node object, delete the VM.  Any error moves on to *)
(* the next node of the list, which may be long out of date by then.       *)
(***************************************************************************)
EXTENDS Evacuation

CONSTANT Killer      \* the killer's goroutine, one in each server

VARIABLE queue       \* queue[k]: the nodes listed that k did not come to yet

(* Slip: off by one tick. *)
ExpiredSoon(o) == o.expiry # NoExpiry /\ o.expiry <= clock + 1

Expired(o) == o.expiry # NoExpiry /\ o.expiry <= clock

KillerTypeOK == queue \in [Killer -> SUBSET NodeName]

KillerInit == queue = [k \in Killer |-> {}]

Free(k) == pc[k] \in {"idle", "failed"}

(* Slip: a node without the annotation counts as expired. *)
FindUnmarkedNodesToo(k) ==
  /\ Free(k) /\ queue[k] = {}
  /\ queue' = [queue EXCEPT ![k] =
       {n \in NodeName : nodes[n] # NotFound /\
                            (nodes[n].expiry = NoExpiry \/ Expired(nodes[n]))}]
  /\ Finish(k)
  /\ UNCHANGED clusterVars

(* findExpiredTimeNodes: one list and one reading of the clock. *)
FindExpiredTimeNodes(k) ==
  /\ Free(k) /\ queue[k] = {}
  /\ queue' = [queue EXCEPT ![k] =
                 {n \in NodeName : nodes[n] # NotFound /\ Expired(nodes[n])}]
  /\ Finish(k)
  /\ UNCHANGED clusterVars

(* Slip: an error ends the pass. *)
NextUnlessFailed(k) ==
  /\ \/ /\ pc[k] = "idle"
        /\ \E n \in queue[k] :
             /\ queue' = [queue EXCEPT ![k] = @ \ {n}]
             /\ Evacuate(k, n)
     \/ /\ pc[k] = "failed"
        /\ queue' = [queue EXCEPT ![k] = {}]
        /\ Finish(k)
  /\ UNCHANGED clusterVars

(* kill: the next node of the list. *)
NextExpired(k) ==
  /\ Free(k)
  /\ \E n \in queue[k] :
       /\ queue' = [queue EXCEPT ![k] = @ \ {n}]
       /\ Evacuate(k, n)
  /\ UNCHANGED clusterVars

(* Slips: the loop goes on to deleteNode after a failed evacuation, and    *)
(* deleteNode goes on to the VM after an error.                            *)
DeleteNodeAnyway(k) ==
  /\ pc[k] \in {"evacuated", "failed"}
  /\ \E ok \in BOOLEAN :
       /\ DeleteNodeObject(target[k], ok)
       /\ IF ok THEN Goto(k, "deleteInstance") /\ UNCHANGED <<target, held, todo>>
                ELSE Finish(k)
  /\ UNCHANGED queue

DeleteNodeUnchecked(k) ==
  /\ pc[k] = "evacuated"
  /\ \E ok \in BOOLEAN : DeleteNodeObject(target[k], ok)
  /\ Goto(k, "deleteInstance")
  /\ UNCHANGED <<target, held, todo, queue>>

(* deleteNode, first half: by name, whatever the object is by now. *)
DeleteNode(k) ==
  /\ pc[k] = "evacuated"
  /\ \E ok \in BOOLEAN :
       /\ DeleteNodeObject(target[k], ok)
       /\ IF ok THEN Goto(k, "deleteInstance") /\ UNCHANGED <<target, held, todo>>
                ELSE Finish(k)
  /\ UNCHANGED queue

(* deleteNode, second half: an error is reported and not tried again. *)
DeleteVM(k) ==
  /\ pc[k] = "deleteInstance"
  /\ \E ok \in BOOLEAN : DeleteInstance(target[k], ok)
  /\ Finish(k)
  /\ UNCHANGED queue

KillerStep(k) ==
  \/ FindExpiredTimeNodes(k)
  \/ NextExpired(k)
  \/ DeleteNode(k)
  \/ DeleteVM(k)
=============================================================================
