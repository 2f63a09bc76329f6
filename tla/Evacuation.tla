----------------------------- MODULE Evacuation -----------------------------
(***************************************************************************)
(* KillerService.EvacuatePodsFromNode (pkg/killer/node.go) and the pod     *)
(* filters it uses (pkg/killer/pod.go): fetch the node, cordon it, delete  *)
(* its pods, wait until they are gone.  The killer loop, every HTTP        *)
(* handler and the shifter run it, in goroutines of their own: they are    *)
(* the workers.                                                            *)
(*                                                                         *)
(* A worker is at the API call that pc names; "evacuated" and "failed" are *)
(* the two ways the function returns to its caller.                        *)
(***************************************************************************)
EXTENDS Cluster, Sequences

CONSTANT Worker     \* the goroutines that evacuate nodes

VARIABLES
  pc,         \* the call each worker is about to make
  target,     \* the node name it was given
  held,       \* the node object it fetched, until the cordon
  todo        \* the pods it still has to delete

evacuationVars == <<pc, target, held, todo>>

Label == {"idle", "getNode", "cordon", "listPods", "deletePod", "wait",
          "evacuated", "failed", "deleteInstance"}

(* One entry per owner reference that is not a DaemonSet's: a pod without *)
(* owners has none, a pod with two owners has two.                        *)
Entries(p) ==
  IF p \in Mirror THEN {}
  ELSE {<<p, i>> : i \in {j \in DOMAIN Owners[p] : Owners[p][j] # "DaemonSet"}}

PodsToBeDeleted(n) == UNION {Entries(p) : p \in PodsOn(n)}

EvacuationTypeOK ==
  /\ pc \in [Worker -> Label]
  /\ target \in [Worker -> NodeName \cup {NoNode}]
  /\ held \in [Worker -> NodeObject \cup {NotFound}]
  /\ todo \in [Worker -> SUBSET (UNION {Entries(p) : p \in Pod})]

EvacuationInit ==
  /\ pc = [w \in Worker |-> "idle"]
  /\ target = [w \in Worker |-> NoNode]
  /\ held = [w \in Worker |-> NotFound]
  /\ todo = [w \in Worker |-> {}]

Goto(w, l) == pc' = [pc EXCEPT ![w] = l]

(* The call: the worker's caller names the node. *)
Evacuate(w, n) ==
  /\ Goto(w, "getNode")
  /\ target' = [target EXCEPT ![w] = n]
  /\ UNCHANGED <<held, todo>>

(* The return: the caller goes on with its own business. *)
Finish(w) ==
  /\ Goto(w, "idle")
  /\ target' = [target EXCEPT ![w] = NoNode]
  /\ UNCHANGED <<held, todo>>

GetNode(w) ==
  /\ pc[w] = "getNode"
  /\ \/ /\ nodes[target[w]] # NotFound
        /\ held' = [held EXCEPT ![w] = nodes[target[w]]]
        /\ Goto(w, "cordon")
     \/ held' = held /\ Goto(w, "failed")
  /\ UNCHANGED <<clusterVars, target, todo>>

Cordoned(o) == [o EXCEPT !.unschedulable = TRUE]

(* Two slips the checks have to notice: the cordon that takes the newest   *)
(* revision for its old object, and the one that goes on after an error.   *)
CordonForced(w) ==
  /\ pc[w] = "cordon"
  /\ nodes[target[w]] # NotFound
  /\ LET o == [Cordoned(held[w]) EXCEPT !.rv = nodes[target[w]].rv]
     IN UpdateNode(target[w], o, TRUE) /\ Goto(w, "listPods")
  /\ held' = [held EXCEPT ![w] = NotFound]
  /\ UNCHANGED <<target, todo>>

CordonUnchecked(w) ==
  /\ pc[w] = "cordon"
  /\ \E ok \in BOOLEAN : UpdateNode(target[w], Cordoned(held[w]), ok)
  /\ Goto(w, "listPods")
  /\ held' = [held EXCEPT ![w] = NotFound]
  /\ UNCHANGED <<target, todo>>

(* makeNodeUnschedulable writes back the object that was fetched. *)
Cordon(w) ==
  /\ pc[w] = "cordon"
  /\ \E ok \in BOOLEAN :
       /\ UpdateNode(target[w], Cordoned(held[w]), ok)
       /\ Goto(w, IF ok THEN "listPods" ELSE "failed")
  /\ held' = [held EXCEPT ![w] = NotFound]
  /\ UNCHANGED <<target, todo>>

(* startNodeDrain: one list, then one call per pod of that list. *)
ListPods(w) ==
  /\ pc[w] = "listPods"
  /\ \/ /\ todo' = [todo EXCEPT ![w] = PodsToBeDeleted(target[w])]
        /\ Goto(w, IF todo'[w] = {} THEN "wait" ELSE "deletePod")
     \/ todo' = todo /\ Goto(w, "failed")
  /\ UNCHANGED <<clusterVars, target, held>>

(* The first error, a pod that is gone already included, ends the drain. *)
DeletePod(w, e) ==
  /\ pc[w] = "deletePod"
  /\ e \in todo[w]
  /\ \E ok \in BOOLEAN :
       /\ DeletePodObject(e[1], ok)
       /\ todo' = [todo EXCEPT ![w] = IF ok THEN @ \ {e} ELSE {}]
       /\ Goto(w, IF ~ok THEN "failed"
                  ELSE IF todo'[w] = {} THEN "wait" ELSE "deletePod")
  /\ UNCHANGED <<target, held>>

(* Slip: the wait that ends without looking. *)
DrainAssumed(w) ==
  /\ pc[w] = "wait"
  /\ Goto(w, "evacuated")
  /\ UNCHANGED <<clusterVars, target, held, todo>>

(* waitforDrainToFinish: list again and again; an empty list ends it.  The *)
(* pods that bare ownership or the mirror annotation filtered out of the   *)
(* drain are filtered out here too.                                        *)
DrainFinished(w) ==
  /\ pc[w] = "wait"
  /\ PodsToBeDeleted(target[w]) = {}
  /\ Goto(w, "evacuated")
  /\ UNCHANGED <<clusterVars, target, held, todo>>

(* ... and so does an error of the call, or pods that outlive the timeout. *)
DrainFailed(w) ==
  /\ pc[w] = "wait"
  /\ Goto(w, "failed")
  /\ UNCHANGED <<clusterVars, target, held, todo>>

EvacuationStep(w) ==
  \/ GetNode(w)
  \/ Cordon(w)
  \/ ListPods(w)
  \/ \E e \in todo[w] : DeletePod(w, e)
  \/ DrainFinished(w)
  \/ DrainFailed(w)

---------------------------------------------------------------------------
(* The errors that the state of the cluster explains and that stay until   *)
(* that state changes; any other one is a fault, which the liveness        *)
(* properties assume to stop at some time.  So is a cordon that meets a    *)
(* newer revision of its node: the kubelet may go on writing for ever, and *)
(* nothing in the code makes one of the worker's tries win.                *)
Refused(w) ==
  \/ pc[w] \in {"getNode", "cordon"} /\ nodes[target[w]] = NotFound
  \/ pc[w] = "deletePod" /\ \E e \in todo[w] : host[e[1]] = NoNode
  \/ pc[w] = "wait" /\ PodsToBeDeleted(target[w]) # {}

WorkerFault(w) == pc[w] # "failed" /\ pc'[w] = "failed" /\ ~ Refused(w)

---------------------------------------------------------------------------
(***************************************************************************)
(* What the abstract specifications see of a node.                         *)
(***************************************************************************)
Stages ==
  [n \in NodeName |->
     IF nodes[n] = NotFound THEN (IF Seen(n) THEN "gone" ELSE "unborn")
     ELSE IF nodes[n].unschedulable THEN "cordoned" ELSE "open"]

Loads == [n \in NodeName |-> PodsToBeDeleted(n)]

---------------------------------------------------------------------------
(***************************************************************************)
(* The parts of the inductive invariants that are about evacuations.       *)
(***************************************************************************)

(* A worker that is not idle has a target, one about to cordon an object. *)
ControlInv ==
  /\ \A w \in Worker : pc[w] # "idle" => target[w] \in NodeName
  /\ \A w \in Worker : pc[w] = "cordon" => held[w] \in NodeObject

(* A copy of an object is the object, or older than it. *)
Agrees(n, o) ==
  /\ o.rv <= revision[n]
  /\ Current(n, o) => nodes[n] = o

HeldInv ==
  /\ \A n \in NodeName : nodes[n] # NotFound => nodes[n].rv = revision[n]
  /\ \A w \in Worker : pc[w] = "cordon" => Agrees(target[w], held[w])

(* From the cordon on the target takes no pods, until it is gone. *)
GoneOrCordoned(n) == nodes[n] = NotFound \/ nodes[n].unschedulable

DrainInv ==
  \A w \in Worker :
    /\ pc[w] \in {"listPods", "deletePod", "wait", "evacuated"} => GoneOrCordoned(target[w])
    /\ pc[w] = "evacuated" => PodsToBeDeleted(target[w]) = {}

(* The pods that are put on cordoned nodes are not those to be deleted. *)
OnlyDaemonsTolerate == \A p \in Tolerant : Entries(p) = {}
=============================================================================
