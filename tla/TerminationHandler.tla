------------------------- MODULE TerminationHandler -------------------------
(***************************************************************************)
(* Server.handleTermination (pkg/httpserver/handlers.go): the informer of  *)
(* a node whose VM is about to be taken asks for its pods to be evacuated. *)
(* Each request has a goroutine, which fetches the node for its labels and *)
(* then evacuates it by name.                                              *)
(***************************************************************************)
EXTENDS Evacuation

CONSTANT Handler     \* the goroutines of the requests

(* A request that names a node the API server does not have, or that meets *)
(* an error, is answered 500 at once: the handler stays idle.              *)
AcceptRequest(h, n) ==
  /\ pc[h] = "idle"
  /\ nodes[n] # NotFound
  /\ Evacuate(h, n)
  /\ UNCHANGED clusterVars

(* 204 after "evacuated", 500 after "failed". *)
Answer(h) ==
  /\ pc[h] \in {"evacuated", "failed"}
  /\ Finish(h)
  /\ UNCHANGED clusterVars

HandlerStep(h) ==
  \/ \E n \in NodeName : AcceptRequest(h, n)
  \/ Answer(h)
=============================================================================
