----------------------------- MODULE Preemption -----------------------------
(***************************************************************************)
(* The path of a preemption: the client on the node, the server's handlers *)
(* and its killer, which work on the same cluster, and the life of both    *)
(* processes, with their shutdowns, crashes and broken connections.        *)
(***************************************************************************)
EXTENDS Workers, ServerProcess, Informer

CONSTANT NoHandler

VARIABLE serving    \* serving[n]: the handler whose answer n's client waits for

vars == <<clusterVars, evacuationVars, queue, serverVars, informerVars, serving>>

ASSUME PreemptionAssumption ==
  /\ Killer \subseteq Loop /\ Handler \cap Service = {}
  /\ NoHandler \notin Handler

TypeOK ==
  /\ ClusterTypeOK
  /\ EvacuationTypeOK
  /\ KillerTypeOK
  /\ InformerTypeOK
  /\ main \in {"running", "stopping", "down"}
  /\ service \in [Service -> {"select", "pass", "returned"}]
  /\ wg \in 0 .. Cardinality(Service)
  /\ blocked \subseteq Loop \cup Handler
  /\ serving \in [NodeName -> Handler \cup {NoHandler}]

Init ==
  /\ ClusterInit
  /\ EvacuationInit
  /\ KillerInit
  /\ ServerInit
  /\ InformerInit
  /\ serving = [n \in NodeName |-> NoHandler]

---------------------------------------------------------------------------
(***************************************************************************)
(* The loops.                                                              *)
(***************************************************************************)

(* The steps after which a worker publishes: the ends of an evacuation,    *)
(* except when the node could not be fetched, and both calls of deleteNode. *)
Publishes(w) ==
  \/ /\ pc[w] \in {"cordon", "listPods", "deletePod", "wait"}
     /\ pc'[w] \in {"evacuated", "failed"}
  \/ w \in Killer /\ pc[w] \in {"evacuated", "deleteInstance"}

Works(w) ==
  /\ w \notin blocked
  /\ IF Publishes(w) THEN Publish(w) ELSE UNCHANGED blocked

(* The clients of the VMs that are still there. *)
VMsGo ==
  /\ GoneWithVMs
  /\ serving' = [n \in NodeName |-> IF n \in vms' THEN serving[n] ELSE NoHandler]

(* The killer in its pass, which ends with the last node of its list. *)
KillerRun(k) ==
  /\ service[k] = "pass"
  /\ \/ EvacuationStep(k) /\ UNCHANGED queue
     \/ KillerStep(k)
  /\ Works(k)
  /\ IF Free(k)' /\ queue'[k] = {} THEN EndPass(k) ELSE UNCHANGED service
  /\ VMsGo
  /\ UNCHANGED <<main, wg>>

(* findExpiredTimeNodes meets an error, or any step of another loop does:  *)
(* it publishes and the pass is over.                                      *)
PassFails(s) ==
  /\ service[s] = "pass" /\ s \notin blocked
  /\ s \in Killer => Free(s) /\ queue[s] = {}
  /\ Publish(s)
  /\ EndPass(s)
  /\ UNCHANGED <<clusterVars, evacuationVars, queue, main, wg, informerVars, serving>>

(* A pass of another loop ends; the spotter's may have marked a node,      *)
(* which is all that the path of a preemption sees of it.                  *)
PassEnds(s) ==
  /\ s \notin Killer /\ service[s] = "pass" /\ s \notin blocked
  /\ \/ UNCHANGED <<clusterVars, blocked>>
     \/ /\ \E n \in NodeName, t \in Time :
             /\ nodes[n] # NotFound /\ nodes[n].expiry = NoExpiry
             /\ UpdateNode(n, [nodes[n] EXCEPT !.expiry = t], TRUE)
        /\ Publish(s)
  /\ EndPass(s)
  /\ UNCHANGED <<evacuationVars, queue, main, wg, informerVars, serving>>

---------------------------------------------------------------------------
(***************************************************************************)
(* Requests.                                                               *)
(***************************************************************************)

(* The request reaches a handler. *)
Request(n, h) ==
  /\ Listening
  /\ Send(n)
  /\ AcceptRequest(h, n)
  /\ serving' = [serving EXCEPT ![n] = h]
  /\ UNCHANGED <<queue, serverVars>>

(* ... whose GetNode fails: 500 at once; or the connection breaks before   *)
(* the whole request has arrived.                                          *)
RequestRefused(n) ==
  /\ Listening
  /\ client[n] = "informing" /\ CanBeSent(n)
  /\ \E keep \in BOOLEAN : Refused500(n, keep)
  /\ UNCHANGED <<clusterVars, evacuationVars, queue, serverVars, serving>>

(* ... or not even the server.  A try with nothing to send ends here too. *)
RequestFails(n) ==
  /\ TryFails(n)
  /\ UNCHANGED <<clusterVars, evacuationVars, queue, serverVars, serving>>

(* A failed evacuation is followed by two calls of WriteHeader; net/http    *)
(* keeps the first one.  Slip: the last one.                               *)
Written(h) == IF pc[h] = "evacuated" THEN <<204>> ELSE <<500, 204>>

LastStatus(h) == Written(h)[Len(Written(h))]

Status(h) == Written(h)[1]

(* A handler evacuates its node, whatever happens to the client. *)
HandlerRun(h) ==
  /\ EvacuationStep(h)
  /\ Works(h)
  /\ UNCHANGED <<queue, main, service, wg, informerVars, serving>>

(* The client gets the answer, if it is still there and waits for this one. *)
(* A server that shuts down closes the connection.                         *)
HandlerAnswers(h) ==
  /\ h \notin blocked
  /\ Answer(h)
  /\ \/ \E n \in NodeName :
          /\ serving[n] = h /\ client[n] = "waiting"
          /\ IF Status(h) = 204 THEN Succeeded(n)
             ELSE Refused500(n, Listening)
     \/ /\ \A n \in NodeName : serving[n] # h
        /\ UNCHANGED informerVars
  /\ serving' = [n \in NodeName |-> IF serving[n] = h THEN NoHandler ELSE serving[n]]
  /\ UNCHANGED <<queue, serverVars>>

(* The connection breaks, and the client's Do returns an error. *)
ConnectionBreaks(n) ==
  /\ serving[n] # NoHandler \/ pooled[n]
  /\ serving' = [serving EXCEPT ![n] = NoHandler]
  /\ pooled' = [pooled EXCEPT ![n] = FALSE]
  /\ UNCHANGED <<clusterVars, evacuationVars, queue, serverVars,
                 noticed, client, tries, body, leaving>>

RequestBroken(n) ==
  /\ serving[n] = NoHandler /\ Broken(n)
  /\ UNCHANGED <<clusterVars, evacuationVars, queue, serverVars, serving>>

ClientDies(n) ==
  /\ KillClient(n)
  /\ serving' = [serving EXCEPT ![n] = NoHandler]
  /\ UNCHANGED <<clusterVars, evacuationVars, queue, serverVars>>

---------------------------------------------------------------------------
(***************************************************************************)
(* The server's process.                                                   *)
(***************************************************************************)

(* With the process go the handlers, whatever its loops were doing, and    *)
(* the connections.                                                        *)
WithAllWork(A) ==
  /\ A
  /\ WorkLost
  /\ serving' = [n \in NodeName |-> NoHandler]
  /\ pooled' = [n \in NodeName |-> FALSE]
  /\ UNCHANGED <<noticed, client, tries, body, leaving>>

ServersAlone(A) ==
  A /\ UNCHANGED <<clusterVars, evacuationVars, queue, informerVars, serving>>

ClientsAlone(A) ==
  A /\ UNCHANGED <<clusterVars, evacuationVars, queue, serverVars, serving>>

Next ==
  \/ Environment /\ VMsGo /\ UNCHANGED <<evacuationVars, queue, serverVars>>
  \/ \E k \in Killer : KillerRun(k)
  \/ \E s \in Loop : PassFails(s)
  \/ \E s \in Loop : PassEnds(s)
  \/ \E n \in NodeName, h \in Handler : Request(n, h)
  \/ \E n \in NodeName : RequestRefused(n)
  \/ \E n \in NodeName : RequestFails(n)
  \/ \E h \in Handler : HandlerRun(h)
  \/ \E h \in Handler : HandlerAnswers(h)
  \/ \E n \in NodeName : ConnectionBreaks(n)
  \/ \E n \in NodeName : RequestBroken(n)
  \/ \E n \in NodeName : ClientDies(n)
  \/ WithAllWork(Exit)
  \/ WithAllWork(Kill)
  \/ ServersAlone(StartServer)
  \/ ServersAlone(Signal)
  \/ \E s \in Loop : ServersAlone(BeginPass(s))
  \/ \E s \in Service : ServersAlone(Return(s))
  \/ \E n \in NodeName : ClientsAlone(Notice(n))
  \/ \E n \in NodeName : ClientsAlone(StartClient(n))
  \/ \E n \in NodeName : ClientsAlone(Terminate(n))
  \/ \E n \in NodeName : ClientsAlone(Stop(n) \/ Notified(n))

Spec == Init /\ [][Next]_vars

---------------------------------------------------------------------------
(***************************************************************************)
(* Safety.                                                                 *)
(***************************************************************************)

(* A client that was told 204 has no pod to lose any more: whichever of    *)
(* its requests was answered, whatever other worker failed on its node and *)
(* however often client and server were started again in between           *)
(* (informPreemption, handleTermination, EvacuatePodsFromNode).            *)
InformedMeansDrained ==
  \A n \in NodeName : client[n] = "informed" => PodsToBeDeleted(n) = {}

(* main does not end by itself with a node half deleted: when Wait lets it *)
(* go, no killer is between the evacuation of a node, the deletion of its  *)
(* object and that of its VM (Start's select, wg.Done).  It says nothing   *)
(* of a killer that hangs in publish between the two deletions: that one   *)
(* keeps main waiting, and a SIGKILL then leaves the VM without an object. *)
NothingHalfDone ==
  main = "stopping" /\ wg = 0 =>
    \A k \in Killer : pc[k] \in {"idle", "failed"} /\ queue[k] = {}

(* No message is lost without a trace: nobody waits in publish while the   *)
(* server runs, and a loop that does has not called Done, so that main,    *)
(* too, waits for the reader that has left (publish, the notifier's Start, *)
(* wg.Wait).                                                               *)
OnlyShutdownHangs ==
  /\ blocked # {} => main = "stopping"
  /\ \A s \in blocked \cap Loop : service[s] = "pass" /\ wg > 0

(* The docs call them retries, so each try should have a request to send.  *)
(* After a connection that broke it has none: informPreemption gives the   *)
(* same request, its body read, to a new connection.                       *)
RetriesCanBeSent ==
  \A n \in NodeName : client[n] = "informing" /\ Listening => CanBeSent(n)

---------------------------------------------------------------------------
(***************************************************************************)
(* Fairness.  The Go scheduler runs every goroutine that can take a step.  *)
(* Nothing is assumed of signals, crashes, connections, or of the nodes.   *)
(***************************************************************************)
ClientRun(n) ==
  \/ \E h \in Handler : Request(n, h)
  \/ RequestRefused(n)
  \/ RequestFails(n)
  \/ RequestBroken(n)

Fairness ==
  /\ \A k \in Killer : WF_vars(KillerRun(k))
  /\ \A s \in Loop : WF_vars(PassEnds(s))
  /\ \A h \in Handler : WF_vars(HandlerRun(h) \/ HandlerAnswers(h))
  /\ \A s \in Service : WF_vars(ServersAlone(Return(s)))
  /\ WF_vars(WithAllWork(Exit))
  /\ \A n \in NodeName : WF_vars(ClientRun(n))

FairSpec == Spec /\ Fairness

(***************************************************************************)
(* Liveness.                                                               *)
(***************************************************************************)

(* A server that is told to stop does, unless one of its loops publishes   *)
(* after the notifier has returned: that one waits for ever, and main      *)
(* waits for it (publish, Start's select, wg.Wait).                        *)
ShutdownEnds == main = "stopping" ~> (main = "down" \/ blocked \cap Loop # {})

(* The handler of the client's request is hung in the same way: there is   *)
(* no timeout on either side.                                              *)
Unanswerable(n) == serving[n] \in blocked

(* A client that has begun to inform the server comes to an end, through   *)
(* answers, errors and restarts of the server (informPreemption).          *)
InformingEnds ==
  \A n \in NodeName :
    client[n] \in {"informing", "waiting"}
      ~> \/ client[n] \in {"informed", "gaveUp", "off"}
         \/ Unanswerable(n)
=============================================================================
