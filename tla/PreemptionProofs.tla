-------------------------- MODULE PreemptionProofs --------------------------
(***************************************************************************)
(* Proofs about the path of a preemption, for any number of nodes, pods,   *)
(* handlers, loops and tries: whatever crashes, restarts, breaks or is     *)
(* shut down, a 204 means a drained node, and no killer is left half way.  *)
(***************************************************************************)
EXTENDS Preemption, NodeLifecycleProofs, FiniteSetTheorems

(* No step does more to the cluster and the workers than WorkStep: the     *)
(* pass of another loop that ends with a mark is the spotter's.            *)
LEMMA StepsWork ==
  ASSUME WorkTypeOK, HeldInv, [Next]_vars
  PROVE  WorkStep
<1> USE DEF WorkStep, work
<1>1. CASE UNCHANGED vars
  BY <1>1 DEF vars
<1>2. CASE \/ Environment /\ VMsGo /\ UNCHANGED <<evacuationVars, queue, serverVars>>
           \/ \E k \in Killer : KillerRun(k)
  BY <1>2, WorkerAssumption DEF KillerRun
<1>3. ASSUME NEW s \in Loop, PassEnds(s) PROVE WorkStep
  <2>1. CASE UNCHANGED clusterVars
    BY <1>3, <2>1 DEF PassEnds
  <2>2. ASSUME NEW n \in NodeName, NEW t \in Time, nodes[n] # NotFound,
               nodes[n].expiry = NoExpiry,
               UpdateNode(n, [nodes[n] EXCEPT !.expiry = t], TRUE)
        PROVE  MarkStep
    <3>1. nodes[n] \in NodeObject /\ Agrees(n, nodes[n])
      BY <2>2, AgreesNow DEF WorkTypeOK, ClusterTypeOK
    <3>2. t \in Nat
      BY ClusterAssumption DEF Time
    <3>3. UpdateNode(n, Marked(nodes[n], t), TRUE)
      BY <2>2 DEF Marked
    <3> QED
      BY <2>2, <3>1, <3>2, <3>3 DEF MarkStep
  <2> QED
    BY <1>3, <2>1, <2>2 DEF PassEnds
<1>4. CASE \/ \E s \in Loop : PassFails(s)
           \/ \E n \in NodeName, h \in Handler : Request(n, h)
           \/ \E n \in NodeName : RequestRefused(n)
           \/ \E n \in NodeName : RequestFails(n)
  BY <1>4 DEF PassFails, Request, RequestRefused, RequestFails, HandlerStep
<1>5. CASE \/ \E h \in Handler : HandlerRun(h)
           \/ \E h \in Handler : HandlerAnswers(h)
  BY <1>5, WorkerAssumption DEF HandlerRun, HandlerAnswers, HandlerStep
<1>6. CASE \/ \E n \in NodeName : ConnectionBreaks(n)
           \/ \E n \in NodeName : RequestBroken(n)
           \/ \E n \in NodeName : ClientDies(n)
  BY <1>6 DEF ConnectionBreaks, RequestBroken, ClientDies
<1>7. CASE \/ WithAllWork(Exit)
           \/ WithAllWork(Kill)
  BY <1>7 DEF WithAllWork
<1>8. CASE \/ ServersAlone(StartServer)
           \/ ServersAlone(Signal)
           \/ \E s \in Loop : ServersAlone(BeginPass(s))
           \/ \E s \in Service : ServersAlone(Return(s))
  BY <1>8 DEF ServersAlone
<1>9. CASE \/ \E n \in NodeName : ClientsAlone(Notice(n))
           \/ \E n \in NodeName : ClientsAlone(StartClient(n))
           \/ \E n \in NodeName : ClientsAlone(Terminate(n))
           \/ \E n \in NodeName : ClientsAlone(Stop(n) \/ Notified(n))
  BY <1>9 DEF ClientsAlone
<1> QED
  BY <1>1, <1>2, <1>3, <1>4, <1>5, <1>6, <1>7, <1>8, <1>9 DEF Next

---------------------------------------------------------------------------
(***************************************************************************)
(* The cluster and the workers.                                            *)
(***************************************************************************)

LEMMA WorkAlways == Spec => [](WorkTypeOK /\ HeldInv)
<1>1. Init => WorkTypeOK /\ HeldInv
  BY WorkInit DEF Init
<1>2. WorkTypeOK /\ HeldInv /\ [Next]_vars => (WorkTypeOK /\ HeldInv)'
  BY StepsWork, WorkType, CopiesKept
<1> QED
  BY <1>1, <1>2, PTL DEF Spec

LEMMA WorkInvAlways ==
  ASSUME ~ NameReuse, OnlyDaemonsTolerate
  PROVE  Spec => []WorkInv
<1>1. Init => WorkInv
  BY WorkInit DEF Init, WorkInv
<1>2. WorkInv /\ [Next]_vars => WorkInv'
  BY StepsWork, WorkKept DEF WorkInv
<1> QED
  BY <1>1, <1>2, PTL DEF Spec

(* The refinement holds of the whole server with its clients as well:      *)
(* shutdowns, crashes and hung workers do not disturb the lifecycle of the *)
(* nodes (Start, handleTermination, EvacuatePodsFromNode, deleteNode).     *)
THEOREM LifecycleKept ==
  ASSUME ~ NameReuse, OnlyDaemonsTolerate
  PROVE  Spec => KeepsLifecycle
<1>1. Init => Lifecycle!Init
  BY LifecycleInit DEF Init
<1>2. WorkInv /\ [Next]_vars => [Lifecycle!Next]_(Lifecycle!vars)
  BY StepsWork, LifecycleStep DEF WorkInv
<1> QED
  BY <1>1, <1>2, WorkInvAlways, PTL DEF Spec, KeepsLifecycle, Lifecycle!Spec

---------------------------------------------------------------------------
(***************************************************************************)
(* The clients.                                                            *)
(***************************************************************************)

(* No request is made when there are to be no tries. *)
ClientTypeOK ==
  /\ InformerTypeOK
  /\ serving \in [NodeName -> Handler \cup {NoHandler}]
  /\ \A n \in NodeName : client[n] \in {"informing", "waiting"} => Retries # 0

LEMMA NextTryType ==
  ASSUME ClientTypeOK, NEW n \in NodeName, client[n] \in {"informing", "waiting"},
         NEW unread \in BOOLEAN, NEW keep \in BOOLEAN, NextTry(n, unread, keep)
  PROVE  /\ InformerTypeOK'
         /\ \A m \in NodeName : client'[m] \in {"informing", "waiting"} => Retries # 0
<1> USE DEF ClientTypeOK, InformerTypeOK
<1>1. tries[n] + 1 \in 1 .. Retries
  BY RetriesAssumption
<1> QED
  BY <1>1, RetriesAssumption DEF NextTry, ClientState

LEMMA OnlyClientsType ==
  ASSUME ClientTypeOK, NEW N, OnlyClientsOf(N), noticed' \subseteq NodeName
  PROVE  /\ InformerTypeOK'
         /\ \A m \in NodeName : client'[m] \in {"informing", "waiting"} => Retries # 0
BY DEF ClientTypeOK, InformerTypeOK, OnlyClientsOf, ClientState

LEMMA ClientType ==
  ASSUME ClientTypeOK, [Next]_vars
  PROVE  ClientTypeOK'
<1> USE DEF ClientTypeOK
<1>1. CASE UNCHANGED <<informerVars, serving>>
  BY <1>1 DEF informerVars, InformerTypeOK
<1>2. CASE VMsGo
  <2>1. noticed' \subseteq NodeName
    BY <1>2 DEF VMsGo, GoneWithVMs, InformerTypeOK
  <2> QED
    BY <1>2, <2>1, OnlyClientsType DEF VMsGo, GoneWithVMs
<1>3. ASSUME NEW n \in NodeName, NEW h \in Handler, Request(n, h) PROVE ClientTypeOK'
  BY <1>3 DEF Request, Send, InformerTypeOK, ClientState
<1>4. ASSUME NEW n \in NodeName, RequestRefused(n) \/ RequestFails(n) \/ RequestBroken(n)
      PROVE  ClientTypeOK'
  <2>1. body[n] \in BOOLEAN
    BY DEF InformerTypeOK
  <2> QED
    BY <1>4, <2>1, NextTryType
    DEF RequestRefused, RequestFails, RequestBroken, Refused500, TryFails, Broken
<1>5. ASSUME NEW h \in Handler, HandlerAnswers(h) PROVE ClientTypeOK'
  <2>1. serving' \in [NodeName -> Handler \cup {NoHandler}]
    BY <1>5 DEF HandlerAnswers
  <2>2. ASSUME NEW n \in NodeName, client[n] = "waiting", Refused500(n, Listening)
        PROVE  ClientTypeOK'
    BY <2>1, <2>2, NextTryType DEF Refused500, Listening
  <2>3. ASSUME NEW n \in NodeName, Succeeded(n)
        PROVE  ClientTypeOK'
    BY <2>1, <2>3 DEF Succeeded, InformerTypeOK, ClientState
  <2>4. CASE UNCHANGED informerVars
    BY <2>1, <2>4 DEF informerVars, InformerTypeOK
  <2> QED
    BY <1>5, <2>2, <2>3, <2>4 DEF HandlerAnswers
<1>6. ASSUME NEW n \in NodeName, ConnectionBreaks(n) PROVE ClientTypeOK'
  BY <1>6 DEF ConnectionBreaks, InformerTypeOK
<1>7. ASSUME NEW n \in NodeName, ClientDies(n) PROVE ClientTypeOK'
  <2>1. noticed' \subseteq NodeName
    BY <1>7 DEF ClientDies, KillClient, Gone, InformerTypeOK
  <2> QED
    BY <1>7, <2>1, OnlyClientsType DEF ClientDies, KillClient, Gone
<1>8. CASE WithAllWork(Exit) \/ WithAllWork(Kill)
  BY <1>8 DEF WithAllWork, InformerTypeOK
<1>9. ASSUME NEW n \in NodeName,
             ClientsAlone(Notice(n)) \/ ClientsAlone(StartClient(n)) \/ ClientsAlone(Terminate(n))
      PROVE  ClientTypeOK'
  BY <1>9 DEF ClientsAlone, Notice, StartClient, Terminate, InformerTypeOK, ClientState
<1>10. ASSUME NEW n \in NodeName, ClientsAlone(Stop(n)) PROVE ClientTypeOK'
  <2>1. noticed' \subseteq NodeName
    BY <1>10 DEF ClientsAlone, Stop, Gone, InformerTypeOK
  <2> QED
    BY <1>10, <2>1, OnlyClientsType DEF ClientsAlone, Stop, Gone
<1>11. ASSUME NEW n \in NodeName, ClientsAlone(Notified(n)) PROVE ClientTypeOK'
  BY <1>11 DEF ClientsAlone, Notified, InformerTypeOK, ClientState
<1>12. ASSUME NEW n \in NodeName, ClientsAlone(Stop(n) \/ Notified(n)) PROVE ClientTypeOK'
  BY <1>10, <1>11, <1>12 DEF ClientsAlone
<1>13. CASE \/ \E k \in Killer : KillerRun(k)
            \/ Environment /\ VMsGo /\ UNCHANGED <<evacuationVars, queue, serverVars>>
  BY <1>2, <1>13 DEF KillerRun
<1>14. CASE \/ \E s \in Loop : PassFails(s)
            \/ \E s \in Loop : PassEnds(s)
            \/ \E h \in Handler : HandlerRun(h)
            \/ ServersAlone(StartServer)
            \/ ServersAlone(Signal)
            \/ \E s \in Loop : ServersAlone(BeginPass(s))
            \/ \E s \in Service : ServersAlone(Return(s))
            \/ UNCHANGED vars
  BY <1>1, <1>14 DEF PassFails, PassEnds, HandlerRun, ServersAlone, vars
<1> QED
  BY <1>3, <1>4, <1>5, <1>6, <1>7, <1>8, <1>9, <1>12, <1>13, <1>14 DEF Next

LEMMA ClientAlways == Spec => []ClientTypeOK
<1>1. Init => ClientTypeOK
  BY DEF Init, InformerInit, ClientTypeOK, InformerTypeOK, ClientState
<1>2. ClientTypeOK /\ [Next]_vars => ClientTypeOK'
  BY ClientType
<1> QED
  BY <1>1, <1>2, PTL DEF Spec

---------------------------------------------------------------------------
(***************************************************************************)
(* A client that waits for a handler waits for the one that evacuates its  *)
(* node.                                                                   *)
(***************************************************************************)

ServingInv ==
  \A n \in NodeName : serving[n] # NoHandler =>
    client[n] = "waiting" /\ pc[serving[n]] # "idle" /\ target[serving[n]] = n

LEMMA ServingKept ==
  ASSUME WorkTypeOK, ClientTypeOK, ServingInv, [Next]_vars
  PROVE  ServingInv'
<1> USE DEF ServingInv, ClientTypeOK
<1>1. ASSUME \A n \in NodeName : serving'[n] # NoHandler =>
               /\ serving'[n] = serving[n] /\ client'[n] = client[n]
               /\ target'[serving[n]] = target[serving[n]] /\ pc'[serving[n]] # "idle"
      PROVE  ServingInv'
  BY <1>1
<1>2. ASSUME UNCHANGED evacuationVars, VMsGo PROVE ServingInv'
  BY <1>2 DEF VMsGo, GoneWithVMs, OnlyClientsOf, evacuationVars
<1>3. ASSUME NEW k \in Killer, KillerRun(k) PROVE ServingInv'
  <2>1. VMsGo
    BY <1>3 DEF KillerRun
  <2>2. \A n \in NodeName : serving'[n] # NoHandler =>
          serving'[n] = serving[n] /\ client'[n] = client[n]
    BY <2>1 DEF VMsGo, GoneWithVMs, OnlyClientsOf
  <2>3. \A h \in Handler : pc'[h] = pc[h] /\ target'[h] = target[h]
    <3>1. CASE EvacuationStep(k)
      <4>1. \A v \in Worker \ {k} : pc'[v] = pc[v] /\ target'[v] = target[v]
        BY <3>1, WorkerAssumption
        DEF EvacuationStep, GetNode, Cordon, ListPods, DeletePod, DrainFinished, DrainFailed,
            Goto, WorkTypeOK, EvacuationTypeOK
      <4> QED
        BY <4>1, WorkerAssumption
    <3>2. CASE KillerStep(k)
      <4>1. \A v \in Worker \ {k} : pc'[v] = pc[v] /\ target'[v] = target[v]
        BY <3>2, WorkerAssumption
        DEF KillerStep, FindExpiredTimeNodes, NextExpired, DeleteNode, DeleteVM, Goto, Finish,
            Evacuate, WorkTypeOK, EvacuationTypeOK
      <4> QED
        BY <4>1, WorkerAssumption
    <3> QED
      BY <1>3, <3>1, <3>2 DEF KillerRun
  <2> QED
    BY <1>1, <2>2, <2>3
<1>4. ASSUME NEW m \in NodeName, NEW h \in Handler, Request(m, h) PROVE ServingInv'
  <2>1. /\ pc' = [pc EXCEPT ![h] = "getNode"] /\ target' = [target EXCEPT ![h] = m]
        /\ client' = [client EXCEPT ![m] = "waiting"]
        /\ serving' = [serving EXCEPT ![m] = h]
        /\ pc[h] = "idle"
    BY <1>4 DEF Request, Send, AcceptRequest, Evacuate, Goto
  <2>2. \A n \in NodeName : serving[n] # h
    BY <2>1, PreemptionAssumption
  <2>3. /\ pc \in [Worker -> Label] /\ target \in [Worker -> NodeName \cup {NoNode}]
        /\ client \in [NodeName -> ClientState]
        /\ Handler \subseteq Worker
    BY WorkerAssumption DEF WorkTypeOK, EvacuationTypeOK, InformerTypeOK
  <2>4. pc'[h] = "getNode" /\ target'[h] = m /\ client'[m] = "waiting" /\ serving'[m] = h
    BY <2>1, <2>3
  <2>5. ASSUME NEW n \in NodeName, n # m, serving'[n] # NoHandler
        PROVE  /\ client'[n] = "waiting"
               /\ pc'[serving'[n]] # "idle" /\ target'[serving'[n]] = n
    <3>1. serving'[n] = serving[n] /\ client'[n] = client[n] /\ serving[n] \in Worker
      BY <2>1, <2>3, <2>5
    <3>2. pc'[serving[n]] = pc[serving[n]] /\ target'[serving[n]] = target[serving[n]]
      BY <2>1, <2>2, <2>3, <3>1
    <3> QED
      BY <2>5, <3>1, <3>2
  <2> QED
    BY <2>4, <2>5
<1>5. ASSUME NEW m \in NodeName, RequestRefused(m) \/ RequestFails(m) \/ RequestBroken(m)
      PROVE  ServingInv'
  <2>1. serving[m] = NoHandler
    BY <1>5 DEF RequestRefused, RequestFails, RequestBroken, TryFails
  <2>2. \A n \in NodeName \ {m} : client'[n] = client[n]
    BY <1>5 DEF RequestRefused, RequestFails, RequestBroken, TryFails, Broken, Refused500,
                NextTry, InformerTypeOK
  <2> QED
    BY <1>5, <2>1, <2>2 DEF RequestRefused, RequestFails, RequestBroken, evacuationVars
<1>6. ASSUME NEW h \in Handler, HandlerRun(h) PROVE ServingInv'
  <2>1. /\ \A v \in Worker : target'[v] = target[v]
        /\ \A v \in Worker : pc[v] # "idle" => pc'[v] # "idle"
    BY <1>6, EvacuationAdvances, WorkerAssumption DEF HandlerRun, WorkTypeOK
  <2> QED
    BY <1>6, <2>1, WorkerAssumption DEF HandlerRun, informerVars
<1>7. ASSUME NEW h \in Handler, HandlerAnswers(h) PROVE ServingInv'
  <2>1. serving' = [n \in NodeName |-> IF serving[n] = h THEN NoHandler ELSE serving[n]]
    BY <1>7 DEF HandlerAnswers
  <2>2. \A v \in Worker \ {h} : pc'[v] = pc[v] /\ target'[v] = target[v]
    BY <1>7 DEF HandlerAnswers, Answer, Finish, Goto, WorkTypeOK, EvacuationTypeOK
  <2>3. \A n \in NodeName : serving[n] # h => client'[n] = client[n]
    BY <1>7 DEF HandlerAnswers, Succeeded, Refused500, NextTry, informerVars, InformerTypeOK
  <2> QED
    BY <1>1, <2>1, <2>2, <2>3, WorkerAssumption
<1>8. CASE WithAllWork(Exit) \/ WithAllWork(Kill)
  BY <1>8 DEF WithAllWork
<1>9. CASE \/ \E n \in NodeName : ConnectionBreaks(n)
           \/ \E n \in NodeName : ClientDies(n)
  BY <1>9 DEF ConnectionBreaks, ClientDies, KillClient, Gone, OnlyClientsOf, evacuationVars
<1>10. CASE \/ \E n \in NodeName : ClientsAlone(Notice(n))
            \/ \E n \in NodeName : ClientsAlone(StartClient(n))
            \/ \E n \in NodeName : ClientsAlone(Terminate(n))
  BY <1>10 DEF ClientsAlone, Notice, StartClient, Terminate, InformerTypeOK, evacuationVars
<1>11. ASSUME NEW n \in NodeName, ClientsAlone(Stop(n) \/ Notified(n)) PROVE ServingInv'
  BY <1>11
  DEF ClientsAlone, Stop, Notified, Gone, OnlyClientsOf, InformerTypeOK, evacuationVars
<1>12. CASE \/ \E s \in Loop : PassFails(s)
            \/ \E s \in Loop : PassEnds(s)
            \/ ServersAlone(StartServer)
            \/ ServersAlone(Signal)
            \/ \E s \in Loop : ServersAlone(BeginPass(s))
            \/ \E s \in Service : ServersAlone(Return(s))
            \/ UNCHANGED vars
  BY <1>12 DEF PassFails, PassEnds, ServersAlone, vars, informerVars, evacuationVars
<1> QED
  BY <1>2, <1>3, <1>4, <1>5, <1>6, <1>7, <1>8, <1>9, <1>10, <1>11, <1>12 DEF Next

LEMMA ServingAlways == Spec => [](WorkTypeOK /\ ClientTypeOK /\ ServingInv)
<1>1. Init => ServingInv
  BY DEF Init, ServingInv
<1>2. WorkTypeOK /\ ClientTypeOK /\ ServingInv /\ [Next]_vars => ServingInv'
  BY ServingKept
<1> QED
  BY <1>1, <1>2, WorkAlways, ClientAlways, PTL DEF Spec

---------------------------------------------------------------------------
(***************************************************************************)
(* A client that was told 204.                                             *)
(***************************************************************************)

InformedInv ==
  \A n \in NodeName : client[n] = "informed" => Shut(n) /\ PodsToBeDeleted(n) = {}

(* Nobody else says 204 than a handler that has evacuated the node. *)
LEMMA WhoInforms ==
  ASSUME WorkTypeOK, ClientTypeOK, ServingInv, [Next]_vars,
         NEW n \in NodeName, client'[n] = "informed"
  PROVE  \/ client[n] = "informed"
         \/ \E h \in Handler : pc[h] = "evacuated" /\ target[h] = n
<1> USE DEF ClientTypeOK, InformerTypeOK
<1>1. ASSUME NEW h \in Handler, HandlerAnswers(h), client[n] # "informed"
      PROVE  pc[h] = "evacuated" /\ target[h] = n
  <2>1. PICK m \in NodeName :
          /\ serving[m] = h
          /\ IF Status(h) = 204 THEN Succeeded(m) ELSE Refused500(m, Listening)
    BY <1>1 DEF HandlerAnswers, informerVars
  <2>2. Status(h) = 204
    BY <1>1, <2>1 DEF Refused500, NextTry
  <2>3. m = n
    BY <1>1, <2>1, <2>2 DEF Succeeded
  <2>4. pc[h] = "evacuated"
    BY <2>2 DEF Status, Written
  <2> QED
    BY <2>1, <2>3, <2>4, PreemptionAssumption DEF ServingInv
<1>2. ASSUME NEW m \in NodeName, RequestRefused(m) \/ RequestFails(m) \/ RequestBroken(m)
      PROVE  client[n] = "informed"
  BY <1>2 DEF RequestRefused, RequestFails, RequestBroken, TryFails, Broken, Refused500, NextTry
<1>3. CASE \/ Environment /\ VMsGo /\ UNCHANGED <<evacuationVars, queue, serverVars>>
           \/ \E k \in Killer : KillerRun(k)
  BY <1>3 DEF KillerRun, VMsGo, GoneWithVMs, OnlyClientsOf
<1>4. CASE \/ \E m \in NodeName, h \in Handler : Request(m, h)
           \/ \E m \in NodeName : ConnectionBreaks(m)
           \/ \E m \in NodeName : ClientDies(m)
           \/ WithAllWork(Exit)
           \/ WithAllWork(Kill)
  BY <1>4 DEF Request, Send, ConnectionBreaks, ClientDies, KillClient, Gone, OnlyClientsOf, WithAllWork
<1>5. CASE \/ \E m \in NodeName : ClientsAlone(Notice(m))
           \/ \E m \in NodeName : ClientsAlone(StartClient(m))
           \/ \E m \in NodeName : ClientsAlone(Terminate(m))
           \/ \E m \in NodeName : ClientsAlone(Stop(m) \/ Notified(m))
  BY <1>5
  DEF ClientsAlone, Notice, StartClient, Terminate, Stop, Notified, Gone, OnlyClientsOf
<1>6. CASE \/ \E s \in Loop : PassFails(s)
           \/ \E s \in Loop : PassEnds(s)
           \/ \E h \in Handler : HandlerRun(h)
           \/ ServersAlone(StartServer)
           \/ ServersAlone(Signal)
           \/ \E s \in Loop : ServersAlone(BeginPass(s))
           \/ \E s \in Service : ServersAlone(Return(s))
           \/ UNCHANGED vars
  BY <1>6 DEF PassFails, PassEnds, HandlerRun, ServersAlone, vars, informerVars
<1> QED
  BY <1>1, <1>2, <1>3, <1>4, <1>5, <1>6 DEF Next

LEMMA InformedKept ==
  ASSUME ~ NameReuse, OnlyDaemonsTolerate, WorkInv, ClientTypeOK, ServingInv,
         InformedInv, [Next]_vars
  PROVE  InformedInv'
<1> USE DEF WorkInv
<1>1. Orderly
  BY StepsWork, WorkOrderly
<1>2. ASSUME NEW n \in NodeName, client'[n] = "informed" PROVE Shut(n) /\ PodsToBeDeleted(n) = {}
  <2>1. CASE client[n] = "informed"
    BY <2>1 DEF InformedInv
  <2>2. CASE \E h \in Handler : pc[h] = "evacuated" /\ target[h] = n
    BY <2>2, WorkerAssumption DEF SeenInv, DrainInv, Shut
  <2> QED
    BY <1>2, <2>1, <2>2, WhoInforms
<1>3. ASSUME NEW n \in NodeName, client'[n] = "informed"
      PROVE  Shut(n)' /\ PodsToBeDeleted(n)' = {}
  BY <1>1, <1>2, <1>3, DrainedStays DEF Orderly
<1> QED
  BY <1>3 DEF InformedInv

(* A client that was told 204 has no pod to lose any more, whichever of    *)
(* its requests was answered and whatever else goes on (informPreemption,  *)
(* handleTermination, EvacuatePodsFromNode).                               *)
THEOREM InformedIsDrained ==
  ASSUME ~ NameReuse, OnlyDaemonsTolerate
  PROVE  Spec => []InformedMeansDrained
<1>1. Init => InformedInv
  BY DEF Init, InformerInit, InformedInv
<1>2. WorkInv /\ ClientTypeOK /\ ServingInv /\ InformedInv /\ [Next]_vars => InformedInv'
  BY InformedKept
<1>3. InformedInv => InformedMeansDrained
  BY DEF InformedInv, InformedMeansDrained
<1> QED
  BY <1>1, <1>2, <1>3, ServingAlways, WorkInvAlways, PTL DEF Spec

---------------------------------------------------------------------------
(***************************************************************************)
(* The server's process: the WaitGroup counts the services that have not   *)
(* returned, and a killer with work is in its pass.                        *)
(***************************************************************************)

ServerTypeOK ==
  /\ main \in {"running", "stopping", "down"}
  /\ service \in [Service -> {"select", "pass", "returned"}]
  /\ blocked \subseteq Loop \cup Handler

Working == {s \in Service : service[s] # "returned"}

WaitInv ==
  /\ wg = Cardinality(Working)
  /\ main = "down" => Working = {}
  /\ \A k \in Killer : (Free(k) /\ queue[k] = {}) \/ service[k] = "pass"

LEMMA WorkingFinite == IsFiniteSet(Service) /\ IsFiniteSet(Working) /\ IsFiniteSet(Working')
<1>1. IsFiniteSet(Loop \cup {Notifier})
  BY ServiceAssumption, FS_AddElement
<1>2. IsFiniteSet((Loop \cup {Notifier}) \cup {HTTPServer})
  BY <1>1, FS_AddElement
<1>3. Service = (Loop \cup {Notifier}) \cup {HTTPServer}
  BY DEF Service
<1>4. Working \subseteq Service /\ Working' \subseteq Service
  BY DEF Working
<1> QED
  BY <1>2, <1>3, <1>4, FS_Subset

(* What a step does to the goroutines of the services. *)
LEMMA ServiceStep ==
  ASSUME ServerTypeOK, WaitInv, [Next]_vars
  PROVE  ServerTypeOK' /\ wg' = Cardinality(Working)' /\ (main' = "down" => Working' = {})
<1> USE DEF ServerTypeOK
<1>1. ASSUME Working' = Working, UNCHANGED <<main, wg>>
      PROVE  wg' = Cardinality(Working)' /\ (main' = "down" => Working' = {})
  BY <1>1 DEF WaitInv
<1>2. CASE UNCHANGED serverVars
  BY <1>1, <1>2 DEF serverVars, Working
<1>3. ASSUME NEW w \in Loop \cup Handler, Publish(w) \/ UNCHANGED blocked
      PROVE  blocked' \subseteq Loop \cup Handler
  BY <1>3 DEF Publish, NotifierReads
<1>4. ASSUME NEW s \in Loop, service[s] = "pass", EndPass(s)
      PROVE  service' \in [Service -> {"select", "pass", "returned"}] /\ Working' = Working
  BY <1>4 DEF EndPass, Working
<1>5. ASSUME NEW k \in Killer, KillerRun(k)
      PROVE  ServerTypeOK' /\ wg' = Cardinality(Working)' /\ (main' = "down" => Working' = {})
  <2>1. k \in Loop /\ service[k] = "pass" /\ UNCHANGED <<main, wg>>
    BY <1>5, PreemptionAssumption DEF KillerRun
  <2>2. blocked' \subseteq Loop \cup Handler
    BY <1>3, <1>5, <2>1 DEF KillerRun, Works
  <2>3. service' \in [Service -> {"select", "pass", "returned"}] /\ Working' = Working
    BY <1>4, <1>5, <2>1 DEF KillerRun, Working
  <2> QED
    BY <1>1, <2>1, <2>2, <2>3
<1>6. ASSUME NEW s \in Loop, PassFails(s) \/ PassEnds(s)
      PROVE  ServerTypeOK' /\ wg' = Cardinality(Working)' /\ (main' = "down" => Working' = {})
  <2>1. service[s] = "pass" /\ EndPass(s) /\ UNCHANGED <<main, wg>>
    BY <1>6 DEF PassFails, PassEnds
  <2>2. blocked' \subseteq Loop \cup Handler
    BY <1>3, <1>6 DEF PassFails, PassEnds
  <2> QED
    BY <1>1, <1>4, <2>1, <2>2
<1>7. ASSUME NEW h \in Handler, HandlerRun(h)
      PROVE  ServerTypeOK' /\ wg' = Cardinality(Working)' /\ (main' = "down" => Working' = {})
  <2>1. blocked' \subseteq Loop \cup Handler
    BY <1>3, <1>7 DEF HandlerRun, Works
  <2> QED
    BY <1>1, <1>7, <2>1 DEF HandlerRun, Working
<1>8. CASE Down
  <2>1. Working' = {}
    BY <1>8 DEF Down, Working
  <2>2. wg' = Cardinality(Working')
    BY <1>8, <2>1, FS_EmptySet DEF Down
  <2> QED
    BY <1>8, <2>1, <2>2 DEF Down, Working
<1>9. CASE StartServer
  <2>1. Working' = Service
    BY <1>9 DEF StartServer, Working
  <2> QED
    BY <1>9, <2>1 DEF StartServer, Working
<1>10. CASE Signal
  BY <1>10 DEF Signal, WaitInv, Working
<1>11. ASSUME NEW s \in Loop, BeginPass(s)
      PROVE  ServerTypeOK' /\ wg' = Cardinality(Working)' /\ (main' = "down" => Working' = {})
  <2>1. Working' = Working
    BY <1>11 DEF BeginPass, Working
  <2> QED
    BY <1>1, <1>11, <2>1 DEF BeginPass
<1>12. ASSUME NEW s \in Service, Return(s)
      PROVE  ServerTypeOK' /\ wg' = Cardinality(Working)' /\ (main' = "down" => Working' = {})
  <2>1. s \in Working /\ Working' = Working \ {s}
    BY <1>12 DEF Return, Working
  <2>2. Cardinality(Working \ {s}) = Cardinality(Working) - 1
    BY <2>1, WorkingFinite, FS_RemoveElement
  <2>3. wg' = Cardinality(Working')
    BY <1>12, <2>1, <2>2 DEF Return, WaitInv
  <2> QED
    BY <1>12, <2>3 DEF Return, Working
<1>13. CASE WithAllWork(Exit) \/ WithAllWork(Kill)
  BY <1>8, <1>13 DEF WithAllWork, Exit, Kill
<1>14. CASE \/ ServersAlone(StartServer)
            \/ ServersAlone(Signal)
            \/ \E s \in Loop : ServersAlone(BeginPass(s))
            \/ \E s \in Service : ServersAlone(Return(s))
  BY <1>9, <1>10, <1>11, <1>12, <1>14 DEF ServersAlone
<1>15. CASE \/ Environment /\ VMsGo /\ UNCHANGED <<evacuationVars, queue, serverVars>>
            \/ \E n \in NodeName, h \in Handler : Request(n, h)
            \/ \E n \in NodeName : RequestRefused(n)
            \/ \E n \in NodeName : RequestFails(n)
            \/ \E h \in Handler : HandlerAnswers(h)
            \/ \E n \in NodeName : ConnectionBreaks(n)
            \/ \E n \in NodeName : RequestBroken(n)
            \/ \E n \in NodeName : ClientDies(n)
            \/ \E n \in NodeName : ClientsAlone(Notice(n))
            \/ \E n \in NodeName : ClientsAlone(StartClient(n))
            \/ \E n \in NodeName : ClientsAlone(Terminate(n))
            \/ \E n \in NodeName : ClientsAlone(Stop(n) \/ Notified(n))
            \/ UNCHANGED vars
  BY <1>2, <1>15
  DEF Request, RequestRefused, RequestFails, HandlerAnswers, ConnectionBreaks, RequestBroken,
      ClientDies, ClientsAlone, vars
<1> QED
  BY <1>5, <1>6, <1>7, <1>13, <1>14, <1>15 DEF Next

(* Outside its pass a killer has nothing to do. *)
LEMMA BusyStep ==
  ASSUME WorkTypeOK, ServerTypeOK, WaitInv, [Next]_vars,
         NEW k \in Killer
  PROVE  (Free(k) /\ queue[k] = {})' \/ service'[k] = "pass"
<1> USE DEF WaitInv
<1>1. k \in Worker /\ k \in Loop /\ k \in Service /\ k \notin Handler
  BY PreemptionAssumption, WorkerAssumption DEF Service
<1>2. ASSUME UNCHANGED <<pc, queue>>, service'[k] = service[k]
      PROVE  (Free(k) /\ queue[k] = {})' \/ service'[k] = "pass"
  BY <1>2 DEF Free
<1>3. ASSUME NEW w \in Worker, w # k, EvacuationStep(w), UNCHANGED queue, service'[k] = service[k]
      PROVE  (Free(k) /\ queue[k] = {})' \/ service'[k] = "pass"
  <2>1. pc'[k] = pc[k]
    BY <1>1, <1>3
    DEF EvacuationStep, GetNode, Cordon, ListPods, DeletePod, DrainFinished, DrainFailed,
        Goto, WorkTypeOK, EvacuationTypeOK
  <2> QED
    BY <1>3, <2>1 DEF Free
<1>4. ASSUME NEW j \in Killer, KillerRun(j)
      PROVE  (Free(k) /\ queue[k] = {})' \/ service'[k] = "pass"
  <2>1. CASE j = k
    BY <1>1, <1>4, <2>1 DEF KillerRun, EndPass, ServerTypeOK
  <2>2. CASE j # k
    <3>1. service'[k] = service[k]
      BY <1>1, <1>4, <2>2 DEF KillerRun, EndPass, ServerTypeOK
    <3>2. CASE EvacuationStep(j) /\ UNCHANGED queue
      BY <1>3, <2>2, <3>1, <3>2, WorkerAssumption
    <3>3. CASE KillerStep(j)
      <4>1. pc'[k] = pc[k] /\ queue'[k] = queue[k]
        BY <1>1, <2>2, <3>3
        DEF KillerStep, FindExpiredTimeNodes, NextExpired, DeleteNode, DeleteVM, Goto, Finish,
            Evacuate, WorkTypeOK, EvacuationTypeOK, KillerTypeOK
      <4> QED
        BY <3>1, <4>1 DEF Free
    <3> QED
      BY <1>4, <3>2, <3>3 DEF KillerRun
  <2> QED
    BY <2>1, <2>2
<1>5. ASSUME NEW s \in Loop, PassFails(s) \/ PassEnds(s)
      PROVE  (Free(k) /\ queue[k] = {})' \/ service'[k] = "pass"
  <2>1. UNCHANGED <<pc, queue>> /\ EndPass(s)
    BY <1>5 DEF PassFails, PassEnds, evacuationVars
  <2>2. CASE s = k
    BY <1>5, <2>1, <2>2 DEF PassFails, PassEnds, Free
  <2>3. CASE s # k
    BY <1>1, <1>2, <2>1, <2>3 DEF EndPass, ServerTypeOK
  <2> QED
    BY <2>2, <2>3
<1>6. ASSUME NEW h \in Handler, HandlerRun(h)
      PROVE  (Free(k) /\ queue[k] = {})' \/ service'[k] = "pass"
  BY <1>1, <1>3, <1>6, WorkerAssumption DEF HandlerRun
<1>7. ASSUME NEW h \in Handler,
             \/ HandlerAnswers(h)
             \/ \E n \in NodeName : Request(n, h)
      PROVE  (Free(k) /\ queue[k] = {})' \/ service'[k] = "pass"
  <2>1. pc'[k] = pc[k]
    BY <1>1, <1>7
    DEF HandlerAnswers, Answer, Request, AcceptRequest, Evacuate, Finish, Goto, WorkTypeOK,
        EvacuationTypeOK
  <2>2. UNCHANGED <<queue, service>>
    BY <1>7 DEF HandlerAnswers, Request, serverVars
  <2> QED
    BY <2>1, <2>2 DEF Free
<1>8. CASE WithAllWork(Exit) \/ WithAllWork(Kill)
  BY <1>1, <1>8 DEF WithAllWork, WorkLost, Free
<1>9. CASE \/ ServersAlone(StartServer)
           \/ ServersAlone(Signal)
           \/ \E s \in Loop : ServersAlone(BeginPass(s))
           \/ \E s \in Service : ServersAlone(Return(s))
  <2>1. CASE ServersAlone(StartServer)
    <3>1. service[k] # "pass"
      BY <1>1, <2>1 DEF ServersAlone, StartServer, Working
    <3> QED
      BY <2>1, <3>1 DEF ServersAlone, Free, evacuationVars
  <2>2. CASE ServersAlone(Signal)
    BY <1>2, <2>2 DEF ServersAlone, Signal, evacuationVars
  <2>3. ASSUME NEW s \in Loop, ServersAlone(BeginPass(s))
        PROVE  (Free(k) /\ queue[k] = {})' \/ service'[k] = "pass"
    BY <1>1, <2>3 DEF ServersAlone, BeginPass, evacuationVars, ServerTypeOK, Free
  <2>4. ASSUME NEW s \in Service, ServersAlone(Return(s))
        PROVE  (Free(k) /\ queue[k] = {})' \/ service'[k] = "pass"
    BY <1>1, <2>4 DEF ServersAlone, Return, evacuationVars, ServerTypeOK, Free
  <2> QED
    BY <1>9, <2>1, <2>2, <2>3, <2>4
<1>10. CASE \/ Environment /\ VMsGo /\ UNCHANGED <<evacuationVars, queue, serverVars>>
            \/ \E n \in NodeName : RequestRefused(n)
            \/ \E n \in NodeName : RequestFails(n)
            \/ \E n \in NodeName : ConnectionBreaks(n)
            \/ \E n \in NodeName : RequestBroken(n)
            \/ \E n \in NodeName : ClientDies(n)
            \/ \E n \in NodeName : ClientsAlone(Notice(n))
            \/ \E n \in NodeName : ClientsAlone(StartClient(n))
            \/ \E n \in NodeName : ClientsAlone(Terminate(n))
            \/ \E n \in NodeName : ClientsAlone(Stop(n) \/ Notified(n))
            \/ UNCHANGED vars
  BY <1>2, <1>10
  DEF RequestRefused, RequestFails, ConnectionBreaks, RequestBroken, ClientDies, ClientsAlone,
      vars, evacuationVars, serverVars
<1> QED
  BY <1>4, <1>5, <1>6, <1>7, <1>8, <1>9, <1>10 DEF Next

LEMMA WaitAlways == Spec => [](ServerTypeOK /\ WaitInv)
<1>1. Init => ServerTypeOK /\ WaitInv
  <2>1. Init => Working = {}
    BY DEF Init, ServerInit, Working
  <2>2. Init => \A k \in Killer : Free(k) /\ queue[k] = {}
    BY WorkerAssumption DEF Init, EvacuationInit, KillerInit, Free
  <2> QED
    BY <2>1, <2>2, FS_EmptySet DEF Init, ServerInit, ServerTypeOK, WaitInv
<1>2. WorkTypeOK /\ ServerTypeOK /\ WaitInv /\ [Next]_vars => (ServerTypeOK /\ WaitInv)'
  BY ServiceStep, BusyStep DEF WaitInv
<1> QED
  BY <1>1, <1>2, WorkAlways, PTL DEF Spec

(* Every reachable state is well typed; the WaitGroup's counter, which     *)
(* must not become negative, counts the services that have not returned    *)
(* (start_server's Run).                                                   *)
THEOREM TypeCorrect == Spec => []TypeOK
<1>1. WorkTypeOK /\ ClientTypeOK /\ ServerTypeOK /\ WaitInv => TypeOK
  <2>1. Working \subseteq Service
    BY DEF Working
  <2>2. Cardinality(Working) \in 0 .. Cardinality(Service)
    BY <2>1, WorkingFinite, FS_Subset, FS_CardinalityType
  <2> QED
    BY <2>2 DEF TypeOK, WorkTypeOK, ClientTypeOK, ServerTypeOK, WaitInv
<1> QED
  BY <1>1, WorkAlways, ClientAlways, WaitAlways, PTL

(* When Wait lets main go, no killer is between the evacuation of a node,  *)
(* the deletion of its object and that of its VM (Start's select, wg.Done, *)
(* wg.Wait).                                                               *)
THEOREM ShutdownIsClean == Spec => []NothingHalfDone
<1>1. ServerTypeOK /\ WaitInv => NothingHalfDone
  <2> SUFFICES ASSUME ServerTypeOK, WaitInv, wg = 0, NEW k \in Killer
               PROVE  pc[k] \in {"idle", "failed"} /\ queue[k] = {}
    BY DEF NothingHalfDone
  <2>1. Working = {}
    BY WorkingFinite, FS_EmptySet DEF WaitInv
  <2>2. service[k] # "pass"
    BY <2>1, PreemptionAssumption DEF Working, Service
  <2> QED
    BY <2>2 DEF WaitInv, Free
<1> QED
  BY <1>1, WaitAlways, PTL

---------------------------------------------------------------------------
(***************************************************************************)
(* The notifier reads until the shutdown: before it nobody waits in        *)
(* publish, and a loop that does never gets to the end of its pass.        *)
(***************************************************************************)

HangInv ==
  /\ main = "running" => service[Notifier] = "select"
  /\ service[Notifier] # "pass"
  /\ main = "down" => \A h \in Handler : pc[h] = "idle"
  /\ blocked # {} => main = "stopping"
  /\ \A s \in blocked \cap Loop : service[s] = "pass"

LEMMA PublishHangs ==
  ASSUME ServerTypeOK, HangInv, main # "down", NEW w, Publish(w)
  PROVE  blocked' = blocked \/ (blocked' = blocked \cup {w} /\ main = "stopping")
BY DEF Publish, NotifierReads, HangInv, ServerTypeOK, Service

(* A loop in its pass publishes, goes on, or ends the pass. *)
LEMMA LoopHangs ==
  ASSUME ServerTypeOK, WaitInv, HangInv, NEW s \in Loop, service[s] = "pass", s \notin blocked,
         main' = main, Publish(s) \/ UNCHANGED blocked, EndPass(s) \/ UNCHANGED service
  PROVE  HangInv'
<1>1. s \in Service /\ s # Notifier
  BY ServiceAssumption DEF Service
<1>2. main # "down"
  BY <1>1 DEF WaitInv, Working
<1>3. blocked' = blocked \/ (blocked' = blocked \cup {s} /\ main = "stopping")
  BY <1>2, PublishHangs
<1>4. service'[Notifier] = service[Notifier]
  BY <1>1 DEF EndPass, ServerTypeOK, Service
<1>5. ASSUME NEW r \in blocked' \cap Loop PROVE service'[r] = "pass"
  <2>1. r \in Service /\ service[r] = "pass"
    BY <1>3, <1>5 DEF HangInv, Service
  <2> QED
    BY <1>5, <2>1 DEF EndPass, ServerTypeOK
<1> QED
  BY <1>2, <1>3, <1>4, <1>5 DEF HangInv

LEMMA HangStep ==
  ASSUME WorkTypeOK, ServerTypeOK, WaitInv, HangInv, [Next]_vars
  PROVE  HangInv'
<1>1. ASSUME UNCHANGED serverVars, UNCHANGED evacuationVars \/ main # "down"
      PROVE  HangInv'
  BY <1>1 DEF serverVars, evacuationVars, HangInv
<1>2. ASSUME NEW k \in Killer, KillerRun(k) PROVE HangInv'
  BY <1>2, PreemptionAssumption, LoopHangs DEF KillerRun, Works
<1>3. ASSUME NEW s \in Loop, PassFails(s) \/ PassEnds(s) PROVE HangInv'
  BY <1>3, LoopHangs DEF PassFails, PassEnds
<1>4. ASSUME NEW h \in Handler, HandlerRun(h) PROVE HangInv'
  <2>1. pc[h] # "idle" /\ main # "down"
    BY <1>4
    DEF HandlerRun, EvacuationStep, GetNode, Cordon, ListPods, DeletePod, DrainFinished,
        DrainFailed, HangInv
  <2>2. blocked' = blocked \/ (blocked' = blocked \cup {h} /\ main = "stopping")
    BY <1>4, <2>1, PublishHangs DEF HandlerRun, Works
  <2>3. h \notin Loop
    BY PreemptionAssumption DEF Service
  <2> QED
    BY <1>4, <2>1, <2>2, <2>3 DEF HandlerRun, HangInv
<1>5. ASSUME NEW n \in NodeName, NEW h \in Handler, Request(n, h) PROVE HangInv'
  <2>1. main # "down"
    BY <1>5 DEF Request, Listening, WaitInv, Working, Service
  <2> QED
    BY <1>1, <1>5, <2>1 DEF Request
<1>6. ASSUME NEW h \in Handler, HandlerAnswers(h) PROVE HangInv'
  <2>1. main # "down"
    BY <1>6 DEF HandlerAnswers, Answer, HangInv
  <2> QED
    BY <1>1, <1>6, <2>1 DEF HandlerAnswers
<1>7. CASE WithAllWork(Exit) \/ WithAllWork(Kill)
  BY <1>7, WorkerAssumption DEF WithAllWork, WorkLost, Exit, Kill, Down, HangInv, Service
<1>8. CASE ServersAlone(StartServer) \/ ServersAlone(Signal)
  BY <1>8 DEF ServersAlone, StartServer, Signal, HangInv, Service
<1>9. ASSUME NEW s \in Loop, ServersAlone(BeginPass(s)) PROVE HangInv'
  BY <1>9, ServiceAssumption
  DEF ServersAlone, BeginPass, HangInv, Service, ServerTypeOK, evacuationVars
<1>10. ASSUME NEW s \in Service, ServersAlone(Return(s)) PROVE HangInv'
  BY <1>10 DEF ServersAlone, Return, HangInv, Service, ServerTypeOK, evacuationVars
<1>11. CASE \/ Environment /\ VMsGo /\ UNCHANGED <<evacuationVars, queue, serverVars>>
            \/ \E n \in NodeName : RequestRefused(n)
            \/ \E n \in NodeName : RequestFails(n)
            \/ \E n \in NodeName : ConnectionBreaks(n)
            \/ \E n \in NodeName : RequestBroken(n)
            \/ \E n \in NodeName : ClientDies(n)
            \/ \E n \in NodeName : ClientsAlone(Notice(n))
            \/ \E n \in NodeName : ClientsAlone(StartClient(n))
            \/ \E n \in NodeName : ClientsAlone(Terminate(n))
            \/ \E n \in NodeName : ClientsAlone(Stop(n) \/ Notified(n))
            \/ UNCHANGED vars
  BY <1>1, <1>11
  DEF RequestRefused, RequestFails, ConnectionBreaks, RequestBroken, ClientDies, ClientsAlone,
      vars
<1> QED
  BY <1>2, <1>3, <1>4, <1>5, <1>6, <1>7, <1>8, <1>9, <1>10, <1>11 DEF Next

(* Nobody waits for the notifier while the server runs, and main does not  *)
(* leave a loop that does (publish, the notifier's Start, wg.Wait), for    *)
(* any number of loops and handlers.                                       *)
THEOREM HangsAreVisible == Spec => []OnlyShutdownHangs
<1>1. Init => HangInv
  BY WorkerAssumption DEF Init, ServerInit, EvacuationInit, HangInv, Service
<1>2. WorkTypeOK /\ ServerTypeOK /\ WaitInv /\ HangInv /\ [Next]_vars => HangInv'
  BY HangStep
<1>3. WaitInv /\ HangInv => OnlyShutdownHangs
  <2> SUFFICES ASSUME WaitInv, HangInv, NEW s \in blocked \cap Loop
               PROVE  wg > 0
    BY DEF HangInv, OnlyShutdownHangs
  <2>1. s \in Working
    BY DEF HangInv, Working, Service
  <2>2. Cardinality(Working) \in Nat /\ Cardinality(Working) # 0
    BY <2>1, WorkingFinite, FS_CardinalityType, FS_EmptySet
  <2> QED
    BY <2>2 DEF WaitInv
<1> QED
  BY <1>1, <1>2, <1>3, WorkAlways, WaitAlways, PTL DEF Spec
=============================================================================
