------------------------------ MODULE Informer ------------------------------
(***************************************************************************)
(* The client (cmd/silent-assassin/start_client.go and                     *)
(* pkg/informer/preemption.go): on each node it waits for the metadata     *)
(* server to announce that the VM is about to be taken, and then asks the  *)
(* server to evacuate the node, with a bounded number of tries.            *)
(*                                                                         *)
(* All tries are made with one *http.Request.  What net/http does with it  *)
(* (Go 1.14; it is not part of the repository) is in body and pooled: a    *)
(* request that was sent has used up its body; sending it again over a new *)
(* connection is an error of the client's own, "http: ContentLength=n with *)
(* Body length 0", and only a connection that the pool still holds makes   *)
(* the transport rewind the body.                                          *)
(***************************************************************************)
EXTENDS Cluster

CONSTANT Retries      \* client.server_retries

VARIABLES
  noticed,      \* the nodes whose metadata announce a termination
  client,       \* client[n]: where the client of node n is
  tries,        \* tries[n]: how many of its tries have failed
  body,         \* body[n]: is the body of the request unread?
  pooled,       \* pooled[n]: does the pool hold a connection to the server?
  leaving       \* leaving[n]: has the client been told to stop?

informerVars == <<noticed, client, tries, body, pooled, leaving>>

ASSUME RetriesAssumption == Retries \in Nat

(* "informed" and "gaveUp": Start has returned, the process is still there. *)
ClientState ==
  {"off", "watching", "informing", "waiting", "informed", "gaveUp"}

InformerTypeOK ==
  /\ noticed \subseteq NodeName
  /\ client \in [NodeName -> ClientState]
  /\ tries \in [NodeName -> {0} \cup 0 .. Retries - 1]
  /\ body \in [NodeName -> BOOLEAN]
  /\ pooled \in [NodeName -> BOOLEAN]
  /\ leaving \in [NodeName -> BOOLEAN]

InformerInit ==
  /\ noticed = {}
  /\ client = [n \in NodeName |-> "off"]
  /\ tries = [n \in NodeName |-> 0]
  /\ body = [n \in NodeName |-> FALSE]
  /\ pooled = [n \in NodeName |-> FALSE]
  /\ leaving = [n \in NodeName |-> FALSE]

(* The metadata server: instance/preempted becomes TRUE, or, where the     *)
(* client watches it too, instance/maintenance-event announces one.        *)
Notice(n) ==
  /\ n \in vms \ noticed
  /\ noticed' = noticed \cup {n}
  /\ UNCHANGED <<client, tries, body, pooled, leaving>>

(* Without a process there is no request and no connection. *)
OnlyClientsOf(N) ==
  /\ client' = [n \in NodeName |-> IF n \in N THEN client[n] ELSE "off"]
  /\ tries' = [n \in NodeName |-> IF n \in N THEN tries[n] ELSE 0]
  /\ body' = [n \in NodeName |-> n \in N /\ body[n]]
  /\ pooled' = [n \in NodeName |-> n \in N /\ pooled[n]]
  /\ leaving' = [n \in NodeName |-> n \in N /\ leaving[n]]

Gone(n) == OnlyClientsOf(NodeName \ {n}) /\ UNCHANGED noticed

(* A VM takes its client with it. *)
GoneWithVMs == OnlyClientsOf(vms') /\ noticed' = noticed \cap vms'

StartClient(n) ==
  /\ n \in vms /\ client[n] = "off"
  /\ client' = [client EXCEPT ![n] = "watching"]
  /\ UNCHANGED <<noticed, tries, body, pooled, leaving>>

(* SIGTERM: cancelFn, then wg.Wait. *)
Terminate(n) ==
  /\ client[n] # "off" /\ ~ leaving[n]
  /\ leaving' = [leaving EXCEPT ![n] = TRUE]
  /\ UNCHANGED <<noticed, client, tries, body, pooled>>

KillClient(n) == client[n] # "off" /\ Gone(n)

(* Start's select, one branch: Done, and main's Wait ends the process. *)
Stop(n) == client[n] = "watching" /\ leaving[n] /\ Gone(n)

(* ... the other one, which select may take with the context cancelled: a  *)
(* watcher's handleTermination gets through, and the request is built.     *)
Notified(n) ==
  /\ client[n] = "watching" /\ n \in noticed
  /\ client' = [client EXCEPT ![n] = IF Retries = 0 THEN "gaveUp" ELSE "informing"]
  /\ body' = [body EXCEPT ![n] = Retries # 0]
  /\ UNCHANGED <<noticed, tries, pooled, leaving>>

CanBeSent(n) == body[n] \/ pooled[n]

Send(n) ==
  /\ client[n] = "informing" /\ CanBeSent(n)
  /\ client' = [client EXCEPT ![n] = "waiting"]
  /\ body' = [body EXCEPT ![n] = FALSE]
  /\ pooled' = [pooled EXCEPT ![n] = FALSE]
  /\ UNCHANGED <<noticed, tries, leaving>>

(* Two slips: one try too many, and tries that are not counted. *)
NextTryLong(n, unread, keep) ==
  LET over == tries[n] = Retries IN
  /\ client' = [client EXCEPT ![n] = IF over THEN "gaveUp" ELSE "informing"]
  /\ tries' = [tries EXCEPT ![n] = IF over THEN 0 ELSE @ + 1]
  /\ body' = [body EXCEPT ![n] = unread /\ ~ over]
  /\ pooled' = [pooled EXCEPT ![n] = keep /\ ~ over]
  /\ UNCHANGED <<noticed, leaving>>

NextTryForever(n, unread, keep) ==
  /\ client' = [client EXCEPT ![n] = "informing"]
  /\ body' = [body EXCEPT ![n] = unread]
  /\ pooled' = [pooled EXCEPT ![n] = keep]
  /\ UNCHANGED <<noticed, tries, leaving>>

(* continue: the next try, at once, or the end of the loop, after which    *)
(* nothing of the request matters.                                         *)
NextTry(n, unread, keep) ==
  LET over == tries[n] + 1 = Retries IN
  /\ client' = [client EXCEPT ![n] = IF over THEN "gaveUp" ELSE "informing"]
  /\ tries' = [tries EXCEPT ![n] = IF over THEN 0 ELSE @ + 1]
  /\ body' = [body EXCEPT ![n] = unread /\ ~ over]
  /\ pooled' = [pooled EXCEPT ![n] = keep /\ ~ over]
  /\ UNCHANGED <<noticed, leaving>>

(* Do returns an error before anything is sent: no connection, no body. *)
TryFails(n) == client[n] = "informing" /\ NextTry(n, body[n], FALSE)

(* The answer to a request that was sent is not 204: the connection goes   *)
(* back to the pool unless the server closes it.                           *)
Refused500(n, keep) == NextTry(n, FALSE, keep)

(* The connection breaks while the client waits. *)
Broken(n) == client[n] = "waiting" /\ NextTry(n, FALSE, FALSE)

(* 204: Start returns, and nobody calls wg.Done: from here on, as from     *)
(* "gaveUp", a process that is told to stop waits in wg.Wait to be killed. *)
Succeeded(n) ==
  /\ client' = [client EXCEPT ![n] = "informed"]
  /\ tries' = [tries EXCEPT ![n] = 0]
  /\ UNCHANGED <<noticed, body, pooled, leaving>>
=============================================================================
