--------------------------- MODULE ServerProcess ---------------------------
(***************************************************************************)
(* The server's process (cmd/silent-assassin/start_server.go): main starts *)
(* the services, waits for a signal, cancels their context and waits until *)
(* every one of them has called wg.Done.                                   *)
(*                                                                         *)
(* The loops (spotter, killer, shifter) look at the context only between   *)
(* two passes; the notifier and the HTTP server react at once.  A loop or  *)
(* a handler that publishes hands its message to the notifier over an      *)
(* unbuffered channel; while the notifier is there that takes no time, and *)
(* it is part of the step that publishes.                                  *)
(***************************************************************************)
EXTENDS Naturals, FiniteSets

CONSTANTS
  Loop,         \* the services that poll: spotter, killer, shifter
  Notifier,     \* NotificationService.Start
  HTTPServer    \* Server.waitForShutdown

VARIABLES
  main,         \* the main goroutine, or "down" when there is no process
  service,      \* service[s]: where the goroutine of s is
  wg,           \* the counter of the WaitGroup
  blocked       \* the goroutines that wait in publish for a notifier that left

serverVars == <<main, service, wg, blocked>>

Service == Loop \cup {Notifier, HTTPServer}

ASSUME ServiceAssumption ==
  /\ IsFiniteSet(Loop)
  /\ Notifier \notin Loop /\ HTTPServer \notin Loop /\ Notifier # HTTPServer

ServerInit ==
  /\ main = "down"
  /\ service = [s \in Service |-> "returned"]
  /\ wg = 0
  /\ blocked = {}

(* The services start one after another, the notifier first and the HTTP   *)
(* server last.  One step is enough: main looks for a signal only when all *)
(* of them are started, a message waits until the notifier reads, and as   *)
(* long as nobody listens yet a client's try fails, as it may at any time. *)
StartServer ==
  /\ main = "down"
  /\ main' = "running"
  /\ service' = [s \in Service |-> "select"]
  /\ wg' = Cardinality(Service)
  /\ UNCHANGED blocked

(* SIGTERM or SIGINT: cancelFn. *)
Signal ==
  /\ main = "running"
  /\ main' = "stopping"
  /\ UNCHANGED <<service, wg, blocked>>

(* The select of a loop takes its default branch when the context is live. *)
BeginPass(s) ==
  /\ s \in Loop /\ service[s] = "select"
  /\ main = "running"
  /\ service' = [service EXCEPT ![s] = "pass"]
  /\ UNCHANGED <<main, wg, blocked>>

(* Three slips: the service that returns without Done, the one that        *)
(* returns in the middle of its pass, and the notifier that returns at an  *)
(* error.                                                                  *)
ReturnSilently(s) ==
  /\ main = "stopping"
  /\ service[s] = "select"
  /\ service' = [service EXCEPT ![s] = "returned"]
  /\ wg' = IF s = HTTPServer THEN wg ELSE wg - 1
  /\ UNCHANGED <<main, blocked>>

ReturnAtOnce(s) ==
  /\ main = "stopping"
  /\ service[s] # "returned"
  /\ service' = [service EXCEPT ![s] = "returned"]
  /\ wg' = wg - 1
  /\ UNCHANGED <<main, blocked>>

ReturnAtError(s) ==
  /\ main = "stopping" \/ (main = "running" /\ s = Notifier)
  /\ service[s] = "select"
  /\ service' = [service EXCEPT ![s] = "returned"]
  /\ wg' = wg - 1
  /\ UNCHANGED <<main, blocked>>

(* The select sees the cancelled context: Done and return.  The HTTP       *)
(* server's Shutdown is given that context, so it closes the listener and  *)
(* the idle connections and leaves the handlers alone.                     *)
Return(s) ==
  /\ main = "stopping"
  /\ service[s] = "select"
  /\ service' = [service EXCEPT ![s] = "returned"]
  /\ wg' = wg - 1
  /\ UNCHANGED <<main, blocked>>

Listening == service[HTTPServer] = "select"

(* The notifier's loop: until its select finds the context cancelled, it    *)
(* takes every message and hands it to a goroutine of its own (push).       *)
NotifierReads == service[Notifier] = "select"

(* publish, called by w as a part of its step: a send that nobody receives. *)
Publish(w) == blocked' = IF NotifierReads THEN blocked ELSE blocked \cup {w}

(* The pass is over, unless the message that ends it is never read. *)
EndPass(s) ==
  service' = [service EXCEPT ![s] = IF s \in blocked' THEN "pass" ELSE "select"]

(* The process ends: its goroutines, the handlers' included, are gone. *)
Down ==
  /\ main' = "down"
  /\ service' = [s \in Service |-> "returned"]
  /\ wg' = 0
  /\ blocked' = {}

Exit == main = "stopping" /\ wg = 0 /\ Down

(* A crash, an eviction of its node, or SIGKILL after the grace period. *)
Kill == main # "down" /\ Down
=============================================================================
