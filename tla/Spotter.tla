------------------------------ MODULE Spotter ------------------------------
(***************************************************************************)
(* The spotter loop (pkg/spotter/spotter.go): list the nodes and write an  *)
(* expiry time on each that has none, as an update of the whole object     *)
(* that was listed.                                                        *)
(***************************************************************************)
EXTENDS Cluster

CONSTANTS
  SpotterThread,  \* the spotter's goroutine, one in each server
  ExpiryTimes     \* ExpiryTimes[t]: what getExpiryTimestamp may return for a
                  \* node created at t; empty when it returns an error

ASSUME ExpiryTimesAssumption == \A t \in Time : ExpiryTimes[t] \subseteq Nat

(* listed[s][n]: the object of n that s listed and has not come to yet. *)
VARIABLE listed

SpotterTypeOK ==
  listed \in [SpotterThread -> [NodeName -> NodeObject \cup {NotFound}]]

SpotterInit ==
  listed = [s \in SpotterThread |-> [n \in NodeName |-> NotFound]]

(* The list; the nodes the loop skips for their annotation are left out. *)
ListNodes(s) ==
  /\ \A n \in NodeName : listed[s][n] = NotFound
  /\ listed' = [listed EXCEPT ![s] =
       [n \in NodeName |->
          IF nodes[n] # NotFound /\ nodes[n].expiry = NoExpiry
            THEN nodes[n] ELSE NotFound]]
  /\ UNCHANGED clusterVars

(* Slip: the subtraction the wrong way round. *)
AnnotatedBackwards(o, t) == [o EXCEPT !.expiry = o.created - t]

Annotated(o, t) == [o EXCEPT !.expiry = t]

(* Slips: the update that takes the newest revision for its old object, and *)
(* the one that is tried again from the same copy after an error.           *)
AnnotateForced(s, n) ==
  /\ listed[s][n] # NotFound
  /\ nodes[n] # NotFound
  /\ \E t \in ExpiryTimes[listed[s][n].created] :
       UpdateNode(n, [Annotated(listed[s][n], t) EXCEPT !.rv = nodes[n].rv], TRUE)
  /\ listed' = [listed EXCEPT ![s][n] = NotFound]

AnnotateFromSameCopy(s, n) ==
  /\ listed[s][n] # NotFound
  /\ \E t \in ExpiryTimes[listed[s][n].created], ok \in BOOLEAN :
       /\ UpdateNode(n, Annotated(listed[s][n], t), ok)
       /\ listed' = IF ok THEN [listed EXCEPT ![s][n] = NotFound] ELSE listed

(* Slip: the update that is made to the object fetched anew, with the      *)
(* expiry time that was computed for the listed one.                       *)
AnnotateRefetched(s, n) ==
  /\ listed[s][n] # NotFound
  /\ nodes[n] # NotFound
  /\ \E t \in ExpiryTimes[listed[s][n].created] :
       UpdateNode(n, Annotated(nodes[n], t), TRUE)
  /\ listed' = [listed EXCEPT ![s][n] = NotFound]

(* One turn of the loop.  No expiry time for the node, or an error of the *)
(* update, moves on to the next one; a later list comes back to it.       *)
Annotate(s, n) ==
  /\ listed[s][n] # NotFound
  /\ LET o == listed[s][n]
     IN \/ /\ ExpiryTimes[o.created] = {}
           /\ UNCHANGED clusterVars
        \/ \E t \in ExpiryTimes[o.created], ok \in BOOLEAN :
             UpdateNode(n, Annotated(o, t), ok)
  /\ listed' = [listed EXCEPT ![s][n] = NotFound]

SpotterStep(s) == ListNodes(s) \/ \E n \in NodeName : Annotate(s, n)
=============================================================================
