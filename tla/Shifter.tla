------------------------------ MODULE Shifter ------------------------------
(***************************************************************************)
(* The shifter loop (pkg/shifter): inside the white-listed intervals, take *)
(* each on-demand pool that has outgrown its minimum, cordon its nodes,    *)
(* and for each of them evacuate it and delete it, after the preemptible   *)
(* pool with the same labels has been made larger by one node per zone for *)
(* every NumberOfZones nodes deleted.                                      *)
(*                                                                         *)
(* In this module NodeName holds the nodes of the on-demand pools.  The    *)
(* shifter runs EvacuatePodsFromNode as a worker of module Evacuation.     *)
(***************************************************************************)
EXTENDS Evacuation, NodePools, FiniteSets

CONSTANTS
  Shifter,         \* the shifter's goroutine, one in each server
  OnDemand,        \* the on-demand pools
  PoolOf, ZoneOf,  \* the pool and the zone of each node
  Labels,          \* the labels of each pool, Unlabelled for none
  MachineType,     \* the machine type of each pool
  Unlabelled,
  MinNodeCount,    \* the minimum of each on-demand pool's autoscaler
  NumberOfZones,   \* what GetNumberOfZones counts
  ShiftInterval,   \* the white list: pairs of times of day
  Day              \* the length of a day

ASSUME ShifterAssumption ==
  /\ Shifter \subseteq Worker
  /\ PoolOf \in [NodeName -> OnDemand]
  /\ ZoneOf \in [NodeName -> Zone]
  /\ MinNodeCount \in [OnDemand -> Nat]
  /\ NumberOfZones \in Nat \ {0}
  /\ Day \in Nat \ {0}
  /\ ShiftInterval \subseteq (0 .. Day - 1) \X (0 .. Day - 1)

VARIABLES
  due,      \* due[s]: the intervals s still has to shift for in this turn
  shift,    \* shift[s]: the local variables of the shift that s is at
  grown     \* history: the resizes that succeeded for the current pool

shifterVars == <<due, shift, grown>>

At == {"idle", "pool", "list", "cordon", "node", "size", "resize", "evacuate"}

(* pools: the entries of nodePoolMap not visited; pool: the current one;   *)
(* source: its nodes not come to; uncordoned: those not cordoned; node:    *)
(* the current one; want: the size to ask for.                             *)
Resting == [at |-> "idle", pools |-> {}, pool |-> <<>>, source |-> {},
            uncordoned |-> {}, node |-> NoNode, deleted |-> 0, want |-> 0]

ShifterInit ==
  /\ due = [s \in Shifter |-> {}]
  /\ shift = [s \in Shifter |-> Resting]
  /\ grown = [s \in Shifter |-> 0]

ShifterTypeOK ==
  /\ due \in [Shifter -> SUBSET ShiftInterval]
  /\ shift \in [Shifter ->
       [at : At, pools : SUBSET (OnDemand \X Preemptible),
        pool : (OnDemand \X Preemptible) \cup {<<>>},
        source : SUBSET NodeName, uncordoned : SUBSET NodeName,
        node : NodeName \cup {NoNode}, deleted : Nat, want : Nat]]
  /\ grown \in [Shifter -> Nat]

Becomes(s, r) == shift' = [shift EXCEPT ![s] = r]

(* return from shift: whatever is left of it is for another pass. *)
Return(s) == Becomes(s, Resting) /\ grown' = [grown EXCEPT ![s] = 0]

(* timeWithinWLIntervalCheck: both ends are in an interval, and neither in *)
(* one that goes round midnight.                                           *)
timeWithin(i, t) ==
  \/ i[1] <= i[2] /\ i[1] <= t /\ t <= i[2]
  \/ i[2] < i[1] /\ (i[1] < t \/ t < i[2])

(* getNodePoolMap: each on-demand pool with a preemptible one that has     *)
(* labels, the same ones, and the same machine type.                       *)
Matches(p, o) ==
  /\ Labels[p] # Unlabelled
  /\ Labels[p] = Labels[o]
  /\ MachineType[p] = MachineType[o]

NodePoolMaps ==
  LET matched == {o \in OnDemand : \E p \in Preemptible : Matches(p, o)}
  IN {m \in [matched -> Preemptible] : \A o \in matched : Matches(m[o], o)}

(* GetNodes for a pool, and getNodePoolSize of the answer. *)
NodesOf(o) == {n \in NodeName : nodes[n] # NotFound /\ PoolOf[n] = o}

OnDemandSize(o) ==
  LargestZone([z \in Zone |-> Cardinality({n \in NodesOf(o) : ZoneOf[n] = z})])

PreemptibleSize(p) == LargestZone(up[p])
---------------------------------------------------------------------------
(* Start: one reading of the clock for all the intervals of a turn. *)
ReadClock(s) ==
  /\ shift[s].at = "idle" /\ due[s] = {}
  /\ due' = [due EXCEPT ![s] = {i \in ShiftInterval : timeWithin(i, clock % Day)}]
  /\ UNCHANGED <<clusterVars, evacuationVars, poolVars, shift, grown>>

(* shift, first call: an error of it ends the shift. *)
ListPools(s) ==
  /\ shift[s].at = "idle"
  /\ \E i \in due[s] : due' = [due EXCEPT ![s] = @ \ {i}]
  /\ \/ \E m \in NodePoolMaps :
          Becomes(s, [Resting EXCEPT !.at = "pool",
                                     !.pools = {<<o, m[o]>> : o \in DOMAIN m}])
     \/ Becomes(s, Resting)
  /\ UNCHANGED <<clusterVars, evacuationVars, poolVars, grown>>

(* The next pool of the map, in any order; an error of the list, or a pool *)
(* that is not over its minimum, is passed over.                           *)
NextPool(s) ==
  /\ shift[s].at = "pool"
  /\ \/ shift[s].pools = {} /\ Return(s)
     \/ \E pool \in shift[s].pools :
          /\ LET rest == [Resting EXCEPT !.at = "pool", !.pools = shift[s].pools \ {pool}]
             IN \/ Becomes(s, rest)
                \/ /\ OnDemandSize(pool[1]) > MinNodeCount[pool[1]]
                   /\ Becomes(s, [rest EXCEPT !.at = "list", !.pool = pool])
          /\ grown' = [grown EXCEPT ![s] = 0]
  /\ UNCHANGED <<clusterVars, evacuationVars, poolVars, due>>

(* continue with the next pool. *)
SkipPool(s) ==
  /\ Becomes(s, [Resting EXCEPT !.at = "pool", !.pools = shift[s].pools])
  /\ grown' = [grown EXCEPT ![s] = 0]

ListSource(s) ==
  /\ shift[s].at = "list"
  /\ \/ /\ Becomes(s, [shift[s] EXCEPT !.at = "cordon",
                                       !.source = NodesOf(shift[s].pool[1]),
                                       !.uncordoned = NodesOf(shift[s].pool[1])])
        /\ UNCHANGED grown
     \/ SkipPool(s)
  /\ UNCHANGED <<clusterVars, evacuationVars, poolVars, due>>

(* Slip: an error moves on to the next node of the list. *)
CordonSourceAnyway(s) ==
  /\ shift[s].at = "cordon"
  /\ \/ /\ shift[s].uncordoned = {}
        /\ Becomes(s, [shift[s] EXCEPT !.at = "node"])
        /\ UNCHANGED clusterVars
     \/ \E n \in shift[s].uncordoned :
          /\ \/ UNCHANGED clusterVars
             \/ nodes[n] # NotFound /\ UpdateNode(n, Cordoned(nodes[n]), FALSE)
          /\ Becomes(s, [shift[s] EXCEPT !.uncordoned = @ \ {n}])
  /\ UNCHANGED <<evacuationVars, poolVars, due, grown>>

(* makeNodeUnschedulable fetches each node and writes it back: the write   *)
(* is only applied to the object as it was fetched, so the two calls do    *)
(* together what one step on the current object does.                      *)
CordonSource(s) ==
  /\ shift[s].at = "cordon"
  /\ \/ /\ shift[s].uncordoned = {}
        /\ Becomes(s, [shift[s] EXCEPT !.at = "node"])
        /\ UNCHANGED <<clusterVars, grown>>
     \/ \E n \in shift[s].uncordoned :
          \/ /\ nodes[n] # NotFound
             /\ UpdateNode(n, Cordoned(nodes[n]), TRUE)
             /\ Becomes(s, [shift[s] EXCEPT !.uncordoned = @ \ {n}])
             /\ UNCHANGED grown
          \/ /\ \/ UNCHANGED clusterVars
                \/ nodes[n] # NotFound /\ UpdateNode(n, Cordoned(nodes[n]), FALSE)
             /\ SkipPool(s)
  /\ UNCHANGED <<evacuationVars, poolVars, due>>

(* The next node of the list; before the first of every NumberOfZones that *)
(* are deleted the preemptible pool is made larger.                        *)
NextNode(s) ==
  /\ shift[s].at = "node"
  /\ \/ shift[s].source = {} /\ SkipPool(s) /\ UNCHANGED evacuationVars
     \/ \E n \in shift[s].source :
          /\ UNCHANGED grown
          /\ LET next == [shift[s] EXCEPT !.source = @ \ {n}, !.node = n]
             IN IF shift[s].deleted % NumberOfZones = 0
                  THEN Becomes(s, [next EXCEPT !.at = "size"]) /\ UNCHANGED evacuationVars
                  ELSE Becomes(s, [next EXCEPT !.at = "evacuate"]) /\ Evacuate(s, n)
  /\ UNCHANGED <<clusterVars, poolVars, due>>

(* Slip: one node less, not one more. *)
ReadSizeLess(s) ==
  /\ shift[s].at = "size"
  /\ \/ /\ Becomes(s, [shift[s] EXCEPT !.at = "resize",
                                       !.want = PreemptibleSize(shift[s].pool[2]) - 1])
        /\ UNCHANGED grown
     \/ Return(s)
  /\ UNCHANGED <<clusterVars, evacuationVars, poolVars, due>>

(* An error of the list or of the resize gives up the whole shift. *)
ReadSize(s) ==
  /\ shift[s].at = "size"
  /\ \/ /\ Becomes(s, [shift[s] EXCEPT !.at = "resize",
                                       !.want = PreemptibleSize(shift[s].pool[2]) + 1])
        /\ UNCHANGED grown
     \/ Return(s)
  /\ UNCHANGED <<clusterVars, evacuationVars, poolVars, due>>

Resize(s) ==
  /\ shift[s].at = "resize"
  /\ \E ok \in BOOLEAN :
       /\ SetNodePoolSize(shift[s].pool[2], shift[s].want, ok)
       /\ IF ok THEN /\ Becomes(s, [shift[s] EXCEPT !.at = "evacuate"])
                     /\ grown' = [grown EXCEPT ![s] = @ + 1]
                     /\ Evacuate(s, shift[s].node)
                ELSE Return(s) /\ UNCHANGED evacuationVars
  /\ UNCHANGED <<clusterVars, due>>

(* Slip: a node whose evacuation failed is deleted all the same. *)
DeleteSourceAnyway(s) ==
  /\ shift[s].at = "evacuate" /\ pc[s] \in {"evacuated", "failed"}
  /\ \E ok \in BOOLEAN :
       /\ DeleteNodeObject(shift[s].node, ok)
       /\ Becomes(s, [shift[s] EXCEPT !.at = "node", !.node = NoNode,
                         !.deleted = IF ok THEN @ + 1 ELSE @])
  /\ Finish(s)
  /\ UNCHANGED <<poolVars, due, grown>>

(* Slip: a deletion that failed is counted like the others. *)
DeleteSourceUnchecked(s) ==
  /\ shift[s].at = "evacuate" /\ pc[s] = "evacuated"
  /\ \E ok \in BOOLEAN : DeleteNodeObject(shift[s].node, ok)
  /\ Becomes(s, [shift[s] EXCEPT !.at = "node", !.node = NoNode, !.deleted = @ + 1])
  /\ Finish(s)
  /\ UNCHANGED <<poolVars, due, grown>>

(* The node object goes; its VM is left to the cluster. *)
DeleteSource(s) ==
  /\ shift[s].at = "evacuate" /\ pc[s] = "evacuated"
  /\ \E ok \in BOOLEAN :
       /\ DeleteNodeObject(shift[s].node, ok)
       /\ Becomes(s, [shift[s] EXCEPT !.at = "node", !.node = NoNode,
                         !.deleted = IF ok THEN @ + 1 ELSE @])
  /\ Finish(s)
  /\ UNCHANGED <<poolVars, due, grown>>

(* A node that could not be drained stays, cordoned. *)
LeaveSource(s) ==
  /\ shift[s].at = "evacuate" /\ pc[s] = "failed"
  /\ Becomes(s, [shift[s] EXCEPT !.at = "node", !.node = NoNode])
  /\ Finish(s)
  /\ UNCHANGED <<clusterVars, poolVars, due, grown>>

ShifterStep(s) ==
  \/ ReadClock(s)
  \/ ListPools(s)
  \/ NextPool(s)
  \/ ListSource(s)
  \/ CordonSource(s)
  \/ NextNode(s)
  \/ ReadSize(s)
  \/ Resize(s)
  \/ DeleteSource(s)
  \/ LeaveSource(s)
=============================================================================
