----------------------------- MODULE NodePools -----------------------------
(***************************************************************************)
(* The preemptible node pools of the cluster, as the container API shows   *)
(* them to pkg/gcloud: a pool has a size, the number of nodes it is to     *)
(* have in each zone, and the nodes that are there, which follow the size  *)
(* as Compute Engine has machines to give and takes them back.             *)
(***************************************************************************)
EXTENDS Integers, FiniteSetsExt

CONSTANTS
  Preemptible,   \* the preemptible node pools
  Zone,          \* the zones of the cluster
  InitialSize,   \* of each pool
  MaxSize        \* bound: a pool of this size stands for the larger ones too

VARIABLES
  size,          \* size[p]: the nodes the pool is to have per zone
  up             \* up[p][z]: its nodes that are registered in zone z

poolVars == <<size, up>>

Size == 0 .. MaxSize

ASSUME PoolAssumption ==
  /\ MaxSize \in Nat
  /\ InitialSize \in Size
  /\ IsFiniteSet(Zone) /\ Zone # {}

PoolTypeOK ==
  /\ size \in [Preemptible -> Size]
  /\ up \in [Preemptible -> [Zone -> Size]]

PoolInit ==
  /\ size = [p \in Preemptible |-> InitialSize]
  /\ up = [p \in Preemptible |-> [z \in Zone |-> InitialSize]]

LargestZone(count) == Max({count[z] : z \in Zone})

(* The pool is given a size; nodes beyond it are removed. *)
Resized(p, s) ==
  /\ size' = [size EXCEPT ![p] = s]
  /\ up' = [up EXCEPT ![p] = [z \in Zone |-> Min({@[z], s})]]

(* SetNodePoolSize waits for the operation: an error may mean that it was  *)
(* refused, that it failed, or that it is still going on when the wait is  *)
(* given up.  DONE does not mean that there were machines for the nodes.   *)
SetNodePoolSize(p, s, ok) ==
  \/ Resized(p, Min({s, MaxSize}))
  \/ ~ok /\ UNCHANGED poolVars

NodeJoins(p, z) ==
  /\ up[p][z] < size[p]
  /\ up' = [up EXCEPT ![p][z] = @ + 1]
  /\ UNCHANGED size

(* A preemption, or the killer. *)
NodeLeaves(p, z) ==
  /\ up[p][z] > 0
  /\ up' = [up EXCEPT ![p][z] = @ - 1]
  /\ UNCHANGED size

(* The cluster autoscaler, for pods that wait or nodes that are not used. *)
Autoscale(p) ==
  \E s \in {size[p] - 1, size[p] + 1} \cap Size : Resized(p, s)

PoolEnvironment ==
  \E p \in Preemptible :
    \/ \E z \in Zone : NodeJoins(p, z) \/ NodeLeaves(p, z)
    \/ Autoscale(p)
=============================================================================
