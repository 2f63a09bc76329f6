--------------------------- MODULE ShiftingProofs ---------------------------
(***************************************************************************)
(* Proofs about the shifter, for any number of shifters, pools, zones,     *)
(* nodes and pods: no node that is still to be moved is open, none goes    *)
(* with its pods, and each step is one of PoolMove.                        *)
(***************************************************************************)
EXTENDS Shifting, EvacuationProofs, WellFoundedInduction

---------------------------------------------------------------------------
(***************************************************************************)
(* Numbers.                                                                *)
(***************************************************************************)

LEMMA LeastExists ==
  ASSUME NEW T, T \subseteq Nat, T # {}
  PROVE  \E x \in T : \A y \in T : x <= y
<1> DEFINE R == OpToRel(<, Nat)
<1>1. IsWellFoundedOn(R, Nat)
  BY NatLessThanWellFounded
<1>2. \A x \in Nat, y \in Nat : y < x => <<y, x>> \in R
  BY DEF OpToRel
<1>3. \E x \in T : \A y \in T : ~ (<<y, x>> \in R)
  BY <1>1, WFMin
<1> HIDE DEF R
<1>4. PICK x \in T : \A y \in T : ~ (<<y, x>> \in R)
  BY <1>3
<1>5. ASSUME NEW y \in T PROVE x <= y
  <2>1. x \in Nat /\ y \in Nat
    OBVIOUS
  <2>2. ~ (y < x)
    BY <1>2, <1>4, <2>1
  <2> QED
    BY <2>1, <2>2
<1> QED
  BY <1>5

LEMMA GreatestExists ==
  ASSUME NEW T, NEW b \in Nat, T \subseteq 0 .. b, T # {}
  PROVE  Max(T) \in T
<1> DEFINE U == {b - x : x \in T}
<1>1. U \subseteq Nat
  <2>1. ASSUME NEW x \in T PROVE b - x \in Nat
    <3>1. x \in 0 .. b
      OBVIOUS
    <3> QED
      BY <3>1
  <2> QED
    BY <2>1
<1>2. PICK u \in U : \A v \in U : u <= v
  <2>1. U # {}
    OBVIOUS
  <2> HIDE DEF U
  <2> QED
    BY <1>1, <2>1, LeastExists
<1>3. PICK m \in T : u = b - m
  OBVIOUS
<1>4. ASSUME NEW y \in T PROVE m >= y
  <2>1. y \in 0 .. b /\ m \in 0 .. b /\ b - y \in U
    OBVIOUS
  <2> HIDE DEF U
  <2>2. b - m <= b - y
    BY <1>2, <1>3, <2>1
  <2>3. b \in Int /\ y \in Int /\ m \in Int
    BY <2>1
  <2> QED
    BY <2>2, <2>3
<1> QED
  BY <1>4 DEF Max

LEMMA MinOfTwo ==
  ASSUME NEW a \in Nat, NEW b \in Nat
  PROVE  Min({a, b}) \in {a, b} /\ Min({a, b}) <= a /\ Min({a, b}) <= b
<1>1. \E x \in {a, b} : \A y \in {a, b} : x <= y
  <2>1. a <= b \/ b <= a
    OBVIOUS
  <2> QED
    BY <2>1
<1> QED
  BY <1>1 DEF Min

(* One more resize is room for NumberOfZones more nodes. *)
LEMMA OneMoreResize ==
  ASSUME NEW d \in Nat, NEW g \in Nat, d <= NumberOfZones * g
  PROVE  d < NumberOfZones * (g + 1)
<1>1. NumberOfZones \in Nat \ {0}
  BY ShifterAssumption
<1>2. NumberOfZones * (g + 1) = NumberOfZones * g + NumberOfZones
  BY <1>1
<1>3. NumberOfZones * g \in Nat
  BY <1>1
<1> QED
  BY <1>1, <1>2, <1>3

(* All room is used up only at a multiple of NumberOfZones. *)
LEMMA RoomLeft ==
  ASSUME NEW d \in Nat, NEW g \in Nat, d <= NumberOfZones * g, d % NumberOfZones # 0
  PROVE  d < NumberOfZones * g
<1>1. NumberOfZones \in Nat \ {0}
  BY ShifterAssumption
<1>2. (NumberOfZones * g) % NumberOfZones = 0
  BY <1>1
<1>3. NumberOfZones * g \in Nat
  BY <1>1
<1> QED
  BY <1>2, <1>3

---------------------------------------------------------------------------
(***************************************************************************)
(* Types, and the room: what the loop over the nodes counts.               *)
(***************************************************************************)

ShiftRecord ==
  [at : At, pools : SUBSET (OnDemand \X Preemptible),
   pool : (OnDemand \X Preemptible) \cup {<<>>},
   source : SUBSET NodeName, uncordoned : SUBSET NodeName,
   node : NodeName \cup {NoNode}, deleted : Nat, want : Nat]

(* The local variables r of a shift, with g resizes that succeeded. *)
Sound(r, g) ==
  /\ r.at \in {"size", "resize", "evacuate"} => r.node \in NodeName
  /\ r.at \notin {"idle", "pool"} => r.pool \in OnDemand \X Preemptible
  /\ r.at \in {"idle", "pool", "list", "cordon"} => r.deleted = 0
  /\ r.deleted <= NumberOfZones * g
  /\ r.at = "evacuate" => r.deleted < NumberOfZones * g

LocalInv ==
  \A s \in Shifter :
    /\ shift[s] \in ShiftRecord /\ grown[s] \in Nat /\ Sound(shift[s], grown[s])
    /\ shift[s].at = "evacuate" => target[s] = shift[s].node

TypeInv == TypeOK /\ ControlInv /\ LocalInv

LEMMA RoomIsNat == ASSUME NEW g \in Nat PROVE NumberOfZones * g \in Nat
BY ShifterAssumption

LEMMA RestingIsSound ==
  ASSUME NEW g \in Nat
  PROVE  Resting \in ShiftRecord /\ Sound(Resting, g)
BY RoomIsNat DEF Resting, ShiftRecord, Sound, At

LEMMA PoolIsSound ==
  ASSUME NEW g \in Nat, NEW pools \in SUBSET (OnDemand \X Preemptible)
  PROVE  /\ [Resting EXCEPT !.at = "pool", !.pools = pools] \in ShiftRecord
         /\ Sound([Resting EXCEPT !.at = "pool", !.pools = pools], g)
<1> DEFINE r == [Resting EXCEPT !.at = "pool", !.pools = pools]
<1>1. Resting \in ShiftRecord /\ Resting.deleted = 0
  BY RestingIsSound DEF Resting
<1>2. r \in ShiftRecord /\ r.at = "pool" /\ r.deleted = 0
  BY <1>1 DEF ShiftRecord, At
<1> HIDE DEF r
<1>3. 0 <= NumberOfZones * g
  BY RoomIsNat
<1>4. Sound(r, g)
  BY <1>2, <1>3 DEF Sound
<1> QED
  BY <1>2, <1>4 DEF r

LEMMA ListIsSound ==
  ASSUME NEW g \in Nat, NEW pools \in SUBSET (OnDemand \X Preemptible),
         NEW pool \in OnDemand \X Preemptible
  PROVE  /\ [Resting EXCEPT !.at = "list", !.pools = pools, !.pool = pool] \in ShiftRecord
         /\ Sound([Resting EXCEPT !.at = "list", !.pools = pools, !.pool = pool], g)
<1> DEFINE r == [Resting EXCEPT !.at = "list", !.pools = pools, !.pool = pool]
<1>1. Resting \in ShiftRecord /\ Resting.deleted = 0
  BY RestingIsSound DEF Resting
<1>2. r \in ShiftRecord /\ r.at = "list" /\ r.deleted = 0
      /\ r.pool \in OnDemand \X Preemptible
  BY <1>1 DEF ShiftRecord, At
<1> HIDE DEF r
<1>3. 0 <= NumberOfZones * g
  BY RoomIsNat
<1>4. Sound(r, g)
  BY <1>2, <1>3 DEF Sound
<1> QED
  BY <1>2, <1>4 DEF r

(* What a step of one shifter does to its own variables. *)
Local(s) ==
  /\ \A t \in Shifter \ {s} : shift'[t] = shift[t] /\ grown'[t] = grown[t]
  /\ shift'[s] \in ShiftRecord /\ grown'[s] \in Nat /\ Sound(shift'[s], grown'[s])
  /\ shift' \in [Shifter -> ShiftRecord] /\ grown' \in [Shifter -> Nat]
  /\ due' \in [Shifter -> SUBSET ShiftInterval]

LEMMA LocalStep ==
  ASSUME TypeInv, NEW s \in Shifter, ShifterStep(s)
  PROVE  Local(s)
<1>1. /\ shift \in [Shifter -> ShiftRecord] /\ grown \in [Shifter -> Nat]
      /\ due \in [Shifter -> SUBSET ShiftInterval]
      /\ shift[s] \in ShiftRecord /\ grown[s] \in Nat /\ Sound(shift[s], grown[s])
  BY DEF TypeInv, TypeOK, ShifterTypeOK, LocalInv, ShiftRecord
<1>2. ASSUME NEW r \in ShiftRecord, Becomes(s, r), Sound(r, grown[s]), UNCHANGED grown,
             due' \in [Shifter -> SUBSET ShiftInterval]
      PROVE  Local(s)
  BY <1>1, <1>2 DEF Becomes, Local
<1>3. ASSUME NEW r \in ShiftRecord, Becomes(s, r), Sound(r, 0),
             grown' = [grown EXCEPT ![s] = 0], due' \in [Shifter -> SUBSET ShiftInterval]
      PROVE  Local(s)
  BY <1>1, <1>3 DEF Becomes, Local
<1>4. Return(s) /\ UNCHANGED due => Local(s)
  <2>1. Resting \in ShiftRecord /\ Sound(Resting, 0)
    BY RestingIsSound
  <2> QED
    BY <1>1, <1>3, <2>1 DEF Return
<1>5. SkipPool(s) /\ UNCHANGED due => Local(s)
  <2>1. shift[s].pools \in SUBSET (OnDemand \X Preemptible)
    BY <1>1 DEF ShiftRecord
  <2> DEFINE r == [Resting EXCEPT !.at = "pool", !.pools = shift[s].pools]
  <2>2. r \in ShiftRecord /\ Sound(r, 0)
    BY <2>1, PoolIsSound
  <2>3. SkipPool(s) => Becomes(s, r) /\ grown' = [grown EXCEPT ![s] = 0]
    BY DEF SkipPool
  <2> HIDE DEF r
  <2> QED
    BY <1>1, <1>3, <2>2, <2>3
<1>6. CASE ReadClock(s)
  <2>1. {i \in ShiftInterval : timeWithin(i, clock % Day)} \in SUBSET ShiftInterval
    OBVIOUS
  <2> QED
    BY <1>1, <1>6, <2>1 DEF ReadClock, Local
<1>7. CASE ListPools(s)
  <2>1. due' \in [Shifter -> SUBSET ShiftInterval] /\ UNCHANGED grown
    BY <1>1, <1>7 DEF ListPools
  <2>2. CASE Becomes(s, Resting)
    BY <1>1, <1>2, <2>1, <2>2, RestingIsSound
  <2>3. ASSUME NEW m \in NodePoolMaps,
               Becomes(s, [Resting EXCEPT !.at = "pool",
                                          !.pools = {<<o, m[o]>> : o \in DOMAIN m}])
        PROVE  Local(s)
    <3> DEFINE pools == {<<o, m[o]>> : o \in DOMAIN m}
               r == [Resting EXCEPT !.at = "pool", !.pools = pools]
    <3>1. pools \in SUBSET (OnDemand \X Preemptible)
      BY DEF NodePoolMaps
    <3> HIDE DEF pools
    <3>2. r \in ShiftRecord /\ Sound(r, grown[s])
      BY <1>1, <3>1, PoolIsSound
    <3> HIDE DEF r
    <3>3. Becomes(s, r)
      BY <2>3 DEF r, pools
    <3> QED
      BY <1>2, <2>1, <3>2, <3>3
  <2> QED
    BY <1>7, <2>2, <2>3 DEF ListPools
<1>8. CASE NextPool(s)
  <2>1. CASE Return(s)
    BY <1>4, <1>8, <2>1 DEF NextPool
  <2>2. ASSUME NEW pool \in shift[s].pools,
               LET rest == [Resting EXCEPT !.at = "pool", !.pools = shift[s].pools \ {pool}]
               IN Becomes(s, rest) \/ Becomes(s, [rest EXCEPT !.at = "list", !.pool = pool]),
               grown' = [grown EXCEPT ![s] = 0]
        PROVE  Local(s)
    <3> DEFINE pools == shift[s].pools \ {pool}
    <3>1. pools \in SUBSET (OnDemand \X Preemptible) /\ pool \in OnDemand \X Preemptible
      BY <1>1 DEF ShiftRecord
    <3>2. UNCHANGED due
      BY <1>8 DEF NextPool
    <3> HIDE DEF pools
    <3>3. CASE Becomes(s, [Resting EXCEPT !.at = "pool", !.pools = pools])
      <4> DEFINE r == [Resting EXCEPT !.at = "pool", !.pools = pools]
      <4>1. r \in ShiftRecord /\ Sound(r, 0)
        BY <3>1, PoolIsSound
      <4> HIDE DEF r
      <4>2. Becomes(s, r)
        BY <3>3 DEF r
      <4> QED
        BY <1>1, <1>3, <2>2, <3>2, <4>1, <4>2
    <3>4. CASE Becomes(s, [Resting EXCEPT !.at = "list", !.pools = pools, !.pool = pool])
      <4> DEFINE r == [Resting EXCEPT !.at = "list", !.pools = pools, !.pool = pool]
      <4>1. r \in ShiftRecord /\ Sound(r, 0)
        BY <3>1, ListIsSound
      <4> HIDE DEF r
      <4>2. Becomes(s, r)
        BY <3>4 DEF r
      <4> QED
        BY <1>1, <1>3, <2>2, <3>2, <4>1, <4>2
    <3>5. [[Resting EXCEPT !.at = "pool", !.pools = pools] EXCEPT !.at = "list", !.pool = pool]
          = [Resting EXCEPT !.at = "list", !.pools = pools, !.pool = pool]
      BY DEF Resting
    <3> QED
      BY <2>2, <3>3, <3>4, <3>5 DEF pools
  <2> QED
    BY <1>8, <2>1, <2>2 DEF NextPool
<1>9. CASE ListSource(s)
  <2>1. ASSUME NEW N \in SUBSET NodeName, shift[s].at = "list"
        PROVE  LET r == [shift[s] EXCEPT !.at = "cordon", !.source = N, !.uncordoned = N]
               IN r \in ShiftRecord /\ Sound(r, grown[s])
    BY <1>1, <2>1 DEF ShiftRecord, Sound, At
  <2>2. NodesOf(shift[s].pool[1]) \in SUBSET NodeName
    BY DEF NodesOf
  <2> QED
    BY <1>1, <1>2, <1>5, <1>9, <2>1, <2>2 DEF ListSource
<1>10. CASE CordonSource(s)
  <2>1. CASE Becomes(s, [shift[s] EXCEPT !.at = "node"]) /\ UNCHANGED grown
    <3>1. [shift[s] EXCEPT !.at = "node"] \in ShiftRecord
          /\ Sound([shift[s] EXCEPT !.at = "node"], grown[s])
      BY <1>1, <1>10 DEF CordonSource, ShiftRecord, Sound, At
    <3> QED
      BY <1>1, <1>2, <1>10, <2>1, <3>1 DEF CordonSource
  <2>2. ASSUME NEW n \in NodeName, UNCHANGED grown,
               Becomes(s, [shift[s] EXCEPT !.uncordoned = @ \ {n}])
        PROVE  Local(s)
    <3>1. [shift[s] EXCEPT !.uncordoned = @ \ {n}] \in ShiftRecord
          /\ Sound([shift[s] EXCEPT !.uncordoned = @ \ {n}], grown[s])
      BY <1>1 DEF ShiftRecord, Sound
    <3> QED
      BY <1>1, <1>2, <1>10, <2>2, <3>1 DEF CordonSource
  <2>3. shift[s].uncordoned \subseteq NodeName
    BY <1>1 DEF ShiftRecord
  <2> QED
    BY <1>5, <1>10, <2>1, <2>2, <2>3 DEF CordonSource
<1>11. CASE NextNode(s)
  <2>1. ASSUME NEW n \in shift[s].source, UNCHANGED <<grown, due>>,
               IF shift[s].deleted % NumberOfZones = 0
                 THEN Becomes(s, [shift[s] EXCEPT !.source = @ \ {n}, !.node = n, !.at = "size"])
                 ELSE Becomes(s, [shift[s] EXCEPT !.source = @ \ {n}, !.node = n, !.at = "evacuate"])
        PROVE  Local(s)
    <3>1. n \in NodeName /\ shift[s].deleted \in Nat
          /\ shift[s].deleted <= NumberOfZones * grown[s]
          /\ shift[s].pool \in OnDemand \X Preemptible
      BY <1>1, <1>11 DEF NextNode, ShiftRecord, Sound
    <3>2. CASE shift[s].deleted % NumberOfZones = 0
      <4> DEFINE r == [shift[s] EXCEPT !.source = @ \ {n}, !.node = n, !.at = "size"]
      <4>1. r \in ShiftRecord /\ Sound(r, grown[s])
        BY <1>1, <3>1 DEF ShiftRecord, Sound, At
      <4> HIDE DEF r
      <4>2. Becomes(s, r)
        BY <2>1, <3>2 DEF r
      <4> QED
        BY <1>1, <1>2, <2>1, <4>1, <4>2
    <3>3. CASE shift[s].deleted % NumberOfZones # 0
      <4> DEFINE r == [shift[s] EXCEPT !.source = @ \ {n}, !.node = n, !.at = "evacuate"]
      <4>1. shift[s].deleted < NumberOfZones * grown[s]
        BY <1>1, <3>1, <3>3, RoomLeft
      <4>2. r \in ShiftRecord /\ Sound(r, grown[s])
        BY <1>1, <3>1, <4>1 DEF ShiftRecord, Sound, At
      <4> HIDE DEF r
      <4>3. Becomes(s, r)
        BY <2>1, <3>3 DEF r
      <4> QED
        BY <1>1, <1>2, <2>1, <4>2, <4>3
    <3> QED
      BY <3>2, <3>3
  <2> QED
    BY <1>5, <1>11, <2>1 DEF NextNode
<1>12. CASE ReadSize(s)
  <2>1. CASE Becomes(s, [shift[s] EXCEPT !.at = "resize",
                                         !.want = PreemptibleSize(shift[s].pool[2]) + 1])
             /\ UNCHANGED grown
    <3> DEFINE p == shift[s].pool[2]
               count == {up[p][z] : z \in Zone}
    <3>1. p \in Preemptible
      BY <1>1, <1>12 DEF ReadSize, Sound
    <3>2. count \subseteq 0 .. MaxSize /\ count # {} /\ MaxSize \in Nat
      BY <3>1, PoolAssumption DEF TypeInv, TypeOK, PoolTypeOK, Size
    <3>3. PreemptibleSize(p) = Max(count)
      BY DEF PreemptibleSize, LargestZone
    <3> HIDE DEF count, p
    <3>4. PreemptibleSize(p) \in Nat
      <4>1. Max(count) \in 0 .. MaxSize
        BY <3>2, GreatestExists
      <4>2. PreemptibleSize(p) \in 0 .. MaxSize
        BY <3>3, <4>1
      <4> QED
        BY <3>2, <4>2
    <3> DEFINE r == [shift[s] EXCEPT !.at = "resize", !.want = PreemptibleSize(p) + 1]
    <3>5. shift[s].at = "size" /\ PreemptibleSize(p) + 1 \in Nat
      BY <1>12, <3>4 DEF ReadSize
    <3>6. r \in ShiftRecord /\ Sound(r, grown[s])
      BY <1>1, <3>5 DEF ShiftRecord, Sound, At
    <3> HIDE DEF r
    <3>7. Becomes(s, r)
      BY <2>1 DEF r, p
    <3> QED
      BY <1>1, <1>2, <1>12, <2>1, <3>6, <3>7 DEF ReadSize
  <2> QED
    BY <1>4, <1>12, <2>1 DEF ReadSize
<1>13. CASE Resize(s)
  <2>1. CASE Becomes(s, [shift[s] EXCEPT !.at = "evacuate"])
             /\ grown' = [grown EXCEPT ![s] = @ + 1]
    <3> DEFINE r == [shift[s] EXCEPT !.at = "evacuate"]
    <3>1. shift[s].deleted \in Nat /\ shift[s].deleted <= NumberOfZones * grown[s]
      BY <1>1 DEF ShiftRecord, Sound
    <3>2. shift[s].deleted < NumberOfZones * (grown[s] + 1)
      BY <1>1, <3>1, OneMoreResize
    <3>3. NumberOfZones * (grown[s] + 1) \in Nat
      BY <1>1, ShifterAssumption
    <3>4. r \in ShiftRecord /\ Sound(r, grown[s] + 1)
      <4>1. shift[s].at = "resize"
        BY <1>13 DEF Resize
      <4>2. /\ r \in ShiftRecord /\ r.at = "evacuate" /\ r.node = shift[s].node
            /\ r.pool = shift[s].pool /\ r.deleted = shift[s].deleted
        BY <1>1 DEF ShiftRecord, At
      <4> HIDE DEF r
      <4>3. r.node \in NodeName /\ r.pool \in OnDemand \X Preemptible
        BY <1>1, <4>1, <4>2 DEF Sound
      <4> QED
        BY <3>1, <3>2, <3>3, <4>2, <4>3 DEF Sound
    <3> HIDE DEF r
    <3>5. Becomes(s, r)
      BY <2>1 DEF r
    <3> QED
      BY <1>1, <1>13, <2>1, <3>4, <3>5 DEF Resize, Becomes, Local
  <2> QED
    BY <1>4, <1>13, <2>1 DEF Resize
<1>14. CASE DeleteSource(s)
  <2>1. PICK ok \in BOOLEAN :
          Becomes(s, [shift[s] EXCEPT !.at = "node", !.node = NoNode,
                                      !.deleted = IF ok THEN @ + 1 ELSE @])
    BY <1>14 DEF DeleteSource
  <2> DEFINE r == [shift[s] EXCEPT !.at = "node", !.node = NoNode,
                                   !.deleted = IF ok THEN @ + 1 ELSE @]
  <2>2. shift[s].deleted \in Nat /\ shift[s].deleted < NumberOfZones * grown[s]
        /\ NumberOfZones * grown[s] \in Nat
    BY <1>1, <1>14, ShifterAssumption DEF DeleteSource, ShiftRecord, Sound
  <2>3. r \in ShiftRecord /\ Sound(r, grown[s])
    <3>1. shift[s].pool \in OnDemand \X Preemptible
      BY <1>1, <1>14 DEF DeleteSource, Sound
    <3>2. /\ r \in ShiftRecord /\ r.at = "node" /\ r.pool = shift[s].pool
          /\ r.deleted \in {shift[s].deleted, shift[s].deleted + 1}
      <4>1. PICK d \in {shift[s].deleted, shift[s].deleted + 1} :
              r = [shift[s] EXCEPT !.at = "node", !.node = NoNode, !.deleted = d]
        BY <1>1 DEF ShiftRecord
      <4>2. d \in Nat
        BY <2>2
      <4> HIDE DEF r
      <4> QED
        BY <1>1, <4>1, <4>2 DEF ShiftRecord, At
    <3> HIDE DEF r
    <3> QED
      BY <2>2, <3>1, <3>2 DEF Sound
  <2> HIDE DEF r
  <2>4. Becomes(s, r)
    BY <2>1 DEF r
  <2> QED
    BY <1>1, <1>2, <1>14, <2>3, <2>4 DEF DeleteSource
<1>15. CASE LeaveSource(s)
  <2> DEFINE r == [shift[s] EXCEPT !.at = "node", !.node = NoNode]
  <2>1. r \in ShiftRecord /\ Sound(r, grown[s])
    <3>1. shift[s].at = "evacuate"
      BY <1>15 DEF LeaveSource
    <3> QED
      BY <1>1, <3>1 DEF ShiftRecord, Sound, At
  <2> HIDE DEF r
  <2>2. Becomes(s, r)
    BY <1>15 DEF LeaveSource, r
  <2> QED
    BY <1>1, <1>2, <1>15, <2>1, <2>2 DEF LeaveSource
<1> QED
  BY <1>6, <1>7, <1>8, <1>9, <1>10, <1>11, <1>12, <1>13, <1>14, <1>15 DEF ShifterStep

---------------------------------------------------------------------------
(* What a step of one shifter asks of EvacuatePodsFromNode. *)
Calls(s) ==
  \/ UNCHANGED evacuationVars /\ (shift' = shift \/ shift'[s].at # "evacuate")
  \/ shift'[s].at = "evacuate" /\ Evacuate(s, shift'[s].node)
  \/ shift'[s].at # "evacuate" /\ Finish(s) /\ pc[s] \in {"evacuated", "failed"}

LEMMA CallsStep ==
  ASSUME TypeInv, NEW s \in Shifter, ShifterStep(s)
  PROVE  Calls(s)
<1>0. Resting \in ShiftRecord
  BY RestingIsSound
<1>1. shift \in [Shifter -> ShiftRecord] /\ shift[s] \in ShiftRecord
  BY DEF TypeInv, TypeOK, ShifterTypeOK, ShiftRecord
<1>2. ASSUME NEW r, Becomes(s, r) PROVE shift'[s] = r
  BY <1>1, <1>2 DEF Becomes
<1>3. Return(s) => shift'[s].at = "idle"
  BY <1>2 DEF Return, Resting
<1>4. SkipPool(s) => shift'[s].at = "pool"
  BY <1>2 DEF SkipPool, Resting
<1>5. CASE ReadClock(s)
  BY <1>5 DEF ReadClock, Calls
<1>6. CASE ListPools(s)
  <2>1. ASSUME NEW P, Becomes(s, [Resting EXCEPT !.at = "pool", !.pools = P])
        PROVE  shift'[s].at = "pool"
    BY <1>2, <1>0, <2>1 DEF ShiftRecord
  <2>2. Becomes(s, Resting) => shift'[s].at = "idle"
    BY <1>2 DEF Resting
  <2> QED
    BY <1>6, <2>1, <2>2 DEF ListPools, Calls
<1>7. CASE NextPool(s)
  BY <1>2, <1>3, <1>7, <1>0 DEF NextPool, ShiftRecord, Calls
<1>8. CASE ListSource(s)
  BY <1>1, <1>2, <1>4, <1>8 DEF ListSource, ShiftRecord, Calls
<1>9. CASE CordonSource(s)
  BY <1>1, <1>2, <1>4, <1>9 DEF CordonSource, ShiftRecord, Calls
<1>10. CASE NextNode(s)
  BY <1>1, <1>2, <1>4, <1>10 DEF NextNode, ShiftRecord, Calls
<1>11. CASE ReadSize(s)
  BY <1>1, <1>2, <1>3, <1>11 DEF ReadSize, ShiftRecord, Calls
<1>12. CASE Resize(s)
  BY <1>1, <1>2, <1>3, <1>12 DEF Resize, ShiftRecord, Calls
<1>13. CASE DeleteSource(s)
  BY <1>1, <1>2, <1>13 DEF DeleteSource, ShiftRecord, Calls
<1>14. CASE LeaveSource(s)
  BY <1>1, <1>2, <1>14 DEF LeaveSource, ShiftRecord, Calls
<1> QED
  BY <1>5, <1>6, <1>7, <1>8, <1>9, <1>10, <1>11, <1>12, <1>13, <1>14 DEF ShifterStep

(* What it does to the nodes. *)
Touches(s) ==
  \/ UNCHANGED clusterVars
  \/ /\ shift[s].at = "cordon"
     /\ \E n \in shift[s].uncordoned, ok \in BOOLEAN :
          nodes[n] # NotFound /\ UpdateNode(n, Cordoned(nodes[n]), ok)
  \/ /\ shift[s].at = "evacuate" /\ pc[s] = "evacuated"
     /\ \E ok \in BOOLEAN : DeleteNodeObject(shift[s].node, ok)

LEMMA TouchesStep ==
  ASSUME NEW s \in Shifter, ShifterStep(s)
  PROVE  Touches(s)
<1>1. CASE CordonSource(s)
  BY <1>1 DEF CordonSource, Touches
<1>2. CASE DeleteSource(s)
  BY <1>2 DEF DeleteSource, Touches
<1>3. CASE ~ CordonSource(s) /\ ~ DeleteSource(s)
  BY <1>3 DEF ShifterStep, ReadClock, ListPools, NextPool, ListSource, NextNode, ReadSize,
              Resize, LeaveSource, Touches
<1> QED
  BY <1>1, <1>2, <1>3

LEMMA ResizedType ==
  ASSUME PoolTypeOK, NEW p \in Preemptible, NEW n \in Nat, n <= MaxSize, Resized(p, n)
  PROVE  PoolTypeOK'
<1>1. n \in Size
  BY PoolAssumption DEF Size
<1>2. ASSUME NEW z \in Zone PROVE Min({up[p][z], n}) \in Size
  <2>1. up[p][z] \in Nat /\ up[p][z] \in Size
    BY PoolAssumption DEF PoolTypeOK, Size
  <2>2. Min({up[p][z], n}) \in {up[p][z], n}
    BY <2>1, MinOfTwo
  <2> QED
    BY <1>1, <2>1, <2>2
<1>3. [z \in Zone |-> Min({up[p][z], n})] \in [Zone -> Size]
  BY <1>2
<1> QED
  BY <1>1, <1>3 DEF Resized, PoolTypeOK

LEMMA PoolEnvironmentType ==
  ASSUME PoolTypeOK, PoolEnvironment
  PROVE  PoolTypeOK'
<1>1. MaxSize \in Nat
  BY PoolAssumption
<1>2. ASSUME NEW p \in Preemptible, NEW z \in Zone, NodeJoins(p, z) PROVE PoolTypeOK'
  <2>1. up[p][z] \in Size /\ size[p] \in Size
    BY DEF PoolTypeOK
  <2>2. up[p][z] + 1 \in Size
    BY <1>1, <1>2, <2>1 DEF NodeJoins, Size
  <2> QED
    BY <1>2, <2>2 DEF NodeJoins, PoolTypeOK
<1>3. ASSUME NEW p \in Preemptible, NEW z \in Zone, NodeLeaves(p, z) PROVE PoolTypeOK'
  <2>1. up[p][z] \in Size
    BY DEF PoolTypeOK
  <2>2. up[p][z] - 1 \in Size
    BY <1>1, <1>3, <2>1 DEF NodeLeaves, Size
  <2> QED
    BY <1>3, <2>2 DEF NodeLeaves, PoolTypeOK
<1>4. ASSUME NEW p \in Preemptible, Autoscale(p) PROVE PoolTypeOK'
  <2>1. PICK n \in Size : Resized(p, n)
    BY <1>4 DEF Autoscale
  <2>2. n \in Nat /\ n <= MaxSize
    BY <1>1 DEF Size
  <2> QED
    BY <2>1, <2>2, ResizedType
<1> QED
  BY <1>2, <1>3, <1>4 DEF PoolEnvironment

LEMMA ShifterStepType ==
  ASSUME TypeInv, NEW s \in Shifter, ShifterStep(s)
  PROVE  TypeInv'
<1>1. Local(s) /\ Calls(s) /\ Touches(s)
  BY LocalStep, CallsStep, TouchesStep
<1>2. /\ ClusterTypeOK /\ EvacuationTypeOK /\ PoolTypeOK /\ ControlInv /\ LocalInv
      /\ shift[s] \in ShiftRecord /\ Sound(shift[s], grown[s]) /\ s \in Worker
      /\ shift \in [Shifter -> ShiftRecord]
  BY OnlyShifters DEF TypeInv, TypeOK, LocalInv, ShifterTypeOK, ShiftRecord
<1>3. ClusterTypeOK'
  <2>1. CASE UNCHANGED clusterVars
    BY <1>2, <2>1 DEF ClusterTypeOK, clusterVars
  <2>2. ASSUME NEW n \in shift[s].uncordoned, NEW ok \in BOOLEAN,
               nodes[n] # NotFound, UpdateNode(n, Cordoned(nodes[n]), ok)
        PROVE  ClusterTypeOK'
    <3>1. n \in NodeName /\ nodes[n] \in NodeObject
      BY <1>2, <2>2 DEF ShiftRecord, ClusterTypeOK
    <3>2. Cordoned(nodes[n]) \in NodeObject
      BY <3>1 DEF NodeObject, Cordoned
    <3> QED
      BY <1>2, <2>2, <3>1, <3>2, UpdateNodeType
  <2>3. ASSUME NEW ok \in BOOLEAN, DeleteNodeObject(shift[s].node, ok)
        PROVE  ClusterTypeOK'
    BY <1>2, <2>3 DEF DeleteNodeObject, ClusterTypeOK
  <2> QED
    BY <1>1, <2>1, <2>2, <2>3 DEF Touches
<1>4. EvacuationTypeOK' /\ ControlInv'
  <2>1. CASE UNCHANGED evacuationVars
    BY <1>2, <2>1 DEF EvacuationTypeOK, ControlInv, evacuationVars
  <2>2. CASE shift'[s].at = "evacuate" /\ Evacuate(s, shift'[s].node)
    <3>1. shift'[s].node \in NodeName
      BY <1>1, <2>2 DEF Local, Sound
    <3> QED
      BY <1>2, <2>2, <3>1 DEF Evacuate, Goto, EvacuationTypeOK, ControlInv, Label
  <2>3. CASE Finish(s)
    BY <1>2, <2>3 DEF Finish, Goto, EvacuationTypeOK, ControlInv, Label
  <2> QED
    BY <1>1, <2>1, <2>2, <2>3 DEF Calls
<1>5. PoolTypeOK'
  <2>1. CASE UNCHANGED poolVars
    BY <1>2, <2>1 DEF PoolTypeOK, poolVars
  <2>2. CASE Resize(s)
    <3>1. PICK ok \in BOOLEAN : SetNodePoolSize(shift[s].pool[2], shift[s].want, ok)
      BY <2>2 DEF Resize
    <3>2. shift[s].pool[2] \in Preemptible /\ shift[s].want \in Nat /\ MaxSize \in Nat
      BY <1>2, <2>2, PoolAssumption DEF Resize, Sound, ShiftRecord
    <3>3. Min({shift[s].want, MaxSize}) \in Nat /\ Min({shift[s].want, MaxSize}) <= MaxSize
      <4>1. Min({shift[s].want, MaxSize}) \in {shift[s].want, MaxSize}
            /\ Min({shift[s].want, MaxSize}) <= MaxSize
        BY <3>2, MinOfTwo
      <4> QED
        BY <3>2, <4>1
    <3>4. CASE Resized(shift[s].pool[2], Min({shift[s].want, MaxSize}))
      BY <1>2, <3>2, <3>3, <3>4, ResizedType
    <3> QED
      BY <2>1, <3>1, <3>4 DEF SetNodePoolSize
  <2>3. CASE ~ Resize(s)
    BY <2>1, <2>3 DEF ShifterStep, ReadClock, ListPools, NextPool, ListSource, CordonSource,
                      NextNode, ReadSize, DeleteSource, LeaveSource
  <2> QED
    BY <2>2, <2>3
<1>6. ShifterTypeOK'
  BY <1>1 DEF Local, ShifterTypeOK, ShiftRecord
<1>7. LocalInv'
  <2>1. ASSUME NEW v \in Shifter
        PROVE  shift'[v] \in ShiftRecord /\ grown'[v] \in Nat /\ Sound(shift'[v], grown'[v])
    <3>1. CASE v = s
      BY <1>1, <3>1 DEF Local
    <3>2. CASE v # s
      <4>1. shift'[v] = shift[v] /\ grown'[v] = grown[v]
        BY <1>1, <3>2 DEF Local
      <4> QED
        BY <1>2, <4>1 DEF LocalInv
    <3> QED
      BY <3>1, <3>2
  <2>2. ASSUME NEW v \in Shifter, v # s PROVE target'[v] = target[v]
    BY <1>1, <1>2, <2>2, OnlyShifters
    DEF Calls, Evacuate, Finish, EvacuationTypeOK, evacuationVars
  <2>3. ASSUME shift'[s].at = "evacuate" PROVE target'[s] = shift'[s].node
    BY <1>1, <1>2, <2>3
    DEF Calls, Evacuate, EvacuationTypeOK, evacuationVars, LocalInv
  <2>4. ASSUME NEW v \in Shifter, shift'[v].at = "evacuate"
        PROVE  target'[v] = shift'[v].node
    <3>1. CASE v # s
      <4>1. shift'[v] = shift[v]
        BY <1>1, <3>1 DEF Local
      <4> QED
        BY <1>2, <2>2, <2>4, <3>1, <4>1 DEF LocalInv
    <3> QED
      BY <2>3, <2>4, <3>1
  <2>5. \A v \in Shifter :
          /\ shift'[v] \in ShiftRecord /\ grown'[v] \in Nat /\ Sound(shift'[v], grown'[v])
          /\ shift'[v].at = "evacuate" => target'[v] = shift'[v].node
    BY <2>1, <2>4
  <2>6. LocalInv' <=> \A v \in Shifter :
          /\ shift'[v] \in ShiftRecord /\ grown'[v] \in Nat /\ Sound(shift'[v], grown'[v])
          /\ shift'[v].at = "evacuate" => target'[v] = shift'[v].node
    BY DEF LocalInv, Sound
  <2> QED
    BY <2>5, <2>6
<1> QED
  BY <1>3, <1>4, <1>5, <1>6, <1>7 DEF TypeInv, TypeOK

LEMMA InitType == Init => TypeInv
<1> SUFFICES ASSUME Init PROVE TypeInv
  OBVIOUS
<1>1. ClusterTypeOK
  BY ClusterAssumption
  DEF Init, ClusterInit, ClusterTypeOK, Registered, NodeObject, Time
<1>2. EvacuationTypeOK /\ ControlInv
  BY DEF Init, EvacuationInit, EvacuationTypeOK, ControlInv, Label
<1>3. PoolTypeOK
  BY PoolAssumption DEF Init, PoolInit, PoolTypeOK
<1>4. ShifterTypeOK /\ LocalInv
  <2>1. Resting \in ShiftRecord /\ Sound(Resting, 0) /\ Resting.at = "idle"
    BY RestingIsSound DEF Resting
  <2> QED
    BY <2>1 DEF Init, ShifterInit, ShifterTypeOK, LocalInv, ShiftRecord
<1> QED
  BY <1>1, <1>2, <1>3, <1>4 DEF TypeInv, TypeOK

LEMMA NextType == TypeInv /\ [Next]_vars => TypeInv'
<1> SUFFICES ASSUME TypeInv, [Next]_vars PROVE TypeInv'
  OBVIOUS
<1>1. ASSUME NEW s \in Shifter, ShifterStep(s) PROVE TypeInv'
  BY <1>1, ShifterStepType
<1>2. ASSUME UNCHANGED <<poolVars, shifterVars>>, ClusterTypeOK', EvacuationTypeOK', ControlInv',
             UNCHANGED target
      PROVE  TypeInv'
  <2>1. PoolTypeOK' /\ ShifterTypeOK'
    BY <1>2 DEF TypeInv, TypeOK, poolVars, shifterVars, PoolTypeOK, ShifterTypeOK
  <2>2. LocalInv'
    BY <1>2 DEF TypeInv, shifterVars, LocalInv, Sound
  <2> QED
    BY <1>2, <2>1, <2>2 DEF TypeInv, TypeOK
<1>3. ASSUME NEW s \in Shifter, EvacuationStep(s), UNCHANGED <<poolVars, shifterVars>>
      PROVE  TypeInv'
  <2>1. UNCHANGED target
    BY <1>3 DEF EvacuationStep, GetNode, Cordon, ListPods, DeletePod, DrainFinished, DrainFailed
  <2>2. ClusterTypeOK' /\ EvacuationTypeOK' /\ ControlInv'
    BY <1>3, EvacuationStepType, OnlyShifters DEF TypeInv, TypeOK
  <2> QED
    BY <1>2, <1>3, <2>1, <2>2
<1>4. CASE Environment /\ UNCHANGED <<evacuationVars, poolVars, shifterVars>>
  <2>1. ClusterTypeOK'
    BY <1>4, EnvironmentType DEF TypeInv, TypeOK
  <2>2. EvacuationTypeOK' /\ ControlInv' /\ UNCHANGED target
    BY <1>4 DEF TypeInv, TypeOK, EvacuationTypeOK, ControlInv, evacuationVars
  <2> QED
    BY <1>2, <1>4, <2>1, <2>2
<1>5. CASE UNCHANGED <<clusterVars, evacuationVars, shifterVars>> /\ PoolTypeOK'
  <2>1. ClusterTypeOK' /\ EvacuationTypeOK' /\ ControlInv' /\ ShifterTypeOK'
    BY <1>5 DEF TypeInv, TypeOK, clusterVars, ClusterTypeOK, evacuationVars,
                EvacuationTypeOK, ControlInv, shifterVars, ShifterTypeOK
  <2>2. LocalInv'
    BY <1>5 DEF TypeInv, shifterVars, evacuationVars, LocalInv, Sound
  <2> QED
    BY <1>5, <2>1, <2>2 DEF TypeInv, TypeOK
<1>6. CASE PoolEnvironment /\ UNCHANGED <<clusterVars, evacuationVars, shifterVars>>
  BY <1>5, <1>6, PoolEnvironmentType DEF TypeInv, TypeOK
<1>7. CASE Crash
  <2>1. ClusterTypeOK' /\ PoolTypeOK'
    BY <1>7 DEF Crash, TypeInv, TypeOK, clusterVars, ClusterTypeOK, poolVars, PoolTypeOK
  <2>2. EvacuationTypeOK' /\ ControlInv'
    BY <1>7 DEF Crash, EvacuationTypeOK, ControlInv, Label
  <2>3. Resting \in ShiftRecord /\ Sound(Resting, 0) /\ Resting.at = "idle"
    BY RestingIsSound DEF Resting
  <2>4. ShifterTypeOK' /\ LocalInv'
    BY <1>7, <2>3 DEF Crash, ShifterTypeOK, LocalInv, ShiftRecord, Sound
  <2> QED
    BY <2>1, <2>2, <2>4 DEF TypeInv, TypeOK
<1>8. CASE UNCHANGED vars
  <2>1. PoolTypeOK'
    BY <1>8 DEF TypeInv, TypeOK, vars, poolVars, PoolTypeOK
  <2> QED
    BY <1>5, <1>8, <2>1 DEF vars
<1> QED
  BY <1>1, <1>3, <1>4, <1>6, <1>7, <1>8 DEF Next, ShifterLoop

(* Every variable keeps its type, whatever the shifters, the cluster and   *)
(* the crashes do.                                                         *)
THEOREM TypeCorrect == Spec => []TypeOK
<1>1. TypeInv => TypeOK
  BY DEF TypeInv
<1> QED
  BY <1>1, InitType, NextType, PTL DEF Spec

---------------------------------------------------------------------------
(***************************************************************************)
(* Without a name that is used again, the nodes of the pool that is moved  *)
(* stay shut: those cordoned so far while the others are cordoned, then    *)
(* all that are left and the one that is at hand.                          *)
(***************************************************************************)

Moving == {"node", "size", "resize", "evacuate"}

Guarded(r) ==
  /\ r.at \in {"list", "cordon"} => r.node = NoNode
  /\ \A n \in r.source : Seen(n)
  /\ r.at = "cordon" => \A n \in r.source \ r.uncordoned : GoneOrCordoned(n)
  /\ r.at \in Moving => \A n \in NodeName : n \in r.source \cup {r.node} => Shut(n)

(* The local variables of s, from r to q. *)
Moves(r, q) ==
  \/ q = r
  \/ q.at \in {"idle", "pool", "list"} /\ q.source = {} /\ q.node = NoNode
  \/ /\ r.at = "list" /\ q.at = "cordon" /\ q.node = r.node
     /\ q.uncordoned = q.source /\ \A n \in q.source : nodes[n] # NotFound
  \/ /\ r.at = "cordon" /\ q.at = "cordon" /\ q.source = r.source /\ q.node = r.node
     /\ \E n \in r.uncordoned :
          q.uncordoned = r.uncordoned \ {n} /\ GoneOrCordoned(n)'
  \/ /\ r.at = "cordon" /\ r.uncordoned = {}
     /\ q.at = "node" /\ q.source = r.source /\ q.node = r.node
  \/ /\ r.at \in Moving /\ q.at \in Moving
     /\ q.source \subseteq r.source /\ q.node \in r.source \cup {r.node, NoNode}

LEMMA MovesStep ==
  ASSUME TypeInv, NEW s \in Shifter, ShifterStep(s)
  PROVE  Moves(shift[s], shift'[s])
<1>1. shift \in [Shifter -> ShiftRecord] /\ shift[s] \in ShiftRecord /\ ClusterTypeOK
  BY DEF TypeInv, TypeOK, ShifterTypeOK, ShiftRecord
<1>2. ASSUME NEW r, Becomes(s, r) PROVE shift'[s] = r
  BY <1>1, <1>2 DEF Becomes
<1>3. Resting \in ShiftRecord /\ Resting.source = {} /\ Resting.node = NoNode
      /\ Resting.at = "idle"
  BY RestingIsSound DEF Resting
<1>4. Return(s) => Moves(shift[s], shift'[s])
  BY <1>2, <1>3 DEF Return, Moves
<1>5. ASSUME NEW P, Becomes(s, [Resting EXCEPT !.at = "pool", !.pools = P])
      PROVE  Moves(shift[s], shift'[s])
  <2>1. /\ shift'[s].at = "pool" /\ shift'[s].source = {} /\ shift'[s].node = NoNode
    BY <1>2, <1>3, <1>5 DEF ShiftRecord
  <2> QED
    BY <2>1 DEF Moves
<1>6. SkipPool(s) => Moves(shift[s], shift'[s])
  BY <1>5 DEF SkipPool
<1>7. CASE ReadClock(s)
  BY <1>7 DEF ReadClock, Moves
<1>8. CASE ListPools(s)
  <2>1. Becomes(s, Resting) => Moves(shift[s], shift'[s])
    BY <1>2, <1>3 DEF Moves
  <2> QED
    BY <1>5, <1>8, <2>1 DEF ListPools
<1>9. CASE NextPool(s)
  <2>1. ASSUME NEW P, NEW p,
               Becomes(s, [[Resting EXCEPT !.at = "pool", !.pools = P]
                             EXCEPT !.at = "list", !.pool = p])
        PROVE  Moves(shift[s], shift'[s])
    <3>1. /\ shift'[s].at = "list" /\ shift'[s].source = {} /\ shift'[s].node = NoNode
      BY <1>2, <1>3, <2>1 DEF ShiftRecord
    <3> QED
      BY <3>1 DEF Moves
  <2> QED
    BY <1>4, <1>5, <1>9, <2>1 DEF NextPool
<1>10. CASE ListSource(s)
  <2>1. ASSUME NEW N, N = NodesOf(shift[s].pool[1]),
               Becomes(s, [shift[s] EXCEPT !.at = "cordon", !.source = N, !.uncordoned = N])
        PROVE  Moves(shift[s], shift'[s])
    <3>1. /\ shift'[s].at = "cordon" /\ shift'[s].source = N /\ shift'[s].uncordoned = N
          /\ shift'[s].node = shift[s].node
      BY <1>1, <1>2, <2>1 DEF ShiftRecord
    <3>2. \A n \in N : nodes[n] # NotFound
      BY <2>1 DEF NodesOf
    <3>3. shift[s].at = "list"
      BY <1>10 DEF ListSource
    <3> QED
      BY <3>1, <3>2, <3>3 DEF Moves
  <2> QED
    BY <1>6, <1>10, <2>1 DEF ListSource
<1>11. CASE CordonSource(s)
  <2>1. shift[s].at = "cordon"
    BY <1>11 DEF CordonSource
  <2>2. CASE shift[s].uncordoned = {} /\ Becomes(s, [shift[s] EXCEPT !.at = "node"])
    <3>1. /\ shift'[s].at = "node" /\ shift'[s].source = shift[s].source
          /\ shift'[s].node = shift[s].node
      BY <1>1, <1>2, <2>2 DEF ShiftRecord
    <3> QED
      BY <2>1, <2>2, <3>1 DEF Moves
  <2>3. ASSUME NEW n \in shift[s].uncordoned, UpdateNode(n, Cordoned(nodes[n]), TRUE),
               Becomes(s, [shift[s] EXCEPT !.uncordoned = @ \ {n}])
        PROVE  Moves(shift[s], shift'[s])
    <3>1. /\ shift'[s].at = "cordon" /\ shift'[s].source = shift[s].source
          /\ shift'[s].node = shift[s].node
          /\ shift'[s].uncordoned = shift[s].uncordoned \ {n}
      BY <1>1, <1>2, <2>1, <2>3 DEF ShiftRecord
    <3>2. n \in NodeName
      BY <1>1 DEF ShiftRecord
    <3>3. nodes[n] \in NodeObject
      BY <1>1, <2>3, <3>2 DEF UpdateNode, Current, ClusterTypeOK
    <3>4. GoneOrCordoned(n)'
      BY <1>1, <2>3, <3>2, <3>3, UpdateCordons
    <3> QED
      BY <2>1, <3>1, <3>4 DEF Moves
  <2> QED
    BY <1>6, <1>11, <2>2, <2>3 DEF CordonSource
<1>12. CASE NextNode(s)
  <2>1. ASSUME NEW n \in shift[s].source, NEW a \in {"size", "evacuate"},
               Becomes(s, [[shift[s] EXCEPT !.source = @ \ {n}, !.node = n] EXCEPT !.at = a])
        PROVE  Moves(shift[s], shift'[s])
    <3>1. /\ shift'[s].at = a /\ shift'[s].source = shift[s].source \ {n}
          /\ shift'[s].node = n
      BY <1>1, <1>2, <2>1 DEF ShiftRecord
    <3>2. shift[s].at = "node"
      BY <1>12 DEF NextNode
    <3> QED
      BY <3>1, <3>2 DEF Moves, Moving
  <2> QED
    BY <1>6, <1>12, <2>1 DEF NextNode
<1>13. ASSUME NEW q, Becomes(s, q), shift[s].at \in Moving, q.at \in Moving,
              q.source = shift[s].source, q.node \in {shift[s].node, NoNode}
       PROVE  Moves(shift[s], shift'[s])
  BY <1>2, <1>13 DEF Moves
<1>14. CASE ReadSize(s)
  <2>1. ASSUME NEW w, Becomes(s, [shift[s] EXCEPT !.at = "resize", !.want = w])
        PROVE  Moves(shift[s], shift'[s])
    <3> DEFINE q == [shift[s] EXCEPT !.at = "resize", !.want = w]
    <3>1. q.at = "resize" /\ q.source = shift[s].source /\ q.node = shift[s].node
      BY <1>1 DEF ShiftRecord
    <3>2. shift[s].at = "size"
      BY <1>14 DEF ReadSize
    <3> HIDE DEF q
    <3>3. Becomes(s, q)
      BY <2>1 DEF q
    <3> QED
      BY <1>13, <3>1, <3>2, <3>3 DEF Moving
  <2> QED
    BY <1>4, <1>14, <2>1 DEF ReadSize
<1>15. CASE Resize(s)
  <2>1. ASSUME Becomes(s, [shift[s] EXCEPT !.at = "evacuate"])
        PROVE  Moves(shift[s], shift'[s])
    <3> DEFINE q == [shift[s] EXCEPT !.at = "evacuate"]
    <3>1. q.at = "evacuate" /\ q.source = shift[s].source /\ q.node = shift[s].node
      BY <1>1 DEF ShiftRecord
    <3>2. shift[s].at = "resize"
      BY <1>15 DEF Resize
    <3> HIDE DEF q
    <3>3. Becomes(s, q)
      BY <2>1 DEF q
    <3> QED
      BY <1>13, <3>1, <3>2, <3>3 DEF Moving
  <2> QED
    BY <1>4, <1>15, <2>1 DEF Resize
<1>16. CASE DeleteSource(s)
  <2>1. PICK d : Becomes(s, [shift[s] EXCEPT !.at = "node", !.node = NoNode, !.deleted = d])
    BY <1>16 DEF DeleteSource
  <2> DEFINE q == [shift[s] EXCEPT !.at = "node", !.node = NoNode, !.deleted = d]
  <2>2. q.at = "node" /\ q.source = shift[s].source /\ q.node = NoNode
    BY <1>1 DEF ShiftRecord
  <2>3. shift[s].at = "evacuate"
    BY <1>16 DEF DeleteSource
  <2> HIDE DEF q
  <2>4. Becomes(s, q)
    BY <2>1 DEF q
  <2> QED
    BY <1>13, <2>2, <2>3, <2>4 DEF Moving
<1>17. CASE LeaveSource(s)
  <2> DEFINE q == [shift[s] EXCEPT !.at = "node", !.node = NoNode]
  <2>1. q.at = "node" /\ q.source = shift[s].source /\ q.node = NoNode
    BY <1>1 DEF ShiftRecord
  <2>2. shift[s].at = "evacuate"
    BY <1>17 DEF LeaveSource
  <2> HIDE DEF q
  <2>3. Becomes(s, q)
    BY <1>17 DEF LeaveSource, q
  <2> QED
    BY <1>13, <2>1, <2>2, <2>3 DEF Moving
<1> QED
  BY <1>7, <1>8, <1>9, <1>10, <1>11, <1>12, <1>14, <1>15, <1>16, <1>17 DEF ShifterStep

(* An orderly step keeps what it moves guarded. *)
LEMMA MovesKeep ==
  ASSUME Orderly, ObjectsSeen, NEW r \in ShiftRecord, NEW q \in ShiftRecord,
         Moves(r, q), Guarded(r)
  PROVE  Guarded(q)'
<1>1. /\ \A n \in NodeName : Seen(n) => Seen(n)'
      /\ \A n \in NodeName : Shut(n) => Shut(n)'
      /\ \A n \in NodeName : nodes[n] # NotFound => Seen(n)
      /\ NoNode \notin NodeName
      /\ r.source \subseteq NodeName /\ q.source \subseteq NodeName
      /\ r.uncordoned \subseteq NodeName
  BY ClusterAssumption DEF Orderly, ObjectsSeen, ShiftRecord
<1>2. SUFFICES
        /\ q.at \in {"list", "cordon"} => q.node = NoNode
        /\ \A n \in q.source : Seen(n)'
        /\ q.at = "cordon" => \A n \in q.source \ q.uncordoned : GoneOrCordoned(n)'
        /\ q.at \in Moving => \A n \in NodeName : n \in q.source \cup {q.node} => Shut(n)'
  BY DEF Guarded, Shut, Seen, GoneOrCordoned
<1>3. ASSUME NEW n \in NodeName, Seen(n), GoneOrCordoned(n)
      PROVE  GoneOrCordoned(n)'
  BY <1>1, <1>3 DEF Shut
<1>4. ASSUME NEW n \in NodeName, Seen(n), GoneOrCordoned(n) PROVE Shut(n)'
  BY <1>1, <1>4 DEF Shut
<1>5. CASE q = r
  BY <1>1, <1>3, <1>5 DEF Guarded
<1>6. CASE q.at \in {"idle", "pool", "list"} /\ q.source = {} /\ q.node = NoNode
  BY <1>6 DEF Moving
<1>7. CASE /\ r.at = "list" /\ q.at = "cordon" /\ q.node = r.node
           /\ q.uncordoned = q.source /\ \A n \in q.source : nodes[n] # NotFound
  BY <1>1, <1>7 DEF Guarded, Moving
<1>8. CASE /\ r.at = "cordon" /\ q.at = "cordon" /\ q.source = r.source /\ q.node = r.node
           /\ \E n \in r.uncordoned :
                q.uncordoned = r.uncordoned \ {n} /\ GoneOrCordoned(n)'
  <2>1. PICK n \in r.uncordoned : q.uncordoned = r.uncordoned \ {n} /\ GoneOrCordoned(n)'
    BY <1>8
  <2>2. ASSUME NEW m \in q.source \ q.uncordoned PROVE GoneOrCordoned(m)'
    <3>1. CASE m = n
      BY <2>1, <3>1
    <3>2. CASE m # n
      BY <1>1, <1>3, <1>8, <2>1, <3>2 DEF Guarded
    <3> QED
      BY <3>1, <3>2
  <2> QED
    BY <1>1, <1>8, <2>2 DEF Guarded, Moving
<1>9. CASE /\ r.at = "cordon" /\ r.uncordoned = {}
           /\ q.at = "node" /\ q.source = r.source /\ q.node = r.node
  BY <1>1, <1>4, <1>9 DEF Guarded, Moving
<1>10. CASE /\ r.at \in Moving /\ q.at \in Moving
            /\ q.source \subseteq r.source /\ q.node \in r.source \cup {r.node, NoNode}
  BY <1>1, <1>10 DEF Guarded, Moving
<1> QED
  BY <1>5, <1>6, <1>7, <1>8, <1>9, <1>10 DEF Moves

LEMMA ShiftKeeps ==
  ASSUME Orderly, ObjectsSeen, NEW s \in Shifter,
         shift[s] \in ShiftRecord, shift'[s] \in ShiftRecord,
         Moves(shift[s], shift'[s]), Guarded(shift[s])
  PROVE  Guarded(shift[s])'
<1>1. PICK q : q = shift'[s]
  OBVIOUS
<1>2. PICK r : r = shift[s]
  OBVIOUS
<1>3. Guarded(q)'
  BY <1>1, <1>2, MovesKeep
<1> QED
  BY <1>1, <1>3 DEF Guarded, Shut, Seen, GoneOrCordoned

SourceInv ==
  /\ ObjectsSeen
  /\ \A w \in Worker : pc[w] # "idle" => Seen(target[w])
  /\ \A s \in Shifter : Guarded(shift[s])

LEMMA ShifterOrderly ==
  ASSUME TypeInv, ObjectsSeen, NEW s \in Shifter, ShifterStep(s)
  PROVE  Orderly
<1>1. Touches(s) /\ ClusterTypeOK /\ shift[s] \in ShiftRecord /\ Sound(shift[s], grown[s])
  BY TouchesStep DEF TypeInv, TypeOK, LocalInv
<1>2. CASE UNCHANGED clusterVars
  BY <1>2, QuietOrderly DEF clusterVars
<1>3. ASSUME NEW n \in shift[s].uncordoned, NEW ok \in BOOLEAN,
             nodes[n] # NotFound, UpdateNode(n, Cordoned(nodes[n]), ok)
      PROVE  Orderly
  <2>1. n \in NodeName /\ nodes[n] \in NodeObject
    BY <1>1, <1>3 DEF ShiftRecord, ClusterTypeOK
  <2>2. Cordoned(nodes[n]) \in NodeObject /\ Cordoned(nodes[n]).unschedulable
    BY <2>1 DEF NodeObject, Cordoned
  <2> QED
    BY <1>1, <1>3, <2>1, <2>2, UpdateOrderly
<1>4. ASSUME NEW ok \in BOOLEAN, DeleteNodeObject(shift[s].node, ok)
      PROVE  Orderly
  <2>1. \A n \in NodeName : nodes'[n] \in {nodes[n], NotFound}
    BY <1>1, <1>4 DEF DeleteNodeObject, ClusterTypeOK
  <2> QED
    BY <1>4, <2>1 DEF DeleteNodeObject, Orderly, Shut, Seen, GoneOrCordoned, ObjectsSeen
<1> QED
  BY <1>1, <1>2, <1>3, <1>4 DEF Touches

LEMMA ShifterAdvances ==
  ASSUME TypeInv, SourceInv, NEW s \in Shifter, ShifterStep(s)
  PROVE  \A w \in Worker : Advance(w)
<1>1. /\ Calls(s) /\ Local(s) /\ Moves(shift[s], shift'[s]) /\ EvacuationTypeOK /\ s \in Worker
      /\ Guarded(shift[s]) /\ Sound(shift[s], grown[s]) /\ shift[s] \in ShiftRecord
  BY CallsStep, LocalStep, MovesStep, OnlyShifters
  DEF TypeInv, TypeOK, LocalInv, SourceInv
<1>2. CASE UNCHANGED evacuationVars
  BY <1>2 DEF evacuationVars, Advance
<1>3. CASE shift'[s].at = "evacuate" /\ Evacuate(s, shift'[s].node)
  <2>1. shift'[s].node \in NodeName /\ NoNode \notin NodeName
    BY <1>1, <1>3, ClusterAssumption DEF Local, Sound
  <2>2. Seen(shift'[s].node)
    BY <1>1, <1>3, <2>1 DEF Moves, Moving, Guarded, Shut
  <2>3. pc'[s] = "getNode" /\ target'[s] = shift'[s].node
    BY <1>1, <1>3 DEF Evacuate, Goto, EvacuationTypeOK
  <2>4. \A w \in Worker : w # s => pc'[w] = pc[w] /\ target'[w] = target[w]
    BY <1>1, <1>3 DEF Evacuate, Goto, EvacuationTypeOK
  <2> QED
    BY <2>2, <2>3, <2>4 DEF Advance
<1>4. CASE Finish(s)
  BY <1>1, <1>4 DEF Finish, Goto, EvacuationTypeOK, Advance
<1> QED
  BY <1>1, <1>2, <1>3, <1>4 DEF Calls

(* Every step is orderly and moves every worker and every shift on, or     *)
(* ends them.                                                              *)
LEMMA StepAdvances ==
  ASSUME ~ NameReuse, TypeInv, SourceInv, [Next]_vars
  PROVE  /\ Orderly
         /\ \A w \in Worker : Advance(w)
         /\ \A s \in Shifter : Guarded(shift[s])'
<1>1. ClusterTypeOK /\ EvacuationTypeOK /\ ControlInv /\ ObjectsSeen
      /\ shift \in [Shifter -> ShiftRecord]
  BY DEF TypeInv, TypeOK, ShifterTypeOK, ShiftRecord, SourceInv
<1>2. ASSUME Orderly, NEW s \in Shifter, shift'[s] = shift[s]
      PROVE  Guarded(shift[s])'
  <2>1. Guarded(shift[s]) /\ Moves(shift[s], shift'[s])
    BY <1>2 DEF SourceInv, Moves
  <2>2. shift[s] \in ShiftRecord /\ shift'[s] \in ShiftRecord
    BY <1>1, <1>2
  <2> QED
    BY <1>1, <1>2, <2>1, <2>2, ShiftKeeps
<1>3. ASSUME NEW s \in Shifter, ShifterStep(s)
      PROVE  /\ Orderly /\ \A w \in Worker : Advance(w)
             /\ \A v \in Shifter : Guarded(shift[v])'
  <2>1. Orderly /\ \A w \in Worker : Advance(w)
    BY <1>1, <1>3, ShifterOrderly, ShifterAdvances
  <2>2. Local(s) /\ Moves(shift[s], shift'[s])
    BY <1>3, LocalStep, MovesStep
  <2>3. Guarded(shift[s])'
    <3>1. shift[s] \in ShiftRecord /\ shift'[s] \in ShiftRecord /\ Guarded(shift[s])
      BY <1>1, <2>2 DEF Local, SourceInv
    <3> QED
      BY <1>1, <2>1, <2>2, <3>1, ShiftKeeps
  <2>4. ASSUME NEW v \in Shifter, v # s PROVE Guarded(shift[v])'
    <3>1. shift'[v] = shift[v]
      BY <2>2, <2>4 DEF Local
    <3> QED
      BY <1>2, <2>1, <3>1
  <2> QED
    BY <2>1, <2>3, <2>4
<1>4. ASSUME NEW s \in Shifter, EvacuationStep(s), UNCHANGED shift
      PROVE  /\ Orderly /\ \A w \in Worker : Advance(w)
             /\ \A v \in Shifter : Guarded(shift[v])'
  <2>1. Orderly /\ \A w \in Worker : Advance(w)
    BY <1>1, <1>4, OnlyShifters, EvacuationOrderly, EvacuationAdvances
  <2> QED
    BY <1>2, <1>4, <2>1
<1>5. ASSUME Orderly, UNCHANGED <<pc, target, shift>>
      PROVE  /\ \A w \in Worker : Advance(w)
             /\ \A v \in Shifter : Guarded(shift[v])'
  BY <1>2, <1>5 DEF Advance
<1>6. CASE Environment /\ UNCHANGED <<evacuationVars, poolVars, shifterVars>>
  <2>1. Orderly
    BY <1>1, <1>6, EnvironmentOrderly
  <2> QED
    BY <1>5, <1>6, <2>1 DEF evacuationVars, shifterVars
<1>7. CASE UNCHANGED <<clusterVars, evacuationVars, shifterVars>>
  <2>1. Orderly
    BY <1>1, <1>7, QuietOrderly DEF clusterVars
  <2> QED
    BY <1>5, <1>7, <2>1 DEF evacuationVars, shifterVars
<1>8. CASE Crash
  <2>1. Orderly
    BY <1>1, <1>8, QuietOrderly DEF Crash, clusterVars
  <2>2. \A w \in Worker : Advance(w)
    BY <1>8 DEF Crash, Advance
  <2>3. Resting.at = "idle" /\ Resting.source = {} /\ Resting.node = NoNode
    BY DEF Resting
  <2>4. ASSUME NEW s \in Shifter PROVE Guarded(shift[s])'
    <3>1. shift'[s] = Resting
      BY <1>8 DEF Crash
    <3>2. shift[s] \in ShiftRecord /\ shift'[s] \in ShiftRecord
      BY <1>1, <3>1, RestingIsSound
    <3>3. Guarded(shift[s]) /\ Moves(shift[s], shift'[s])
      BY <2>3, <3>1 DEF SourceInv, Moves
    <3> QED
      BY <1>1, <2>1, <3>2, <3>3, ShiftKeeps
  <2> QED
    BY <2>1, <2>2, <2>4
<1> QED
  BY <1>3, <1>4, <1>6, <1>7, <1>8 DEF Next, ShifterLoop, shifterVars, vars

LEMMA SourceStep ==
  ASSUME ~ NameReuse, TypeInv, SourceInv, [Next]_vars
  PROVE  SourceInv'
<1>1. /\ Orderly /\ \A w \in Worker : Advance(w)
      /\ \A s \in Shifter : Guarded(shift[s])'
      /\ TypeInv'
  BY StepAdvances, NextType
<1>2. ASSUME NEW w \in Worker, pc'[w] # "idle" PROVE Seen(target[w])'
  <2>1. target'[w] \in NodeName
    BY <1>1, <1>2 DEF TypeInv, ControlInv
  <2>2. Seen(target'[w])
    BY <1>1, <1>2 DEF Advance, SourceInv
  <2> QED
    BY <1>1, <2>1, <2>2 DEF Orderly, Seen
<1> QED
  BY <1>1, <1>2 DEF SourceInv, Orderly

LEMMA SourceInit == Init => SourceInv
<1> SUFFICES ASSUME Init PROVE SourceInv
  OBVIOUS
<1>1. ObjectsSeen
  BY ClusterAssumption DEF Init, ClusterInit, ObjectsSeen, Seen
<1>2. \A w \in Worker : pc[w] = "idle"
  BY DEF Init, EvacuationInit
<1>3. Guarded(Resting)
  BY DEF Resting, Guarded, Moving
<1> QED
  BY <1>1, <1>2, <1>3 DEF Init, ShifterInit, SourceInv

(* While a pool is moved none of the nodes that are left is open, for any  *)
(* number of shifters, nodes and pods, if no name is used again            *)
(* (makeNodeUnschedulable, shift).                                         *)
THEOREM SourceIsShut ==
  ASSUME ~ NameReuse
  PROVE  Spec => []SourceStaysShut
<1>1. SourceInv => SourceStaysShut
  BY DEF SourceInv, Guarded, Moving, Shut, SourceStaysShut
<1>2. TypeInv /\ SourceInv /\ [Next]_vars => (TypeInv /\ SourceInv)'
  BY SourceStep, NextType
<1> QED
  BY <1>1, <1>2, InitType, SourceInit, PTL DEF Spec

---------------------------------------------------------------------------
(***************************************************************************)
(* Who deletes, and what has been drained by then.                         *)
(***************************************************************************)

(* Only a shifter that has evacuated a node takes the object of a machine  *)
(* that runs.                                                              *)
LEMMA WhoDeletesSource ==
  ASSUME TypeInv, [Next]_vars, NEW n \in NodeName,
         nodes[n] # NotFound, nodes'[n] = NotFound, n \in vms
  PROVE  \E s \in Shifter :
            shift[s].at = "evacuate" /\ pc[s] = "evacuated" /\ n = target[s]
<1>1. ClusterTypeOK /\ ControlInv /\ nodes' # nodes
  BY DEF TypeInv, TypeOK
<1>2. ASSUME NEW s \in Shifter, ShifterStep(s)
      PROVE  shift[s].at = "evacuate" /\ pc[s] = "evacuated" /\ n = target[s]
  <2>1. /\ Touches(s) /\ shift[s] \in ShiftRecord /\ Sound(shift[s], grown[s])
        /\ (shift[s].at = "evacuate" => target[s] = shift[s].node)
    BY <1>2, TouchesStep DEF TypeInv, LocalInv
  <2>2. ASSUME NEW m \in shift[s].uncordoned, NEW ok \in BOOLEAN,
               nodes[m] # NotFound, UpdateNode(m, Cordoned(nodes[m]), ok)
        PROVE  FALSE
    <3>1. m \in NodeName /\ Cordoned(nodes[m]) \in NodeObject
      BY <1>1, <2>1, <2>2, ObjectTypes DEF ShiftRecord, ClusterTypeOK
    <3> QED
      BY <1>1, <2>2, <3>1, UpdateDeletesNone
  <2>3. ASSUME NEW ok \in BOOLEAN, shift[s].at = "evacuate",
               DeleteNodeObject(shift[s].node, ok)
        PROVE  n = target[s]
    BY <1>1, <2>1, <2>3 DEF DeleteNodeObject, ClusterTypeOK
  <2> QED
    BY <1>1, <2>1, <2>2, <2>3 DEF Touches, clusterVars
<1>3. ASSUME NEW s \in Shifter, EvacuationStep(s) PROVE FALSE
  BY <1>1, <1>3, OnlyShifters, EvacuationDeletesNone
<1>4. CASE Environment
  BY <1>1, <1>4, EnvironmentDeletes
<1> QED
  BY <1>1, <1>2, <1>3, <1>4 DEF Next, ShifterLoop, Crash, clusterVars, vars

(* The shifters' inductive invariant, but for what the copies hold. *)
MoveInv == TypeInv /\ SourceInv /\ DrainInv

LEMMA MoveStep ==
  ASSUME ~ NameReuse, OnlyDaemonsTolerate, MoveInv, [Next]_vars
  PROVE  MoveInv'
<1>1. EvacuationTypeOK /\ ControlInv /\ ControlInv'
  BY NextType DEF MoveInv, TypeInv, TypeOK
<1>2. DrainInv'
  BY <1>1, StepAdvances, AdvanceKeeps DEF MoveInv, SourceInv
<1> QED
  BY <1>2, SourceStep, NextType DEF MoveInv

LEMMA MoveInit == Init => MoveInv
<1>1. Init => DrainInv
  BY DEF Init, EvacuationInit, DrainInv
<1> QED
  BY <1>1, InitType, SourceInit DEF MoveInv

(* What a shifter deletes has been drained and has stayed so: at no step   *)
(* does the object of a running node go with a pod on it that the drain is *)
(* for (shift, EvacuatePodsFromNode), if only DaemonSets' pods and mirror  *)
(* pods tolerate a cordon.                                                 *)
THEOREM SourceDrained ==
  ASSUME ~ NameReuse, OnlyDaemonsTolerate
  PROVE  Spec => SourceIsDrained
<1>1. MoveInv /\ [Next]_vars => MoveInv'
  BY MoveStep
<1>2. MoveInv /\ [Next]_vars =>
        [\A n \in NodeName :
           nodes[n] # NotFound /\ nodes'[n] = NotFound /\ n \in vms
             => PodsToBeDeleted(n) = {}]_vars
  BY WhoDeletesSource, OnlyShifters DEF MoveInv, DrainInv
<1> QED
  BY <1>1, <1>2, MoveInit, PTL DEF Spec, SourceIsDrained

---------------------------------------------------------------------------
(***************************************************************************)
(* The system implements PoolMove: first what a step of a shifter does to  *)
(* its count of the room, then what a step does to each node.              *)
(***************************************************************************)

Books(s) ==
  \/ shift'[s].deleted = shift[s].deleted /\ grown'[s] \in {grown[s], grown[s] + 1}
  \/ shift'[s].deleted = 0 /\ grown'[s] = 0
  \/ /\ shift[s].at = "evacuate" /\ pc[s] = "evacuated"
     /\ shift'[s].deleted = shift[s].deleted + 1 /\ grown'[s] = grown[s]
     /\ nodes[shift[s].node] # NotFound
     /\ nodes' = [nodes EXCEPT ![shift[s].node] = NotFound]

LEMMA BooksStep ==
  ASSUME TypeInv, NEW s \in Shifter, ShifterStep(s)
  PROVE  Books(s)
<1>1. /\ shift \in [Shifter -> ShiftRecord] /\ shift[s] \in ShiftRecord
      /\ grown \in [Shifter -> Nat] /\ Sound(shift[s], grown[s])
  BY DEF TypeInv, TypeOK, ShifterTypeOK, ShiftRecord, LocalInv
<1>2. ASSUME NEW r, Becomes(s, r) PROVE shift'[s] = r
  BY <1>1, <1>2 DEF Becomes
<1>3. Resting \in ShiftRecord /\ Resting.deleted = 0
  BY RestingIsSound DEF Resting
<1>4. ASSUME NEW P PROVE [Resting EXCEPT !.at = "pool", !.pools = P].deleted = 0
  BY <1>3 DEF ShiftRecord
<1>5. ASSUME grown' = [grown EXCEPT ![s] = 0], shift'[s].deleted = 0 PROVE Books(s)
  BY <1>1, <1>5 DEF Books
<1>6. Return(s) => Books(s)
  BY <1>2, <1>3, <1>5 DEF Return
<1>7. SkipPool(s) => Books(s)
  BY <1>2, <1>4, <1>5 DEF SkipPool
<1>8. ASSUME grown' = grown, shift'[s].deleted = shift[s].deleted PROVE Books(s)
  BY <1>8 DEF Books
<1>9. CASE ReadClock(s)
  BY <1>8, <1>9 DEF ReadClock
<1>10. CASE ListPools(s)
  <2>1. shift[s].deleted = 0 /\ grown' = grown
    BY <1>1, <1>10 DEF ListPools, Sound
  <2>2. shift'[s].deleted = 0
    BY <1>2, <1>3, <1>4, <1>10 DEF ListPools
  <2> QED
    BY <1>8, <2>1, <2>2
<1>11. CASE NextPool(s)
  <2>1. ASSUME NEW P, NEW p,
               Becomes(s, [[Resting EXCEPT !.at = "pool", !.pools = P]
                             EXCEPT !.at = "list", !.pool = p])
        PROVE  shift'[s].deleted = 0
    BY <1>2, <1>3, <2>1 DEF ShiftRecord
  <2> QED
    BY <1>2, <1>4, <1>5, <1>6, <1>11, <2>1 DEF NextPool
<1>12. CASE ListSource(s)
  BY <1>1, <1>2, <1>7, <1>8, <1>12 DEF ListSource, ShiftRecord
<1>13. CASE CordonSource(s)
  BY <1>1, <1>2, <1>7, <1>8, <1>13 DEF CordonSource, ShiftRecord
<1>14. CASE NextNode(s)
  BY <1>1, <1>2, <1>7, <1>8, <1>14 DEF NextNode, ShiftRecord
<1>15. CASE ReadSize(s)
  BY <1>1, <1>2, <1>6, <1>8, <1>15 DEF ReadSize, ShiftRecord
<1>16. CASE Resize(s)
  <2>1. ASSUME Becomes(s, [shift[s] EXCEPT !.at = "evacuate"]),
               grown' = [grown EXCEPT ![s] = @ + 1]
        PROVE  Books(s)
    <3>1. shift'[s].deleted = shift[s].deleted
      BY <1>1, <1>2, <2>1 DEF ShiftRecord
    <3> QED
      BY <1>1, <2>1, <3>1 DEF Books
  <2> QED
    BY <1>6, <1>16, <2>1 DEF Resize
<1>17. CASE DeleteSource(s)
  <2>1. PICK ok \in BOOLEAN :
          /\ DeleteNodeObject(shift[s].node, ok)
          /\ Becomes(s, [shift[s] EXCEPT !.at = "node", !.node = NoNode,
                            !.deleted = IF ok THEN @ + 1 ELSE @])
    BY <1>17 DEF DeleteSource
  <2>2. shift'[s].deleted = IF ok THEN shift[s].deleted + 1 ELSE shift[s].deleted
    BY <1>1, <1>2, <2>1 DEF ShiftRecord
  <2>3. shift[s].at = "evacuate" /\ pc[s] = "evacuated" /\ grown' = grown
    BY <1>17 DEF DeleteSource
  <2> QED
    BY <2>1, <2>2, <2>3 DEF DeleteNodeObject, Books
<1>18. CASE LeaveSource(s)
  BY <1>1, <1>2, <1>8, <1>18 DEF LeaveSource, ShiftRecord
<1> QED
  BY <1>9, <1>10, <1>11, <1>12, <1>13, <1>14, <1>15, <1>16, <1>17, <1>18 DEF ShifterStep

LEMMA ShifterNodes ==
  ASSUME TypeInv, HeldInv, NEW s \in Shifter, ShifterStep(s)
  PROVE  NodesStep
<1>1. Touches(s) /\ ClusterTypeOK /\ shift[s] \in ShiftRecord /\ Sound(shift[s], grown[s])
  BY TouchesStep DEF TypeInv, TypeOK, LocalInv
<1>2. CASE UNCHANGED clusterVars
  BY <1>2 DEF clusterVars, NodesStep, Kept
<1>3. ASSUME NEW n \in shift[s].uncordoned, NEW ok \in BOOLEAN,
             nodes[n] # NotFound, UpdateNode(n, Cordoned(nodes[n]), ok)
      PROVE  NodesStep
  <2>1. n \in NodeName /\ nodes[n] \in NodeObject
    BY <1>1, <1>3 DEF ShiftRecord, ClusterTypeOK
  <2>2. /\ Cordoned(nodes[n]) \in NodeObject
        /\ Cordoned(nodes[n]).rv = nodes[n].rv
        /\ Cordoned(nodes[n]).created = nodes[n].created
        /\ Cordoned(nodes[n]).expiry = nodes[n].expiry
        /\ Cordoned(nodes[n]).unschedulable
    BY <2>1 DEF Cordoned, NodeObject
  <2>3. Agrees(n, nodes[n])
    BY <1>1, <1>3, <2>1, AgreesNow
  <2> QED
    BY <1>1, <1>3, <2>1, <2>2, <2>3, UpdateRewrites
<1>4. ASSUME NEW ok \in BOOLEAN, shift[s].at = "evacuate", DeleteNodeObject(shift[s].node, ok)
      PROVE  NodesStep
  BY <1>1, <1>4, DeletionNodes DEF Sound
<1> QED
  BY <1>1, <1>2, <1>3, <1>4 DEF Touches

LEMMA SourceNodes ==
  ASSUME TypeInv, HeldInv, [Next]_vars
  PROVE  NodesStep
<1>1. ClusterTypeOK /\ ControlInv
  BY DEF TypeInv, TypeOK
<1>2. ASSUME NEW s \in Shifter, EvacuationStep(s) PROVE NodesStep
  BY <1>1, <1>2, OnlyShifters, EvacuationNodes
<1>3. CASE UNCHANGED clusterVars
  BY <1>3 DEF clusterVars, NodesStep, Kept
<1> QED
  BY <1>1, <1>2, <1>3, ShifterNodes, EnvironmentNodes
  DEF Next, ShifterLoop, Crash, vars

LEMMA SourceCopies ==
  ASSUME TypeInv, HeldInv, [Next]_vars
  PROVE  HeldInv'
<1>1. ClusterTypeOK /\ EvacuationTypeOK /\ ControlInv
  BY DEF TypeInv, TypeOK
<1>2. ASSUME NEW w \in Worker, pc'[w] = "cordon"
      PROVE  \/ pc[w] = "cordon" /\ target'[w] = target[w] /\ held'[w] = held[w]
             \/ GetNode(w)
  <2>1. ASSUME NEW s \in Shifter, ShifterStep(s)
        PROVE  pc[w] = "cordon" /\ target'[w] = target[w] /\ held'[w] = held[w]
    <3>1. Calls(s) /\ s \in Worker
      BY <2>1, CallsStep, OnlyShifters
    <3> QED
      BY <1>1, <1>2, <3>1 DEF Calls, Evacuate, Finish, Goto, evacuationVars, EvacuationTypeOK
  <2>2. ASSUME NEW s \in Shifter, EvacuationStep(s)
        PROVE  \/ pc[w] = "cordon" /\ target'[w] = target[w] /\ held'[w] = held[w]
               \/ GetNode(w)
    BY <1>1, <1>2, <2>2, OnlyShifters, EvacuationHolds
  <2>3. CASE UNCHANGED evacuationVars
    BY <1>2, <2>3 DEF evacuationVars
  <2>4. ~ Crash
    BY <1>2 DEF Crash
  <2> QED
    BY <2>1, <2>2, <2>3, <2>4 DEF Next, ShifterLoop, vars
<1> QED
  BY <1>1, <1>2, SourceNodes, HeldKept

LEMMA CopiesInit == Init => HeldInv
<1> SUFFICES ASSUME Init PROVE HeldInv
  OBVIOUS
<1>1. clock \in Time
  BY ClusterAssumption DEF Init, ClusterInit, Time
<1>2. Registered(1) \in NodeObject
  BY <1>1 DEF Registered, NodeObject
<1> QED
  BY <1>2, ClusterAssumption DEF Init, HeldInv, ClusterInit, EvacuationInit, Registered

LEMMA SourceMachines ==
  ASSUME TypeInv, [Next]_vars, NEW n \in NodeName, n \in vms', n \notin vms
  PROVE  /\ nodes[n] = NotFound /\ nodes'[n] = Registered(revision[n] + 1)
         /\ revision[n] = 0 \/ NameReuse
<1>1. ClusterTypeOK
  BY DEF TypeInv, TypeOK
<1>2. ASSUME NEW s \in Shifter, ShifterStep(s) PROVE FALSE
  BY <1>2, TouchesStep DEF Touches, UpdateNode, DeleteNodeObject, clusterVars
<1>3. ASSUME NEW s \in Shifter, EvacuationStep(s) PROVE FALSE
  BY <1>3, OnlyShifters, EvacuationMachines
<1> QED
  BY <1>1, <1>2, <1>3, EnvironmentMachines DEF Next, ShifterLoop, Crash, clusterVars, vars

---------------------------------------------------------------------------
(* The refinement mapping, node by node and shifter by shifter.            *)

LEMMA RoomTypes ==
  ASSUME TypeInv, NEW s \in Shifter
  PROVE  /\ shift[s].deleted \in Nat /\ grown[s] \in Nat
         /\ NumberOfZones * grown[s] \in Nat
         /\ Rooms[s] = NumberOfZones * grown[s] - shift[s].deleted
         /\ shift[s].at = "evacuate" => Rooms[s] > 0
<1>1. shift[s] \in ShiftRecord /\ grown[s] \in Nat /\ Sound(shift[s], grown[s])
  BY DEF TypeInv, LocalInv
<1>2. shift[s].deleted \in Nat /\ NumberOfZones * grown[s] \in Nat
  BY <1>1, RoomIsNat DEF ShiftRecord
<1>3. Rooms[s] = NumberOfZones * grown[s] - shift[s].deleted
  BY DEF Rooms
<1>4. shift[s].at = "evacuate" => shift[s].deleted < NumberOfZones * grown[s]
  BY <1>1 DEF Sound
<1> QED
  BY <1>1, <1>2, <1>3, <1>4

(* What an evacuated shifter deletes leaves as it should. *)
LEMMA EvacuatedLeaves ==
  ASSUME MoveInv, NEW s \in Shifter, shift[s].at = "evacuate", pc[s] = "evacuated",
         NEW n \in NodeName, n = target[s], Left(n)
  PROVE  Move!Retire(n)
<1>1. GoneOrCordoned(n) /\ PodsToBeDeleted(n) = {}
  BY OnlyShifters DEF MoveInv, DrainInv
<1>2. Stages[n] = "cordoned" /\ Loads[n] = {} /\ Stages'[n] = "gone"
  BY <1>1 DEF Left, GoneOrCordoned, Loads
<1>3. Rooms[s] > 0
  BY RoomTypes DEF MoveInv
<1> QED
  BY <1>2, <1>3 DEF Move!Retire, Move!Leave

LEMMA NodeFollows ==
  ASSUME ~ NameReuse, OnlyDaemonsTolerate, MoveInv, HeldInv, [Next]_vars, NEW n \in NodeName
  PROVE  /\ \/ Move!Join(n) \/ Move!Cordon(n) \/ Move!Retire(n) \/ Move!Collect(n)
            \/ Move!Stay(n)
         /\ Move!Carry(n)
         /\ Move!Run(n)
<1>1. ClusterTypeOK /\ ObjectsSeen /\ NodesStep /\ Orderly
  BY SourceNodes, StepAdvances DEF MoveInv, TypeInv, TypeOK, SourceInv
<1>2. ASSUME Left(n) PROVE Move!Retire(n) \/ Move!Collect(n)
  <2>1. CASE n \in vms
    <3>1. PICK s \in Shifter :
             shift[s].at = "evacuate" /\ pc[s] = "evacuated" /\ n = target[s]
      BY <1>2, <2>1, WhoDeletesSource DEF MoveInv, Left
    <3> QED
      BY <1>2, <3>1, EvacuatedLeaves
  <2>2. CASE n \notin vms
    BY <1>2, <2>2 DEF Left, Move!Collect
  <2> QED
    BY <2>1, <2>2
<1>3. Move!Join(n) \/ Move!Cordon(n) \/ Move!Retire(n) \/ Move!Collect(n) \/ Move!Stay(n)
  BY <1>1, <1>2, StagesFollow DEF Move!Join, Move!Cordon, Move!Stay
<1>4. Move!Carry(n)
  BY <1>1, LoadFollows DEF Loads, Move!Carry
<1>5. Move!Run(n)
  <2>1. ASSUME n \in vms', n \notin vms
        PROVE  Stages[n] = "unborn" /\ Stages'[n] = "open"
    BY <1>1, <2>1, SourceMachines, JoinFollows DEF MoveInv
  <2> QED
    BY <2>1 DEF Move!Run, Move!Join
<1> QED
  BY <1>3, <1>4, <1>5

LEMMA RoomFollows ==
  ASSUME ~ NameReuse, OnlyDaemonsTolerate, MoveInv, HeldInv, [Next]_vars, NEW m \in Shifter
  PROVE  Move!Grow(m) \/ Move!Pay(m) \/ Move!Forget(m) \/ Rooms'[m] = Rooms[m]
<1>1. /\ Rooms[m] = NumberOfZones * grown[m] - shift[m].deleted
      /\ shift[m].deleted \in Nat /\ grown[m] \in Nat /\ NumberOfZones * grown[m] \in Nat
      /\ NumberOfZones \in Nat
  BY RoomTypes, ShifterAssumption DEF MoveInv
<1>2. Rooms'[m] = NumberOfZones * grown'[m] - shift'[m].deleted
  BY DEF Rooms
<1>3. CASE shift'[m].deleted = shift[m].deleted /\ grown'[m] = grown[m]
  BY <1>1, <1>2, <1>3
<1>4. CASE shift'[m].deleted = shift[m].deleted /\ grown'[m] = grown[m] + 1
  <2>1. NumberOfZones * (grown[m] + 1) = NumberOfZones * grown[m] + NumberOfZones
    BY <1>1
  <2> QED
    BY <1>1, <1>2, <1>4, <2>1 DEF Move!Grow
<1>5. CASE shift'[m].deleted = 0 /\ grown'[m] = 0
  BY <1>1, <1>2, <1>5 DEF Move!Forget
<1>6. CASE /\ shift[m].at = "evacuate" /\ pc[m] = "evacuated"
           /\ shift'[m].deleted = shift[m].deleted + 1 /\ grown'[m] = grown[m]
           /\ nodes[shift[m].node] # NotFound
           /\ nodes' = [nodes EXCEPT ![shift[m].node] = NotFound]
  <2> DEFINE n == shift[m].node
  <2>1. n \in NodeName /\ n = target[m]
    BY <1>6 DEF MoveInv, TypeInv, LocalInv, Sound
  <2>2. ClusterTypeOK /\ ObjectsSeen /\ NodesStep
    BY SourceNodes DEF MoveInv, TypeInv, TypeOK, SourceInv
  <2>3. nodes[n] # NotFound /\ nodes'[n] = NotFound
    BY <1>6, <2>1, <2>2 DEF ClusterTypeOK
  <2>4. Left(n)
    <3>1. Seen(n) /\ revision'[n] = revision[n]
      BY <2>1, <2>2, <2>3 DEF ObjectsSeen, NodesStep, Kept, Removed, Rewritten, Born
    <3> QED
      BY <2>1, <2>3, <3>1 DEF Left, Stages, Seen
  <2>5. Move!Leave(n)
    BY <1>6, <2>1, <2>4, EvacuatedLeaves DEF Move!Retire
  <2>6. Rooms[m] > 0 /\ Rooms'[m] = Rooms[m] - 1
    BY <1>1, <1>2, <1>6, RoomTypes DEF MoveInv
  <2> QED
    BY <2>1, <2>5, <2>6 DEF Move!Pay
<1>7. ASSUME NEW s \in Shifter, ShifterStep(s), s # m
      PROVE  shift'[m].deleted = shift[m].deleted /\ grown'[m] = grown[m]
  BY <1>7, LocalStep DEF MoveInv, Local
<1>8. CASE ShifterStep(m)
  BY <1>3, <1>4, <1>5, <1>6, <1>8, BooksStep DEF MoveInv, Books
<1>9. CASE Crash
  BY <1>5, <1>9 DEF Crash, Resting
<1>10. CASE UNCHANGED <<shift, grown>>
  BY <1>3, <1>10
<1> QED
  BY <1>3, <1>7, <1>8, <1>9, <1>10 DEF Next, ShifterLoop, shifterVars, vars

(* The shifters implement PoolMove: initial states map to initial states,  *)
(* and each step changes every node and every shifter's room by one of the *)
(* abstract steps or leaves it alone (shift, EvacuatePodsFromNode,         *)
(* SetNodePoolSize), for any number of shifters, nodes, pods, pools and    *)
(* zones, under the hypotheses of SourceDrained.                           *)
THEOREM MovedInOrder ==
  ASSUME ~ NameReuse, OnlyDaemonsTolerate
  PROVE  Spec => MovesInOrder
<1>1. Init => Move!Init
  <2> SUFFICES ASSUME Init PROVE Move!Init
    OBVIOUS
  <2>1. ASSUME NEW s \in Shifter PROVE Rooms[s] = 0
    <3>1. grown[s] = 0 /\ shift[s].deleted = 0
      BY DEF Init, ShifterInit, Resting
    <3> QED
      BY <3>1, ShifterAssumption DEF Rooms
  <2>2. Rooms = [s \in Shifter |-> 0]
    BY <2>1 DEF Rooms
  <2> QED
    BY <2>2, StagesInit DEF Init, Move!Init
<1>2. MoveInv /\ HeldInv /\ [Next]_vars => (MoveInv /\ HeldInv)'
  BY MoveStep, SourceCopies DEF MoveInv
<1>3. MoveInv /\ HeldInv /\ [Next]_vars => Move!Next
  BY NodeFollows, RoomFollows DEF Move!Next
<1> QED
  BY <1>1, <1>2, <1>3, MoveInit, CopiesInit, PTL DEF Spec, MovesInOrder, Move!Spec
=============================================================================
