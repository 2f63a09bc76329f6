------------------------- MODULE ExpiryChoiceProofs -------------------------
(***************************************************************************)
(* What getExpiryTimestamp returns, for every length of the day and of the *)
(* minute, every white list and every creation time.                       *)
(***************************************************************************)
EXTENDS ExpiryChoice, ExpiryTimeProofs

IInv ==
  /\ TypeOK
  /\ ExpiresWithinADay
  /\ NeverTooLate
  /\ ExpiresInWhitelist
  /\ GivesUpOnlyInside

LEMMA Invariance == Spec => []IInv
<1> USE CallAssumption
<1>1. Init => IInv
  BY DEF Init, IInv, TypeOK, ExpiresWithinADay, NeverTooLate, ExpiresInWhitelist,
         GivesUpOnlyInside
<1>2. IInv /\ [Next]_vars => IInv'
  <2> SUFFICES ASSUME IInv, [Next]_vars PROVE IInv'
    OBVIOUS
  <2>1. CASE getExpiryTimestamp
    <3>1. whitelist \in SUBSET Interval /\ created \in Nat
      BY DEF IInv, TypeOK
    <3>2. whitelist' = whitelist /\ created' = created
      BY <2>1 DEF getExpiryTimestamp
    <3>3. CASE ExpiryTimestamps(whitelist, created) = {} /\ expiry' = NoDate
      <4>1. GivesUpOnlyInside'
        BY <3>1, <3>2, <3>3, NoCandidate DEF GivesUpOnlyInside
      <4> QED
        BY <3>2, <3>3, <4>1
        DEF IInv, TypeOK, ExpiresWithinADay, NeverTooLate, ExpiresInWhitelist
    <3>4. CASE expiry' \in ExpiryTimestamps(whitelist, created)
      <4>1. expiry' \in Nat /\ created < expiry' /\ expiry' < created + Day
        BY <3>1, <3>4, CandidateWithinADay
      <4>2. ExpiresInWhitelist'
        BY <3>1, <3>2, <3>4, CandidateInWhitelist DEF ExpiresInWhitelist
      <4> QED
        BY <3>2, <4>1, <4>2
        DEF IInv, TypeOK, ExpiresWithinADay, NeverTooLate, GivesUpOnlyInside
    <3>5. ASSUME NEW x \in ExpiryTimestamps(whitelist, created),
                 expiry' = IF x > created + Day THEN TooLate ELSE x
          PROVE  expiry' = x
      BY <3>1, <3>5, CandidateWithinADay, DayAssumption
    <3> QED
      BY <2>1, <3>3, <3>4, <3>5 DEF getExpiryTimestamp
  <2>2. CASE UNCHANGED vars
    BY <2>2 DEF vars, IInv, TypeOK, ExpiresWithinADay, NeverTooLate, ExpiresInWhitelist,
                GivesUpOnlyInside
  <2> QED
    BY <2>1, <2>2 DEF Next
<1> QED
  BY <1>1, <1>2, PTL DEF Spec

(* For every white list and creation time: the expiry time lies within the *)
(* day that the VM has (getExpiryTimestamp).                               *)
THEOREM WithinADay == Spec => []ExpiresWithinADay
BY Invariance, PTL DEF IInv

(* The last test of getExpiryTimestamp never fails. *)
THEOREM LastTestIsRedundant == Spec => []NeverTooLate
BY Invariance, PTL DEF IInv

(* The expiry time of day is white-listed (initWhitelist, randomMinuntes). *)
THEOREM InWhitelist == Spec => []ExpiresInWhitelist
BY Invariance, PTL DEF IInv

(* Only a node that every interval was open for goes without an expiry     *)
(* time ("Cannot find a date").                                            *)
THEOREM GivesUp == Spec => []GivesUpOnlyInside
BY Invariance, PTL DEF IInv

(* Type correctness of the call. *)
THEOREM TypeCorrect == Spec => []TypeOK
BY Invariance, PTL DEF IInv
=============================================================================
