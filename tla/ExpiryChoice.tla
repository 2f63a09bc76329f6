---------------------------- MODULE ExpiryChoice ----------------------------
(***************************************************************************)
(* One call of getExpiryTimestamp (pkg/spotter/expiry.go), with its two    *)
(* errors, for any white list and creation time.                           *)
(***************************************************************************)
EXTENDS ExpiryTime

CONSTANTS WhiteList,     \* the white lists to consider
          Creation,      \* the creation times to consider
          NotYet,        \* before the call
          NoDate,        \* the error "Cannot find a date"
          TooLate        \* the error of the last test

ASSUME CallAssumption ==
  /\ WhiteList \subseteq SUBSET Interval
  /\ Creation \subseteq Nat
  /\ {NotYet, NoDate, TooLate} \cap Nat = {}
  /\ NotYet # NoDate /\ NotYet # TooLate /\ NoDate # TooLate

VARIABLES whitelist, created, expiry
vars == <<whitelist, created, expiry>>

Init ==
  /\ whitelist \in WhiteList
  /\ created \in Creation
  /\ expiry = NotYet

getExpiryTimestamp ==
  /\ expiry = NotYet
  /\ LET candidates == ExpiryTimestamps(whitelist, created)
     IN \/ candidates = {} /\ expiry' = NoDate
        \/ \E finalexp \in candidates :
             expiry' = IF finalexp > created + Day THEN TooLate ELSE finalexp
  /\ UNCHANGED <<whitelist, created>>

Next == getExpiryTimestamp

Spec == Init /\ [][Next]_vars

TypeOK ==
  /\ whitelist \in WhiteList
  /\ created \in Creation
  /\ expiry \in Nat \cup {NotYet, NoDate, TooLate}

(***************************************************************************)
(* The properties.                                                         *)
(***************************************************************************)

(* The expiry time lies strictly between the creation of the node and the  *)
(* moment Compute Engine takes the VM back: a day on a clock that goes     *)
(* round twice (the tests against projectedCT and projectedET).            *)
ExpiresWithinADay ==
  expiry \in Nat => created < expiry /\ expiry < created + Day

(* It never fails on its own result: the last test of getExpiryTimestamp   *)
(* cannot find that the time it computed is after the VM's end.            *)
NeverTooLate == expiry # TooLate

(* The expiry time of day is in one of the configured intervals, as they   *)
(* were written, or is the end of one: cutting at midnight, merging and    *)
(* moving to the next day lead nowhere else (initWhitelist, randomNumber). *)
ExpiresInWhitelist ==
  expiry \in Nat =>
    LET t == SinceMidnight(expiry)
    IN \E i \in whitelist : Within(t, i) \/ t = i[2]

(* The spotter gives up on a node only when no interval can be used: each  *)
(* one was running at the time of day the node was created, from its first *)
(* to its last moment, or the node was created at the very midnight that   *)
(* ends the interval (projectedCT.Before(start), end.Before(projectedET)). *)
GivesUpOnlyInside ==
  expiry = NoDate =>
    LET t == SinceMidnight(created)
    IN \A i \in Intervals(whitelist) : (i[1] <= t /\ t <= i[2]) \/ (t = 0 /\ i[2] = Day)

(* The docs say that a VM is deleted after 12 and before 24 hours of its   *)
(* creation.  The second half of that is ExpiresWithinADay; for the first  *)
(* there is no test in the code: an interval is eligible as soon as it     *)
(* begins after the creation (projectedCT.Before(start)).                  *)
ExpiresAfterHalfADay == expiry \in Nat => created + Day \div 2 <= expiry
=============================================================================
