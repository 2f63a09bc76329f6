-------------------------- MODULE ExpiryTimeProofs --------------------------
(***************************************************************************)
(* What the operators of the expiry choice return, for every length of the *)
(* day and of the minute, every white list and every creation time.        *)
(***************************************************************************)
EXTENDS ExpiryTime, TLAPS

---------------------------------------------------------------------------
(***************************************************************************)
(* Arithmetic of days and minutes.                                         *)
(***************************************************************************)

(* A time is a whole number of days and a time of day. *)
LEMMA SplitTime ==
  ASSUME NEW t \in Nat
  PROVE  /\ SinceMidnight(t) \in TimeOfDay
         /\ midnight(t) \in Nat
         /\ t = midnight(t) + SinceMidnight(t)
         /\ \E q \in Nat : midnight(t) = q * Day
<1>1. SinceMidnight(t) \in TimeOfDay
  BY DayAssumption DEF SinceMidnight, TimeOfDay
<1>2. midnight(t) \in Nat /\ t = midnight(t) + SinceMidnight(t)
  BY DayAssumption DEF midnight, SinceMidnight
<1>3. \E q \in Nat : midnight(t) = q * Day
  BY DayAssumption DEF midnight, SinceMidnight
<1> QED
  BY <1>1, <1>2, <1>3

(* The day does not matter to the time of day. *)
LEMMA TimeOfDayOfSum ==
  ASSUME NEW q \in Nat, NEW r \in TimeOfDay
  PROVE  SinceMidnight(q * Day + r) = r
BY DayAssumption DEF SinceMidnight, TimeOfDay

(* A whole number of minutes of an interval does not go beyond its end. *)
LEMMA RandomTimesInside ==
  ASSUME NEW s \in Nat, NEW e \in Nat, s <= e, NEW r \in RandomTimes(<<s, e>>)
  PROVE  r \in Nat /\ s <= r /\ r <= e
<1>1. PICK m \in 0 .. (e - s) \div Minute : r = s + m * Minute
  BY DEF RandomTimes
<1>2. e - s \in Nat
  OBVIOUS
<1>3. ((e - s) \div Minute) * Minute <= e - s /\ (e - s) \div Minute \in Nat
  BY <1>2, DayAssumption
<1>4. m * Minute <= ((e - s) \div Minute) * Minute /\ m * Minute \in Nat
  BY <1>1, <1>3, DayAssumption
<1> QED
  BY <1>1, <1>3, <1>4, DayAssumption

---------------------------------------------------------------------------
(***************************************************************************)
(* The candidates.                                                         *)
(***************************************************************************)

(* Where a candidate comes from: an interval of the white list, on the day *)
(* of the creation or on the next, that starts later than the creation and *)
(* ends sooner than a day after it.                                        *)
LEMMA CandidateFromInterval ==
  ASSUME NEW wl \in SUBSET Interval, NEW c \in Nat,
         NEW x \in ExpiryTimestamps(wl, c)
  PROVE  \E j \in Intervals(wl), d \in {0, 1} :
            \E r \in Nat :
              /\ x = midnight(c) + r
              /\ j[1] + d * Day <= r /\ r <= j[2] + d * Day
              /\ SinceMidnight(c) < j[1] + d * Day
              /\ j[2] + d * Day < SinceMidnight(c) + Day
<1>1. PICK r \in EligibleExpiryTimes(wl, c) : x = midnight(c) + r
  BY DEF ExpiryTimestamps
<1>2. PICK i \in EligibleIntervals(wl, c) : r \in RandomTimes(i)
  BY <1>1 DEF EligibleExpiryTimes
<1>3. PICK j \in Intervals(wl), d \in {0, 1} :
        /\ i = <<j[1] + d * Day, j[2] + d * Day>>
        /\ SinceMidnight(c) < i[1] /\ i[2] < SinceMidnight(c) + Day
  BY <1>2 DEF EligibleIntervals
<1>4. j[1] \in Nat /\ j[2] \in Nat /\ j[1] < j[2]
  BY <1>3 DEF Intervals, Covered, TimeOfDay
<1>5. /\ j[1] + d * Day \in Nat /\ j[2] + d * Day \in Nat
      /\ j[1] + d * Day <= j[2] + d * Day
  BY <1>3, <1>4, DayAssumption
<1>6. r \in Nat /\ j[1] + d * Day <= r /\ r <= j[2] + d * Day
  BY <1>2, <1>3, <1>5, RandomTimesInside
<1> QED
  BY <1>1, <1>3, <1>6

(* An interval of the merged list lies in the configured ones: all of its  *)
(* times do, and its end is the end of one of them, or of the day.         *)
LEMMA IntervalIsCovered ==
  ASSUME NEW wl \in SUBSET Interval, NEW j \in Intervals(wl)
  PROVE  /\ j[1] \in TimeOfDay /\ j[2] \in 0 .. Day /\ j[1] < j[2]
         /\ \A t \in Int : j[1] <= t /\ t < j[2] => t \in Covered(wl)
         /\ j[2] \notin Covered(wl)
BY DEF Intervals, Covered, TimeOfDay

(* The moment a covered stretch ends, one of the configured intervals does. *)
LEMMA EndOfStretch ==
  ASSUME NEW wl \in SUBSET Interval, NEW t \in TimeOfDay,
         t \notin Covered(wl), t - 1 \in Covered(wl)
  PROVE  \E i \in wl : t = i[2]
<1>1. PICK i \in wl : Within(t - 1, i)
  BY DEF Covered
<1>2. ~ Within(t, i)
  BY DEF Covered
<1>3. i[1] \in TimeOfDay /\ i[2] \in TimeOfDay
  BY DEF Interval
<1> QED
  BY <1>1, <1>2, <1>3 DEF Within, TimeOfDay

(* Every candidate is within a day of the creation. *)
LEMMA CandidateWithinADay ==
  ASSUME NEW wl \in SUBSET Interval, NEW c \in Nat,
         NEW x \in ExpiryTimestamps(wl, c)
  PROVE  x \in Nat /\ c < x /\ x < c + Day
<1>1. PICK j \in Intervals(wl), d \in {0, 1} :
        \E r \in Nat :
          /\ x = midnight(c) + r
          /\ j[1] + d * Day <= r /\ r <= j[2] + d * Day
          /\ SinceMidnight(c) < j[1] + d * Day
          /\ j[2] + d * Day < SinceMidnight(c) + Day
  BY CandidateFromInterval
<1>2. PICK r \in Nat :
        /\ x = midnight(c) + r
        /\ j[1] + d * Day <= r /\ r <= j[2] + d * Day
        /\ SinceMidnight(c) < j[1] + d * Day
        /\ j[2] + d * Day < SinceMidnight(c) + Day
  BY <1>1
<1>3. j[1] + d * Day \in Nat /\ j[2] + d * Day \in Nat
  BY DayAssumption, IntervalIsCovered DEF TimeOfDay
<1>4. SinceMidnight(c) \in Nat /\ midnight(c) \in Nat /\ c = midnight(c) + SinceMidnight(c)
  BY SplitTime, DayAssumption DEF TimeOfDay
<1> QED
  BY <1>2, <1>3, <1>4, DayAssumption

(* The time of day of a candidate is in a configured interval or ends one. *)
LEMMA CandidateInWhitelist ==
  ASSUME NEW wl \in SUBSET Interval, NEW c \in Nat,
         NEW x \in ExpiryTimestamps(wl, c)
  PROVE  \E i \in wl : Within(SinceMidnight(x), i) \/ SinceMidnight(x) = i[2]
<1>1. PICK j \in Intervals(wl), d \in {0, 1} :
        \E r \in Nat :
          /\ x = midnight(c) + r
          /\ j[1] + d * Day <= r /\ r <= j[2] + d * Day
          /\ SinceMidnight(c) < j[1] + d * Day
          /\ j[2] + d * Day < SinceMidnight(c) + Day
  BY CandidateFromInterval
<1>2. PICK r \in Nat :
        x = midnight(c) + r /\ j[1] + d * Day <= r /\ r <= j[2] + d * Day
  BY <1>1
<1>3. /\ j[1] \in TimeOfDay /\ j[2] \in 0 .. Day /\ j[1] < j[2]
      /\ \A t \in Int : j[1] <= t /\ t < j[2] => t \in Covered(wl)
      /\ j[2] \notin Covered(wl)
  BY IntervalIsCovered
<1>4. PICK q \in Nat : midnight(c) = q * Day
  BY SplitTime
<1> DEFINE u == r - d * Day
<1>5. u \in Nat /\ j[1] <= u /\ u <= j[2]
  BY <1>2, <1>3, DayAssumption DEF TimeOfDay
<1>6. x = (q + d) * Day + u
  BY <1>2, <1>4, <1>5, DayAssumption
<1>7. CASE u < j[2]
  <2>1. u \in Covered(wl)
    BY <1>3, <1>5, <1>7
  <2>2. u \in TimeOfDay
    BY <2>1 DEF Covered
  <2>3. SinceMidnight(x) = u
    BY <1>6, <2>2, TimeOfDayOfSum
  <2> QED
    BY <2>1, <2>3 DEF Covered
<1>8. CASE u = j[2] /\ j[2] < Day
  <2>1. u \in TimeOfDay /\ u \notin Covered(wl)
    BY <1>3, <1>5, <1>8, DayAssumption DEF TimeOfDay
  <2>2. u - 1 \in Covered(wl)
    BY <1>3, <1>5, <1>8 DEF TimeOfDay
  <2>3. SinceMidnight(x) = u
    BY <1>6, <2>1, TimeOfDayOfSum
  <2> QED
    BY <2>1, <2>2, <2>3, EndOfStretch
<1>9. CASE u = j[2] /\ j[2] = Day
  <2>1. x = (q + d + 1) * Day + 0
    BY <1>6, <1>9, DayAssumption
  <2>2. SinceMidnight(x) = 0
    <3>1. q + d + 1 \in Nat /\ 0 \in TimeOfDay
      BY DayAssumption DEF TimeOfDay
    <3> QED
      BY <2>1, <3>1, TimeOfDayOfSum
  <2>3. Day - 1 \in Covered(wl)
    BY <1>3, <1>9, DayAssumption DEF TimeOfDay
  <2>4. PICK i \in wl : Within(Day - 1, i)
    BY <2>3 DEF Covered
  <2>5. i[1] \in TimeOfDay /\ i[2] \in TimeOfDay
    BY DEF Interval
  <2>6. Within(0, i) \/ 0 = i[2]
    BY <2>4, <2>5, DayAssumption DEF Within, TimeOfDay
  <2> QED
    BY <2>2, <2>6
<1> QED
  BY <1>3, <1>5, <1>7, <1>8, <1>9, DayAssumption

(* Without a candidate, every interval was running at the creation.  One  *)
(* that was not would do on the day of the creation, if it starts later,  *)
(* or on the next, if it had ended.                                       *)
LEMMA NoCandidate ==
  ASSUME NEW wl \in SUBSET Interval, NEW c \in Nat,
         ExpiryTimestamps(wl, c) = {}, NEW i \in Intervals(wl)
  PROVE  \/ i[1] <= SinceMidnight(c) /\ SinceMidnight(c) <= i[2]
         \/ SinceMidnight(c) = 0 /\ i[2] = Day
<1> DEFINE t == SinceMidnight(c)
           Shifted(d) == <<i[1] + d * Day, i[2] + d * Day>>
<1>1. i[1] \in TimeOfDay /\ i[2] \in 0 .. Day /\ i[1] < i[2]
  BY IntervalIsCovered
<1>2. t \in TimeOfDay
  BY SplitTime
<1>3. ASSUME NEW d \in {0, 1}, t < i[1] + d * Day, i[2] + d * Day < t + Day
      PROVE  FALSE
  <2>1. Shifted(d) \in EligibleIntervals(wl, c)
    BY <1>3 DEF EligibleIntervals
  <2>2. i[2] - i[1] \in Nat /\ (i[2] + d * Day) - (i[1] + d * Day) = i[2] - i[1]
    BY <1>1, DayAssumption DEF TimeOfDay
  <2>3. 0 \in 0 .. (i[2] - i[1]) \div Minute
    BY <2>2, DayAssumption
  <2>4. (i[1] + d * Day) + 0 * Minute \in RandomTimes(Shifted(d))
    BY <2>2, <2>3 DEF RandomTimes
  <2>5. EligibleExpiryTimes(wl, c) # {}
    BY <2>1, <2>4 DEF EligibleExpiryTimes
  <2> QED
    BY <2>5 DEF ExpiryTimestamps
<1>4. ~ (t < i[1] /\ i[2] < t + Day)
  BY <1>1, <1>3, DayAssumption DEF TimeOfDay
<1>5. ~ (t < i[1] + Day /\ i[2] + Day < t + Day)
  BY <1>1, <1>3, DayAssumption DEF TimeOfDay
<1> QED
  BY <1>1, <1>2, <1>4, <1>5, DayAssumption DEF TimeOfDay
=============================================================================
