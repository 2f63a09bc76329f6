----------------------------- MODULE ExpiryTime -----------------------------
(***************************************************************************)
(* The spotter's choice of an expiry time (pkg/spotter/expiry.go): a       *)
(* random minute of a random white-listed interval among those that start  *)
(* after the node was created and end before it is a day old.              *)
(*                                                                         *)
(* Times are ticks since some midnight UTC; Minute ticks make a minute and *)
(* Day ticks a day, so that creation times need not be whole minutes.  A   *)
(* configured interval is a pair of times of day; one whose end comes      *)
(* first goes round midnight.                                              *)
(***************************************************************************)
EXTENDS Integers

CONSTANTS Day, Minute

ASSUME DayAssumption == Day \in Nat \ {0} /\ Minute \in Nat \ {0}

TimeOfDay == 0 .. Day - 1
Interval == TimeOfDay \X TimeOfDay      \* what a configuration can hold

SinceMidnight(t) == t % Day
(* Slip: the subtraction the wrong way round. *)
midnightBackwards(t) == SinceMidnight(t) - t

midnight(t) == t - SinceMidnight(t)

(* initWhitelist: an interval that goes round midnight is inserted as two,  *)
(* and the timespanset keeps the union of what is inserted.                 *)
Within(t, i) ==
  IF i[2] < i[1] THEN i[1] <= t \/ t < i[2]
                 ELSE i[1] <= t /\ t < i[2]

Covered(wl) == {t \in TimeOfDay : \E i \in wl : Within(t, i)}

(* IntervalsBetween: the maximal intervals of that union, start included,   *)
(* end excluded; the end of the last one may be the end of the day.         *)
Intervals(wl) ==
  LET covered == Covered(wl)
  IN {i \in covered \X (0 .. Day) :
        /\ i[1] < i[2]
        /\ i[1] .. i[2] - 1 \subseteq covered
        /\ i[1] - 1 \notin covered
        /\ i[2] \notin covered}

(* Slips: an interval may start at the creation; its end is not tested; the  *)
(* second day is forgotten.                                                 *)
IntervalsFromCreation(wl, created) ==
  LET projectedCT == SinceMidnight(created)
  IN {i \in {<<j[1] + d * Day, j[2] + d * Day>> : j \in Intervals(wl), d \in {0, 1}} :
        projectedCT <= i[1] /\ i[2] < projectedCT + Day}

IntervalsWithoutEnd(wl, created) ==
  {i \in {<<j[1] + d * Day, j[2] + d * Day>> : j \in Intervals(wl), d \in {0, 1}} :
     SinceMidnight(created) < i[1]}

IntervalsOfOneDay(wl, created) ==
  {j \in Intervals(wl) :
     SinceMidnight(created) < j[1] /\ j[2] < SinceMidnight(created) + Day}

(* The loop over two days: each interval on the day of the creation and on  *)
(* the day after.                                                           *)
EligibleIntervals(wl, created) ==
  LET projectedCT == SinceMidnight(created)
      projectedET == projectedCT + Day
  IN {i \in {<<j[1] + d * Day, j[2] + d * Day>> : j \in Intervals(wl), d \in {0, 1}} :
        projectedCT < i[1] /\ i[2] < projectedET}

(* Slip: one minute too many. *)
RandomTimesBeyond(i) == {i[1] + m * Minute : m \in 0 .. ((i[2] - i[1]) \div Minute) + 1}

(* start + randomMinuntes(start, end): whole minutes, the end included.     *)
RandomTimes(i) == {i[1] + m * Minute : m \in 0 .. (i[2] - i[1]) \div Minute}

EligibleExpiryTimes(wl, created) ==
  UNION {RandomTimes(i) : i \in EligibleIntervals(wl, created)}

(* What getExpiryTimestamp may return: a time of day of that day or the     *)
(* next, counted from the midnight before the creation.                     *)
ExpiryTimestamps(wl, created) ==
  {midnight(created) + r : r \in EligibleExpiryTimes(wl, created)}
=============================================================================
