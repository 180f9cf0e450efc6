---------------------------- MODULE RangeTracker ----------------------------
(***************************************************************************)
(* The dispatcher's record of the key ranges it handed to the writers, and *)
(* the resume point derived from it.  The BTreeMap<i64, i64> from the      *)
(* start of a range to its end is a function with a finite domain; a range *)
(* [a |-> e] stands for the keys in (a, e].                                *)
(***************************************************************************)
EXTENDS KeysetPaging

NoRanges == [a \in {} |-> 0]

(* RangeTracker::new: start_pk.unwrap_or(0)                                *)
TrackerStart(start) == IF start = None THEN 0 ELSE start

(* BTreeMap::insert replaces the end of a range with the same start.       *)
AddRange(ranges, start, first, last) ==
  IF last = None THEN ranges
  ELSE LET key == OrElse(first, start)
       IN  [a \in DOMAIN ranges \cup {key} |-> IF a = key THEN last ELSE ranges[a]]

(* current_end when the scan comes to the range that starts at a: the      *)
(* largest end among the ranges before it.                                 *)
EndBefore(ranges, start, a) ==
  Max({start} \cup {ranges[b] : b \in {c \in DOMAIN ranges : c < a}})

(* The ranges the scan passes before the first gap.                        *)
Contiguous(ranges, start) ==
  {a \in DOMAIN ranges :
     \A b \in DOMAIN ranges : b <= a => b <= EndBefore(ranges, start, b)}

SafeEnd(ranges, start) ==
  Max({start} \cup {ranges[a] : a \in Contiguous(ranges, start)})

SafeResumePoint(ranges, start) ==
  IF SafeEnd(ranges, start) > start THEN SafeEnd(ranges, start) ELSE None

(* The keys the recorded ranges stand for.                                 *)
Covered(ranges, k) == \E a \in DOMAIN ranges : a < k /\ k <= ranges[a]
=============================================================================
