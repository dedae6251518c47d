------------------------------ MODULE MissingRanges ---------------------------
(***************************************************************************)
(* How much of a range of missing blocks has been processed, as the        *)
(* dashboard tells it (loadMissingBlockRanges). A range is a record        *)
(* [start, end, upTo, downTo]; a cursor that nobody has set is below every *)
(* height.                                                                 *)
(***************************************************************************)
EXTENDS Integers, FiniteSets, FiniteSetsExt

Unset == -1

(* Slip: what both cursors have passed counts twice. *)
ProcessedTwice(range, ascending, descending) == ascending + descending

Processed(range, ascending, descending) ==
    Min({range.end - range.start + 1, ascending + descending})

(* The heights the ascending cursor has passed, and the descending one. *)
AscDone(range) ==
    IF range.upTo # Unset /\ range.upTo >= range.start
    THEN Min({range.upTo, range.end}) - range.start + 1 ELSE 0
DescDone(range) ==
    IF range.downTo # Unset /\ range.downTo <= range.end
    THEN range.end - Max({range.downTo, range.start}) + 1 ELSE 0

BlocksProcessed(range) == Processed(range, AscDone(range), DescDone(range))

(* pctProcessed, in tenths of a percent. *)
PctProcessed(range) ==
    LET size == range.end - range.start + 1
    IN  (2000 * BlocksProcessed(range) + size) \div (2 * size)

(* A range's numbers are those of its heights: processed is what one cursor  *)
(* or both have passed, wherever the cursors stand in or around the range,   *)
(* and the percentage is one.                                                *)
RangesAgree(range) ==
    LET passed == {h \in range.start .. range.end :
                      \/ range.upTo # Unset /\ h <= range.upTo
                      \/ range.downTo # Unset /\ h >= range.downTo}
    IN  /\ BlocksProcessed(range) = Cardinality(passed)
        /\ PctProcessed(range) \in 0 .. 1000
===============================================================================
