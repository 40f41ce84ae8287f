--------------------------- MODULE MC_Restaurant ---------------------------
(* One order at one table, two requests at a time, two shifts in a row.      *)
EXTENDS Restaurant, TLC

CONSTANTS o1, o2, t1, i1, i2, r1, r2, s1, s2

OneOrder == {o1}
TwoOrders == {o1, o2}
MCTables == {t1}
OneSlot == {i1}
TwoSlots == {i1, i2}
TwoRequests == {r1, r2}
NoRequests == {r1}
OneShift == {s1}
TwoShifts == {s1, s2}
AllMarks == DishStatuses
SomeMarks == {"READY", "CANCELLED"}
OneMark == {"CANCELLED"}
NoShifts == {}
FreedTable == {"FREE"}
NoTableMarks == {}
NoService == {0}
AnyService == {0, 1}

Symmetry == Permutations(TwoRequests) \cup Permutations(TwoOrders) \cup Permutations(TwoSlots)
=============================================================================
