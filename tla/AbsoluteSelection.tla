--------------------------- MODULE AbsoluteSelection ---------------------------
(***************************************************************************)
(* What the search list promises its user: one selected position in the    *)
(* whole sorted result, moved by a row, by a screenful or to an end, and   *)
(* never past an end (the class comment of Pager).  Position 0 is "nothing *)
(* to select".                                                             *)
(***************************************************************************)
EXTENDS Integers

VARIABLES total,    \* rows that match the query
          height,   \* rows the terminal shows
          pos

Least(a, b) == IF a < b THEN a ELSE b
Greatest(a, b) == IF a > b THEN a ELSE b

First == Least(1, total)

Init == pos = First

Resize == pos' = pos /\ total' = total

Move ==
    /\ UNCHANGED <<total, height>>
    /\ \/ pos' = Least(pos + 1, total)
       \/ pos' = Greatest(pos - 1, First)
       \/ pos' = Least(pos + height, total)
       \/ pos' = Greatest(pos - height, First)
       \/ pos' = First
       \/ pos' = total

Spec == Init /\ [][Resize \/ Move]_<<total, height, pos>>
================================================================================
