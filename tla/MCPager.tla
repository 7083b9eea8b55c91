------------------------------- MODULE MCPager -------------------------------
(* Results of up to 17 rows on terminals that show 5 (the least the code      *)
(* assumes), 6 or 8 of them: the window is smaller than, as large as and      *)
(* larger than the result, and two pages do not always reach an end.          *)
EXTENDS Pager

MCTotals == 0 .. 17
MCHeights == {5, 6, 8}
===============================================================================
