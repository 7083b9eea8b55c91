--------------------------- MODULE MCEvidenceSearch ---------------------------
(* Queries over two letters: <<1>> has more matches than the window has rows, *)
(* <<2>> just as many, the longer ones fewer: they narrow a complete window   *)
(* or need a scan.                                                            *)
EXTENDS EvidenceSearch

MCQueries == {<<>>, <<1>>, <<1, 1>>, <<1, 2>>, <<2>>}
MCSmall == {<<1, 1>>, <<1, 2>>}
MCExact == {<<2>>}
===============================================================================
