-------------------------- MODULE MCVerificationTabs --------------------------
(* Two loads over two files, a page each, the second file not on disk, with   *)
(* two changes from outside: enough to register and log a file behind the     *)
(* place a load has reached, and for one load to supersede another anywhere.  *)
EXTENDS VerificationTabs

MCTwoIds == 1 .. 2
MCViews == <<"all", "unverifiable">>
===============================================================================
