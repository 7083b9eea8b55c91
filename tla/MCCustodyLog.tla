----------------------------- MODULE MCCustodyLog -----------------------------
(* The custody log of two processes: enough for one of them to find, at its    *)
(* save, that the other has stored the entry it was about to store.            *)
EXTENDS CustodyLog

\* An event of one item and one of two.
MCPayloads ==
    {[evidence_id |-> <<"x">>, evidence_ids |-> NULL,
      actor |-> <<"x">>, action |-> <<"y">>, notes |-> NULL],
     [evidence_id |-> NULL, evidence_ids |-> <<<<"x">>, <<"y">>>>,
      actor |-> <<"x">>, action |-> <<"y">>, notes |-> <<"x", "y">>]}
===============================================================================
