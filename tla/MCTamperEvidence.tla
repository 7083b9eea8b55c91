--------------------------- MODULE MCTamperEvidence ---------------------------
(* Three events, two changes: the second can hide or undo what the first one  *)
(* did to the links, put back a row that was cut off, or hit a log that has   *)
(* grown on top of the first.                                                 *)
EXTENDS TamperEvidence, TLC

\* What log-event makes of one item and of several.  The actor's name has a bar.
Single == [evidence_id |-> <<"e">>, evidence_ids |-> NULL,
           actor |-> <<"a", "b">>, action |-> <<"c">>, notes |-> NULL]
Multi  == [evidence_id |-> NULL, evidence_ids |-> <<<<"e">>, <<"f">>>>,
           actor |-> <<"a">>, action |-> <<"c">>, notes |-> NULL]

\* Rows that are not theirs but hash alike: the bar belongs to the evidence id
\* and there is a note; there is an evidence id, and an empty note.
MCPayloads ==
    {Single, [Single EXCEPT !.evidence_id = <<"e", "a">>, !.actor = <<"b">>, !.notes = <<"n">>],
     Multi, [Multi EXCEPT !.evidence_id = <<"e">>, !.notes = EmptyText]}
===============================================================================
