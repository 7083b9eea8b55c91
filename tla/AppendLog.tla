------------------------------- MODULE AppendLog -------------------------------
(***************************************************************************)
(* What the custody log promises its readers, whoever writes to it and in  *)
(* whatever order: one history of events that only ever grows at its end.  *)
(* A step adds any number of events at once (a HashChain may hold several  *)
(* unsaved entries, and save_db stores all of them or none).               *)
(***************************************************************************)
EXTENDS Integers, Sequences

CONSTANT Payloads
VARIABLE history

Init == history = <<>>

Extends(longer, shorter) ==
    /\ Len(longer) >= Len(shorter)
    /\ \A i \in 1 .. Len(shorter) : longer[i] = shorter[i]

Grow == /\ history' \in Seq(Payloads)
        /\ Extends(history', history)

Spec == Init /\ [][Grow]_history
================================================================================
