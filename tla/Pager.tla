--------------------------------- MODULE Pager ---------------------------------
(***************************************************************************)
(* The search list's window (Pager, src/vcoc/interactive/                  *)
(* evidence_search.py): it holds at most a screenful of the rows that      *)
(* match, and moves with keyset queries from the rows it holds.  The       *)
(* matching rows are 1 .. total in their sorted order; `height` is the     *)
(* height the terminal has when a key is pressed.                          *)
(***************************************************************************)
EXTENDS Integers, Sequences

CONSTANTS Totals,    \* bound: how many rows match
          Heights    \* bound: terminal heights

ASSUME BoundsAssumption == Totals \subseteq Nat /\ Heights \subseteq Nat \ {0}

VARIABLES total, height,
          window,           \* Pager.rows
          sel, exhausted_before, exhausted_after

pagerVars == <<total, height, window, sel, exhausted_before, exhausted_after>>

PagerTypeOK ==
    /\ total \in Totals /\ height \in Heights
    /\ window \in Seq(1 .. total)
    /\ sel \in IF window = <<>> THEN {1} ELSE 1 .. Len(window)
    /\ exhausted_before \in BOOLEAN /\ exhausted_after \in BOOLEAN

Least(a, b) == IF a < b THEN a ELSE b
Greatest(a, b) == IF a > b THEN a ELSE b

From(i, j) == [k \in 1 .. Greatest(j - i + 1, 0) |-> i + k - 1]

\* EvidenceSource.forward / backward: up to n rows at or after (before) key,
\* in ascending order
Forward(key, n)  == From(key, Least(key + n - 1, total))
Backward(key, n) == From(Greatest(key - n + 1, 1), key)

Last(s) == s[Len(s)]

-------------------------------------------------------------------------------
\* reset / home: the first window of the result
ShowFirst(h) ==
    /\ window' = Forward(1, h)
    /\ sel' = 1
    /\ exhausted_before' = TRUE
    /\ exhausted_after' = (Len(window') < h)

PagerInit ==
    /\ total \in Totals /\ height \in Heights
    /\ window = Forward(1, height)
    /\ sel = 1
    /\ exhausted_before = TRUE
    /\ exhausted_after = (Len(window) < height)

Home == ShowFirst(height)

End ==
    /\ window' = Backward(total, height)
    /\ sel' = Greatest(Len(window'), 1)
    /\ exhausted_before' = (Len(window') < height)
    /\ exhausted_after' = TRUE

\* The window as it is, with another row of it selected
Select(i) == sel' = i /\ UNCHANGED <<window, exhausted_before, exhausted_after>>

\* A query beyond the window found nothing: remember that
LearnAfter  == exhausted_after' = TRUE /\ UNCHANGED <<window, sel, exhausted_before>>
LearnBefore == exhausted_before' = TRUE /\ UNCHANGED <<window, sel, exhausted_after>>

Down ==
    LET more == Forward(Last(window) + 1, 1)
    IN  /\ window # <<>>
        /\ \/ sel < Len(window) /\ Select(sel + 1)
           \/ sel = Len(window) /\ exhausted_after /\ Select(sel)
           \/ sel = Len(window) /\ ~exhausted_after /\ more = <<>> /\ LearnAfter
           \/ /\ sel = Len(window) /\ ~exhausted_after /\ more # <<>>
              /\ window' = (IF Len(window) >= height THEN Tail(window) ELSE window) \o more
              /\ sel' = Len(window')
              /\ exhausted_before' = FALSE
              /\ UNCHANGED exhausted_after

\* Mutant: a row dropped at the end is forgotten
UpStaysExhausted ==
    LET before == Backward(window[1] - 1, 1)
    IN  /\ window # <<>>
        /\ \/ sel > 1 /\ Select(sel - 1)
           \/ /\ sel = 1 /\ ~exhausted_before /\ before # <<>>
              /\ window' = before \o (IF Len(window) >= height
                                        THEN SubSeq(window, 1, Len(window) - 1) ELSE window)
              /\ sel' = 1
              /\ UNCHANGED <<exhausted_before, exhausted_after>>

Up ==
    LET before == Backward(window[1] - 1, 1)
    IN  /\ window # <<>>
        /\ \/ sel > 1 /\ Select(sel - 1)
           \/ sel = 1 /\ exhausted_before /\ Select(sel)
           \/ sel = 1 /\ ~exhausted_before /\ before = <<>> /\ LearnBefore
           \/ /\ sel = 1 /\ ~exhausted_before /\ before # <<>>
              /\ window' = before \o (IF Len(window) >= height
                                        THEN SubSeq(window, 1, Len(window) - 1) ELSE window)
              /\ sel' = 1
              /\ exhausted_after' = FALSE
              /\ UNCHANGED exhausted_before

\* Mutants: the page counts the selected row; the new window starts on the row
PageDownInclusive ==
    LET after == Forward(window[sel], height)
    IN  /\ window # <<>> /\ ~exhausted_after
        /\ window' = Backward(Last(after), height)
        /\ sel' = Len(window')
        /\ exhausted_before' = (Len(window') < height)
        /\ exhausted_after' = (Len(after) < height)

PageDownFromTop ==
    LET after == Forward(window[sel] + 1, height)
    IN  /\ window # <<>> /\ ~exhausted_after /\ after # <<>>
        /\ window' = Forward(Last(after), height)
        /\ sel' = 1
        /\ exhausted_before' = FALSE
        /\ exhausted_after' = (Len(window') < height)

\* The new window ends on the row `height` further on, or on the last row
PageDown ==
    LET after == Forward(window[sel] + 1, height)
    IN  /\ window # <<>>
        /\ \/ exhausted_after /\ Select(Least(Len(window), sel + height))
           \/ ~exhausted_after /\ after = <<>> /\ LearnAfter
           \/ /\ ~exhausted_after /\ after # <<>>
              /\ window' = Backward(Last(after), height)
              /\ sel' = Len(window')
              /\ exhausted_before' = (Len(window') < height)
              /\ exhausted_after' = (Len(after) < height)

\* The new window starts on the row `height` back, or on the first row
PageUp ==
    LET before == Backward(window[sel] - 1, height)
        next   == Forward(before[1], height)
        extra  == IF Len(next) < height
                    THEN Backward(next[1] - 1, height - Len(next)) ELSE <<>>
    IN  /\ window # <<>>
        /\ \/ exhausted_before /\ Select(Greatest(1, sel - height))
           \/ ~exhausted_before /\ before = <<>> /\ LearnBefore
           \/ /\ ~exhausted_before /\ before # <<>>
              /\ window' = extra \o next
              /\ sel' = Len(extra) + 1
              /\ exhausted_before' = (Len(before) < height)
              /\ exhausted_after' = (Len(next) < height)

AnyKey == Home \/ End \/ Down \/ Up \/ PageDown \/ PageUp

\* The terminal is resized between two keys: the window is left alone
Resize ==
    /\ height' \in Heights
    /\ UNCHANGED <<total, window, sel, exhausted_before, exhausted_after>>

PagerNext == (AnyKey /\ UNCHANGED <<total, height>>) \/ Resize

PagerSpec == PagerInit /\ [][PagerNext]_pagerVars

-------------------------------------------------------------------------------
(* Properties.                                                             *)

\* The window is a gapless piece of the result, and an end is called exhausted
\* only if nothing lies beyond it: `complete` then really means every match.
ExhaustedIsTrue ==
    /\ \A i \in 1 .. Len(window) - 1 : window[i + 1] = window[i] + 1
    /\ (exhausted_before /\ window # <<>>) => window[1] = 1
    /\ (exhausted_after /\ window # <<>>) => Last(window) = total
    /\ window = <<>> => total = 0

\* The window of rows, with the types of the state.
PagerInv == PagerTypeOK /\ ExhaustedIsTrue

\* Pager behaves like one selection over the whole result (its class comment).
Selection == INSTANCE AbsoluteSelection
               WITH pos <- IF window = <<>> THEN 0 ELSE window[sel]
ImplementsSelection == Selection!Spec

\* scroll_top: the smallest scroll that keeps a row on the screen
ScrollTop(top, selected, h, n) ==
    LET t == Least(top, Greatest(n - h, 0))
    IN  Greatest(IF selected < t THEN selected
                 ELSE IF selected >= t + h THEN selected - h + 1 ELSE t, 0)

\* What the terminal shows of the window: get_results_text scrolls within it
TopRow == window[ScrollTop(0, sel - 1, height, Len(window)) + 1]

\* The screen scrolls no further than it must (the class comment of Pager): a
\* key moves the top row of the screen exactly as scroll_top moves a list held
\* whole in memory.  Only while the terminal keeps its size, and once the window
\* fills the screen: after a resize the window is still that of the old height.
MinimalScroll ==
    [][ (height' = height /\ window # <<>> /\ Len(window) = Least(height, total)) =>
          TopRow' - 1 = ScrollTop(TopRow - 1, window'[sel'] - 1, height, total) ]_pagerVars
================================================================================
