--------------------------- MODULE VerificationTabs ---------------------------
(***************************************************************************)
(* The verification screen around its background load                      *)
(* (verification_screen._run_sidebar_detail_app): tabs, the row selected,  *)
(* the category the Evidence tab lists, and Ctrl-R, while the loads of     *)
(* EvidenceCheck run and publish on threads of their own.                  *)
(*                                                                         *)
(* The Chain and Merkle tabs are one "other" tab: they have nothing in     *)
(* common with the Evidence tab but the selection, which every switch      *)
(* resets.  How their rows are selected is left out.                       *)
(***************************************************************************)
EXTENDS EvidenceCheck

CONSTANTS
    ViewOrder, \* the categories `f` cycles through (VIEW_ORDER), "all" first
    Height     \* rows PgUp and PgDn move by

ASSUME ViewAssumption ==
    /\ ViewOrder \in Seq(STRING) /\ ViewOrder # <<>> /\ ViewOrder[1] = "all"
    /\ Height \in Nat \ {0}

VARIABLES
    tab,
    opened,     \* the Evidence tab was started on this screen
    restarting, \* load() is between results.pop and the loader's start
    selected,   \* selected_row, counted from 0
    category,   \* evidence_view, as its place in ViewOrder
    overtaken   \* a load was published in that moment, which nothing notices

keys == <<tab, opened, restarting, selected, category>>
vars == <<checkVars, keys, overtaken>>

Init ==
    /\ LoadsInit
    /\ tab = "other"
    /\ opened = FALSE /\ restarting = FALSE
    /\ selected = 0 /\ category = 1
    /\ overtaken = FALSE

-------------------------------------------------------------------------------
(* The rows of a result, as current() lists them.                          *)

InCategory(name, r) ==
    CASE name = "all" -> TRUE
      [] name = "green" -> r.rehash = "match" /\ r.logged
      [] name = "tampered" -> r.rehash = "MISMATCH"
      [] name = "not_logged" -> ~r.logged
      [] name = "unverifiable" -> r.rehash = "not_found"
      [] name = "logged" -> r.logged

\* An error, or that there is no evidence, is a list of one row and has no
\* categories; "all" ends with the row of the Merkle root.
Plain(l) == load[l].failed \/ load[l].results = <<>>

RowCount ==
    IF shown = 0 THEN 0
    ELSE IF Plain(shown) THEN 1
    ELSE LET name == ViewOrder[category]
         IN  Cardinality({i \in DOMAIN load[shown].results :
                            InCategory(name, load[shown].results[i])})
               + IF name = "all" THEN 1 ELSE 0

-------------------------------------------------------------------------------
(* The keys, handled by one thread.                                        *)

Handles == ~restarting /\ UNCHANGED overtaken

\* Tab, the arrows and 1 to 3: load() without refresh starts a tab once.
Switch(to) ==
    /\ Handles
    /\ tab' = to
    /\ selected' = 0
    /\ IF to = "evidence" /\ ~opened
       THEN /\ started < MaxLoads
            /\ opened' = TRUE /\ restarting' = TRUE
            /\ Pop
       ELSE UNCHANGED <<opened, restarting, checkVars>>
    /\ UNCHANGED category

\* Mutant: the selection is kept
RefreshInPlace ==
    /\ Handles
    /\ category' = 1
    /\ IF tab = "evidence"
       THEN /\ started < MaxLoads
            /\ restarting' = TRUE
            /\ Pop
       ELSE UNCHANGED <<restarting, checkVars>>
    /\ UNCHANGED <<tab, opened, selected>>

\* Ctrl-R: load(refresh=True)
Refresh ==
    /\ Handles
    /\ selected' = 0
    /\ category' = 1
    /\ IF tab = "evidence"
       THEN /\ started < MaxLoads
            /\ restarting' = TRUE
            /\ Pop
       ELSE UNCHANGED <<restarting, checkVars>>
    /\ UNCHANGED <<tab, opened>>

StartLoad ==
    /\ restarting
    /\ Start
    /\ restarting' = FALSE
    /\ UNCHANGED <<tab, opened, selected, category, overtaken>>

AtLeast(a, b) == IF a > b THEN a ELSE b
AtMost(a, b) == IF a < b THEN a ELSE b

\* Up, Down, PgUp, PgDn, Home and End.
Move ==
    /\ Handles
    /\ tab = "evidence"
    /\ \/ /\ RowCount > 0
          /\ \E step \in {1, Height} :
               \/ selected' = AtLeast(0, selected - step)
               \/ selected' = AtMost(RowCount - 1, selected + step)
       \/ selected' = 0
       \/ RowCount > 0 /\ selected' = RowCount - 1
    /\ UNCHANGED <<checkVars, tab, opened, restarting, category>>

\* `f`: only a finished result has categories.
NextView ==
    /\ Handles
    /\ tab = "evidence"
    /\ shown # 0 /\ ~Plain(shown)
    /\ category' = (category % Len(ViewOrder)) + 1
    /\ selected' = 0
    /\ UNCHANGED <<checkVars, tab, opened, restarting>>

\* Esc: all that belongs to the screen goes with it.
Leave ==
    /\ ~restarting
    /\ CancelAll
    /\ tab' = "other"
    /\ opened' = FALSE
    /\ selected' = 0 /\ category' = 1
    /\ overtaken' = FALSE
    /\ UNCHANGED restarting

Keys ==
    \/ \E to \in {"evidence", "other"} : Switch(to)
    \/ Refresh \/ StartLoad \/ Move \/ NextView
    \/ Leave

Thread(l) ==
    /\ Work(l)
    /\ overtaken' = (overtaken \/ (restarting /\ shown' # shown))
    /\ UNCHANGED keys

Next ==
    \/ World /\ UNCHANGED <<keys, overtaken>>
    \/ Keys
    \/ \E l \in Loads : Thread(l)

\* A thread that has work to do is scheduled, and a key's handler runs to its end.
Fairness ==
    /\ \A l \in Loads : WF_vars(Thread(l))
    /\ WF_vars(StartLoad)

Spec == Init /\ [][Next]_vars /\ Fairness

-------------------------------------------------------------------------------
(* Properties.                                                             *)

TypeOK ==
    /\ LoadsTypeOK
    /\ tab \in {"evidence", "other"}
    /\ opened \in BOOLEAN /\ restarting \in BOOLEAN /\ overtaken \in BOOLEAN
    /\ selected \in 0 .. Cardinality(Ids)
    /\ category \in DOMAIN ViewOrder

\* A newer start (or leaving the screen) is never overwritten by a stale result:
\* what the tab shows, once it is not loading, is the newest load's, and that
\* load has finished (_BackgroundLoad: "its result is dropped, never published").
NewestShown ==
    shown # 0 =>
        /\ load[shown].stage = "published"
        /\ ~loading /\ ~restarting => ~Superseded(shown)

\* The row selected is one of the rows listed, or there is none and it is the
\* first: whatever keys were pressed while the list was of another load, or in
\* another category, render_detail finds details[selected_row] (unless a load
\* was published between the two steps of Ctrl-R, see NoneWhileLoading).
SelectionIsARow ==
    ~loading /\ ~overtaken => selected = 0 \/ selected < RowCount

\* What the screen shows: the newest result, with one of its rows selected.
ScreenInv == TypeOK /\ NewestShown /\ SelectionIsARow

\* "The finished Evidence result, or None on any other tab and while it is still
\* loading" (evidence_results): a tab that loads lists nothing.
NoneWhileLoading == loading => shown = 0

\* A tab that is loading gets an answer (or is left, or restarted for good).
Answered == loading ~> ~loading

\* A superseded load's thread stops: leaving the screen ends the hashing.
SupersededStops ==
    \A l \in Loads : (l <= started /\ Superseded(l)) ~>
        load[l].stage \in {"cancelled", "dropped", "published"}
===============================================================================
