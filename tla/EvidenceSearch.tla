---------------------------- MODULE EvidenceSearch ----------------------------
(***************************************************************************)
(* The search box over the evidence table: SearchState on the screen's     *)
(* thread and _Searcher's worker thread, which scans so that typing never  *)
(* waits (src/vcoc/interactive/evidence_search.py).                        *)
(*                                                                         *)
(* A query is a sequence of letters.  The table does not change while the  *)
(* screen is open, so what a window holds is determined by the query it    *)
(* answers (`rows`) and by whether it is known to hold every match         *)
(* (`complete`, Pager.complete).  The screen's handlers run one at a time; *)
(* only settle can block, in wait_idle.                                    *)
(***************************************************************************)
EXTENDS Integers, Sequences

CONSTANTS Queries,       \* what can be typed, with the empty query
          Small,         \* queries with fewer matches than the window has rows
          Exact,         \* queries with just as many matches as rows
          MaxRefresh,    \* bound: presses of Ctrl-R
          None

StartsWith(longer, shorter) ==
    /\ Len(shorter) <= Len(longer)
    /\ SubSeq(longer, 1, Len(shorter)) = shorter

Answers == [query : Queries, failed : BOOLEAN]

ASSUME QueriesAssumption ==
    /\ <<>> \in Queries /\ None \notin Queries \cup Answers
    /\ Small \subseteq Queries /\ Exact \subseteq Queries /\ Small \cap Exact = {}
    /\ \A q \in Small \cup Exact, r \in Queries :  \* a longer query only narrows
          StartsWith(r, q) => r \in Small \cup Exact
ASSUME MaxRefreshAssumption == MaxRefresh \in Nat

VARIABLES
    wanted, shown, asked,          \* SearchState
    spent,                         \* the answer to `asked` has been taken (only to state properties)
    rows, complete, error,         \* the pager's window, SearchState.error
    pending, running, done,        \* _Searcher, under its condition variable
    interrupt,                     \* sqlite was told to interrupt, not yet consumed
    worker, screen,                \* where the two threads are
    dirty,                         \* a redraw has been asked for (invalidate)
    refreshes

state    == <<wanted, shown, asked, spent, rows, complete, error>>
searcher == <<pending, running, done, interrupt>>
vars     == <<state, searcher, worker, screen, dirty, refreshes>>

TypeOK ==
    /\ wanted \in Queries
    /\ shown \in Queries \cup {None} /\ asked \in Queries \cup {None}
    /\ rows \in Queries /\ complete \in BOOLEAN /\ error \in BOOLEAN
    /\ pending \in Queries \cup {None} /\ running \in Queries \cup {None}
    /\ done \in Answers \cup {None}
    /\ interrupt \in BOOLEAN /\ dirty \in BOOLEAN /\ spent \in BOOLEAN
    /\ worker \in {"waiting", "scanning", "updating", "exited"}
    /\ screen \in {"ready", "settling", "settled", "gave up", "closed"}
    /\ refreshes \in 0 .. MaxRefresh

\* The pager is built empty and complete; the first redraw fills it
Init ==
    /\ wanted = <<>> /\ shown = None /\ asked = None /\ spent = FALSE
    /\ rows = <<>> /\ complete = TRUE /\ error = FALSE
    /\ pending = None /\ running = None /\ done = None /\ interrupt = FALSE
    /\ worker = "waiting" /\ screen = "ready" /\ dirty = TRUE /\ refreshes = 0

busy == shown # wanted

-------------------------------------------------------------------------------
(* SearchState._sync, one atomic step of the screen's thread: take what    *)
(* the worker has finished, then answer what is wanted if that needs no    *)
(* scan, and otherwise hand it to the worker once.                         *)

\* Mutant: an answer is shown whatever query it is of
TakenAny == done # None

Taken == done # None /\ done.query = wanted

\* Pager.apply of the worker's rows: an answer that failed has no rows at all
ShownNow    == IF Taken THEN wanted ELSE shown
ErrorNow    == IF Taken THEN done.failed ELSE error
CompleteNow == IF Taken THEN done.failed \/ done.query \in Small ELSE complete
RowsNow     == IF Taken THEN done.query ELSE rows

SpentNow    == spent \/ (done # None /\ done.query = asked)

CanNarrow ==
    /\ ShownNow # None
    /\ StartsWith(wanted, ShownNow)
    /\ CompleteNow
    /\ ~ErrorNow

UpToDate ==
    /\ ShownNow = wanted
    /\ shown' = ShownNow /\ error' = ErrorNow
    /\ complete' = CompleteNow /\ rows' = RowsNow
    /\ done' = None
    /\ spent' = SpentNow
    /\ UNCHANGED <<asked, pending, running, interrupt>>

\* EvidenceSource.narrow: the matches among the rows in the window, all there are
Narrow ==
    /\ ShownNow # wanted /\ CanNarrow
    /\ shown' = wanted /\ rows' = wanted
    /\ complete' = TRUE /\ error' = ErrorNow
    /\ done' = None
    /\ spent' = SpentNow
    /\ UNCHANGED <<asked, pending, running, interrupt>>

\* The empty query is read on the screen's own thread
ReadFirstPage ==
    /\ ShownNow # wanted /\ ~CanNarrow /\ wanted = <<>>
    /\ shown' = wanted /\ rows' = wanted
    /\ complete' = (wanted \in Small) /\ error' = FALSE
    /\ done' = None
    /\ spent' = SpentNow
    /\ UNCHANGED <<asked, pending, running, interrupt>>

\* _Searcher.request: replace what waits, interrupt what runs
Request ==
    /\ ShownNow # wanted /\ ~CanNarrow /\ wanted # <<>>
    /\ asked # wanted
    /\ pending' = wanted /\ asked' = wanted /\ spent' = FALSE /\ done' = None
    /\ interrupt' = (interrupt \/ running # None)
    /\ shown' = ShownNow /\ error' = ErrorNow
    /\ complete' = CompleteNow /\ rows' = RowsNow
    /\ UNCHANGED running

AlreadyAsked ==
    /\ ShownNow # wanted /\ ~CanNarrow /\ wanted # <<>>
    /\ asked = wanted
    /\ shown' = ShownNow /\ error' = ErrorNow
    /\ complete' = CompleteNow /\ rows' = RowsNow
    /\ done' = None
    /\ spent' = SpentNow
    /\ UNCHANGED <<asked, pending, running, interrupt>>

Sync ==
    /\ UpToDate \/ Narrow \/ ReadFirstPage \/ Request \/ AlreadyAsked
    /\ UNCHANGED <<wanted, worker, refreshes>>

-------------------------------------------------------------------------------
(* The screen.                                                             *)

\* on_text_changed: set_text, and a redraw
Type(q) ==
    /\ screen = "ready" /\ q # wanted
    /\ wanted' = q /\ dirty' = TRUE
    /\ UNCHANGED <<shown, asked, spent, rows, complete, error, searcher, worker, screen,
                   refreshes>>

\* Ctrl-R / F5
Refresh ==
    /\ screen = "ready" /\ refreshes < MaxRefresh
    /\ shown' = None /\ asked' = None /\ spent' = FALSE /\ dirty' = TRUE
    /\ refreshes' = refreshes + 1
    /\ UNCHANGED <<wanted, rows, complete, error, searcher, worker, screen>>

\* get_query_label / get_results_text call ensure; also drawn by the timer
Redraw ==
    /\ screen = "ready"
    /\ Sync
    /\ dirty' = FALSE
    /\ UNCHANGED screen

\* Enter, Space and the movement keys: settle first
Key ==
    /\ screen = "ready"
    /\ Sync
    /\ screen' = IF shown' # wanted THEN "settling" ELSE "settled"
    /\ UNCHANGED dirty

\* Mutant: wait_idle does not wait
SettleAtOnce ==
    /\ screen = "settling"
    /\ Sync
    /\ screen' = "settled"
    /\ UNCHANGED dirty

\* wait_idle has returned: the worker is idle
Settle ==
    /\ screen = "settling"
    /\ pending = None /\ running = None
    /\ Sync
    /\ screen' = "settled"
    /\ UNCHANGED dirty

\* wait_idle has returned: 60 seconds have passed
GiveUp ==
    /\ screen = "settling"
    /\ pending # None \/ running # None
    /\ Sync
    /\ screen' = "gave up"
    /\ UNCHANGED dirty

\* The key acts on the window.  A move may learn or forget that the window is
\* all there is, when the matches just fill it.
Act ==
    /\ screen \in {"settled", "gave up"}
    /\ \/ complete' = complete
       \/ rows \in Exact /\ ~error /\ complete' \in BOOLEAN
    /\ screen' = "ready" /\ dirty' = TRUE
    /\ UNCHANGED <<wanted, shown, asked, spent, rows, error, searcher, worker, refreshes>>

\* Enter or Escape ends the screen: _Searcher.close
Close ==
    /\ screen \in {"ready", "settled", "gave up"}
    /\ screen' = "closed" /\ pending' = None
    /\ interrupt' = (interrupt \/ running # None)
    /\ UNCHANGED <<state, running, done, worker, dirty, refreshes>>

-------------------------------------------------------------------------------
(* The worker's loop.                                                      *)

Take ==
    /\ worker = "waiting" /\ pending # None /\ screen # "closed"
    /\ running' = pending /\ pending' = None
    /\ worker' = "scanning"
    /\ UNCHANGED <<state, done, interrupt, screen, dirty, refreshes>>

\* Mutant: an answer that is no longer the newest is handed out
ScanEndsStale ==
    /\ worker = "scanning"
    /\ \E failed \in BOOLEAN : done' = [query |-> running, failed |-> failed]
    /\ running' = None
    /\ interrupt' \in {interrupt, FALSE}
    /\ worker' = "updating"
    /\ UNCHANGED <<state, pending, screen, dirty, refreshes>>

\* The scan ends, in an answer or in an error; only the newest one's is kept.
\* An interrupt that came too late is lost, or hits the next scan.
ScanEnds ==
    /\ worker = "scanning"
    /\ \E failed \in BOOLEAN :
          done' = IF pending = None THEN [query |-> running, failed |-> failed]
                                    ELSE done
    /\ running' = None
    /\ interrupt' \in {interrupt, FALSE}
    /\ worker' = "updating"
    /\ UNCHANGED <<state, pending, screen, dirty, refreshes>>

\* Mutant: a request that a stray interrupt hit is not run again
ScanForgotten ==
    /\ worker = "scanning" /\ interrupt
    /\ running' = None /\ interrupt' = FALSE
    /\ worker' = "waiting"
    /\ UNCHANGED <<state, pending, done, screen, dirty, refreshes>>

\* "interrupted": a stray interrupt that hit the newest request runs it again
ScanInterrupted ==
    /\ worker = "scanning" /\ interrupt
    /\ pending' = IF pending = None /\ screen # "closed" THEN running ELSE pending
    /\ running' = None /\ interrupt' = FALSE
    /\ worker' = "waiting"
    /\ UNCHANGED <<state, done, screen, dirty, refreshes>>

\* on_update, outside the lock
Update ==
    /\ worker = "updating"
    /\ dirty' = TRUE /\ worker' = "waiting"
    /\ UNCHANGED <<state, searcher, screen, refreshes>>

Exit ==
    /\ worker = "waiting" /\ screen = "closed"
    /\ worker' = "exited"
    /\ UNCHANGED <<state, searcher, screen, dirty, refreshes>>

Worker == Take \/ ScanEnds \/ ScanInterrupted \/ Update \/ Exit

Next ==
    \/ \E q \in Queries : Type(q)
    \/ Refresh \/ Redraw \/ Key \/ Settle \/ GiveUp \/ Act \/ Close
    \/ Worker

\* The worker thread runs and its scans end; a redraw that was asked for
\* happens; wait_idle returns when the worker is idle; a key's action returns.
Fairness ==
    /\ WF_vars(Worker)
    /\ WF_vars(dirty /\ Redraw)
    /\ WF_vars(Settle)
    /\ WF_vars(Act)

Spec == Init /\ [][Next]_vars /\ Fairness

-------------------------------------------------------------------------------
(* Properties.                                                             *)

\* What the worker holds out is the answer to the newest request, never to one
\* that was superseded (_Searcher: "a result that is no longer the newest is
\* never handed out"); Ctrl-R may leave the answer of the time before it.
OnlyNewestHandedOut ==
    (done # None /\ screen # "closed") =>
        /\ pending = None /\ running = None
        /\ asked # None => done.query = asked

\* What is handed out, with the types of the state.
SearchInv == TypeOK /\ OnlyNewestHandedOut

\* The rows on the screen answer the query they are labelled with: narrowing,
\* a late answer and an error never leave rows of one query under another, and
\* the window is called complete only if it holds every match.
WindowIsHonest ==
    /\ shown # None => rows = shown
    /\ (complete /\ ~error /\ shown # None) => rows \in Small \cup Exact

\* The answer to what is typed is not to come: it was taken while another text
\* stood, or its rows have been narrowed since, and it is not asked for again
AnswerIsGone == asked = wanted /\ spent

\* A key acts on the rows of the query typed, but for an answer that is gone and a
\* wait that was given up: neither editing, narrowing, interrupted scans nor
\* errors let wait_idle return before the answer is there.
KeysWaitForTheAnswer == screen = "settled" => ~busy \/ AnswerIsGone

\* SearchState's docstring: Enter and the movement keys "always act on what was
\* typed".
KeysActOnWhatWasTyped == screen = "settled" => ~busy

\* A text that is left standing is answered in the end, whatever scans were
\* superseded, interrupted or failed before it; or it is the text that was asked for
\* last and its answer is gone (AnswerIsGone).  _sync asks for no text twice running,
\* so who types "a", erases it once it is answered and types "a" again waits for
\* ever; no other order of keys and scans leaves a text unanswered.
EventuallyAnswered ==
    \A q \in Queries :
      []<>(wanted # q \/ ~busy \/ AnswerIsGone \/ screen = "closed")
===============================================================================
