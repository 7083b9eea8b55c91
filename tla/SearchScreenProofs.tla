-------------------------- MODULE SearchScreenProofs --------------------------
(***************************************************************************)
(* Proofs about the search screen: EvidenceSearch, for any queries and     *)
(* however often the screen is refreshed, and Pager, for any result and    *)
(* any heights of the terminal.                                            *)
(*                                                                         *)
(* EvidenceSearch: a request that is not answered yet is somewhere         *)
(* (InFlight): it waits, or it is scanned with nothing newer waiting, or   *)
(* its answer is held out; and a key that settles waits for what is typed  *)
(* (Waiting).  So when wait_idle returns, the answer is there.             *)
(*                                                                         *)
(* Pager: the window is the rows from lo to hi with the row p selected     *)
(* (Window), and each key replaces lo, hi and p by what the same key does  *)
(* to the whole result (Moved, one lemma per key).                         *)
(***************************************************************************)
EXTENDS EvidenceSearch, Pager, SequenceTheorems, TLAPS

-------------------------------------------------------------------------------
(* EvidenceSearch: the inductive invariant.                                *)

\* The worker scans exactly while it has a query; no answer is held out then, and
\* with nothing newer waiting the query is the newest request's.
Scanning ==
    /\ worker = "scanning" <=> running # None
    /\ running # None /\ screen # "closed" =>
         /\ done = None
         /\ pending = None /\ asked # None => running = asked

\* What waits is the newest request, and no answer is held out beside it.
Waits ==
    pending # None =>
        /\ screen # "closed" /\ done = None
        /\ asked # None => pending = asked

\* An answer is held out only while nothing waits, and it is of the newest request.
HeldOut ==
    done # None /\ screen # "closed" =>
        /\ pending = None
        /\ asked # None => done.query = asked

\* The newest request is never lost: an interrupt that hits it by mistake, a
\* request that replaces it and a scan that ends late all leave it somewhere.
InFlight ==
    asked # None /\ ~spent /\ screen # "closed" =>
        \/ pending = asked
        \/ pending = None /\ running = asked
        \/ done # None /\ done.query = asked

\* A key that settles waits for what is typed, which has been asked for.
Waiting == screen = "settling" => asked = wanted /\ shown # wanted

Handover == Scanning /\ Waits /\ HeldOut /\ InFlight /\ Waiting

SearchIInv == TypeOK /\ Handover /\ WindowIsHonest /\ KeysWaitForTheAnswer

-------------------------------------------------------------------------------
(* The types.                                                              *)

\* What a redraw or a key leaves in the screen's state has its type.
LEMMA SyncTypes ==
    ASSUME TypeOK, Sync
    PROVE  /\ shown' \in Queries \cup {None} /\ asked' \in Queries \cup {None}
           /\ rows' \in Queries /\ complete' \in BOOLEAN /\ error' \in BOOLEAN
           /\ pending' \in Queries \cup {None} /\ running' = running
           /\ done' = None /\ interrupt' \in BOOLEAN /\ spent' \in BOOLEAN
           /\ wanted' = wanted /\ worker' = worker /\ refreshes' = refreshes
<1>1. /\ ShownNow \in Queries \cup {None} /\ RowsNow \in Queries
      /\ CompleteNow \in BOOLEAN /\ ErrorNow \in BOOLEAN /\ SpentNow \in BOOLEAN
  <2>1. done # None => done.query \in Queries /\ done.failed \in BOOLEAN
    BY DEF TypeOK, Answers
  <2>2. ShownNow \in Queries \cup {None} /\ RowsNow \in Queries
    BY <2>1 DEF TypeOK, ShownNow, RowsNow, Taken
  <2>3. CompleteNow \in BOOLEAN /\ ErrorNow \in BOOLEAN /\ SpentNow \in BOOLEAN
    BY <2>1 DEF TypeOK, CompleteNow, ErrorNow, SpentNow, Taken
  <2> QED
    BY <2>2, <2>3
<1>2. CASE UpToDate
  BY <1>1, <1>2, Zenon DEF TypeOK, Sync, UpToDate
<1>3. CASE Narrow
  BY <1>1, <1>3, Zenon DEF TypeOK, Sync, Narrow
<1>4. CASE ReadFirstPage
  <2>1. complete' \in BOOLEAN /\ error' \in BOOLEAN
    <3>1. (wanted \in Small) \in BOOLEAN
      OBVIOUS
    <3> QED
      BY <1>4, <3>1, Zenon DEF ReadFirstPage
  <2>2. shown' = wanted /\ rows' = wanted /\ done' = None /\ spent' = SpentNow
        /\ UNCHANGED <<asked, pending, running, interrupt>>
    BY <1>4, Zenon DEF ReadFirstPage
  <2> QED
    BY <1>1, <2>1, <2>2, Zenon DEF TypeOK, Sync
<1>5. CASE Request
  BY <1>1, <1>5, Zenon DEF TypeOK, Sync, Request
<1>6. CASE AlreadyAsked
  BY <1>1, <1>6, Zenon DEF TypeOK, Sync, AlreadyAsked
<1> QED
  BY <1>2, <1>3, <1>4, <1>5, <1>6 DEF Sync

\* The flags, which the provers treat apart from the rest of the state.
Flags ==
    /\ complete \in BOOLEAN /\ error \in BOOLEAN
    /\ interrupt \in BOOLEAN /\ dirty \in BOOLEAN /\ spent \in BOOLEAN

Data ==
    /\ wanted \in Queries
    /\ shown \in Queries \cup {None} /\ asked \in Queries \cup {None}
    /\ rows \in Queries
    /\ pending \in Queries \cup {None} /\ running \in Queries \cup {None}
    /\ done \in Answers \cup {None}
    /\ worker \in {"waiting", "scanning", "updating", "exited"}
    /\ screen \in {"ready", "settling", "settled", "gave up", "closed"}
    /\ refreshes \in 0 .. MaxRefresh

LEMMA TypesApart == TypeOK <=> Flags /\ Data
BY Zenon DEF TypeOK, Flags, Data

LEMMA FlagsHold ==
    ASSUME TypeOK, [Next]_vars
    PROVE  Flags'
<1> USE TypesApart
<1>1. ASSUME NEW q \in Queries, Type(q)
      PROVE  Flags'
  BY <1>1, Zenon DEF Flags, Type, searcher
<1>2. CASE Refresh
  BY <1>2, Zenon DEF Flags, Refresh, searcher
<1>3. CASE Redraw
  BY <1>3, SyncTypes, Zenon DEF Flags, Redraw
<1>4. CASE Key \/ Settle \/ GiveUp
  <2>1. Sync /\ dirty' = dirty
    BY <1>4, Zenon DEF Key, Settle, GiveUp
  <2> QED
    BY <2>1, SyncTypes, Zenon DEF Flags
<1>7. CASE Act
  BY <1>7, Zenon DEF Flags, Act, searcher
<1>8. CASE Close
  BY <1>8, Zenon DEF Flags, Close, state
<1>9. CASE Take
  BY <1>9, Zenon DEF Flags, Take, state
<1>10. CASE ScanEnds
  BY <1>10, Zenon DEF Flags, ScanEnds, state
<1>11. CASE ScanInterrupted
  BY <1>11, Zenon DEF Flags, ScanInterrupted, state
<1>12. CASE Update
  BY <1>12, Zenon DEF Flags, Update, state, searcher
<1>13. CASE Exit
  BY <1>13, Zenon DEF Flags, Exit, state, searcher
<1>14. CASE UNCHANGED vars
  BY <1>14, Zenon DEF Flags, vars, state, searcher
<1> QED
  BY <1>1, <1>2, <1>3, <1>4, <1>7, <1>8, <1>9, <1>10, <1>11, <1>12,
     <1>13, <1>14, Zenon DEF Next, Worker

LEMMA DataHolds ==
    ASSUME TypeOK, Scanning, [Next]_vars
    PROVE  Data'
<1>0. Data
  BY TypesApart
<1>1. ASSUME NEW q \in Queries, Type(q)
      PROVE  Data'
  BY <1>0, <1>1 DEF Data, Type, searcher
<1>2. CASE Refresh
  <2>1. refreshes' \in 0 .. MaxRefresh
    BY <1>0, <1>2, MaxRefreshAssumption DEF Data, Refresh
  <2> QED
    BY <1>0, <1>2, <2>1 DEF Data, Refresh, searcher
<1>3. CASE Redraw
  BY <1>0, <1>3, SyncTypes DEF Data, Redraw
<1>4. CASE Key
  <2>1. screen' \in {"settling", "settled"} /\ Sync
    BY <1>4 DEF Key
  <2> QED
    BY <1>0, <2>1, SyncTypes DEF Data
<1>5. CASE Settle \/ GiveUp
  <2>1. screen' \in {"settled", "gave up"} /\ Sync
    BY <1>5 DEF Settle, GiveUp
  <2> QED
    BY <1>0, <2>1, SyncTypes DEF Data
<1>7. CASE Act
  BY <1>0, <1>7 DEF Data, Act, searcher
<1>8. CASE Close
  BY <1>0, <1>8 DEF Data, Close, state
<1>9. CASE Take
  BY <1>0, <1>9 DEF Data, Take, state
<1>10. CASE ScanEnds
  <2>1. running \in Queries
    BY <1>0, <1>10 DEF Scanning, ScanEnds, Data
  <2>2. \A failed \in BOOLEAN : [query |-> running, failed |-> failed] \in Answers
    BY <2>1 DEF Answers
  <2>3. done' \in Answers \cup {None}
    BY <1>0, <1>10, <2>2 DEF Data, ScanEnds
  <2> QED
    BY <1>0, <1>10, <2>3 DEF Data, ScanEnds, state
<1>11. CASE ScanInterrupted
  BY <1>0, <1>11 DEF Data, ScanInterrupted, state
<1>12. CASE Update
  BY <1>0, <1>12 DEF Data, Update, state, searcher
<1>13. CASE Exit
  BY <1>0, <1>13 DEF Data, Exit, state, searcher
<1>14. CASE UNCHANGED vars
  BY <1>0, <1>14 DEF Data, vars, state, searcher
<1> QED
  BY <1>1, <1>2, <1>3, <1>4, <1>5, <1>7, <1>8, <1>9, <1>10, <1>11, <1>12,
     <1>13, <1>14, Zenon DEF Next, Worker

-------------------------------------------------------------------------------
(* The request on its way from the screen to the worker and back.          *)

\* What a step of the screen does to the request: it clears the answer, asks for
\* what it cannot answer itself, asks once, and never forgets what it asked for.
LEMMA SyncHandover ==
    ASSUME TypeOK, Handover, Sync, screen # "closed"
    PROVE  /\ running' = running /\ done' = None /\ worker' = worker /\ wanted' = wanted
           /\ pending' # None => /\ asked' # None => pending' = asked'
           /\ asked' # None /\ ~spent' =>
                pending' = asked' \/ (pending' = None /\ running' = asked')
           /\ shown' # wanted => asked' = wanted
           /\ asked = wanted => asked' = asked /\ pending' = pending
           /\ running # None /\ pending' = None /\ asked' # None => running = asked'
<1>1. CASE Request
  <2>1. pending' # None
    BY <1>1, QueriesAssumption, Zenon DEF TypeOK, Request
  <2> QED
    BY <1>1, <2>1, Zenon DEF Sync, Request
<1>2. CASE UpToDate \/ Narrow \/ ReadFirstPage \/ AlreadyAsked
  <2>1. /\ asked' = asked /\ pending' = pending /\ running' = running
        /\ done' = None /\ spent' = SpentNow
    BY <1>2, Zenon DEF UpToDate, Narrow, ReadFirstPage, AlreadyAsked
  <2>2. shown' # wanted => asked = wanted
    BY <1>2, Zenon DEF UpToDate, Narrow, ReadFirstPage, AlreadyAsked
  <2>3. asked # None /\ ~SpentNow =>
          pending = asked \/ (pending = None /\ running = asked)
    BY Zenon DEF Handover, InFlight, SpentNow
  <2>4. pending # None => (asked # None => pending = asked)
    BY Zenon DEF Handover, Waits
  <2>5. running # None /\ pending = None /\ asked # None => running = asked
    BY Zenon DEF Handover, Scanning
  <2> QED
    BY <2>1, <2>2, <2>3, <2>4, <2>5, Zenon DEF Sync
<1> QED
  BY <1>1, <1>2, Zenon DEF Sync

\* A step of the screen keeps the request where it can be found.
LEMMA ScreenKeepsRequest ==
    ASSUME TypeOK, Handover, Sync, screen # "closed", screen' # "closed",
           screen' = "settling" => shown' # wanted'
    PROVE  Handover'
<1>0. /\ running' = running /\ done' = None /\ worker' = worker /\ wanted' = wanted
      /\ pending' # None => (asked' # None => pending' = asked')
      /\ asked' # None /\ ~spent' =>
           pending' = asked' \/ (pending' = None /\ running' = asked')
      /\ shown' # wanted => asked' = wanted
      /\ running # None /\ pending' = None /\ asked' # None => running = asked'
  BY SyncHandover, Zenon
<1>1. Scanning'
  BY <1>0, Zenon DEF Handover, Scanning
<1>2. Waits'
  BY <1>0, Zenon DEF Waits
<1>3. HeldOut'
  BY <1>0, Zenon DEF HeldOut
<1>4. InFlight'
  BY <1>0, Zenon DEF InFlight
<1>5. Waiting'
  BY <1>0, Zenon DEF Waiting
<1> QED
  BY <1>1, <1>2, <1>3, <1>4, <1>5, Zenon DEF Handover

LEMMA HandoverHolds ==
    ASSUME TypeOK, Handover, [Next]_vars
    PROVE  Handover'
<1>0. Scanning /\ Waits /\ HeldOut /\ InFlight /\ Waiting
  BY DEF Handover
<1>1. ASSUME NEW q \in Queries, Type(q)
      PROVE  Handover'
  <2>1. /\ screen = "ready" /\ screen' = "ready"
        /\ UNCHANGED <<asked, spent, pending, running, done, worker>>
    BY <1>1, Zenon DEF Type, searcher
  <2> QED
    BY <1>0, <2>1, Zenon DEF Handover, Scanning, Waits, HeldOut, InFlight, Waiting
<1>2. CASE Refresh
  <2>1. /\ screen = "ready" /\ screen' = "ready" /\ asked' = None
        /\ UNCHANGED <<pending, running, done, worker>>
    BY <1>2, Zenon DEF Refresh, searcher
  <2> QED
    BY <1>0, <2>1, Zenon DEF Handover, Scanning, Waits, HeldOut, InFlight, Waiting
<1>3. CASE Redraw
  <2>1. Sync /\ screen = "ready" /\ screen' = "ready"
    BY <1>3, Zenon DEF Redraw
  <2> QED
    BY <2>1, ScreenKeepsRequest
<1>4. CASE Key
  <2>1. /\ Sync /\ screen = "ready" /\ wanted' = wanted
        /\ screen' \in {"settling", "settled"}
        /\ screen' = "settling" => shown' # wanted
    BY <1>4 DEF Key, Sync
  <2> QED
    BY <2>1, ScreenKeepsRequest
<1>5. CASE Settle \/ GiveUp
  <2>1. Sync /\ screen = "settling" /\ screen' \in {"settled", "gave up"}
    BY <1>5 DEF Settle, GiveUp
  <2> QED
    BY <2>1, ScreenKeepsRequest
<1>7. CASE Act
  <2>1. /\ screen \in {"settled", "gave up"} /\ screen' = "ready"
        /\ UNCHANGED <<asked, spent, pending, running, done, worker>>
    BY <1>7, Zenon DEF Act, searcher
  <2>2. screen # "closed" /\ screen' # "closed" /\ screen' # "settling"
    BY <2>1
  <2> QED
    BY <1>0, <2>1, <2>2, Zenon DEF Handover, Scanning, Waits, HeldOut, InFlight, Waiting
<1>8. CASE Close
  <2>1. screen' = "closed" /\ pending' = None /\ UNCHANGED <<running, worker>>
    BY <1>8, Zenon DEF Close
  <2> QED
    BY <1>0, <2>1, Zenon DEF Handover, Scanning, Waits, HeldOut, InFlight, Waiting
<1>9. CASE Take
  <2>1. /\ pending # None /\ screen # "closed"
        /\ running' = pending /\ pending' = None /\ worker' = "scanning"
        /\ UNCHANGED <<wanted, shown, asked, spent, done, screen>>
    BY <1>9, Zenon DEF Take, state
  <2>2. done = None
    BY <1>0, <2>1, Zenon DEF Waits
  <2>3. asked # None => running' = asked
    BY <1>0, <2>1, Zenon DEF Waits
  <2>4. Scanning' /\ Waits' /\ HeldOut'
    BY <1>0, <2>1, <2>2, Zenon DEF Scanning, Waits, HeldOut
  <2>5. InFlight' /\ Waiting'
    BY <1>0, <2>1, <2>2, <2>3, Zenon DEF InFlight, Waiting
  <2> QED
    BY <2>4, <2>5, Zenon DEF Handover
<1>10. CASE ScanEnds
  <2>1. /\ worker = "scanning" /\ running' = None /\ worker' = "updating"
        /\ UNCHANGED <<wanted, shown, asked, spent, pending, screen>>
    BY <1>10, Zenon DEF ScanEnds, state
  <2>2. running \in Queries
    BY <1>0, <2>1 DEF Scanning, TypeOK
  <2>3. pending = None => done' # None /\ done'.query = running
    <3> SUFFICES ASSUME pending = None PROVE done' # None /\ done'.query = running
      OBVIOUS
    <3>1. PICK failed \in BOOLEAN : done' = [query |-> running, failed |-> failed]
      BY <1>10, Zenon DEF ScanEnds
    <3>2. done' \in Answers
      BY <3>1, <2>2 DEF Answers
    <3> QED
      BY <3>1, <3>2, QueriesAssumption
  <2>4. pending # None => done' = done
    BY <1>10, Zenon DEF ScanEnds
  <2>5. Scanning'
    BY <2>1, Zenon DEF Scanning
  <2>6. Waits'
    BY <1>0, <2>1, <2>4, Zenon DEF Waits
  <2>7. /\ screen # "closed" => done = None
        /\ asked # None /\ pending = None /\ screen # "closed" => running = asked
    BY <1>0, <2>1, Zenon DEF Scanning
  <2>8. HeldOut'
    BY <2>1, <2>3, <2>4, <2>7, Zenon DEF HeldOut
  <2>9. InFlight' /\ Waiting'
    BY <1>0, <2>1, <2>3, <2>4, <2>7, Zenon DEF InFlight, Waiting
  <2> QED
    BY <2>5, <2>6, <2>8, <2>9, Zenon DEF Handover
<1>11. CASE ScanInterrupted
  <2>1. /\ worker = "scanning" /\ running' = None /\ worker' = "waiting"
        /\ UNCHANGED <<wanted, shown, asked, spent, done, screen>>
        /\ pending' = IF pending = None /\ screen # "closed" THEN running ELSE pending
    BY <1>11, Zenon DEF ScanInterrupted, state
  <2>2. running # None
    BY <1>0, <2>1, Zenon DEF Scanning
  <2>3. screen # "closed" =>
          done = None /\ (asked # None /\ pending = None => running = asked)
    BY <1>0, <2>1, <2>2, Zenon DEF Scanning
  <2>4. Scanning' /\ HeldOut'
    BY <1>0, <2>1, <2>3, Zenon DEF Scanning, HeldOut
  <2>5. Waits'
    BY <1>0, <2>1, <2>3, Zenon DEF Waits
  <2>6. InFlight' /\ Waiting'
    BY <1>0, <2>1, <2>2, <2>3, Zenon DEF InFlight, Waits, Waiting
  <2> QED
    BY <2>4, <2>5, <2>6, Zenon DEF Handover
<1>12. CASE Update
  <2>1. /\ worker = "updating" /\ worker' = "waiting"
        /\ UNCHANGED <<wanted, shown, asked, spent, pending, running, done, screen>>
    BY <1>12, Zenon DEF Update, state, searcher
  <2>2. worker # "scanning"
    BY <2>1
  <2> QED
    BY <1>0, <2>1, <2>2, Zenon DEF Handover, Scanning, Waits, HeldOut, InFlight, Waiting
<1>13. CASE Exit
  <2>1. /\ worker = "waiting" /\ worker' = "exited"
        /\ UNCHANGED <<wanted, shown, asked, spent, pending, running, done, screen>>
    BY <1>13, Zenon DEF Exit, state, searcher
  <2>2. worker # "scanning"
    BY <2>1
  <2> QED
    BY <1>0, <2>1, <2>2, Zenon DEF Handover, Scanning, Waits, HeldOut, InFlight, Waiting
<1>14. CASE UNCHANGED vars
  BY <1>0, <1>14, Zenon DEF Handover, Scanning, Waits, HeldOut, InFlight, Waiting,
                            vars, state, searcher
<1> QED
  BY <1>1, <1>2, <1>3, <1>4, <1>5, <1>7, <1>8, <1>9, <1>10, <1>11, <1>12,
     <1>13, <1>14, Zenon DEF Next, Worker

-------------------------------------------------------------------------------
(* The window, and the key that acts on it.                                *)

\* Rows that are taken from the worker answer what they are shown under, and fill
\* the window only if it says so.
LEMMA TakenIsHonest ==
    ASSUME WindowIsHonest
    PROVE  /\ ShownNow # None => RowsNow = ShownNow
           /\ CompleteNow /\ ~ErrorNow /\ ShownNow # None => RowsNow \in Small \cup Exact
<1>1. CASE Taken
  BY <1>1, Zenon DEF Taken, ShownNow, RowsNow, CompleteNow, ErrorNow
<1>2. CASE ~Taken
  BY <1>2, Zenon DEF WindowIsHonest, ShownNow, RowsNow, CompleteNow, ErrorNow
<1> QED
  BY <1>1, <1>2

LEMMA SyncIsHonest ==
    ASSUME TypeOK, WindowIsHonest, Sync
    PROVE  WindowIsHonest'
<1>0. /\ ShownNow # None => RowsNow = ShownNow
      /\ CompleteNow /\ ~ErrorNow /\ ShownNow # None => RowsNow \in Small \cup Exact
  BY TakenIsHonest
<1>1. CASE UpToDate \/ Request \/ AlreadyAsked
  <2>1. shown' = ShownNow /\ error' = ErrorNow /\ complete' = CompleteNow /\ rows' = RowsNow
    BY <1>1, Zenon DEF UpToDate, Request, AlreadyAsked
  <2> QED
    BY <1>0, <2>1, Zenon DEF WindowIsHonest
<1>2. CASE Narrow
  <2>1. shown' = wanted /\ rows' = wanted
    BY <1>2, Zenon DEF Narrow
  <2>2. ShownNow # None /\ CompleteNow /\ ~ErrorNow /\ StartsWith(wanted, ShownNow)
    BY <1>2, Zenon DEF Narrow, CanNarrow
  <2>3. ShownNow \in Small \cup Exact
    BY <1>0, <2>2, Zenon
  <2>4. wanted \in Small \cup Exact
    BY <2>2, <2>3, QueriesAssumption, Zenon DEF TypeOK
  <2> QED
    BY <2>1, <2>4, Zenon DEF WindowIsHonest
<1>3. CASE ReadFirstPage
  <2>1. shown' = wanted /\ rows' = wanted /\ (complete' => wanted \in Small)
    BY <1>3, Zenon DEF ReadFirstPage
  <2> QED
    BY <2>1, Zenon DEF WindowIsHonest
<1> QED
  BY <1>1, <1>2, <1>3, Zenon DEF Sync

LEMMA WindowStaysHonest ==
    ASSUME TypeOK, WindowIsHonest, [Next]_vars
    PROVE  WindowIsHonest'
<1>1. CASE Redraw \/ Key \/ Settle \/ GiveUp
  <2>1. Sync
    BY <1>1, Zenon DEF Redraw, Key, Settle, GiveUp
  <2> QED
    BY <2>1, SyncIsHonest
<1>2. CASE Refresh
  BY <1>2, Zenon DEF Refresh, WindowIsHonest
<1>3. CASE Act
  <2>1. shown' = shown /\ rows' = rows /\ error' = error
    BY <1>3, Zenon DEF Act
  <2>2. complete' => complete \/ rows \in Exact
    BY <1>3, Zenon DEF Act
  <2> QED
    BY <2>1, <2>2, Zenon DEF WindowIsHonest
<1>4. ASSUME NEW q \in Queries, Type(q)
      PROVE  WindowIsHonest'
  BY <1>4, Zenon DEF Type, WindowIsHonest
<1>5. CASE Close \/ Worker \/ UNCHANGED vars
  <2>1. UNCHANGED state
    BY <1>5, Zenon DEF Close, Worker, Take, ScanEnds, ScanInterrupted, Update, Exit, vars
  <2> QED
    BY <2>1, Zenon DEF state, WindowIsHonest
<1> QED
  BY <1>1, <1>2, <1>3, <1>4, <1>5, Zenon DEF Next

LEMMA KeyHasItsAnswer ==
    ASSUME TypeOK, Handover, KeysWaitForTheAnswer, [Next]_vars
    PROVE  KeysWaitForTheAnswer'
<1>1. CASE Key
  <2>1. screen' = "settled" => shown' = wanted'
    <3>1. screen' = (IF shown' # wanted THEN "settling" ELSE "settled") /\ wanted' = wanted
      BY <1>1, Zenon DEF Key, Sync
    <3> QED
      BY <3>1
  <2> QED
    BY <2>1, Zenon DEF KeysWaitForTheAnswer, busy
<1>2. CASE Settle
  <2>1. Sync /\ screen = "settling" /\ pending = None /\ running = None
    BY <1>2, Zenon DEF Settle
  <2>2. asked = wanted
    BY <2>1, Zenon DEF Handover, Waiting
  <2>3. asked # None
    BY <2>2, QueriesAssumption DEF TypeOK
  <2>4. /\ running' = running /\ wanted' = wanted /\ asked' = asked /\ pending' = pending
        /\ asked' # None /\ ~spent' =>
             pending' = asked' \/ (pending' = None /\ running' = asked')
    <3>1. screen # "closed"
      BY <2>1
    <3> QED
      BY <2>1, <2>2, <3>1, SyncHandover, Zenon
  <2>5. AnswerIsGone'
    BY <2>1, <2>2, <2>3, <2>4, Zenon DEF AnswerIsGone
  <2> QED
    BY <2>5, Zenon DEF KeysWaitForTheAnswer
<1>3. CASE Redraw \/ GiveUp \/ Act \/ Close \/ Refresh \/ (\E q \in Queries : Type(q))
  <2>1. screen' # "settled"
    BY <1>3 DEF Redraw, GiveUp, Act, Close, Refresh, Type
  <2> QED
    BY <2>1, Zenon DEF KeysWaitForTheAnswer
<1>4. CASE Worker \/ UNCHANGED vars
  <2>1. UNCHANGED <<state, screen>>
    BY <1>4, Zenon DEF Worker, Take, ScanEnds, ScanInterrupted, Update, Exit, vars
  <2> QED
    BY <2>1, Zenon DEF state, KeysWaitForTheAnswer, AnswerIsGone, busy
<1> QED
  BY <1>1, <1>2, <1>3, <1>4, Zenon DEF Next

-------------------------------------------------------------------------------
(* The theorems.                                                           *)

LEMMA SearchStart == Init => SearchIInv
<1> SUFFICES ASSUME Init PROVE SearchIInv
  OBVIOUS
<1>1. Flags
  BY Zenon DEF Init, Flags
<1>2. Data
  BY QueriesAssumption, MaxRefreshAssumption DEF Init, Data
<1>3. worker # "scanning" /\ screen # "settling" /\ screen # "settled"
  BY DEF Init
<1>4. Handover
  BY <1>3, Zenon DEF Init, Handover, Scanning, Waits, HeldOut, InFlight, Waiting
<1>5. WindowIsHonest /\ KeysWaitForTheAnswer
  BY <1>3, Zenon DEF Init, WindowIsHonest, KeysWaitForTheAnswer
<1> QED
  BY <1>1, <1>2, <1>4, <1>5, TypesApart, Zenon DEF SearchIInv

LEMMA SearchStep == SearchIInv /\ [Next]_vars => SearchIInv'
<1> SUFFICES ASSUME SearchIInv, [Next]_vars PROVE SearchIInv'
  OBVIOUS
<1>0. TypeOK /\ Handover /\ WindowIsHonest /\ KeysWaitForTheAnswer /\ Scanning
  BY Zenon DEF SearchIInv, Handover
<1>1. TypeOK'
  <2>1. Flags' /\ Data'
    BY <1>0, FlagsHold, DataHolds
  <2>2. TypeOK' <=> Flags' /\ Data'
    BY Zenon DEF TypeOK, Flags, Data
  <2> QED
    BY <2>1, <2>2
<1>2. Handover'
  BY <1>0, HandoverHolds
<1>3. WindowIsHonest' /\ KeysWaitForTheAnswer'
  BY <1>0, WindowStaysHonest, KeyHasItsAnswer
<1> QED
  BY <1>1, <1>2, <1>3, Zenon DEF SearchIInv

LEMMA SearchInductive == Spec => []SearchIInv
BY SearchStart, SearchStep, PTL DEF Spec

\* What the worker holds out is the answer to the newest request (_Searcher: "a
\* result that is no longer the newest is never handed out"): a request takes the
\* old answer away, and a scan that was overtaken leaves none.
THEOREM NewestHandedOut == Spec => []SearchInv
<1>1. SearchIInv => SearchInv
  <2> SUFFICES ASSUME SearchIInv PROVE SearchInv
    OBVIOUS
  <2>1. TypeOK /\ Scanning /\ HeldOut
    BY Zenon DEF SearchIInv, Handover
  <2>2. OnlyNewestHandedOut
    BY <2>1, Zenon DEF Scanning, HeldOut, OnlyNewestHandedOut
  <2> QED
    BY <2>1, <2>2, Zenon DEF SearchInv
<1> QED
  BY <1>1, SearchInductive, PTL

\* The rows on the screen answer the query they are shown under, and a window
\* called complete holds every match: narrowing (EvidenceSource.narrow) starts
\* only from such a window, and a longer query only narrows.
THEOREM WindowAnswersItsLabel == Spec => []WindowIsHonest
<1>1. SearchIInv => WindowIsHonest
  BY Zenon DEF SearchIInv
<1> QED
  BY <1>1, SearchInductive, PTL

\* A key that settled acts on the rows of the query typed, unless their answer is
\* gone: wait_idle returns only when nothing waits and nothing runs, and by then
\* the request settled for has been answered.
THEOREM KeysAreAnswered == Spec => []KeysWaitForTheAnswer
<1>1. SearchIInv => KeysWaitForTheAnswer
  BY Zenon DEF SearchIInv
<1> QED
  BY <1>1, SearchInductive, PTL

-------------------------------------------------------------------------------
(* The window of the search list (Pager).                                  *)

\* The rows from i to j, as a sequence.
LEMMA FromIs ==
    ASSUME NEW i \in Int, NEW j \in Int, i <= j + 1
    PROVE  /\ From(i, j) \in Seq(i .. j) /\ From(i, j) \in Seq(Int)
           /\ Len(From(i, j)) = j - i + 1
           /\ \A k \in 1 .. j - i + 1 : From(i, j)[k] = i + k - 1
<1> DEFINE n == j - i + 1
<1>1. n \in Nat /\ Greatest(j - i + 1, 0) = n
  BY DEF Greatest
<1>2. From(i, j) = [k \in 1 .. n |-> i + k - 1]
  BY <1>1 DEF From
<1>3. From(i, j) \in [1 .. n -> i .. j]
  BY <1>1, <1>2
<1> HIDE DEF n
<1>4. From(i, j) \in Seq(i .. j) /\ From(i, j) \in Seq(Int)
  <2>1. [1 .. n -> i .. j] \subseteq Seq(i .. j) /\ [1 .. n -> Int] \subseteq Seq(Int)
    BY <1>1
  <2> QED
    BY <1>3, <2>1
<1>5. Len(From(i, j)) = n
  BY <1>1, <1>3, LenProperties, <1>4
<1> QED
  BY <1>1, <1>2, <1>4, <1>5 DEF n

LEMMA FromNonEmpty ==
    ASSUME NEW i \in Int, NEW j \in Int, i <= j + 1
    PROVE  From(i, j) = <<>> <=> j < i
<1>1. From(i, j) \in Seq(Int) /\ Len(From(i, j)) = j - i + 1
  BY FromIs
<1> QED
  BY <1>1, EmptySeq

LEMMA FromEnds ==
    ASSUME NEW i \in Int, NEW j \in Int, i <= j
    PROVE  From(i, j)[1] = i /\ Last(From(i, j)) = j
<1> DEFINE n == j - i + 1
<1>1. n \in Int /\ 1 \in 1 .. n /\ n \in 1 .. n /\ i <= j + 1
  OBVIOUS
<1>2. Len(From(i, j)) = n /\ \A k \in 1 .. n : From(i, j)[k] = i + k - 1
  BY <1>1, FromIs
<1>3. From(i, j)[1] = i + 1 - 1 /\ From(i, j)[n] = i + n - 1
  <2> HIDE DEF n
  <2> QED
    BY <1>1, <1>2
<1> QED
  BY <1>2, <1>3 DEF Last

\* Two sequences of rows are the same if they have the same ends.
LEMMA SameRows ==
    ASSUME NEW s \in Seq(Int), NEW i \in Int, NEW j \in Int, i <= j + 1,
           Len(s) = j - i + 1,
           \A k \in 1 .. j - i + 1 : s[k] = i + k - 1
    PROVE  s = From(i, j)
<1>1. /\ From(i, j) \in Seq(Int) /\ Len(From(i, j)) = Len(s)
      /\ \A k \in 1 .. Len(s) : From(i, j)[k] = s[k]
  BY FromIs
<1> QED
  BY <1>1, SeqEqual

LEMMA Joined ==
    ASSUME NEW i \in Int, NEW j \in Int, NEW k \in Int, i - 1 <= j, j <= k
    PROVE  From(i, j) \o From(j + 1, k) = From(i, k)
<1> DEFINE l == j + 1
<1> DEFINE s == From(i, j) \o From(l, k)
<1>0. l \in Int /\ l <= k + 1 /\ i <= j + 1
  OBVIOUS
<1> HIDE DEF l
<1>1. /\ From(i, j) \in Seq(Int) /\ Len(From(i, j)) = j - i + 1
      /\ From(l, k) \in Seq(Int) /\ Len(From(l, k)) = k - l + 1
      /\ \A m \in 1 .. k - l + 1 : From(l, k)[m] = l + m - 1
      /\ \A m \in 1 .. j - i + 1 : From(i, j)[m] = i + m - 1
  <2>1. /\ From(i, j) \in Seq(Int) /\ Len(From(i, j)) = j - i + 1
        /\ \A m \in 1 .. j - i + 1 : From(i, j)[m] = i + m - 1
    BY <1>0, FromIs
  <2>2. /\ From(l, k) \in Seq(Int) /\ Len(From(l, k)) = k - l + 1
        /\ \A m \in 1 .. k - l + 1 : From(l, k)[m] = l + m - 1
    BY <1>0, FromIs
  <2> QED
    BY <2>1, <2>2
<1>concat. /\ s \in Seq(Int) /\ Len(s) = Len(From(i, j)) + Len(From(l, k))
      /\ \A m \in 1 .. Len(From(i, j)) + Len(From(l, k)) :
           s[m] = IF m <= Len(From(i, j)) THEN From(i, j)[m]
                  ELSE From(l, k)[m - Len(From(i, j))]
  BY <1>1, ConcatProperties
<1> HIDE DEF s
<1>2. s \in Seq(Int) /\ Len(s) = k - i + 1
  BY <1>1, <1>concat DEF l
<1>3. \A m \in 1 .. k - i + 1 : s[m] = i + m - 1
  <2> SUFFICES ASSUME NEW m \in 1 .. k - i + 1 PROVE s[m] = i + m - 1
    OBVIOUS
  <2>1. CASE m <= j - i + 1
    <3>1. m \in 1 .. j - i + 1 /\ m \in 1 .. (j - i + 1) + (k - l + 1)
      BY <2>1 DEF l
    <3>2. s[m] = From(i, j)[m]
      BY <1>1, <1>concat, <3>1
    <3> QED
      BY <1>1, <3>1, <3>2
  <2>2. CASE m > j - i + 1
    <3> DEFINE d == m - (j - i + 1)
    <3>1. d \in 1 .. k - l + 1 /\ m \in 1 .. (j - i + 1) + (k - l + 1) /\ ~(m <= j - i + 1)
      BY <2>2 DEF l
    <3>2. s[m] = From(l, k)[d]
      BY <1>1, <1>concat, <3>1
    <3>3. s[m] = l + d - 1
      BY <1>1, <3>1, <3>2
    <3> QED
      BY <3>3 DEF l
  <2>3. m <= j - i + 1 \/ m > j - i + 1
    OBVIOUS
  <2> QED
    BY <2>1, <2>2, <2>3
<1>4. s = From(i, k)
  BY <1>2, <1>3, SameRows
<1> QED
  BY <1>4 DEF s, l

LEMMA OneRowLess ==
    ASSUME NEW i \in Int, NEW j \in Int, i <= j
    PROVE  /\ Tail(From(i, j)) = From(i + 1, j)
           /\ SubSeq(From(i, j), 1, Len(From(i, j)) - 1) = From(i, j - 1)
<1> DEFINE s == From(i, j)
<1>1. /\ s \in Seq(Int) /\ Len(s) = j - i + 1 /\ s # <<>>
      /\ \A k \in 1 .. j - i + 1 : s[k] = i + k - 1
  BY FromIs, FromNonEmpty
<1> HIDE DEF s
<1>2. /\ Tail(s) \in Seq(Int) /\ Len(Tail(s)) = Len(s) - 1
      /\ \A k \in 1 .. Len(s) - 1 : Tail(s)[k] = s[k + 1]
  BY <1>1, HeadTailProperties
<1> DEFINE h == i + 1
<1> DEFINE t == Tail(s)
<1>3. t = From(h, j)
  <2>1. h \in Int /\ h <= j + 1 /\ t \in Seq(Int) /\ Len(t) = j - h + 1
    BY <1>1, <1>2
  <2>2. \A k \in 1 .. j - h + 1 : t[k] = h + k - 1
    BY <1>1, <1>2
  <2> HIDE DEF h, t
  <2> QED
    BY <2>1, <2>2, SameRows
<1> DEFINE u == SubSeq(s, 1, Len(s) - 1)
<1>4. u \in Seq(Int) /\ Len(u) = Len(s) - 1 /\ \A k \in 1 .. Len(s) - 1 : u[k] = s[k]
  BY <1>1, SubSeqProperties
<1> HIDE DEF u
<1>6. u = From(i, j - 1)
  <2>1. PICK e \in Int : e = j - 1
    OBVIOUS
  <2>2. i <= e + 1 /\ Len(u) = e - i + 1 /\ \A k \in 1 .. e - i + 1 : u[k] = i + k - 1
    BY <1>1, <1>4, <2>1
  <2>3. u = From(i, e)
    BY <1>4, <2>2, SameRows
  <2> QED
    BY <2>1, <2>3
<1> QED
  BY <1>3, <1>6 DEF s, u

\* The window is the rows from lo to hi, the row p is selected, and an end that is
\* remembered is one.
Window(lo, hi, p) ==
    /\ window = From(lo, hi) /\ sel = p - lo + 1
    /\ 1 <= lo /\ lo <= p /\ p <= hi /\ hi <= total
    /\ exhausted_before \in BOOLEAN /\ exhausted_after \in BOOLEAN
    /\ exhausted_before => lo = 1
    /\ exhausted_after => hi = total

\* A key selects the row q, and a window that fills the screen scrolls no further
\* than it must.
Moved(lo, hi, q) ==
    \E l, h \in Int :
      /\ Window(l, h, q)'
      /\ hi - lo + 1 = Least(height, total) =>
           /\ h - l + 1 = Least(height, total)
           /\ l - 1 = ScrollTop(lo - 1, q - 1, height, total)

Bounds == total \in Nat /\ height \in Nat \ {0}

LEMMA WindowEnds ==
    ASSUME NEW lo \in Int, NEW hi \in Int, NEW p \in Int, Bounds, Window(lo, hi, p)
    PROVE  /\ window # <<>> /\ window[1] = lo /\ Len(window) = hi - lo + 1
           /\ Last(window) = hi /\ window[sel] = p /\ window \in Seq(1 .. total)
           /\ sel \in 1 .. Len(window)
<1>1. lo <= hi + 1 /\ lo <= hi /\ window = From(lo, hi)
  BY DEF Window
<1> DEFINE w == From(lo, hi)
<1>0. /\ w \in Seq(lo .. hi) /\ Len(w) = hi - lo + 1 /\ w # <<>>
      /\ \A k \in 1 .. hi - lo + 1 : w[k] = lo + k - 1
  <2>1. w \in Seq(lo .. hi)
    BY <1>1, FromIs
  <2>2. Len(w) = hi - lo + 1
    BY <1>1, FromIs
  <2>3. w # <<>>
    BY <1>1, FromNonEmpty
  <2>4. \A k \in 1 .. hi - lo + 1 : w[k] = lo + k - 1
    BY <1>1, FromIs
  <2> QED
    BY <2>1, <2>2, <2>3, <2>4
<1> HIDE DEF w
<1>2. /\ window \in Seq(lo .. hi) /\ Len(window) = hi - lo + 1 /\ window # <<>>
      /\ \A k \in 1 .. hi - lo + 1 : window[k] = lo + k - 1
  BY <1>0, <1>1 DEF w
<1>3. window[1] = lo /\ window[hi - lo + 1] = hi
  BY <1>1, <1>2
<1>4. sel \in 1 .. hi - lo + 1 /\ window[sel] = p
  BY <1>2 DEF Window
<1>5. window \in Seq(1 .. total)
  BY <1>2 DEF Window, Bounds
<1> QED
  BY <1>2, <1>3, <1>4, <1>5 DEF Last

\* What a comparison that is remembered says.
LEMMA RemembersOne ==
    ASSUME NEW b, NEW m \in Int, NEW n \in Int, b = (m < n)
    PROVE  b \in BOOLEAN
BY SMT

LEMMA Remembers ==
    ASSUME NEW b, NEW m \in Int, NEW n \in Int, b = (m < n)
    PROVE  b \in BOOLEAN /\ (b => m < n)
BY RemembersOne

\* What a key has to leave.
LEMMA Leaves ==
    ASSUME NEW lo \in Int, NEW hi \in Int, NEW l \in Int, NEW h \in Int, NEW q \in Int,
           UNCHANGED <<total, height>>, window' = From(l, h), sel' = q - l + 1,
           1 <= l, l <= q, q <= h, h <= total,
           exhausted_before' \in BOOLEAN, exhausted_after' \in BOOLEAN,
           exhausted_before' => l = 1, exhausted_after' => h = total,
           hi - lo + 1 = Least(height, total) =>
             /\ h - l + 1 = Least(height, total)
             /\ l - 1 = ScrollTop(lo - 1, q - 1, height, total)
    PROVE  Moved(lo, hi, q)
<1>1. Window(l, h, q)'
  <2>1. total' = total
    OBVIOUS
  <2> QED
    BY <2>1 DEF Window
<1> QED
  BY <1>1, Zenon DEF Moved

LEMMA HomeMoves ==
    ASSUME NEW lo \in Int, NEW hi \in Int, NEW p \in Int, Bounds, Window(lo, hi, p),
           UNCHANGED <<total, height>>, Home, NEW q \in Int, q = 1
    PROVE  Moved(lo, hi, q)
<1>1. PICK h \in Int : h = Least(height, total)
  BY DEF Bounds, Least
<1>2. /\ 1 <= h /\ h <= total /\ Least(q + height - 1, total) = h
      /\ q <= h + 1 /\ (h < height => h = total)
  BY <1>1 DEF Bounds, Window, Least
<1>3. Len(From(q, h)) = h
  <2>1. Len(From(q, h)) = h - q + 1
    BY <1>2, FromIs
  <2> QED
    BY <2>1
<1>4. /\ window' = From(q, h) /\ sel' = 1 /\ exhausted_before' = TRUE
      /\ exhausted_after' = (h < height)
  BY <1>2, <1>3 DEF Home, ShowFirst, Forward
<1>5. exhausted_after' \in BOOLEAN /\ (exhausted_after' => h = total)
  <2>1. exhausted_after' \in BOOLEAN /\ (exhausted_after' => h < height)
    BY <1>4, Remembers DEF Bounds
  <2> QED
    BY <1>2, <2>1
<1>6. /\ h - q + 1 = Least(height, total)
      /\ q - 1 = ScrollTop(lo - 1, q - 1, height, total)
  BY <1>1 DEF ScrollTop, Window, Bounds, Least, Greatest
<1> QED
  BY <1>2, <1>4, <1>5, <1>6, Leaves

LEMMA EndMoves ==
    ASSUME NEW lo \in Int, NEW hi \in Int, NEW p \in Int, Bounds, Window(lo, hi, p),
           UNCHANGED <<total, height>>, End, NEW q \in Int, q = total
    PROVE  Moved(lo, hi, q)
<1>1. Greatest(total - height + 1, 1) \in Int
  BY DEF Bounds, Greatest
<1>2. PICK l \in Int : l = Greatest(total - height + 1, 1)
  BY <1>1
<1>3. /\ 1 <= l /\ l <= q /\ q - l + 1 = Least(height, total) /\ l <= q + 1
      /\ (q - l + 1 < height => l = 1) /\ Greatest(q - l + 1, 1) = q - l + 1
  BY <1>2 DEF Bounds, Window, Least, Greatest
<1>4. Len(From(l, q)) = q - l + 1
  BY <1>3, FromIs
<1>5. window' = From(l, q)
  BY <1>2 DEF End, Backward
<1>6. /\ sel' = q - l + 1 /\ exhausted_after' = TRUE
      /\ exhausted_before' = (q - l + 1 < height)
  BY <1>3, <1>4, <1>5 DEF End
<1>7. exhausted_before' \in BOOLEAN /\ (exhausted_before' => l = 1)
  <2>1. exhausted_before' \in BOOLEAN /\ (exhausted_before' => q - l + 1 < height)
    BY <1>6, Remembers DEF Bounds
  <2> QED
    BY <1>3, <2>1
<1>8. hi - lo + 1 = Least(height, total) =>
        /\ q - l + 1 = Least(height, total)
        /\ l - 1 = ScrollTop(lo - 1, q - 1, height, total)
  BY <1>2, <1>3 DEF ScrollTop, Window, Bounds, Least, Greatest
<1> QED
  BY <1>3, <1>5, <1>6, <1>7, <1>8, Leaves

\* The window stays as it is, and another row of it is selected.
LEMMA StaysMoves ==
    ASSUME NEW lo \in Int, NEW hi \in Int, NEW p \in Int, Bounds, Window(lo, hi, p),
           UNCHANGED <<total, height, window>>, NEW q \in Int, lo <= q, q <= hi,
           sel' = q - lo + 1,
           exhausted_before' \in BOOLEAN, exhausted_after' \in BOOLEAN,
           exhausted_before' => lo = 1, exhausted_after' => hi = total
    PROVE  Moved(lo, hi, q)
<1>1. window' = From(lo, hi) /\ 1 <= lo /\ hi <= total
  BY DEF Window
<1>2. hi - lo + 1 = Least(height, total) =>
        lo - 1 = ScrollTop(lo - 1, q - 1, height, total)
  BY DEF ScrollTop, Window, Bounds, Least, Greatest
<1> QED
  BY <1>1, <1>2, Leaves

LEMMA DownMoves ==
    ASSUME NEW lo \in Int, NEW hi \in Int, NEW p \in Int, Bounds, Window(lo, hi, p),
           UNCHANGED <<total, height>>, Down, NEW q \in Int, q = Least(p + 1, total)
    PROVE  Moved(lo, hi, q)
<1> DEFINE more == Forward(Last(window) + 1, 1)
<1>1. /\ Len(window) = hi - lo + 1 /\ Last(window) = hi
      /\ sel = p - lo + 1 /\ 1 <= lo /\ lo <= p /\ p <= hi /\ hi <= total
      /\ exhausted_before \in BOOLEAN /\ exhausted_after \in BOOLEAN
      /\ exhausted_before => lo = 1
      /\ exhausted_after => hi = total
  BY WindowEnds DEF Window
<1>2. CASE sel < Len(window) /\ Select(sel + 1)
  <2>1. q = p + 1 /\ lo <= q /\ q <= hi /\ sel + 1 = q - lo + 1
    BY <1>1, <1>2 DEF Least, Bounds
  <2>2. /\ UNCHANGED window /\ sel' = q - lo + 1
        /\ exhausted_before' = exhausted_before /\ exhausted_after' = exhausted_after
    BY <1>2, <2>1 DEF Select
  <2> QED
    BY <1>1, <2>1, <2>2, StaysMoves
<1>3. CASE sel = Len(window) /\ exhausted_after /\ Select(sel)
  <2>1. q = p /\ lo <= q /\ q <= hi
    BY <1>1, <1>3 DEF Least, Bounds
  <2>2. /\ UNCHANGED window /\ sel' = q - lo + 1
        /\ exhausted_before' = exhausted_before /\ exhausted_after' = exhausted_after
    BY <1>1, <1>3, <2>1 DEF Select
  <2> QED
    BY <1>1, <2>1, <2>2, StaysMoves
<1>4. more = From(hi + 1, Least(hi + 1, total))
  <2>1. hi + 1 + 1 - 1 = hi + 1
    OBVIOUS
  <2> QED
    BY <1>1, <2>1 DEF Forward
<1>5. CASE sel = Len(window) /\ ~exhausted_after /\ more = <<>> /\ LearnAfter
  <2>1. hi = total
    <3> SUFFICES ASSUME hi < total PROVE FALSE
      BY <1>1 DEF Bounds
    <3>1. Least(hi + 1, total) = hi + 1
      BY DEF Least, Bounds
    <3>2. PICK k \in Int : k = hi + 1
      OBVIOUS
    <3>3. From(k, k) # <<>>
      BY FromNonEmpty
    <3> QED
      BY <1>4, <1>5, <3>1, <3>2, <3>3
  <2>2. q = p /\ lo <= q /\ q <= hi
    BY <1>1, <1>5, <2>1 DEF Least, Bounds
  <2>3. /\ UNCHANGED window /\ sel' = q - lo + 1
        /\ exhausted_before' = exhausted_before /\ exhausted_after' = TRUE
    BY <1>1, <1>5, <2>2 DEF LearnAfter
  <2> QED
    BY <1>1, <2>1, <2>2, <2>3, StaysMoves
<1>6. CASE /\ sel = Len(window) /\ ~exhausted_after /\ more # <<>>
           /\ window' = (IF Len(window) >= height THEN Tail(window) ELSE window) \o more
           /\ sel' = Len(window')
           /\ exhausted_before' = FALSE
           /\ UNCHANGED exhausted_after
  <2>1. hi < total
    <3> SUFFICES ASSUME hi = total PROVE FALSE
      BY <1>1 DEF Bounds
    <3>1. Least(hi + 1, total) = hi
      BY DEF Least, Bounds
    <3>2. PICK k \in Int : k = hi + 1
      OBVIOUS
    <3>3. k <= hi + 1 /\ hi < k
      BY <3>2
    <3>4. From(k, hi) = <<>>
      BY <3>3, FromNonEmpty
    <3> QED
      BY <1>4, <1>6, <3>1, <3>2, <3>4
  <2>2. p = hi /\ q = hi + 1 /\ Least(hi + 1, total) = q
    BY <1>1, <1>6, <2>1 DEF Least, Bounds
  <2>3. more = From(hi + 1, q)
    BY <1>4, <2>2
  <2> HIDE DEF more
  <2>4. PICK l \in Int : l = IF hi - lo + 1 >= height THEN lo + 1 ELSE lo
    OBVIOUS
  <2>5. (IF Len(window) >= height THEN Tail(window) ELSE window) = From(l, hi)
    <3>1. lo <= hi /\ window = From(lo, hi)
      BY DEF Window
    <3>2. Tail(window) = From(lo + 1, hi)
      BY <3>1, OneRowLess
    <3> QED
      BY <1>1, <2>4, <3>1, <3>2
  <2>6. window' = From(l, q)
    <3>1. l - 1 <= hi /\ hi <= q
      BY <1>1, <2>2, <2>4
    <3>2. From(l, hi) \o From(hi + 1, q) = From(l, q)
      BY <3>1, Joined
    <3> QED
      BY <1>6, <2>3, <2>5, <3>2
  <2>7. 1 <= l /\ l <= q /\ l <= q + 1 /\ q <= total
    BY <1>1, <2>1, <2>2, <2>4 DEF Bounds
  <2>8. sel' = q - l + 1
    BY <1>6, <2>6, <2>7, FromIs
  <2>9. hi - lo + 1 = Least(height, total) =>
          /\ q - l + 1 = Least(height, total)
          /\ l - 1 = ScrollTop(lo - 1, q - 1, height, total)
    BY <1>1, <2>1, <2>2, <2>4 DEF ScrollTop, Bounds, Least, Greatest
  <2>10. exhausted_before' = FALSE /\ exhausted_after' = FALSE
    BY <1>1, <1>6
  <2>11. /\ exhausted_before' \in BOOLEAN /\ exhausted_after' \in BOOLEAN
         /\ exhausted_before' => l = 1
         /\ exhausted_after' => q = total
    BY <2>10
  <2>12. q <= q
    OBVIOUS
  <2> QED
    BY <2>6, <2>7, <2>8, <2>9, <2>11, <2>12, Leaves
<1> QED
  BY <1>2, <1>3, <1>5, <1>6 DEF Down

LEMMA UpMoves ==
    ASSUME NEW lo \in Int, NEW hi \in Int, NEW p \in Int, Bounds, Window(lo, hi, p),
           UNCHANGED <<total, height>>, Up, NEW q \in Int, q = Greatest(p - 1, 1)
    PROVE  Moved(lo, hi, q)
<1> DEFINE before == Backward(window[1] - 1, 1)
<1>1. /\ Len(window) = hi - lo + 1 /\ window[1] = lo
      /\ sel = p - lo + 1 /\ 1 <= lo /\ lo <= p /\ p <= hi /\ hi <= total
      /\ exhausted_before \in BOOLEAN /\ exhausted_after \in BOOLEAN
      /\ exhausted_before => lo = 1
      /\ exhausted_after => hi = total
  BY WindowEnds DEF Window
<1>2. CASE sel > 1 /\ Select(sel - 1)
  <2>1. q = p - 1 /\ lo <= q /\ q <= hi /\ sel - 1 = q - lo + 1
    BY <1>1, <1>2 DEF Greatest, Bounds
  <2>2. /\ UNCHANGED window /\ sel' = q - lo + 1
        /\ exhausted_before' = exhausted_before /\ exhausted_after' = exhausted_after
    BY <1>2, <2>1 DEF Select
  <2> QED
    BY <1>1, <2>1, <2>2, StaysMoves
<1>3. CASE sel = 1 /\ exhausted_before /\ Select(sel)
  <2>1. q = p /\ lo <= q /\ q <= hi
    BY <1>1, <1>3 DEF Greatest, Bounds
  <2>2. /\ UNCHANGED window /\ sel' = q - lo + 1
        /\ exhausted_before' = exhausted_before /\ exhausted_after' = exhausted_after
    BY <1>1, <1>3, <2>1 DEF Select
  <2> QED
    BY <1>1, <2>1, <2>2, StaysMoves
<1>4. before = From(Greatest(lo - 1, 1), lo - 1)
  <2>1. lo - 1 - 1 + 1 = lo - 1
    OBVIOUS
  <2> QED
    BY <1>1, <2>1 DEF Backward
<1>5. CASE sel = 1 /\ ~exhausted_before /\ before = <<>> /\ LearnBefore
  <2>1. lo = 1
    <3> SUFFICES ASSUME 1 < lo PROVE FALSE
      BY <1>1
    <3>1. Greatest(lo - 1, 1) = lo - 1
      BY DEF Greatest
    <3>2. PICK k \in Int : k = lo - 1
      OBVIOUS
    <3>3. From(k, k) # <<>>
      BY FromNonEmpty
    <3> QED
      BY <1>4, <1>5, <3>1, <3>2, <3>3
  <2>2. q = p /\ lo <= q /\ q <= hi
    BY <1>1, <1>5, <2>1 DEF Greatest, Bounds
  <2>3. /\ UNCHANGED window /\ sel' = q - lo + 1
        /\ exhausted_after' = exhausted_after /\ exhausted_before' = TRUE
    BY <1>1, <1>5, <2>2 DEF LearnBefore
  <2> QED
    BY <1>1, <2>1, <2>2, <2>3, StaysMoves
<1>6. CASE /\ sel = 1 /\ ~exhausted_before /\ before # <<>>
           /\ window' = before \o (IF Len(window) >= height
                                     THEN SubSeq(window, 1, Len(window) - 1) ELSE window)
           /\ sel' = 1
           /\ exhausted_after' = FALSE
           /\ UNCHANGED exhausted_before
  <2>1. 1 < lo
    <3> SUFFICES ASSUME lo = 1 PROVE FALSE
      BY <1>1
    <3>1. Greatest(lo - 1, 1) = 1
      BY DEF Greatest
    <3>2. PICK k \in Int : k = lo - 1
      OBVIOUS
    <3>3. From(1, k) = <<>>
      BY <3>2, FromNonEmpty
    <3> QED
      BY <1>4, <1>6, <3>1, <3>2, <3>3
  <2>2. p = lo /\ q = lo - 1 /\ Greatest(lo - 1, 1) = q
    BY <1>1, <1>6, <2>1 DEF Greatest, Bounds
  <2>3. before = From(q, q)
    BY <1>4, <2>2
  <2> HIDE DEF before
  <2>4. PICK h \in Int : h = IF hi - lo + 1 >= height THEN hi - 1 ELSE hi
    OBVIOUS
  <2>5. (IF Len(window) >= height THEN SubSeq(window, 1, Len(window) - 1) ELSE window)
          = From(q + 1, h)
    <3>1. q + 1 = lo
      BY <2>2
    <3>2. lo <= hi /\ window = From(lo, hi)
      BY DEF Window
    <3>3. SubSeq(window, 1, Len(window) - 1) = From(lo, hi - 1)
      BY <3>2, OneRowLess
    <3> QED
      BY <1>1, <2>4, <3>1, <3>2, <3>3
  <2>6. window' = From(q, h)
    <3>1. q - 1 <= q /\ q <= h
      BY <1>1, <2>2, <2>4
    <3>2. From(q, q) \o From(q + 1, h) = From(q, h)
      BY <3>1, Joined
    <3> QED
      BY <1>6, <2>3, <2>5, <3>2
  <2>7. 1 <= q /\ q <= h /\ h <= total /\ q - q + 1 = 1
    BY <1>1, <2>1, <2>2, <2>4 DEF Bounds
  <2>9. hi - lo + 1 = Least(height, total) =>
          /\ h - q + 1 = Least(height, total)
          /\ q - 1 = ScrollTop(lo - 1, q - 1, height, total)
    BY <1>1, <2>1, <2>2, <2>4 DEF ScrollTop, Bounds, Least, Greatest
  <2>10. exhausted_before' = FALSE /\ exhausted_after' = FALSE /\ sel' = q - q + 1
    BY <1>1, <1>6, <2>7
  <2>11. /\ exhausted_before' \in BOOLEAN /\ exhausted_after' \in BOOLEAN
         /\ exhausted_before' => q = 1
         /\ exhausted_after' => h = total
    BY <2>10
  <2>12. q <= q /\ sel' = q - q + 1
    BY <2>10
  <2> QED
    BY <2>6, <2>7, <2>9, <2>11, <2>12, Leaves
<1> QED
  BY <1>2, <1>3, <1>5, <1>6 DEF Up

LEMMA PageDownMoves ==
    ASSUME NEW lo \in Int, NEW hi \in Int, NEW p \in Int, Bounds, Window(lo, hi, p),
           UNCHANGED <<total, height>>, PageDown,
           NEW q \in Int, q = Least(p + height, total)
    PROVE  Moved(lo, hi, q)
<1> DEFINE after == Forward(window[sel] + 1, height)
<1>1. /\ Len(window) = hi - lo + 1 /\ window[sel] = p
      /\ sel = p - lo + 1 /\ 1 <= lo /\ lo <= p /\ p <= hi /\ hi <= total
      /\ exhausted_before \in BOOLEAN /\ exhausted_after \in BOOLEAN
      /\ exhausted_before => lo = 1
      /\ exhausted_after => hi = total
  BY WindowEnds DEF Window
<1>2. CASE exhausted_after /\ Select(Least(Len(window), sel + height))
  <2>1. lo <= q /\ q <= hi /\ Least(Len(window), sel + height) = q - lo + 1
    BY <1>1, <1>2 DEF Least, Bounds
  <2>2. /\ UNCHANGED window /\ sel' = q - lo + 1
        /\ exhausted_before' = exhausted_before /\ exhausted_after' = exhausted_after
    BY <1>2, <2>1 DEF Select
  <2> QED
    BY <1>1, <2>1, <2>2, StaysMoves
<1>3. after = From(p + 1, q)
  <2>1. p + 1 + height - 1 = p + height
    BY DEF Bounds
  <2> QED
    BY <1>1, <2>1 DEF Forward
<1>4. PICK k \in Int : k = p + 1
  OBVIOUS
<1>5. k <= q + 1 /\ p <= q /\ (q < k <=> q = total /\ p = total)
  BY <1>1, <1>4 DEF Least, Bounds
<1>6. CASE ~exhausted_after /\ after = <<>> /\ LearnAfter
  <2>1. q < k
    BY <1>3, <1>4, <1>5, <1>6, FromNonEmpty
  <2>2. hi = total /\ q = p /\ lo <= q /\ q <= hi
    BY <1>1, <1>5, <2>1 DEF Bounds
  <2>3. /\ UNCHANGED window /\ sel' = q - lo + 1
        /\ exhausted_before' = exhausted_before /\ exhausted_after' = TRUE
    BY <1>1, <1>6, <2>2 DEF LearnAfter
  <2> QED
    BY <1>1, <2>2, <2>3, StaysMoves
<1>7. CASE /\ ~exhausted_after /\ after # <<>>
           /\ window' = Backward(Last(after), height)
           /\ sel' = Len(window')
           /\ exhausted_before' = (Len(window') < height)
           /\ exhausted_after' = (Len(after) < height)
  <2>1. ~(q < k)
    BY <1>3, <1>4, <1>5, <1>7, FromNonEmpty
  <2>2. Len(after) = q - p
    <3>1. Len(From(k, q)) = q - k + 1
      BY <1>5, FromIs
    <3> QED
      BY <1>3, <1>4, <3>1
  <2>3. Last(after) = q
    <3>1. Last(From(k, q)) = q
      BY <2>1, FromEnds
    <3> QED
      BY <1>3, <1>4, <3>1
  <2> HIDE DEF after
  <2>4. Greatest(q - height + 1, 1) \in Int
    BY DEF Greatest, Bounds
  <2>5. PICK l \in Int : l = Greatest(q - height + 1, 1)
    BY <2>4
  <2>6. window' = From(l, q)
    BY <1>7, <2>3, <2>5 DEF Backward
  <2>7. /\ 1 <= l /\ l <= q /\ l <= q + 1 /\ q <= total /\ q <= q
        /\ q - l + 1 < height => l = 1
        /\ q - p < height => q = total
    BY <1>1, <1>5, <2>5 DEF Greatest, Least, Bounds
  <2>8. Len(window') = q - l + 1
    BY <2>6, <2>7, FromIs
  <2>9. /\ exhausted_before' \in BOOLEAN /\ (exhausted_before' => q - l + 1 < height)
        /\ exhausted_after' \in BOOLEAN /\ (exhausted_after' => q - p < height)
    <3>1. exhausted_before' = (q - l + 1 < height) /\ exhausted_after' = (q - p < height)
      BY <1>7, <2>2, <2>8
    <3>2. exhausted_before' \in BOOLEAN /\ (exhausted_before' => q - l + 1 < height)
      BY <3>1, Remembers DEF Bounds
    <3>3. exhausted_after' \in BOOLEAN /\ (exhausted_after' => q - p < height)
      BY <3>1, Remembers DEF Bounds
    <3> QED
      BY <3>2, <3>3
  <2>10. hi - lo + 1 = Least(height, total) =>
           /\ q - l + 1 = Least(height, total)
           /\ l - 1 = ScrollTop(lo - 1, q - 1, height, total)
    BY <1>1, <1>4, <2>1, <2>5 DEF ScrollTop, Bounds, Least, Greatest
  <2> QED
    BY <1>7, <2>6, <2>7, <2>8, <2>9, <2>10, Leaves
<1> QED
  BY <1>2, <1>6, <1>7 DEF PageDown

LEMMA PageUpMoves ==
    ASSUME NEW lo \in Int, NEW hi \in Int, NEW p \in Int, Bounds, Window(lo, hi, p),
           UNCHANGED <<total, height>>, PageUp,
           NEW q \in Int, q = Greatest(p - height, 1)
    PROVE  Moved(lo, hi, q)
<1> DEFINE before == Backward(window[sel] - 1, height)
           next   == Forward(before[1], height)
           extra  == IF Len(next) < height
                       THEN Backward(next[1] - 1, height - Len(next)) ELSE <<>>
<1>1. /\ Len(window) = hi - lo + 1 /\ window[sel] = p
      /\ sel = p - lo + 1 /\ 1 <= lo /\ lo <= p /\ p <= hi /\ hi <= total
      /\ exhausted_before \in BOOLEAN /\ exhausted_after \in BOOLEAN
      /\ exhausted_before => lo = 1
      /\ exhausted_after => hi = total
  BY WindowEnds DEF Window
<1>2. CASE exhausted_before /\ Select(Greatest(1, sel - height))
  <2>1. lo <= q /\ q <= hi /\ Greatest(1, sel - height) = q - lo + 1
    BY <1>1, <1>2 DEF Greatest, Bounds
  <2>2. /\ UNCHANGED window /\ sel' = q - lo + 1
        /\ exhausted_before' = exhausted_before /\ exhausted_after' = exhausted_after
    BY <1>2, <2>1 DEF Select
  <2> QED
    BY <1>1, <2>1, <2>2, StaysMoves
<1>3. before = From(q, p - 1)
  <2>1. p - 1 - height + 1 = p - height
    BY DEF Bounds
  <2> QED
    BY <1>1, <2>1 DEF Backward
<1>4. PICK k \in Int : k = p - 1
  OBVIOUS
<1>5. q <= k + 1 /\ q <= p /\ 1 <= q /\ (k < q <=> p = 1)
  BY <1>1, <1>4 DEF Greatest, Bounds
<1>6. CASE ~exhausted_before /\ before = <<>> /\ LearnBefore
  <2>1. k < q
    BY <1>3, <1>4, <1>5, <1>6, FromNonEmpty
  <2>2. lo = 1 /\ q = p /\ lo <= q /\ q <= hi
    BY <1>1, <1>5, <2>1 DEF Bounds
  <2>3. /\ UNCHANGED window /\ sel' = q - lo + 1
        /\ exhausted_after' = exhausted_after /\ exhausted_before' = TRUE
    BY <1>1, <1>6, <2>2 DEF LearnBefore
  <2> QED
    BY <1>1, <2>2, <2>3, StaysMoves
<1>7. CASE /\ ~exhausted_before /\ before # <<>>
           /\ window' = extra \o next
           /\ sel' = Len(extra) + 1
           /\ exhausted_before' = (Len(before) < height)
           /\ exhausted_after' = (Len(next) < height)
  <2>1. q <= k
    <3>1. From(q, k) = <<>> <=> k < q
      BY <1>5, FromNonEmpty
    <3>2. before = From(q, k)
      BY <1>3, <1>4
    <3> HIDE DEF before
    <3> QED
      BY <1>7, <3>1, <3>2
  <2>2. Len(before) = p - q /\ before[1] = q
    <3>1. Len(From(q, k)) = k - q + 1
      BY <1>5, FromIs
    <3>2. From(q, k)[1] = q
      BY <2>1, FromEnds
    <3>3. k - q + 1 = p - q /\ before = From(q, k)
      BY <1>3, <1>4
    <3> HIDE DEF before
    <3> QED
      BY <3>1, <3>2, <3>3
  <2> HIDE DEF before
  <2>3. Least(q + height - 1, total) \in Int
    BY DEF Least, Bounds
  <2>4. PICK h \in Int : h = Least(q + height - 1, total)
    BY <2>3
  <2>5. q <= h /\ q <= h + 1 /\ h <= total
    BY <1>1, <1>5, <2>4 DEF Least, Bounds
  <2>6. next = From(q, h)
    BY <2>2, <2>4 DEF Forward
  <2>7. Len(next) = h - q + 1 /\ next[1] = q
    <3>1. Len(From(q, h)) = h - q + 1
      BY <2>5, FromIs
    <3>2. From(q, h)[1] = q + 1 - 1
      BY <2>5, FromIs
    <3> QED
      BY <2>6, <3>1, <3>2
  <2> HIDE DEF next
  <2>8. (IF h - q + 1 < height THEN Greatest(h - height + 1, 1) ELSE q) \in Int
    BY DEF Greatest, Bounds
  <2>9. PICK l \in Int :
          l = IF h - q + 1 < height THEN Greatest(h - height + 1, 1) ELSE q
    BY <2>8
  <2>10. 1 <= l /\ l <= q
    BY <1>5, <2>4, <2>5, <2>9 DEF Least, Greatest, Bounds
  <2>11. extra \o next = From(l, h) /\ Len(extra) = q - l
    <3>1. CASE h - q + 1 < height
      <4>1. q - 1 - (height - (h - q + 1)) + 1 = h - height + 1
        BY DEF Bounds
      <4>2. extra = From(l, q - 1)
        BY <2>7, <2>9, <3>1, <4>1 DEF Backward
      <4>3. PICK j \in Int : j = q - 1
        OBVIOUS
      <4>4. l - 1 <= j /\ j <= h /\ j + 1 = q /\ l <= j + 1
        BY <2>5, <2>10, <4>3
      <4>5. From(l, j) \o From(j + 1, h) = From(l, h)
        BY <4>4, Joined
      <4>6. Len(From(l, j)) = j - l + 1
        BY <4>4, FromIs
      <4>7. extra = From(l, j) /\ next = From(j + 1, h) /\ j - l + 1 = q - l
        BY <2>6, <4>2, <4>3, <4>4
      <4> HIDE DEF extra
      <4> QED
        BY <4>5, <4>6, <4>7
    <3>2. CASE ~(h - q + 1 < height)
      <4>1. extra = <<>> /\ l = q
        BY <2>7, <2>9, <3>2
      <4>2. From(q, h) \in Seq(Int)
        BY <2>5, FromIs
      <4> HIDE DEF extra
      <4>3. <<>> \o From(q, h) = From(q, h)
        BY <4>2, ConcatEmptySeq
      <4>4. Len(extra) = q - l
        BY <4>1
      <4> QED
        BY <2>6, <4>1, <4>3, <4>4
    <3> QED
      BY <3>1, <3>2
  <2>12. window' = From(l, h) /\ sel' = q - l + 1
    BY <1>7, <2>11
  <2>13. /\ p - q < height => l = 1
         /\ h - q + 1 < height => h = total
    BY <1>1, <1>5, <2>4, <2>9, <2>10 DEF Least, Greatest, Bounds
  <2>14. /\ exhausted_before' \in BOOLEAN /\ (exhausted_before' => p - q < height)
         /\ exhausted_after' \in BOOLEAN /\ (exhausted_after' => h - q + 1 < height)
    <3>1. exhausted_before' = (p - q < height) /\ exhausted_after' = (h - q + 1 < height)
      BY <1>7, <2>2, <2>7
    <3>2. exhausted_before' \in BOOLEAN /\ (exhausted_before' => p - q < height)
      BY <3>1, Remembers DEF Bounds
    <3>3. exhausted_after' \in BOOLEAN /\ (exhausted_after' => h - q + 1 < height)
      BY <3>1, Remembers DEF Bounds
    <3> QED
      BY <3>2, <3>3
  <2>15. hi - lo + 1 = Least(height, total) =>
           /\ h - l + 1 = Least(height, total)
           /\ l - 1 = ScrollTop(lo - 1, q - 1, height, total)
    BY <1>1, <1>4, <2>1, <2>4, <2>9 DEF ScrollTop, Bounds, Least, Greatest
  <2> QED
    BY <2>5, <2>10, <2>12, <2>13, <2>14, <2>15, Leaves
<1> QED
  BY <1>2, <1>6, <1>7 DEF PageUp

\* Each key selects the row it selects in the whole result.
Selects(p, q) ==
    \/ q = Least(p + 1, total) \/ q = Greatest(p - 1, 1)
    \/ q = Least(p + height, total) \/ q = Greatest(p - height, 1)
    \/ q = 1 \/ q = total

LEMMA KeyMoves ==
    ASSUME NEW lo \in Int, NEW hi \in Int, NEW p \in Int, Bounds, Window(lo, hi, p),
           UNCHANGED <<total, height>>, AnyKey
    PROVE  \E q \in Int : Selects(p, q) /\ Moved(lo, hi, q)
<1>1. /\ Least(p + 1, total) \in Int /\ Greatest(p - 1, 1) \in Int
      /\ Least(p + height, total) \in Int /\ Greatest(p - height, 1) \in Int
      /\ total \in Int
  BY DEF Bounds, Least, Greatest
<1>2. CASE Home
  <2>1. PICK q \in Int : q = 1
    OBVIOUS
  <2> QED
    BY <1>2, <2>1, HomeMoves DEF Selects
<1>3. CASE End
  <2>1. PICK q \in Int : q = total
    BY <1>1
  <2> QED
    BY <1>3, <2>1, EndMoves DEF Selects
<1>4. CASE Down
  <2>1. PICK q \in Int : q = Least(p + 1, total)
    BY <1>1
  <2> QED
    BY <1>4, <2>1, DownMoves DEF Selects
<1>5. CASE Up
  <2>1. PICK q \in Int : q = Greatest(p - 1, 1)
    BY <1>1
  <2> QED
    BY <1>5, <2>1, UpMoves DEF Selects
<1>6. CASE PageDown
  <2>1. PICK q \in Int : q = Least(p + height, total)
    BY <1>1
  <2> QED
    BY <1>6, <2>1, PageDownMoves DEF Selects
<1>7. CASE PageUp
  <2>1. PICK q \in Int : q = Greatest(p - height, 1)
    BY <1>1
  <2> QED
    BY <1>7, <2>1, PageUpMoves DEF Selects
<1> QED
  BY <1>2, <1>3, <1>4, <1>5, <1>6, <1>7 DEF AnyKey

\* The inductive invariant: with no rows there is no window; else it is a gapless
\* piece of the result.
Empty ==
    /\ total = 0 /\ window = <<>> /\ sel = 1
    /\ exhausted_before \in BOOLEAN /\ exhausted_after \in BOOLEAN

WindowInv ==
    /\ total \in Totals /\ height \in Heights
    /\ Empty \/ \E lo, hi, p \in Int : Window(lo, hi, p)

LEMMA WindowInvBounds ==
    ASSUME WindowInv
    PROVE  Bounds
BY BoundsAssumption DEF WindowInv, Bounds

LEMMA EmptyStays ==
    ASSUME Empty, Bounds, AnyKey, UNCHANGED <<total, height>>
    PROVE  Empty'
<1>1. CASE Home
  <2>1. Least(1 + height - 1, total) = 0 /\ 0 \in Int /\ 1 \in Int
    BY DEF Empty, Bounds, Least
  <2>2. From(1, 0) = <<>>
    BY FromNonEmpty
  <2>3. window' = <<>> /\ sel' = 1 /\ exhausted_before' = TRUE
    BY <1>1, <2>1, <2>2 DEF Home, ShowFirst, Forward
  <2>4. exhausted_after' = (0 < height)
    BY <1>1, <2>3 DEF Home, ShowFirst
  <2>5. exhausted_after' \in BOOLEAN
    BY <2>4, Remembers DEF Bounds
  <2> QED
    BY <2>3, <2>5 DEF Empty
<1>2. CASE End
  <2>1. Greatest(total - height + 1, 1) = 1 /\ total = 0
    BY DEF Empty, Bounds, Greatest
  <2>2. From(1, 0) = <<>>
    BY FromNonEmpty
  <2>3. window' = <<>> /\ exhausted_after' = TRUE
    BY <1>2, <2>1, <2>2 DEF End, Backward
  <2>4. sel' = 1 /\ exhausted_before' = (0 < height)
    BY <1>2, <2>3 DEF End, Greatest
  <2>5. exhausted_before' \in BOOLEAN
    BY <2>4, Remembers DEF Bounds
  <2> QED
    BY <2>3, <2>4, <2>5 DEF Empty
<1> QED
  BY <1>1, <1>2 DEF AnyKey, Empty, Down, Up, PageDown, PageUp

LEMMA WindowInvInit ==
    ASSUME PagerInit
    PROVE  WindowInv
<1>1. Bounds /\ total \in Totals /\ height \in Heights
  BY BoundsAssumption DEF PagerInit, Bounds
<1>2. Least(1 + height - 1, total) = Least(height, total) /\ Least(height, total) \in Int
  BY <1>1 DEF Bounds, Least
<1>3. PICK h \in Int : h = Least(height, total)
  BY <1>2
<1>4. PICK i \in Int : i = 1
  OBVIOUS
<1>5. i <= h + 1 /\ 0 <= h /\ (h < height => h = total) /\ h <= total /\ (h = 0 => total = 0)
  BY <1>1, <1>3, <1>4 DEF Bounds, Least
<1>6. window = From(i, h) /\ sel = 1 /\ exhausted_before = TRUE
  BY <1>2, <1>3, <1>4 DEF PagerInit, Forward
<1>7. Len(window) = h
  <2>1. Len(From(i, h)) = h - i + 1
    BY <1>5, FromIs
  <2> QED
    BY <1>4, <1>6, <2>1
<1>8. exhausted_after \in BOOLEAN /\ (exhausted_after => h < height)
  <2>1. exhausted_after = (h < height)
    BY <1>7 DEF PagerInit
  <2> QED
    BY <1>1, <2>1, Remembers DEF Bounds
<1>9. CASE h = 0
  <2>1. window = <<>>
    BY <1>4, <1>5, <1>6, <1>9, FromNonEmpty
  <2> QED
    BY <1>1, <1>5, <1>6, <1>8, <1>9, <2>1 DEF WindowInv, Empty
<1>10. CASE h # 0
  <2>1. Window(i, h, i)
    BY <1>4, <1>5, <1>6, <1>8, <1>10 DEF Window
  <2> QED
    BY <1>1, <2>1 DEF WindowInv
<1> QED
  BY <1>9, <1>10

LEMMA WindowInvStep ==
    ASSUME WindowInv, [PagerNext]_pagerVars
    PROVE  WindowInv'
<1>1. Bounds
  BY WindowInvBounds
<1>2. CASE UNCHANGED pagerVars
  BY <1>2 DEF WindowInv, pagerVars, Empty, Window
<1>3. CASE Resize
  BY <1>3 DEF WindowInv, Resize, Empty, Window
<1>4. CASE AnyKey /\ UNCHANGED <<total, height>>
  <2>1. CASE Empty
    BY <1>1, <1>4, <2>1, EmptyStays DEF WindowInv
  <2>2. ASSUME NEW lo \in Int, NEW hi \in Int, NEW p \in Int, Window(lo, hi, p)
        PROVE  WindowInv'
    <3>1. PICK q \in Int : Moved(lo, hi, q)
      BY <1>1, <1>4, <2>2, KeyMoves
    <3>2. PICK l \in Int, h \in Int : Window(l, h, q)'
      BY <3>1 DEF Moved
    <3> QED
      BY <1>4, <3>2 DEF WindowInv
  <2> QED
    BY <2>1, <2>2 DEF WindowInv
<1> QED
  BY <1>2, <1>3, <1>4 DEF PagerNext

-------------------------------------------------------------------------------
(* What the inductive invariant says of the window, now and after a key.   *)

\* The selected row of the rows from lo to hi, and their ends.
LEMMA EndsOf ==
    ASSUME NEW w, NEW s, NEW lo \in Int, NEW hi \in Int, NEW p \in Int,
           w = From(lo, hi), s = p - lo + 1, lo <= p, p <= hi
    PROVE  /\ w # <<>> /\ w[1] = lo /\ w[s] = p /\ Len(w) = hi - lo + 1
           /\ s \in 1 .. Len(w)
<1> DEFINE r == From(lo, hi)
<1>1. lo <= hi + 1 /\ lo <= hi
  OBVIOUS
<1>2. Len(r) = hi - lo + 1
  BY <1>1, FromIs
<1>3. r # <<>>
  BY <1>1, FromNonEmpty
<1>4. \A k \in 1 .. hi - lo + 1 : r[k] = lo + k - 1
  BY <1>1, FromIs
<1>5. w = r
  OBVIOUS
<1> HIDE DEF r
<1>6. s \in 1 .. hi - lo + 1 /\ 1 \in 1 .. hi - lo + 1
  BY <1>1
<1>7. r[s] = lo + s - 1 /\ r[1] = lo + 1 - 1
  BY <1>4, <1>6
<1> QED
  BY <1>2, <1>3, <1>5, <1>6, <1>7

LEMMA WindowInvSays ==
    ASSUME WindowInv
    PROVE  PagerInv
<1>1. Bounds
  BY WindowInvBounds
<1>2. CASE Empty
  <2>1. window \in Seq(1 .. total) /\ Len(window) = 0
    BY <1>2 DEF Empty
  <2>2. \A i \in 1 .. Len(window) - 1 : window[i + 1] = window[i] + 1
    BY <2>1
  <2> QED
    BY <1>2, <2>1, <2>2 DEF WindowInv, Empty, PagerInv, PagerTypeOK, ExhaustedIsTrue
<1>3. ASSUME NEW lo \in Int, NEW hi \in Int, NEW p \in Int, Window(lo, hi, p)
      PROVE  PagerInv
  <2>1. /\ window # <<>> /\ window[1] = lo /\ Len(window) = hi - lo + 1
        /\ Last(window) = hi /\ window \in Seq(1 .. total) /\ sel \in 1 .. Len(window)
    BY <1>1, <1>3, WindowEnds
  <2>2. \A i \in 1 .. Len(window) - 1 : window[i + 1] = window[i] + 1
    <3> SUFFICES ASSUME NEW i \in 1 .. Len(window) - 1
                 PROVE  window[i + 1] = window[i] + 1
      OBVIOUS
    <3>1. window = From(lo, hi) /\ lo <= hi + 1
      BY <1>3 DEF Window
    <3>2. \A k \in 1 .. hi - lo + 1 : window[k] = lo + k - 1
      BY <3>1, FromIs
    <3>3. i \in 1 .. hi - lo + 1 /\ i + 1 \in 1 .. hi - lo + 1
      BY <2>1
    <3>4. window[i] = lo + i - 1 /\ window[i + 1] = lo + (i + 1) - 1
      BY <3>2, <3>3
    <3> QED
      BY <3>4
  <2>3. PagerTypeOK
    BY <1>3, <2>1 DEF PagerTypeOK, WindowInv, Window
  <2>4. ExhaustedIsTrue
    BY <1>3, <2>1, <2>2 DEF ExhaustedIsTrue, Window
  <2> QED
    BY <2>3, <2>4 DEF PagerInv
<1> QED
  BY <1>2, <1>3 DEF WindowInv

LEMMA WindowInductive == PagerSpec => []WindowInv
<1>1. PagerInit => WindowInv
  BY WindowInvInit
<1>2. WindowInv /\ [PagerNext]_pagerVars => WindowInv'
  BY WindowInvStep
<1> QED
  BY <1>1, <1>2, PTL DEF PagerSpec

\* Pager: whatever keys are pressed and however the terminal is resized, the
\* window is a gapless piece of the result, and an end that the pager remembers as
\* exhausted (down, up, page_down, page_up) has nothing beyond it.
THEOREM WindowIsGapless == PagerSpec => []PagerInv
<1>1. WindowInv => PagerInv
  BY WindowInvSays
<1> QED
  BY <1>1, WindowInductive, PTL

-------------------------------------------------------------------------------
(* The refinement of AbsoluteSelection.                                    *)

Pos == IF window = <<>> THEN 0 ELSE window[sel]

LEMMA PosIs ==
    ASSUME NEW lo \in Int, NEW hi \in Int, NEW p \in Int
    PROVE  /\ Window(lo, hi, p) => Pos = p
           /\ Window(lo, hi, p)' => Pos' = p
<1>1. ASSUME Window(lo, hi, p) PROVE Pos = p
  BY <1>1, EndsOf DEF Window, Pos
<1>2. ASSUME Window(lo, hi, p)' PROVE Pos' = p
  BY <1>2, EndsOf DEF Window, Pos
<1> QED
  BY <1>1, <1>2

LEMMA SelectionStarts ==
    ASSUME PagerInit
    PROVE  Selection!Init
<1>1. WindowInv /\ Bounds
  BY WindowInvInit, WindowInvBounds
<1>2. CASE Empty
  BY <1>2 DEF Empty, Selection!Init, Selection!First, Selection!Least
<1>3. ASSUME NEW lo \in Int, NEW hi \in Int, NEW p \in Int, Window(lo, hi, p)
      PROVE  Selection!Init
  <2>1. Pos = p /\ window[1] = lo /\ window # <<>>
    BY <1>1, <1>3, PosIs, WindowEnds
  <2>2. sel = 1 /\ exhausted_before
    BY DEF PagerInit
  <2>3. p = lo /\ lo = 1 /\ 1 <= total
    BY <1>1, <1>3, <2>2 DEF Window, Bounds
  <2>4. Least(1, total) = 1
    BY <1>1, <2>3 DEF Least, Bounds
  <2> QED
    BY <2>1, <2>3, <2>4 DEF Pos, Selection!Init, Selection!First, Selection!Least, Least
<1> QED
  BY <1>1, <1>2, <1>3 DEF WindowInv

LEMMA SelectionMoves ==
    ASSUME WindowInv, [PagerNext]_pagerVars
    PROVE  [Selection!Resize \/ Selection!Move]_<<total, height, Pos>>
<1>1. Bounds
  BY WindowInvBounds
<1>2. CASE UNCHANGED pagerVars
  BY <1>2 DEF pagerVars, Pos
<1>3. CASE Resize
  <2>1. Selection!Resize
    BY <1>3 DEF Resize, Selection!Resize
  <2> QED
    BY <2>1
<1>4. CASE AnyKey /\ UNCHANGED <<total, height>>
  <2>1. CASE Empty
    <3>1. Empty'
      BY <1>1, <1>4, <2>1, EmptyStays
    <3>2. Pos = 0 /\ Pos' = 0
      BY <2>1, <3>1 DEF Empty, Pos
    <3> QED
      BY <1>4, <3>2
  <2>2. ASSUME NEW lo \in Int, NEW hi \in Int, NEW p \in Int, Window(lo, hi, p)
        PROVE  Selection!Move
    <3>1. PICK q \in Int : Selects(p, q) /\ Moved(lo, hi, q)
      BY <1>1, <1>4, <2>2, KeyMoves
    <3>2. PICK l \in Int, h \in Int : Window(l, h, q)'
      BY <3>1 DEF Moved
    <3>3. Pos = p /\ Pos' = q
      BY <2>2, <3>2, PosIs
    <3>4. 1 <= total
      BY <1>1, <2>2 DEF Window, Bounds
    <3>5. Selection!First = 1
      BY <1>1, <3>4 DEF Selection!First, Selection!Least, Bounds
    <3>6. \A a, b \in Int : /\ Selection!Least(a, b) = Least(a, b)
                            /\ Selection!Greatest(a, b) = Greatest(a, b)
      BY DEF Selection!Least, Selection!Greatest, Least, Greatest
    <3>7. /\ UNCHANGED <<total, height>>
          /\ \/ Pos' = Selection!Least(Pos + 1, total)
             \/ Pos' = Selection!Greatest(Pos - 1, Selection!First)
             \/ Pos' = Selection!Least(Pos + height, total)
             \/ Pos' = Selection!Greatest(Pos - height, Selection!First)
             \/ Pos' = Selection!First
             \/ Pos' = total
      BY <1>1, <1>4, <3>1, <3>3, <3>5, <3>6 DEF Selects, Bounds
    <3> QED
      BY <3>7 DEF Selection!Move, Pos
  <2> QED
    BY <2>1, <2>2 DEF WindowInv
<1> QED
  BY <1>2, <1>3, <1>4 DEF PagerNext

\* Pager "behaves like absolute selection over the full sorted result" (its class
\* comment): every key moves the selected row as it would in the whole result, by a
\* row, by a screenful or to an end, though the window holds a screenful of it.
THEOREM PagerIsOneSelection == PagerSpec => ImplementsSelection
<1>1. PagerInit => Selection!Init
  BY SelectionStarts
<1>2. WindowInv /\ [PagerNext]_pagerVars =>
        [Selection!Resize \/ Selection!Move]_<<total, height, Pos>>
  BY SelectionMoves
<1> QED
  BY <1>1, <1>2, WindowInductive, PTL DEF PagerSpec, ImplementsSelection, Selection!Spec, Pos

-------------------------------------------------------------------------------
(* The least scrolling.                                                    *)

\* A window that fits the screen is shown from its first row.
LEMMA AtTheTop ==
    ASSUME NEW i \in Int, NEW m \in Int, NEW n \in Int, 0 <= i, i < n, n <= m
    PROVE  ScrollTop(0, i, m, n) = 0
BY DEF ScrollTop, Least, Greatest

LEMMA TopIs ==
    ASSUME NEW w, NEW lo \in Int, NEW hi \in Int, NEW s \in Int, NEW m \in Int,
           w = From(lo, hi), 1 <= s, s <= hi - lo + 1, hi - lo + 1 <= m
    PROVE  w[ScrollTop(0, s - 1, m, Len(w)) + 1] = lo
<1> DEFINE r == From(lo, hi)
<1>1. lo <= hi + 1 /\ lo <= hi
  OBVIOUS
<1>2. Len(r) = hi - lo + 1
  BY <1>1, FromIs
<1>3. r[1] = lo
  BY <1>1, FromEnds
<1>4. PICK n \in Int : n = hi - lo + 1
  OBVIOUS
<1>5. PICK i \in Int : i = s - 1
  OBVIOUS
<1>6. 0 <= i /\ i < n /\ n <= m
  BY <1>4, <1>5
<1>7. ScrollTop(0, i, m, n) = 0
  BY <1>6, AtTheTop
<1>8. w = r
  OBVIOUS
<1> HIDE DEF r
<1>9. Len(w) = n
  BY <1>2, <1>4, <1>8
<1>10. w[ScrollTop(0, i, m, n) + 1] = lo
  BY <1>3, <1>7, <1>8
<1> QED
  BY <1>5, <1>9, <1>10

LEMMA ScrollsLeast ==
    ASSUME WindowInv, [PagerNext]_pagerVars, height' = height, window # <<>>,
           Len(window) = Least(height, total)
    PROVE  TopRow' - 1 = ScrollTop(TopRow - 1, window'[sel'] - 1, height, total)
<1>1. Bounds
  BY WindowInvBounds
<1>2. PICK lo \in Int, hi \in Int, p \in Int : Window(lo, hi, p)
  BY DEF WindowInv, Empty
<1>3. hi - lo + 1 = Least(height, total)
  BY <1>1, <1>2, WindowEnds
<1>4. \E q \in Int : Moved(lo, hi, q) /\ total' = total
  <2>1. CASE UNCHANGED <<total, window, sel, exhausted_before, exhausted_after>>
    <3>1. /\ lo <= p /\ p <= hi /\ sel = p - lo + 1
          /\ exhausted_before \in BOOLEAN /\ exhausted_after \in BOOLEAN
          /\ exhausted_before => lo = 1
          /\ exhausted_after => hi = total
      BY <1>2 DEF Window
    <3> QED
      BY <1>1, <1>2, <2>1, <3>1, StaysMoves
  <2>2. CASE AnyKey /\ UNCHANGED <<total, height>>
    BY <1>1, <1>2, <2>2, KeyMoves
  <2> QED
    BY <2>1, <2>2 DEF PagerNext, Resize, pagerVars
<1>5. PICK q \in Int : Moved(lo, hi, q) /\ total' = total
  BY <1>4
<1>6. PICK l \in Int, h \in Int :
        /\ Window(l, h, q)'
        /\ h - l + 1 = Least(height, total)
        /\ l - 1 = ScrollTop(lo - 1, q - 1, height, total)
  BY <1>3, <1>5 DEF Moved
<1>7. TopRow = lo
  <2>1. PICK s \in Int, m \in Int : s = sel /\ m = height
    BY <1>1, <1>2 DEF Window, Bounds
  <2>2. window = From(lo, hi) /\ 1 <= s /\ s <= hi - lo + 1 /\ hi - lo + 1 <= m
    BY <1>1, <1>2, <1>3, <2>1 DEF Window, Bounds, Least
  <2>3. window[ScrollTop(0, s - 1, m, Len(window)) + 1] = lo
    BY <2>2, TopIs
  <2> QED
    BY <2>1, <2>3 DEF TopRow
<1>8. window' = From(l, h) /\ sel' = q - l + 1 /\ l <= q /\ q <= h
  BY <1>6 DEF Window
<1>9. TopRow' = l
  <2>1. PICK s \in Int, m \in Int : s = sel' /\ m = height
    BY <1>1, <1>8 DEF Bounds
  <2>2. PICK w : w = window'
    OBVIOUS
  <2>3. w = From(l, h) /\ 1 <= s /\ s <= h - l + 1 /\ h - l + 1 <= m
    BY <1>1, <1>6, <1>8, <2>1, <2>2 DEF Bounds, Least
  <2>4. w[ScrollTop(0, s - 1, m, Len(w)) + 1] = l
    BY <2>3, TopIs
  <2> QED
    BY <2>1, <2>2, <2>4 DEF TopRow
<1>10. window'[sel'] = q
  BY <1>8, EndsOf
<1> QED
  BY <1>6, <1>7, <1>9, <1>10

\* "... with minimal scrolling" (Pager's class comment): while the terminal keeps its
\* size and the window fills it, each key moves the top row exactly as scroll_top
\* moves a list held whole in memory, for any result and any height.
THEOREM ScrollsNoFurther == PagerSpec => MinimalScroll
<1>1. WindowInv /\ [PagerNext]_pagerVars =>
        [ (height' = height /\ window # <<>> /\ Len(window) = Least(height, total)) =>
            TopRow' - 1 = ScrollTop(TopRow - 1, window'[sel'] - 1, height, total) ]_pagerVars
  BY ScrollsLeast
<1> QED
  BY <1>1, WindowInductive, PTL DEF PagerSpec, MinimalScroll
================================================================================
