---------------------------- MODULE FolderIngest ----------------------------
(***************************************************************************)
(* add-evidence of a folder from the shell: _ingest_walked_folder runs on  *)
(* a thread behind run_with_loading's screen, hashes the files itself or   *)
(* through the pool of HashPool, writes the rows in one transaction and    *)
(* may log a batch-register event.  Esc sets a flag that the progress hook *)
(* looks at when a file starts and when a chunk of it was read.            *)
(*                                                                         *)
(* How the rows and the event get into the database beside other processes *)
(* is in EvidenceStore and CustodyLog: here a locked database is an error. *)
(***************************************************************************)
EXTENDS HashPool

CONSTANT RowBatch \* INGEST_BATCH_SIZE

ASSUME RowBatchAssumption == RowBatch \in Nat \ {0}

VARIABLES
    pooled,    \* the files are hashed through the pool
    signs,     \* a batch-register event was asked for
    pc,        \* where _ingest_walked_folder is
    i,         \* the file of the walk it is at
    rows,      \* <<member, digest>> of every file hashed so far
    open,      \* the transaction is open, with some rows in it
    stored,    \* the folder's rows in the database
    outcome,   \* how the command ends
    logged,    \* the batch-register event is in the log
    screen,    \* the loading screen: up, left by Ctrl-C, or gone with its message shown
    cancelled, \* _IngestProgress.cancelled
    shown      \* the message

ingestVars == <<pooled, signs, pc, i, rows, open, stored, outcome, logged>>
screenVars == <<screen, cancelled, shown>>
vars == <<poolVars, ingestVars, screenVars>>

Phases == {"file", "next", "hash", "flush", "close", "join", "event", "returned"}
Outcomes == {"running", "registered", "cancelled", "failed"}
Messages == {"none", "cancelled", "registered", "failed"}

Init ==
    /\ PoolInit
    /\ pooled \in BOOLEAN
    /\ signs \in BOOLEAN
    /\ pc = "file"
    /\ i = 1
    /\ rows = {}
    /\ open = FALSE
    /\ stored = {}
    /\ outcome = "running"
    /\ logged = FALSE
    /\ screen = "up"
    /\ cancelled = FALSE
    /\ shown = "none"

----------------------------------------------------------------------------
\* The command, on the worker thread.

\* An exception: the open transaction is dropped with its connection.
Raise(how) ==
    /\ outcome' = how
    /\ open' = FALSE
    /\ pc' = "close"
    /\ UNCHANGED <<pooled, signs, i, rows, stored, logged>>

\* progress(i, ...) raises IngestCancelled.
HookRaises ==
    /\ cancelled
    /\ Raise("cancelled")

\* Mutant: the hook is called after chunks only
StartFileUnasked ==
    /\ pc = "file" /\ i <= N
    /\ pc' = IF pooled THEN "next" ELSE "hash"
    /\ UNCHANGED <<pooled, signs, i, rows, open, stored, outcome, logged>>

StartFile ==
    /\ pc = "file" /\ i <= N
    /\ ~cancelled
    /\ pc' = IF pooled THEN "next" ELSE "hash"
    /\ UNCHANGED <<pooled, signs, i, rows, open, stored, outcome, logged>>

Keep(digest) ==
    /\ rows' = rows \cup {<<i, digest>>}
    /\ i' = i + 1
    /\ pc' = IF Cardinality(rows') % RowBatch = 0 THEN "flush" ELSE "file"
    /\ UNCHANGED <<pooled, signs, open, stored, outcome, logged>>

SkipFile ==
    /\ i' = i + 1
    /\ pc' = "file"
    /\ UNCHANGED <<pooled, signs, rows, open, stored, outcome, logged>>

\* next(pre): the pool's next answer is taken for the file the walk is at.
NextResult ==
    /\ pc = "next"
    /\ \/ (Fill \/ PopBatch) /\ UNCHANGED ingestVars
       \/ /\ PopBig
          /\ pc' = "hash"
          /\ UNCHANGED <<pooled, signs, i, rows, open, stored, outcome, logged>>
       \/ /\ YieldResult
          /\ IF result[out.first] = "digest" THEN Keep(out.first) ELSE SkipFile
       \/ PoolFails /\ Raise("failed") /\ UNCHANGED poolVars

\* hash_file in this thread: the hook is called after every read, the last one included.
HashOwn ==
    /\ pc = "hash"
    /\ \/ (size[i] = 0 \/ ~cancelled) /\ Keep(i)
       \/ size[i] > 0 /\ HookRaises
       \/ SkipFile
    /\ UNCHANGED poolVars

\* Another writer holds the database for longer than the timeout.
Locked == ~open /\ Raise("failed")

\* begin_folder at the first flush, then add_folder_members.
Flush ==
    /\ pc = "flush"
    /\ \/ /\ open' = TRUE
          /\ pc' = "file"
          /\ UNCHANGED <<pooled, signs, i, rows, stored, outcome, logged>>
       \/ Locked

\* finish_folder commits; with no file hashed the command exits before.
Finish ==
    /\ pc = "file" /\ i > N
    /\ \/ /\ rows # {}
          /\ stored' = rows
          /\ outcome' = "registered"
          /\ open' = FALSE
          /\ pc' = "close"
          /\ UNCHANGED <<pooled, signs, i, rows, logged>>
       \/ rows # {} /\ Locked
       \/ rows = {} /\ Raise("failed")

\* pre.close(), on every way out.
Close ==
    /\ pc = "close"
    /\ pc' = "join"
    /\ CancelQueued
    /\ UNCHANGED <<pooled, signs, i, rows, open, stored, outcome, logged>>

Join ==
    /\ pc = "join" /\ Idle
    /\ pc' = IF outcome = "registered" /\ signs THEN "event" ELSE "returned"
    /\ UNCHANGED <<poolVars, pooled, signs, i, rows, open, stored, outcome, logged>>

\* The event is a transaction of its own: it may fail when the folder is stored.
BatchRegister ==
    /\ pc = "event"
    /\ logged' \in BOOLEAN
    /\ pc' = "returned"
    /\ UNCHANGED <<poolVars, pooled, signs, i, rows, open, stored, outcome>>

Ingest ==
    \/ StartFile /\ UNCHANGED poolVars
    \/ pc = "file" /\ i <= N /\ HookRaises /\ UNCHANGED poolVars
    \/ NextResult
    \/ HashOwn
    \/ Flush /\ UNCHANGED poolVars
    \/ Finish /\ UNCHANGED poolVars
    \/ Close
    \/ Join
    \/ BatchRegister

----------------------------------------------------------------------------
\* The loading screen, on the main thread.

\* The first Esc calls progress.cancel(); the screen stays until work() returns.
Esc ==
    /\ screen = "up" /\ ~cancelled
    /\ cancelled' = TRUE
    /\ UNCHANGED <<screen, shown>>

\* Ctrl-C leaves the screen, not the work.
Interrupt ==
    /\ screen = "up"
    /\ screen' = "left"
    /\ UNCHANGED <<cancelled, shown>>

\* The thread is joined and action_add_evidence shows what became of it: a
\* folder is taken for registered by the line the command printed.
Message ==
    IF cancelled THEN "cancelled"
    ELSE IF outcome = "registered" THEN "registered" ELSE "failed"

Show ==
    /\ screen # "gone" /\ pc = "returned"
    /\ screen' = "gone"
    /\ shown' = Message
    /\ UNCHANGED cancelled

Screen == Esc \/ Interrupt \/ Show

Done == screen = "gone" /\ UNCHANGED vars

Next ==
    \/ Ingest /\ UNCHANGED screenVars
    \/ Pool /\ UNCHANGED <<ingestVars, screenVars>>
    \/ Screen /\ UNCHANGED <<poolVars, ingestVars>>
    \/ Done

\* The thread and the worker processes run; nobody has to press a key.
Fairness ==
    /\ WF_vars(Ingest /\ UNCHANGED screenVars)
    /\ WF_vars(Pool /\ UNCHANGED <<ingestVars, screenVars>>)
    /\ WF_vars(Show /\ UNCHANGED <<poolVars, ingestVars>>)

Spec == Init /\ [][Next]_vars /\ Fairness

----------------------------------------------------------------------------
(* Properties                                                              *)

TypeOK ==
    /\ PoolTypeOK
    /\ pooled \in BOOLEAN /\ signs \in BOOLEAN
    /\ pc \in Phases
    /\ i \in 1..(N + 1)
    /\ rows \subseteq Files \X Files
    /\ open \in BOOLEAN
    /\ stored \subseteq Files \X Files
    /\ outcome \in Outcomes
    /\ logged \in BOOLEAN
    /\ screen \in {"up", "left", "gone"}
    /\ cancelled \in BOOLEAN
    /\ shown \in Messages

\* The pool's results and the walk are two readings of one list: whatever the
\* cut of the batches, the file the walk is at is the one whose result comes
\* next.
InStep ==
    /\ pc = "next" => pooled
    /\ pc \in {"next", "hash"} => i <= N
    /\ outcome = "running" =>
        IF ~pooled THEN pos = 1 /\ window = <<>> /\ out.first = 1
        ELSE out.first = IF pc = "hash" THEN i + 1 ELSE i

\* When the command is over, whatever way, no worker hashes on.
Quiet == pc \in {"event", "returned"} => Idle

\* Nothing is stored but all of it, and by a command that says so.
Whole ==
    /\ outcome = "running" => stored = {}
    /\ stored # {} => stored = rows /\ outcome = "registered"
    /\ outcome = "registered" => stored # {}
    /\ pc = "event" => signs /\ stored # {}
    /\ logged => signs /\ stored # {}
    /\ outcome # "running" <=> pc \in {"close", "join", "event", "returned"}
    /\ shown # "none" => pc = "returned"

\* The invariant of an ingest: results stay beside their files, the look-ahead
\* keeps its order and its bound, and a command that has returned left no
\* worker behind and stored all or nothing (hashing.hash_files,
\* cli._ingest_walked_folder).
IngestInv == TypeOK /\ PoolInv /\ InStep /\ Quiet /\ Whole

\* An Esc pressed while a file is still to be started keeps the folder out of
\* the database for good, wherever the pool has got to (menu.IngestCancelled).
FilesToStart == outcome = "running" /\ (i < N \/ (i = N /\ pc \in {"file", "flush"}))
EscIsHeard == [](cancelled /\ FilesToStart => [](stored = {}))

\* "Cancelled: nothing was recorded." is true (menu.IngestCancelled and
\* action_add_evidence say so of every Esc).
NothingRecorded == shown = "cancelled" => stored = {}

\* Whatever the workers do and whenever Esc is pressed, the screen goes away
\* with a message: no wait for a cancelled batch, a dead worker or a full
\* window lasts for ever (hash_files, run_with_loading).
Returns == <>(screen = "gone")

\* With any number of workers and any cut into batches the ingest does what
\* hashing file after file does (hash_files: "IN INPUT ORDER").
Serial == INSTANCE SerialIngest WITH file <- i, ended <- outcome # "running"
ImplementsSerial == Serial!Spec
=============================================================================
