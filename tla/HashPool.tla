------------------------------ MODULE HashPool ------------------------------
(***************************************************************************)
(* hashing.hash_files: a pool of processes hashes a folder's files in      *)
(* batches, a window of at most 2 * Jobs units looks ahead, and the        *)
(* results are handed out in the order of the files.  A big file is a unit *)
(* of its own, which the caller hashes itself.  verifier._rehash_parallel  *)
(* is the same algorithm over the records of a case.                       *)
(*                                                                         *)
(* The consumer of the results is FolderIngest.                            *)
(***************************************************************************)
EXTENDS Naturals, Sequences, FiniteSetsExt

CONSTANTS
    N,          \* files of the walk, in its order
    Folders,    \* what their sizes may be: a set of [1..N -> Nat]
    Jobs,       \* worker processes
    BatchFiles, \* BATCH_FILES
    BatchBytes, \* BATCH_BYTES
    BigFile     \* BIG_FILE

ASSUME PoolAssumption ==
    /\ N \in Nat \ {0}
    /\ Folders \subseteq [1..N -> Nat]
    /\ Jobs \in Nat \ {0}
    /\ BatchFiles \in Nat \ {0}
    /\ BatchBytes \in Nat \ {0}
    /\ BigFile \in Nat \ {0}

VARIABLES
    size,   \* bytes of each file, as the walk saw them
    pos,    \* the next file the generator _units has not put into a unit
    window, \* the units looked ahead at, oldest first
    out,    \* the files of the unit last taken whose results are still to be yielded
    task,   \* what became of a batch handed to the pool, by its first file
    result, \* what a worker answered for a file
    broken  \* a worker process died (BrokenProcessPool)

poolVars == <<size, pos, window, out, task, result, broken>>

Files == 1..N
Unit == [first : Files, last : Files]
TaskStates == {"none", "queued", "running", "done", "cancelled", "lost"}

Big(f) == size[f] >= BigFile

\* The batch from file p to file q is cut here.
Full(p, q) ==
    \/ q - p + 1 >= BatchFiles
    \/ MapThenSumSet(LAMBDA f : size[f], p..q) >= BatchBytes

\* _units: p to q is the unit that starts with file p.
IsUnit(p, q) ==
    IF Big(p) THEN q = p
    ELSE /\ \A f \in p..q : ~Big(f)
         /\ \A r \in p..(q - 1) : ~Full(p, r)
         /\ q < N => Full(p, q) \/ Big(q + 1)

PoolInit ==
    /\ size \in Folders
    /\ pos = 1
    /\ window = <<>>
    /\ out = [first |-> 1, last |-> 0]
    /\ task = [f \in Files |-> "none"]
    /\ result = [f \in Files |-> "none"]
    /\ broken = FALSE

----------------------------------------------------------------------------
\* The generator, as its consumer asks for the next result.

Yielded == out.first > out.last
\* Mutant: one unit too many
CanLookAheadOneMore == Len(window) <= 2 * Jobs /\ pos <= N

CanLookAhead == Len(window) < 2 * Jobs /\ pos <= N

\* The window is filled up before a unit is taken from it; only batches are
\* submitted, and a broken pool takes none.
Fill ==
    /\ Yielded /\ CanLookAhead
    /\ broken => Big(pos)
    /\ \E q \in pos..N :
        /\ IsUnit(pos, q)
        /\ window' = Append(window, [first |-> pos, last |-> q])
        /\ pos' = q + 1
    /\ task' = IF Big(pos) THEN task ELSE [task EXCEPT ![pos] = "queued"]
    /\ UNCHANGED <<size, out, result, broken>>

Leads(state) ==
    /\ Yielded /\ ~CanLookAhead
    /\ window # <<>>
    /\ ~Big(Head(window).first)
    /\ task[Head(window).first] = state

\* Mutant: batches are yielded as they are completed
PopCompleted ==
    /\ Yielded /\ ~CanLookAhead
    /\ \E k \in DOMAIN window :
        /\ ~Big(window[k].first) /\ task[window[k].first] = "done"
        /\ out' = window[k]
        /\ window' = SubSeq(window, 1, k - 1) \o SubSeq(window, k + 1, Len(window))
    /\ UNCHANGED <<size, pos, task, result, broken>>

\* first.result() of the oldest batch: its results are yielded next.
PopBatch ==
    /\ Leads("done")
    /\ out' = Head(window)
    /\ window' = Tail(window)
    /\ UNCHANGED <<size, pos, task, result, broken>>

\* None in place of a big file's result.
PopBig ==
    /\ Yielded /\ ~CanLookAhead
    /\ window # <<>>
    /\ Big(Head(window).first)
    /\ out' = [first |-> Head(window).last + 1, last |-> Head(window).last]
    /\ window' = Tail(window)
    /\ UNCHANGED <<size, pos, task, result, broken>>

\* Mutant: a lost batch is waited for
PoolFailsAtSubmit == Yielded /\ CanLookAhead /\ broken /\ ~Big(pos)

\* submit() or result() raises BrokenProcessPool.
PoolFails ==
    \/ Leads("lost")
    \/ Yielded /\ CanLookAhead /\ broken /\ ~Big(pos)

\* The next result of the batch taken last is yielded.
YieldResult ==
    /\ ~Yielded
    /\ out' = [out EXCEPT !.first = @ + 1]
    /\ result' = [result EXCEPT ![out.first] = "none"]
    /\ UNCHANGED <<size, pos, window, task, broken>>

----------------------------------------------------------------------------
\* The pool: ProcessPoolExecutor hands batches over in the order submitted.

HandOver(u) ==
    /\ task[u] = "queued"
    /\ \A v \in Files : v < u => task[v] # "queued"
    /\ task' = [task EXCEPT ![u] = "running"]
    /\ UNCHANGED <<size, pos, window, out, result, broken>>

\* _hash_batch: one answer for each file, an error for one that cannot be read.
HashBatch(u) ==
    /\ task[u.first] = "running"
    /\ \E unread \in SUBSET (u.first..u.last) :
        result' = [f \in Files |->
                     IF f \notin u.first..u.last THEN result[f]
                     ELSE IF f \in unread THEN "error" ELSE "digest"]
    /\ task' = [task EXCEPT ![u.first] = "done"]
    /\ UNCHANGED <<size, pos, window, out, broken>>

\* A worker process is killed: every batch not answered yet is lost.
WorkerDies ==
    /\ \E f \in Files : task[f] = "running"
    /\ broken' = TRUE
    /\ task' = [f \in Files |-> IF task[f] \in {"queued", "running"} THEN "lost" ELSE task[f]]
    /\ UNCHANGED <<size, pos, window, out, result>>

\* shutdown(cancel_futures=True), which the closed generator does at once...
CancelQueued ==
    /\ task' = [f \in Files |-> IF task[f] = "queued" THEN "cancelled" ELSE task[f]]
    /\ UNCHANGED <<size, pos, window, out, result, broken>>

\* ...and wait=True: it returns when no batch is being hashed any more.
Idle == \A f \in Files : task[f] \notin {"queued", "running"}

Pool ==
    \/ \E u \in Files : HandOver(u)
    \/ \E k \in DOMAIN window : HashBatch(window[k])
    \/ WorkerDies

----------------------------------------------------------------------------
(* The look-ahead, which the properties of FolderIngest rest on.           *)

Span == [first : 1..(N + 1), last : 0..N]

PoolTypeOK ==
    /\ size \in Folders
    /\ pos \in 1..(N + 1)
    /\ window \in Seq(Unit)
    /\ out \in Span
    /\ task \in [Files -> TaskStates]
    /\ result \in [Files -> {"none", "digest", "error"}]
    /\ broken \in BOOLEAN

\* The units looked ahead at follow on one another, from the results still to
\* be yielded to the place the generator has reached.
Contiguous ==
    /\ window # <<>> => Head(window).first = out.last + 1
    /\ \A k \in DOMAIN window :
        /\ window[k].first <= window[k].last
        /\ k < Len(window) => window[k + 1].first = window[k].last + 1
        /\ k = Len(window) => window[k].last + 1 = pos
    /\ window = <<>> => pos = out.last + 1
    /\ out.first <= out.last + 1

\* They are of later and later files, and a big one is alone in its unit.
Ordered ==
    \A k \in DOMAIN window :
        /\ out.last < window[k].first
        /\ \A j \in 1..(k - 1) : window[j].last < window[k].first
        /\ window[k].last < pos
        /\ Big(window[k].first) => window[k].last = window[k].first

\* Only batches that are looked ahead at are anywhere in the pool, so no more
\* than 2 * Jobs, and every file of a finished one has its answer.
Held(f) == \E k \in DOMAIN window : window[k].first = f
Bounded ==
    /\ Len(window) <= 2 * Jobs
    /\ \A f \in Files :
        /\ task[f] \in {"queued", "running"} => Held(f)
        /\ Big(f) => task[f] = "none"
        /\ f \in out.first..out.last => result[f] # "none"
    /\ \A k \in DOMAIN window :
        task[window[k].first] = "done" =>
            \A f \in window[k].first..window[k].last : result[f] # "none"

PoolInv == Contiguous /\ Ordered /\ Bounded
=============================================================================
