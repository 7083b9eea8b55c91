------------------------------ MODULE CustodyLog ------------------------------
(***************************************************************************)
(* The custody log of one case database, shared by several processes (runs *)
(* of cli.py, interactive shells).  A process loads the whole chain into a *)
(* HashChain, adds signed events to its own copy, and saves the entries    *)
(* the database does not have yet.  Nothing locks the database between the *)
(* load and the save: the PRIMARY KEY on idx is what keeps two processes   *)
(* that read the same chain from both storing an entry at the same place.  *)
(*                                                                         *)
(* `log` is the custody_log table in idx order.  For a process, `chain` is *)
(* HashChain.entries and `persisted` is HashChain._persisted.              *)
(***************************************************************************)
EXTENDS ChainRules

CONSTANTS Writers,     \* the processes
          MaxLog       \* bound: entries in a chain

ASSUME MaxLogAssumption == MaxLog \in Nat

VARIABLES log, chain, persisted, pc

vars == <<log, chain, persisted, pc>>

\* idle: no chain in memory; loaded: between load_db and a save_db;
\* saved: save_db returned; conflict: the insert broke the primary key;
\* locked: the database stayed busy beyond the timeout
Phases == {"idle", "loaded", "saved", "conflict", "locked"}

TypeOK ==
    /\ log \in Seq(Entries)
    /\ chain \in [Writers -> Seq(Entries)]
    /\ persisted \in [Writers -> Nat]
    /\ pc \in [Writers -> Phases]

Init ==
    /\ log = <<>>
    /\ chain = [w \in Writers |-> <<>>]
    /\ persisted = [w \in Writers |-> 0]
    /\ pc = [w \in Writers |-> "idle"]

-------------------------------------------------------------------------------
\* HashChain.load_db
LoadDb(w) ==
    /\ pc[w] = "idle"
    /\ chain' = [chain EXCEPT ![w] = log]
    /\ persisted' = [persisted EXCEPT ![w] = Len(log)]
    /\ pc' = [pc EXCEPT ![w] = "loaded"]
    /\ UNCHANGED log

\* HashChain.add_event: in memory only, on the copy this process loaded
AddEvent(w, payload) ==
    /\ pc[w] \in {"loaded", "saved"}
    /\ Len(chain[w]) < MaxLog
    /\ chain' = [chain EXCEPT ![w] = Append(@, NewEntry(@, payload))]
    /\ pc' = [pc EXCEPT ![w] = "loaded"]
    /\ UNCHANGED <<log, persisted>>

Unsaved(w) == SubSeq(chain[w], persisted[w] + 1, Len(chain[w]))

\* Mutant: idx is no primary key
AnyKeys(new, rows) == TRUE

\* idx INTEGER PRIMARY KEY: no new row may have the idx of a stored one
KeysFree(new, rows) ==
    \A i \in 1 .. Len(new), j \in 1 .. Len(rows) : new[i].index # rows[j].index

\* Mutant: the table is rewritten with the chain in memory
SaveWholeChain(w) ==
    /\ pc[w] = "loaded"
    /\ log' = chain[w]
    /\ persisted' = [persisted EXCEPT ![w] = Len(chain[w])]
    /\ pc' = [pc EXCEPT ![w] = "saved"]
    /\ UNCHANGED chain

\* HashChain.save_db: the unsaved entries go in as one transaction
SaveDb(w) ==
    /\ pc[w] = "loaded"
    /\ KeysFree(Unsaved(w), log)
    /\ log' = log \o Unsaved(w)
    /\ persisted' = [persisted EXCEPT ![w] = Len(chain[w])]
    /\ pc' = [pc EXCEPT ![w] = "saved"]
    /\ UNCHANGED chain

\* IntegrityError: the transaction is rolled back and _persisted stays
SaveConflict(w) ==
    /\ pc[w] = "loaded"
    /\ ~KeysFree(Unsaved(w), log)
    /\ pc' = [pc EXCEPT ![w] = "conflict"]
    /\ UNCHANGED <<log, chain, persisted>>

\* OperationalError (database is locked): some process, not always a writer of
\* the log (a folder being registered), holds the write lock for too long
SaveLocked(w) ==
    /\ pc[w] = "loaded"
    /\ pc' = [pc EXCEPT ![w] = "locked"]
    /\ UNCHANGED <<log, chain, persisted>>

\* The run ends: normally, by the exception, or by a crash at any moment.
\* The chain in memory is gone with it.
Exit(w) ==
    /\ pc[w] # "idle"
    /\ chain' = [chain EXCEPT ![w] = <<>>]
    /\ persisted' = [persisted EXCEPT ![w] = 0]
    /\ pc' = [pc EXCEPT ![w] = "idle"]
    /\ UNCHANGED log

Step(w) ==
    \/ LoadDb(w)
    \/ \E payload \in Events : AddEvent(w, payload)
    \/ SaveDb(w)
    \/ SaveConflict(w)
    \/ SaveLocked(w)
    \/ Exit(w)

Next == \E w \in Writers : Step(w)

Spec == Init /\ [][Next]_vars

-------------------------------------------------------------------------------
(* Properties.                                                             *)

\* The <<index, canonical payload>> pairs of the first n entries
History(entries, n) ==
    [i \in 1 .. n |-> <<entries[i].index, Canonical(entries[i].payload)>>]

\* The stored log verifies, whatever the interleaving of the processes: cli.py
\* verify-chain never reports tampering of a log that only save_db wrote.
LogVerifies == ChainSound(log)

\* Every entry's index is its position, so "Logged event #i" names one entry
\* for good, and last_hash commits to what is hashed of every entry before it.
HeadCommitsToHistory ==
    \A i \in 1 .. Len(log) :
        /\ log[i].index = i - 1
        /\ log[i].entry_hash = History(log, i)

\* What a run that was told its save succeeded holds in memory is in the
\* table, entry for entry: no event it reported as logged is lost or replaced.
SavedIsStored ==
    \A w \in Writers : pc[w] = "saved" =>
        /\ Len(chain[w]) <= Len(log)
        /\ \A i \in 1 .. Len(chain[w]) : log[i] = chain[w][i]

\* custody_log is append-only: no step of any process changes or drops a
\* stored entry (save_db is the only writer, and it inserts only).
AppendOnly ==
    [][ /\ Len(log') >= Len(log)
        /\ \A i \in 1 .. Len(log) : log'[i] = log[i] ]_vars

\* A save fails on the primary key only if another process committed an event
\* after this one loaded the chain: a lone writer never sees the conflict.
ConflictMeansGrowth ==
    [][ \A w \in Writers :
          (pc[w] = "loaded" /\ pc'[w] = "conflict") =>
              Len(log) > persisted[w] ]_vars

\* The log implements the abstract append-only history of events.
Abstract == INSTANCE AppendLog WITH history <- [i \in 1 .. Len(log) |-> log[i].payload]
ImplementsAppendLog == Abstract!Spec

(* The inductive invariant: every chain, stored or in memory, is a sound   *)
(* chain, and the part of a chain in memory that its process believes      *)
(* stored is a prefix of the table.                                        *)
WellChained(entries) ==
    \A i \in 1 .. Len(entries) :
        /\ entries[i].index = i - 1
        /\ entries[i].prev_hash = History(entries, i - 1)
        /\ entries[i].entry_hash = History(entries, i)
        /\ entries[i].signature = Sign(entries[i].entry_hash)

PersistedPrefix(w) ==
    /\ persisted[w] <= Len(chain[w])
    /\ persisted[w] <= Len(log)
    /\ \A i \in 1 .. persisted[w] : chain[w][i] = log[i]
    /\ pc[w] = "saved" => persisted[w] = Len(chain[w])

IInv ==
    /\ TypeOK
    /\ WellChained(log)
    /\ \A w \in Writers : WellChained(chain[w]) /\ PersistedPrefix(w)
===============================================================================
