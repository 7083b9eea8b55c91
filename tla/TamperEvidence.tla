---------------------------- MODULE TamperEvidence ----------------------------
(***************************************************************************)
(* What the checks of the log can see when its file changes behind the     *)
(* program's back (scripts/tamper_simulation.py, tests/test_checkpoint.py, *)
(* tests/test_verifier_anchor.py): rows of the database file edited,       *)
(* deleted, put in or exchanged, between honest appends, checkpoints and   *)
(* exports.  The chain check is HashChain.verify / verify_each; the        *)
(* checkpoint and anchor checks are verifier.py's.                         *)
(*                                                                         *)
(* `log` is the custody_log table in idx order; every change leaves rows   *)
(* that can still be read.  `written` is every row the program ever wrote. *)
(* No check can see more of a row than what is hashed of it, so two rows   *)
(* of one canonical payload are alike (AsHashed): that is the limit of     *)
(* every property here.  The RFC 6962 root is ideal: it is the sequence of *)
(* entry hashes it was built over.                                         *)
(***************************************************************************)
EXTENDS ChainRules, FiniteSets, SequencesExt

CONSTANTS MaxLog,      \* bound: events ever logged
          MaxDamage,   \* bound: changes behind the program's back
          MaxIssued    \* bound: checkpoints and anchors kept

ASSUME TamperBounds == {MaxLog, MaxDamage, MaxIssued} \subseteq Nat

VARIABLES log, written, logged, damage,
          checkpoints,   \* checkpoint.json bodies, with the rows they were made of
          anchors        \* anchor.json files, with the rows they were made of

vars == <<log, written, logged, damage, checkpoints, anchors>>

Checkpoints == [size: Nat, root: Seq(Hashes), head_hash: Hashes, rows: Seq(Entries)]
Anchors == [chain_entries: Nat, chain_head_hash: Hashes, rows: Seq(Entries)]

TypeOK ==
    /\ log \in Seq(Entries) /\ written \subseteq Entries
    /\ logged \in 0 .. MaxLog /\ damage \in 0 .. MaxDamage
    /\ checkpoints \subseteq Checkpoints /\ anchors \subseteq Anchors

Init ==
    /\ log = <<>> /\ written = {}
    /\ logged = 0 /\ damage = 0
    /\ checkpoints = {} /\ anchors = {}

EntryHashes(entries) == [i \in 1 .. Len(entries) |-> entries[i].entry_hash]

\* The table with one more row, read in the order of idx, its primary key: there
\* is none if the key is taken.
Inserted(rows, row) ==
    {InsertAt(rows, k, row) : k \in {k \in 1 .. Len(rows) + 1 :
        \A i \in 1 .. Len(rows) : IF i < k THEN rows[i].index < row.index
                                          ELSE rows[i].index > row.index}}

-------------------------------------------------------------------------------
(* The program.                                                            *)

\* log-event: load_db, add_event, save_db.  The new idx is the number of rows;
\* once the file was changed that key may be taken, or lie before the last row's.
LogEvent(payload) ==
    /\ logged < MaxLog
    /\ log' \in Inserted(log, NewEntry(log, payload))
    /\ written' = written \cup {NewEntry(log, payload)}
    /\ logged' = logged + 1
    /\ UNCHANGED <<damage, checkpoints, anchors>>

\* build_checkpoint, of the log as it is (cmd_checkpoint runs no chain check)
Checkpoint ==
    /\ log # <<>>
    /\ Cardinality(checkpoints) + Cardinality(anchors) < MaxIssued
    /\ checkpoints' = checkpoints \cup
           {[size |-> Len(log), root |-> EntryHashes(log),
             head_hash |-> LastHash(log), rows |-> log]}
    /\ UNCHANGED <<log, written, logged, damage, anchors>>

\* The anchor of cmd_export: the chain's length and head
Export ==
    /\ Cardinality(checkpoints) + Cardinality(anchors) < MaxIssued
    /\ anchors' = anchors \cup
           {[chain_entries |-> Len(log), chain_head_hash |-> LastHash(log),
             rows |-> log]}
    /\ UNCHANGED <<log, written, logged, damage, checkpoints>>

-------------------------------------------------------------------------------
(* Changes to the database file that are not the program's.                *)

\* What there is to copy from: the rows of the file and its backups
KnownRows == written \cup {log[i] : i \in 1 .. Len(log)}
KnownHashes == {GenesisHash} \cup {row.entry_hash : row \in KnownRows}
KnownSignatures == {row.signature : row \in KnownRows}

Rehashed(row) == [row EXCEPT !.entry_hash = PayloadHash(row.index, row.payload, row.prev_hash)]

\* A signature, but not the custodian's
Forged(row) == [row EXCEPT !.signature = [signer |-> "nobody", over |-> row.entry_hash]]

Rekeyed(row) == {[row EXCEPT !.index = n] : n \in 0 .. MaxLog}

\* A column changed, and the hash made to fit or not
Altered(row) ==
    LET contents == Rekeyed(row)
                      \cup {[row EXCEPT !.payload = p] : p \in Payloads}
                      \cup {[row EXCEPT !.prev_hash = h] : h \in KnownHashes}
    IN  contents \cup {Rehashed(r) : r \in contents}
          \cup {[row EXCEPT !.entry_hash = h] : h \in KnownHashes}
          \cup {[row EXCEPT !.signature = sig] : sig \in KnownSignatures}
          \cup {Forged(row)}

Deleted == {RemoveAt(log, i) : i \in 1 .. Len(log)}

EditedRow(i) == UNION {Inserted(RemoveAt(log, i), row) : row \in Altered(log[i])}

\* A row known from before, at any key, or a new one
Added ==
    UNION {Inserted(log, row) : row \in (UNION {Rekeyed(r) : r \in KnownRows})
                                          \cup {Forged(NewEntry(log, p)) : p \in Payloads}}

\* Two rows exchange all but their keys
Swapped(i, j) ==
    [log EXCEPT ![i] = [log[j] EXCEPT !.index = log[i].index],
                ![j] = [log[i] EXCEPT !.index = log[j].index]]

Damage ==
    /\ damage < MaxDamage
    /\ damage' = damage + 1
    /\ \/ log' \in Deleted
       \/ \E i \in 1 .. Len(log) : log' \in EditedRow(i)
       \/ log' \in Added
       \/ \E i, j \in 1 .. Len(log) : log' = Swapped(i, j)
    /\ UNCHANGED <<written, logged, checkpoints, anchors>>

Next ==
    \/ \E payload \in Events : LogEvent(payload)
    \/ Checkpoint
    \/ Export
    \/ Damage

Spec == Init /\ [][Next]_vars

-------------------------------------------------------------------------------
(* The checks of verifier.py against what was kept.                        *)

\* Mutant: the log must not have grown
CheckpointOfNow(c, entries) ==
    IF Len(entries) # c.size THEN "entries were removed"
    ELSE IF EntryHashes(entries) # c.root THEN "history was rewritten"
    ELSE "none"

CheckpointProblem(c, entries) ==
    IF Len(entries) < c.size THEN "entries were removed"
    ELSE IF EntryHashes(SubSeq(entries, 1, c.size)) # c.root THEN "history was rewritten"
    ELSE IF entries[c.size].entry_hash # c.head_hash THEN "head hash"
    ELSE "none"

AnchorChainProblem(a, entries) ==
    IF Len(entries) < a.chain_entries THEN "entries were removed"
    ELSE IF LastHash(SubSeq(entries, 1, a.chain_entries)) # a.chain_head_hash
      THEN "does not match the anchor"
    ELSE "none"

-------------------------------------------------------------------------------
(* Properties.                                                             *)

\* HashChain.verify and HashChain.verify_each never disagree: verify-chain takes
\* its verdict, the entry and the reason it prints from verify_each's list
\* (cli.py), as verify would give them, and the first failing entry has no
\* upstream reason.
VerifiersAgree ==
    LET v    == Verify(log)
        each == VerifyEach(log)
        bad  == {i \in DOMAIN each : each[i] # <<>>}
    IN  /\ v.ok <=> bad = {}
        /\ \A k \in bad : (\A i \in bad : k <= i) =>
             /\ v.at = log[k].index
             /\ v.reason = each[k][1]
             /\ \A n \in DOMAIN each[k] : each[k][n] # "upstream"

\* The verdicts, with the types of the state.
TamperInv == TypeOK /\ VerifiersAgree

\* Two rows no check can tell apart but by their signatures
AsHashed(row, other) ==
    /\ row.index = other.index /\ Canonical(row.payload) = Canonical(other.payload)
    /\ row.prev_hash = other.prev_hash /\ row.entry_hash = other.entry_hash

\* The row is one the program wrote, signed, and on top of the row before it
AsWritten(i) ==
    \E row \in written :
      /\ row.prev_hash = ExpectedPrev(log, i)
      /\ AsHashed(log[i], row) /\ log[i].signature = row.signature

\* What the chain check can vouch for: it passes a log if and only if each row is
\* one the program wrote, on top of the very row before it, whatever was edited,
\* deleted, put in, exchanged or put back, and whatever was logged on top of it
\* since; and it names the first row that is not.  (A log cut at its end passes.)
DamageLocated ==
    /\ Verify(log).ok <=> \A i \in 1 .. Len(log) : AsWritten(i)
    /\ ~Verify(log).ok =>
         \E k \in 1 .. Len(log) :
           /\ ~AsWritten(k) /\ \A i \in 1 .. k - 1 : AsWritten(i)
           /\ Verify(log).at = log[k].index

\* A sound log that passes a checkpoint, or an anchor, made of a sound log still
\* holds the rows it was made of, as far as they are hashed.  A checkpoint's root
\* covers the entry hashes alone and an anchor keeps a single one
\* (anchor_chain_problem's comment: it pins every entry before it); the chain
\* check covers the rest of what is hashed.
KeptCopiesPin ==
    ChainSound(log) =>
      /\ \A c \in checkpoints :
           ChainSound(c.rows) /\ CheckpointProblem(c, log) = "none" =>
             \A i \in 1 .. c.size : AsHashed(log[i], c.rows[i])
      /\ \A a \in anchors :
           ChainSound(a.rows) /\ AnchorChainProblem(a, log) = "none" =>
             \A i \in 1 .. a.chain_entries : AsHashed(log[i], a.rows[i])

\* No false alarm: a log only the program touched passes the chain check and
\* every checkpoint and anchor ever made of it, however much it has grown.
NoFalseAlarm ==
    damage = 0 =>
      /\ Verify(log).ok
      /\ \A c \in checkpoints : CheckpointProblem(c, log) = "none"
      /\ \A a \in anchors : AnchorChainProblem(a, log) = "none"
===============================================================================
