# VCOC: a verification of the custody log, the evidence store and the shell

This directory holds TLA+ models of the program in this repository, the TLC
runs that check them on small instances, and theorems that TLAPS proves for
every value of the constants, about every one of those modules. Every safety
property that a passing run checks is proved.
`PROJECT.json` lists the components, the runs, the map from each definition to
the source lines it stands for, the hazards the properties are aimed at, and one
mutation per property that the property must catch.

Paths below are relative to the repository's root.

## 1. The system

VCOC keeps the chain of custody of digital evidence in one SQLite file. Its
parts, the state each keeps, and what makes each correct:

| Component | State | Operations | Must hold |
|---|---|---|---|
| Hash chain, `src/vcoc/hash_chain.py` | in memory: entries and how many of them are stored | `load_db`, `add_event`, `save_db`, `verify`, `verify_each` | the stored log always verifies, never loses or changes an entry, and both verifiers blame the same entry |
| Case database, `src/vcoc/db.py` | `custody_log`, `evidence`, `folders`, `user_version`, SQLite's write lock | one transaction per command; a folder's stays open over its whole ingest | folders are stored whole, under the Merkle root of their members |
| Merkle tree, `src/vcoc/merkle.py` | the builder's pending nodes | root, inclusion proof, streamed proof, root at an earlier size, consistency proof, and the verifiers | all agree with RFC 6962; no proof shows anything else |
| Checkpoints, `src/vcoc/checkpoint.py` | none | `build_checkpoint`, `consistency_proof_since` | a checkpoint pins the log it was made of |
| Commands, `cli.py` | none between runs | `log-event`, `add-evidence`, `migrate-merkle`, `merkle-proof`, `export`, `checkpoint` | whatever else runs, and wherever they stop |
| Verifier, `verifier.py` | none; shares no code with `src/` | the checks of a log, an anchor, a checkpoint, a quorum, the evidence | agrees with what the program writes |
| Witness, `witness.py` | a state file: per log, the last checkpoint cosigned | `cosign` | one history per log, whatever it is shown |
| Search screen, `interactive/evidence_search.py` | what is typed, shown, asked for; the worker's pending, running and finished query; the window of rows | typing, keys, redraws; the worker's scans | what is shown is labelled right, what is typed is answered |
| Folder ingest, `hashing.py`, `interactive/loading.py`, `menu.py` | the window of batches, the pool's futures, the rows hashed so far, the flag Esc sets | look ahead, hand out in order, flush, close, cancel | the result is that of hashing file after file; Esc is heard; the screen goes away |
| Verification screen, `interactive/verification_screen.py` | generation and result of a background load; the tab, its category and the row selected | start, supersede, publish; the keys | only the newest check is shown, with one of its rows selected |
| Header, `interactive/status.py` | none: it compares what is remembered with counts | record a check, judge it by cheap counts | "ALL GREEN", "CLEAN" and "SHORTENED" are true |
| Remembered results, `interactive/config.py` | `shell_config.json` and each shell's copy of it | load, save, remember under a lock | no mark is lost but to a shell that had not seen it, or where two saves cross |

How they interact: every command is a process of its own that opens the
database; nothing but SQLite's locks, the primary key on `custody_log.idx` and
the `user_version` coordinates them. The shell calls the same functions, and
runs three kinds of threads: the search worker, the background loads and the
commands behind a loading screen; hashing has a pool of processes besides.
Witnesses and the verifier see only files.

What is hard here: processes that read, decide and write in separate
transactions (log, migration, proof, export, the witness's state file); a
transaction that stays open while a folder of thousands of files is hashed;
crashes between two commits; verdicts computed over minutes from a database
that changes; interrupts and answers that cross between two threads; results
that must come back in order from a pool whose workers may die; a file that
several shells hold copies of and write whole, by way of one temporary file; and arithmetic on tree shapes that the code does in four different ways.

## 2. The modules

| Module | Models | Extended or instantiated by |
|---|---|---|
| `ChainRules` | an entry, `add_event`, `verify`, `verify_each` | `CustodyLog`, `TamperEvidence` |
| `AppendLog` | what the log promises: one history that only grows | `CustodyLog` (refinement) |
| `CustodyLog` | several processes that load, extend and save the log | `LogProofs` |
| `TamperEvidence` | changes behind the program's back, checkpoints, anchors | `TamperEvidenceProofs` |
| `WitnessedLog` | witnesses, their state files, the verifier's quorum | `LogProofs` |
| `MerkleTree` | the algorithms, as operators | `MerkleBuilder`, `EvidenceStore` |
| `MerkleBuilder` | the streaming builder, and RFC 6962's definition as reference | `MerkleProofs` |
| `EvidenceStore` | registering files and folders, migration | `StoreReports` |
| `StoreReports` | `merkle-proof`, `export`, and the verifier's recomputation | `StoreReportsProofs` (with `MerkleProofs`) |
| `EvidenceSearch` | the search box and its worker thread | `SearchScreenProofs` |
| `Pager` | the window over the search result | `SearchScreenProofs` |
| `AbsoluteSelection` | what the window promises: one selection over the whole result | `Pager` (refinement) |
| `EvidenceCheck` | the evidence tab's background check and its line in the header | `VerificationTabs` |
| `VerificationTabs` | the verification screen's keys around those checks | `VerificationTabsProofs` |
| `HashPool` | `hash_files`: batches, pool, look-ahead | `FolderIngest` |
| `SerialIngest` | what registering a folder promises: file after file, all or nothing | `FolderIngest` (refinement) |
| `FolderIngest` | `add-evidence` of a folder behind its loading screen, with Esc and Ctrl-C | `FolderIngestProofs` |
| `ShellRecords` | several shells, their remembered checks and the header's chain and witness lines | `ShellRecordsProofs` |

`MC*` modules give the constants their values for TLC.

### How state and actions correspond to the code

**ChainRules, CustodyLog.** SHA-256 is ideal: a hash *is* the sequence of index
and canonical payload of every entry it commits to. The canonical payload is
`Canonical`, and it is not injective: for an entry of one item the texts are
joined with `|` unescaped (`models.py:37`), so that a bar may belong to either
neighbour; `case_number`, `tag` and `notes` of such a row, and `evidence_id` of a
row of several items, are stored and not hashed (`db.py:130`); and in a row of
several items an absent note hashes as an empty one (`models.py:56`). A text is
therefore the sequence of its pieces between bars; `notes` stands for the three
columns that are treated alike, and the timestamp, one more text between bars, is
left out. `Events` are the rows that `add_event` makes, `Payloads` all there are.
`log` is the table in `idx` order; `chain[w]` and `persisted[w]` are
`HashChain.entries` and `_persisted` of process `w`. `LoadDb`, `AddEvent` and
`SaveDb` are the methods; `SaveConflict` is the primary key refusing an index
somebody else has taken (the whole transaction rolls back, `_persisted` stays),
`SaveLocked` the busy timeout, `Exit` the end of a process at any moment.

**TamperEvidence.** `LogEvent`, `Checkpoint` and `Export` are the program;
`Damage` is what `scripts/tamper_simulation.py`, the tests, or anybody else who
can write the file do to the table: delete a row, edit any column of it (its key,
payload, previous hash, hash or signature, the hash made to fit or not), put
in a row known from before or a new one, or exchange two. What is there to copy from is
`KnownRows`; nobody but the program signs as the custodian. A row is stored at
the place of its key (`ORDER BY idx`, `db.py:177`): after a deletion the next event
may get a key below the last row's. Rows that no longer parse are left out.
`written` is every row the program ever wrote. Two rows of one canonical payload
are alike to every check (`AsHashed`), and the properties say no more than that.
`CheckpointProblem` and `AnchorChainProblem` are verifier.py's.

**WitnessedLog.** One cosign run is `Accept` or `Refuse` (read the inputs and
the state, decide), `SaveState`, `WriteOut`; `Stop` between any two. The
custodian may present any history, file, proof and key. A consistency proof
carries the tree it was made from, and passes exactly when both roots are roots
of that tree; that the algorithm does this is what `MerkleBuilder` checks and
`ConsistencySound` and `ConsistencyComplete` prove. A custodian may also claim
another size than the tree's (a root does not encode it): `Histories` are what a
root opens to as a tree of the size claimed, and some leaves of such a history are
the hash of no entry.

**MerkleTree, MerkleBuilder.** A node is the term it was hashed from. The
functions follow the code's shapes: levels with a lone node moving up, proofs by
index shifts, the stream's first level folded over the items, the bit tricks of
`verify_consistency`. `MTH` is the definition of RFC 6962, section 2.1.

**EvidenceStore.** Ids are tuples (a folder's member is its folder's id and a
number). A folder's registration is `StartFolder`, `HashMember` or `SkipMember`
per file, `AddFolderMembers` per batch (the first one opens the transaction and
takes the write lock), `FinishFolder` (the commit), `BatchRegister` (the event,
a second transaction). `MigrateMerkle`, `ConvertFolder`, `CommitRoots` are the
reads and the write of `migrate-merkle`. `Stop` ends any of them anywhere and
rolls back. The initial state is a new database or one of schema version 1 with
a folder under the old root rule.

**StoreReports.** Each SELECT of `merkle-proof` and `export` is a step, and
commits of the store fall between them. `LeavesFound` and `LoggedFound` are the
two lookups of verifier.py that join the files of an export; the grouping of
the SELECT (`GroupIds`, `GroupLeaves`) is the only one that is modelled in full.
`Provable` says what a proof needs in order to verify: of a member, that by
the rules of version 2 its row and its folder's root held when the members were
read, that the folder was not registered again since, and that there is another
group; of a single file, that it was not written again and no folder has its id
(section 6).

**EvidenceSearch.** `Sync` is `SearchState._sync`, atomic on the screen's
thread: `UpToDate`, `Narrow`, `ReadFirstPage`, `Request` and `AlreadyAsked` are
its five ways out. `Take`, `ScanEnds`, `ScanInterrupted`, `Update` and `Exit`
are the worker's loop between its lock regions. An interrupt may come too late
and hit the next scan. The table is taken as fixed while the screen is open, so a
window is the query it answers.

**Pager.** Rows are their positions in the sorted result, `window` is
`Pager.rows`; `Forward` and
`Backward` are the keyset queries. One action per key, with one disjunct per
branch of the code.

**EvidenceCheck.** Load `l` is the thread of the `l`-th start. `Begin` to
`Record` are `_run_evidence_check`, `Publish` and `Drop` the end of
`_BackgroundLoad.run`. Register, log and alter are the outside. `FilesStatus` is
the header's verdict, `Fetched` what the tab reads again to draw a row.

**VerificationTabs.** The loop of `_run_sidebar_detail_app` on the screen's
thread: `Switch`, `Refresh` (Ctrl-R, whose `results.pop` and `start` are two
steps, with `StartLoad` the second), `Move`, `NextView`, `Leave`. The other two
tabs are one. `overtaken` remembers that a load was published between the two
steps of Ctrl-R.

**HashPool, FolderIngest, SerialIngest.** A file is its place in the walk, its
digest is the file itself. `window` is the deque of `hash_files`, `pos` the place
of the generator `_units`, `task` the futures (named by their batch's first
file), `result` what a worker answered; `Fill`, `PopCompleted`, `PopBatch`,
`PopBig`, `YieldResult` are the generator, `HandOver`, `HashBatch`, `WorkerDies`
the executor (external), `CancelQueued` is `shutdown(cancel_futures=True)`. In
`FolderIngest`, `StartFile` to `Finish` are the loop of `_ingest_walked_folder`,
`Close` and `Join` its way out (the generator's `finally`, which waits for the
batches that run), `BatchRegister` the event; `Esc`, `Interrupt` and `Show` are
the loading screen. A locked database is an error here: how the rows get in
beside other processes is `EvidenceStore`'s.

**ShellRecords.** An entry is a number no other entry ever had, which stands for
its hash. `file` is `shell_config.json`, `temp` the one `shell_config.json.tmp` of
all shells, `config[s]` the copy of shell `s`; `Empty` is a file opened and not
written yet, `Torn` one with a longer text of another writer behind the shorter one.
`LoadEntries`, `RecordChainCheck` and `RecordWitnessCheck` are the two reads of a
check; `fine` is what `verify_each` says of the entries loaded, whatever is edited
later. `Remember` is the half of `_remember` under the lock, which is a lock of one
shell's threads (`saving[s]`); `OpenTemp`, `WriteTemp`, `Replace` and `SaveFails`
are `_save_atomic`, with `step[s]` for how far it is and where the file it has open
is by now: `os.replace` of one shell moves the file another has open (`"file"`),
and the next one takes it away altogether (`"gone"`). `OpenFile` and `WriteFile`
are `save_config`, which takes no lock, so that any number may be at it. `Stop` ends a
shell between any two. `kept` is the record the file had when it could last
be parsed, `behind` the shells whose copy is another; they and the entries a
check saw are only for the properties. `ChainState`, `Removed` and
`WitnessState` are the header.

## 3. The runs

Bounds are named in the cfg files. "States" are distinct states.

| Run | Instance | States | Shows |
|---|---|---|---|
| `custody_log` | 2 processes, 2 payloads, 3 entries | 14 thousand | the inductive invariant, the log's promises, refinement of `AppendLog`, in every interleaving |
| `tamper_evidence` | 3 events of 2 payloads with look-alikes, 2 changes of any kind, 1 checkpoint or anchor | 823 thousand | a log passes exactly if each row is, as far as it is hashed, one that was written, and the first other one is located; kept copies pin what is hashed; no false alarm |
| `witness` | 3 witnesses, quorum 2, a fork and a growth, 4 files | 66 thousand (up to symmetry) | one history per witness that runs one `cosign` at a time (section 6), none of two contradicting logs accepted |
| `merkle` | all lists of up to 9 leaves over 2 digests | 1,023 | all tree algorithms are RFC 6962's |
| `store` | 2 writers, 1 reader, 3 commands, a folder of up to 2 files in batches of 1, a file beside it or under the folder's id | 752 thousand (up to symmetry) | folders whole, roots right, proofs of what nobody touched verify, the files of an export hold together |
| `search` | 5 queries, all editing, 1 refresh | 67 thousand | right labels, no key before its answer; a text left standing is answered, unless it is the one last asked for and its answer is gone (section 6) |
| `pager` | results of 0 to 17 rows, heights 5, 6, 8 | 7 thousand | refinement of `AbsoluteSelection`, least scrolling |
| `evidence_check` | 2 loads, 2 files (one not on disk), 2 outside changes, 2 categories | 225 thousand | ALL GREEN is true, the newest check is shown with one of its rows selected, threads stop |
| `folder_ingest` | 6 files of four kinds of sizes, 2 workers, batches of 2 | 219 thousand | refinement of `SerialIngest`, Esc is heard, the screen goes away |
| `shell_records` | 2 shells, 3 entries (2 where saves cross), 1 evidence row, at most one trouble: a cut, an edit, or a new database | 1.4 million (up to symmetry) | the header tells the truth, a cut stays seen, marks are lost to a shell that had not seen them, a torn `save_config`, or saves that cross |
| `report_one_folder`, `ingest_cancel` | | | two places where the code and its words part (section 6) |

Why the bounds are enough. Two processes are what any conflict between a load
and a save needs, and a third entry lets one process grow the log twice under
the other. Two tamperings let the second hide, repair or undo the first, and the
third event is logged on top of either; each payload has one that hashes alike,
and the one checkpoint or anchor is kept at any moment. A quorum of two of
three with four files is the least in which two contradicting checkpoints could
both be cosigned by a quorum. Nine leaves are one more than a power of two, so
that a lone node climbs through every level, and every pair of sizes below is
tried. Three commands on the store are a folder, a file beside it and a change
while a report is read; the old database counts as one more registration. The
search queries contain one with too many matches to hold, one that just fills the window, and
two that narrow or need a scan. Seventeen rows are two of the largest pages and
one row. Two loads are one that is superseded and one that does it; the two
categories list all rows and a proper part of them. Six files in batches of two
fill a window of `2 * Jobs` and leave two files outside it; the sizes cut batches by
number only, by bytes only, and by big files first, last, alone between two
batches and twice in a row. Two shells are one that writes and one that did not
see it; three entries let a log be cut and checked, or grow between the two
reads of a check. In one behaviour of `shell_records` all checks are of one kind
and the log meets one trouble: the records of the two kinds are separate
keys, and what two troubles together do is in section 6. Saves of two shells cross (`Meeting`) where
the log only grows; with any trouble one shell waits while the other has a
file open. The theorems are for any `Troubles` and `Meeting`, with the hypotheses of
section 5.

The `witness` run takes one log, because the steps of a run touch one entry of
the state file; the theorems of section 5 are for any number. `CHECK_DEADLOCK
FALSE` stands where the system really ends: all commands run, all loads
started, the screen closed, all leaves fed, all entries logged. `folder_ingest`
checks for deadlock: its one way to end is the screen gone (`Done`).

### Fairness

`EvidenceSearch` assumes that the worker thread runs and its scans end (an
interrupted or failed scan ends, too), that a redraw that was asked for happens
(`invalidate` schedules one on the event loop), that `wait_idle` returns once
the worker is idle, and that a key's handler returns. Nothing is assumed of the
user, who may type for ever; hence `EventuallyAnswered` speaks of a text that
is left standing, and it excepts one: the text that was asked for last, whose
answer was taken while another text stood (`AnswerIsGone`). The code never asks for
it again, see section 6. `EvidenceCheck` assumes that a started thread runs; a user
need never leave, and files need never change; and that the second step of
Ctrl-R follows the first, which is the same call. `FolderIngest` assumes that
the command's thread runs, that the loading screen notices its end (`Show`), and
that the pool goes on: a batch that was handed to it ends, in results or in a worker's
death. Pressing Esc or Ctrl-C is assumed of nobody. All other modules are checked
for safety only and assume no fairness: a command may stop anywhere.

## 4. Properties in one paragraph each

Every module's type invariant is a conjunct of one named invariant with the
module's simplest promises, for example `SearchInv` or `ScreenInv`.

* **The log.** `LogVerifies`, `SavedIsStored`, `ConflictMeansGrowth`,
  `ImplementsAppendLog`: without any lock between load and save, the primary
  key alone keeps the table a verified chain, what was reported as logged stays
  logged, and a lone writer never meets the conflict.
* **Tampering.** `DamageLocated` says what the chain check can vouch for: it
  passes a log if and only if each row is one that was written, signed and on
  top of that very row, whatever was edited, deleted, put in or exchanged, also
  when events were logged on top; and it names the first row that is not.
  `TamperInv` that `verify` and `verify_each` agree on it. `KeptCopiesPin` says that
  checkpoint or anchor plus chain check pin everything of the rows that is
  hashed; `NoFalseAlarm` that honest growth passes. What is not hashed, and where a
  bar belongs, nothing pins (section 6). verifier.py has a copy of these checks
  of its own, which is not modelled apart.
* **Witnesses.** `OneHistory`, `StateCoversCosigned`, `RetryAccepted` across
  crashes and repeats; `AcceptedLogsAgree` for the verifier's quorum.
* **Store.** `ReportsInv` (folders are whole) and `RootsHold` under stops and
  interleavings; for the readers `ProofVerifiesAmongGroups`, and
  `ExportHoldsTogether`: in the files of one export every group has a leaf and
  every logged folder is there, though each is read by itself, because the log is read
  first, the folders last, and no folder ever goes.
  `RootsHold` excludes a folder one of whose members was registered again on
  its own: the code does not recompute the root then.
* **Search.** `WindowIsHonest`, `SearchInv` (only the newest answer is handed
  out), `KeysWaitForTheAnswer`, `EventuallyAnswered` (both but for an answer that is gone); `PagerInv` (an end that is
  remembered is one), `ImplementsSelection`, `MinimalScroll`.
* **Verification screen.** `CleanIsTrue` for a database that others add to and
  alter during the check; `ScreenInv`: the newest check is shown, and the row
  selected is one of its rows whatever keys were pressed while it loaded;
  `RowsKeepTheirVerdict`, `Answered`, `SupersededStops`.
* **Folder ingest.** `ImplementsSerial`: however the batches are cut and whoever
  hashes them, each file is recorded under its own digest, and the folder is
  stored whole or not at all. `IngestInv`: the window is one contiguous stretch
  of the walk, holds no more than its bound, and no worker outlives the command.
  `EscIsHeard`: an Esc while a file is still to be started keeps the folder out
  for good. `Returns`: no cancelled batch, dead worker or error leaves the
  loading screen up.
* **Remembered results.** `RecordsInv`: CLEAN is said of exactly the entries a
  check found sound, a witness line claims no entry that was not cosigned, and no
  header says SHORTENED or missing of a log that was not cut (but see section 6 for
  a new database). `CutStaysSeen`: while the database stays as it is,
  nothing a shell does takes back that its header says SHORTENED.
  `RememberedStays`: as long as no save is overtaken by one of another shell on the
  temporary file, a mark is lost from the file only to a `save_config` that was
  stopped half way, or to a shell that had not seen it; and only another shell that
  saves at the same time can overtake.

## 5. The proofs

`LogProofs` proves for any set of processes, any payloads and any bound
on the chain's length that `IInv` is an invariant, and from it every safety
property of `custody_log`, the append-only property and the refinement of
`AppendLog`. `LogVerifies` alone is not inductive: a save appends entries made
long before, from a copy of the log. `IInv` therefore says that *every* chain,
stored or in memory, is well formed (index, previous hash, hash, signature as
`add_event` makes them), and that what a process takes for stored really is a
prefix of the table. The heart is `SaveStoresChain`: if the keys of the unsaved
entries are free, the table is exactly the prefix the process loaded, so that
appending the rest gives its chain. `AddKeepsChain` is the same for `add_event`.
The only assumption is `MaxLogAssumption`.

Of the witnesses the same module proves `OneHistory`, `StateCoversCosigned`,
`RetryAccepted`, `RememberedOnlyGrows` and, for intersecting quorums,
`AcceptedLogsAgree`, for any logs, histories, witnesses and proofs, under
`SerialRuns`: two runs of one witness do not overlap. `witness.py` does not see to
that, it takes no lock (section 6 has what happens then); all four properties need
it, and so says each theorem. `HeadAlwaysCommits` says what a stored hash commits to: the
index and canonical payload of every entry up to it, no more. The invariant adds to
`StateCoversCosigned` what a run in flight knows: the state it loaded is the one
in the file, and what it is about to save extends that. `QuorumProtects` takes a
witness both quorums share (by counting), and that witness's one history decides.
It assumes what the modules' named assumptions say: histories are finite
sequences, each run has an owner, `None` is no value of the model.
`QuorumProtects` also takes the set of witnesses to be finite and `Quorum` to be
a natural number.

`FolderIngestProofs` proves `IngestInv`, the refinement of `SerialIngest` and
`EscIsHeard`, for any number of files, any sizes, workers and batch limits. The
argument: the results still to be yielded, the units in the window and the
generator's place are one contiguous stretch of the walk (`Contiguous`), cut at
big files (`Ordered`), and each waiting unit's batch is in the pool (`Bounded`).
So the unit that is taken begins where the last one ended, and the result that
is yielded is that of the file the loop is at (`InStep`): `rows` never pairs a
file with another's digest, which is the refinement. For `EscIsHeard` the proof
carries `Hopeless`: the flag is set and a file is still to be started, or the command is over
with nothing stored; no step leaves it. The assumptions are the
modules' own: the bounds are positive numbers.

`ShellRecordsProofs` proves `RecordsInv` for any number of shells and entries,
under `OneTrouble` (a behaviour does not both cut the log and start the database
over, and no database is started over under a running check), and `CutStaysSeen` with no
assumption but the modules'. `HeaderIsHonest` speaks of the copy a shell holds, and
that copy may come from the file, which any shell wrote at any time; so the
invariant is `CopiesAreSound`: *every* copy of a record, in the file, in the temporary
file, in a shell, or on its way from a shell into either, names the
log it was made of by the hash of its first entry, and begins that log for as long
as it is not cut. Steps of a shell then only move sound copies, and the two
that make a record make a sound one (`SoundShell`); the log's growth and its
beginning anew keep them sound, because a new log's first entry is one no
record names (`SoundWorld`). That saves cross does no harm here: whatever file is
put in place holds sound copies, or nothing that can be read. `NoneAssumption` says
that None is no record, save, write or content, and that `Empty` and `Torn` are
no content either.

`RememberedStays` is proved there too, for logs that are cut any number of times.
The file can only lose what the shell that writes it does not have, so the
invariant `FileFollowed` compares copies: what a shell dumps or writes is its own
copy, as far as the mark goes (`SavesAreCopies`), a file that can be read has the
record `kept`, and the record of a running shell that is not `behind` follows it
(`Follows`): of the log that the file's record names, its mark is no lower. A record
made by a check keeps the mark of the log there is (`NewRecordFollows`), and no record
names a log that is still to begin (`Numbered`). A save that is not `Overtaken` then
puts the shell's own copy in the file's place (`WhatTheFileKeeps`), and a save becomes
overtaken by a step of another shell's save only (`WhoOvertakes`). There is no
hypothesis on the number of shells or on how many of them save at once; that the
saves which are overtaken take no step is the premise of the property itself, and
section 6 has what happens when they do. The attempt showed that an earlier form of `RememberedStays` was false: a mark
recorded when the log was empty has no first hash, and a lower one may take its
place once there is a log again. That takes a cut and a new database in one
behaviour, which the run does not have; `RememberedStays` now speaks of marks
with a first hash.

`TamperEvidenceProofs` proves the four invariants of `tamper_evidence` for any
payloads and any number of events, changes, checkpoints and anchors. The
inductive invariant is `LogInv`: every row the program ever wrote has the hash of
its contents and the custodian's signature over it (`WrittenSound`), and a row of the
table carries a signature of the custodian only over the hash of a row that
was written (`Genuine`). So a row that checks out has the hash of a written row; a
hash is that of one index, canonical payload and previous hash only
(`HashInjective`); hence it is that row, as far as it is hashed
(`SameHashSameRow`, `SoundIsWritten`), and that is `DamageLocated`. A sound log that
holds a kept hash holds the kept rows from that hash down, because each row's
previous hash is the next kept one (`RootPins`, `HeadPins`), which is `KeptCopiesPin`
(what was kept never changes: `KeptInv`). Nothing is an induction on the log: a least row
that differs exists because the naturals are well founded (`LeastOf`).

`MerkleProofs` proves the tree and its proofs for lists of any length. The
provers see no value of a recursive function, so each one has a lemma that some function
satisfies its equation and one that its values therefore do; every induction is a
least counterexample, which exists because the naturals are well founded (`LeastOf`).
A level above is shorter, so the levels end in one node (`TreeIs`). Climbing from a
leaf, the proof so far computes the node that was reached, at last the root
(`ClimbsAlong`), and it computes that of one leaf only (`ComputedApart`); this is
`ProofsVerify`. The stream has, after so many items, hashed their pairs and
remembered the first item with the key and its sibling (`ReadHashes`, `ReadSees`);
at the end it holds the second level of the tree, over which the rest of the tree is a
tree of its own (`ProofFromFirst`); this is `StreamFinds`. `ProofsAlwaysExact` is the
property of the run for any number of leaves and any digests.

The last part of `MerkleProofs` is `BuilderInv`, for any number of leaves.
`Hash(d, lo, hi)` is RFC 6962's hash of a part of a list, and `HashJoins` puts two
parts together where the RFC splits. A level of the tree holds the hashes of
blocks of one power of two (`LevelsCover`), so the root is the hash of the list.
The set bits of a number cut a list into blocks; `Edge(c, k)` is where those of
the bits below `k` begin, and folding bit after bit carries the hash of what is to
the right of it (`CarryOn`), in `root_at` over the tree's nodes (`BlockIsNode`) and
in the builder over its own. That these are there is the invariant `Pending`: one
for each set bit, over that bit's block. A new leaf turns the low ones of the
number of leaves into zeros and the zero before them into a one (`OneMore`); the
code's loop passes exactly the nodes of these ones, and what it has reached is the
hash of their leaves and the new one (`NodesAlong`).

`MerkleProofs` ends with consistency proofs, from both sides. The verifier climbs
the levels of two trees at once, from the last old leaf `b`. On level `h` it has two
hashes, and two nodes stand there over that leaf: `New` over a whole block, as far
as the new tree reaches, and `Old` over the block's leaves up to `b`. A hash of the proof either stands to the left of
both nodes and goes into both hashes (`LeftHashes`), passing the levels on which nothing
stands beside them, or to the right, and goes into the new one only (`RightHashes`).

`ConsistencySound` takes any hashes, honest or not. A step that ends at the new
tree's node can only have come from the new tree's node below, and then its old hash
is the old tree's if it was before (`StepKeeps`); at the start the two nodes are one
(`StartHashes`). So a climb that ends at the new tree's root, with no level left
(`AtTheTop`), has the old tree's root as its other hash. `ConsistencyComplete` is for
the proof that `consistency_proof` makes. Every part of the tree that it descends
into is the node of some level over `b` (`Piece`); half of it is the next, and the
other half is a node of the tree, beside it (`PieceOnLeft`, `PieceOnRight`). By the size
of the part, the proof made of it leads the climb from the first node both trees share
to the node over the part (`ProofArrives`), at last to the root.
`ConsistencyAlwaysExact` is the property of the run, from both.

`StoreReportsProofs` proves `ReportsInv`, `RootsHold`, `ExportHoldsTogether`
and `ProofVerifiesAmongGroups` for any processes, folders, files and batch sizes. That
folders are whole is not inductive without what a running registration has
gathered: the members in its transaction are the first files it hashed, in the
order in which the builder was fed, and the others wait in its batch
(`Gathered`); the lock is held from the first batch on (`Held`). `WholeInv` says
that. `RootsInv` adds that a stored root is the root of its members' rows
(`RootsStored`) and that what a migration read before its transaction is still
true when it commits (`Reads`). The second needs `OneMigrator`: at most one
process migrates; section 6 shows what two can do. Only `RootsHold`
and `ProofVerifiesAmongGroups` take that hypothesis. For `ExportHoldsTogether`,
`ReadersInv` says of each file read so far what it names that the folders' table
already has (`ExportFields`, `RowsFound`); the folders are read last, and no step takes
one away.
`ProversInv` follows a `merkle-proof` through its three reads: what was read of the
member is a proof to the root its folder had then (`ProofsVerify` and
`StreamFinds` with `RootsStored`), and the group found among the groups has that
root as its leaf (`GroupFound`), so that the two hops meet. The theorem needed
`Provable` to say when the folder's root must hold. An earlier form asked it of the
moment the groups are read, which four commands refute: a root that did not hold when
the members were read may hold again by then. With the form above TLC finds no error among the
10.2 million states of four commands, and the theorem is for any number.

`SearchScreenProofs` proves `SearchInv`, `WindowIsHonest` and
`KeysWaitForTheAnswer` for any queries and any number of refreshes. `SearchIInv`
adds where a request that is not answered yet must be: it waits, or it is
scanned with nothing newer waiting, or its answer is held out (`InFlight`), and a
key that settles waits for what is typed (`Waiting`). So when `wait_idle`
returns, the answer is there, however late an interrupt came.

It also proves the pager's `PagerInv`, `MinimalScroll` and the refinement of
`AbsoluteSelection`, for any result and any heights. `WindowInv` says that the
window is a gapless piece of the result, not empty unless the result is, and
that an end remembered as exhausted is one. Every key but Home and End then
moves the window by some number of rows and selects a row of it (`Moved`), and
the place in the whole result is the window's first row plus the row selected:
that sum moves as `AbsoluteSelection` says, and `scroll_top` applied to it gives
the window's first row again.

`VerificationTabsProofs` proves `ScreenInv`, `CleanIsTrue` and
`RowsKeepTheirVerdict` for any files, page, block and window sizes, loads and
keys. A load counts the evidence first and reads the pages after. The files it
counted are all among those it has read or has still ahead (`Ahead`), so at its
end the record's count is at most the number of its results; when the header is
green, no more files are registered than that, and the results, one per file, are
of all of them: two finite sets of one size. `Generations` says that only the
newest load can be published, `Shown` that a result in place while another loads
has overtaken Ctrl-R. `ORDER BY id` is a choice by rank, and `RisingIsTheOrder`
says that a rising sequence is the order of its elements. The sets of ids are
finite sets of naturals (`EvidenceCheckAssumption`).

The theorems assume nothing but the modules' named assumptions on the constants
and, where it is said above, `SerialRuns`, `OneTrouble`, `OneMigrator` and
intersecting (finite) quorums.
The ideal hash is part of the models, not an assumption of the theorems: what
is proved is that the program needs nothing else of SHA-256 and ECDSA than that
different hashed histories (index and canonical payload of each entry) have different
hashes and that only the key's owner signs.

Only model-checked: liveness (`Answered`, `SupersededStops`, `EventuallyAnswered`,
`Returns`), which is out of the prover's reach.

Their mutants, and those of every property above, are in `PROJECT.json`.

## 6. Where the code and its words part

Runs that TLC refutes, each with the sentence it contradicts (`findings` in
`PROJECT.json`):

* `report_one_folder`: if one folder is all the evidence there is, the proof
  `merkle-proof` writes does not verify: an empty `folder_proof` is taken as
  "the folder's root is the main root", but the main root is the leaf hash of it.
* `ingest_cancel`: an Esc after the last call of the progress hook stops
  nothing; the folder is stored, and the screen says "Cancelled: nothing was
  recorded." (`menu.py:249`). `EscIsHeard` is the part that holds.

TLC shows these too, with the change of a run that is named; they have no run of
their own:

* Two overlapping `cosign` runs of one witness both read the state file before
  either replaces it, and the witness vouches for two forks (`witness.py:150`;
  line 5 says it refuses). In `witness`: `Owner <- AllOfOneWitness` breaks
  `OneHistory`.
* `migrate-merkle` compares roots it read before it took the write lock; after
  another migration and a registration in between it replaces a root it never
  checked (`db.py:103`, against `README.md:238`), by one computed from members that
  are no longer stored.
  In `store`: `Migrators = {c1, c2}` breaks `RootsHold`.
* The answer to a text that is dropped while another text stands is not asked
  for again when the first text comes back, and Enter acts on rows of another
  query (`evidence_search.py:386`, against `:455`). In `search`:
  `KeysActOnWhatWasTyped` is violated; `KeysWaitForTheAnswer` shows that this, and a
  wait of a minute, are the only ways. It is also the one text that is left standing
  and never answered: type a text, erase it once it is answered, type it again.
  `EventuallyAnswered` without `AnswerIsGone` is violated by it.
* A database that is started over while a check of it runs: the check records
  the old log's count with the new log's first hash (`status.py:154` reads the
  counts again), and once the new log has as many events the header says CLEAN
  of entries nobody checked (`README.md:91`). In `shell_records`: one shell,
  `MaxEntries = 2`, `Troubles <- MCRestart`, `StartsOverAnytime = TRUE` break
  `CleanMeansChecked`.
* Ctrl-R on the evidence tab removes the old result before the new load
  supersedes a running one, which may publish in between
  (`verification_screen.py:660`). The tab then lists rows while it loads
  (`NoneWhileLoading` is violated in `evidence_check`), and a row selected among
  them that the newer result does not have is an IndexError in `render_detail`
  (`:688`). `ScreenInv` holds wherever that did not happen.

* `_save_atomic` writes "so a crash never leaves a half-written config"
  (`config.py:27`), but all shells write the same `shell_config.json.tmp`
  (`config.py:29`), and the lock is one of threads. One shell has written it, another opens
  and so empties it, the first replaces the file by it: `shell_config.json` is empty, and
  if the second is killed there every mark is lost. In `shell_records`:
  `RememberedStays` without its premise on overtaken saves is violated by this.

Met while reading and modelling:

* In an entry of one item, the usual kind, a `|` may be moved between `evidence_id`,
  `actor`, `action` and `timestamp`, and hash and signature still hold
  (`models.py:37`); `tests/test_models.py:160` says that this "must never happen",
  of entries of several items. `case_number`, `tag` and `notes` put into the row of such
  an entry are not hashed either (`db.py:130`). In `tamper_evidence` such rows are
  alike (`AsHashed`).
* `merkle-proof` writes a proof for a single file that was registered under the id of
  a folder (`cli.py:431`), and it does not verify: the group's leaf is the folder's
  root, the proof's the file's digest (`db.py:219`). `Provable` excludes it.
* A new database that has evidence and no event yet shows SHORTENED for the
  case before it: `removed_events` excuses an empty log only if there is no
  evidence either (`status.py:94`). `NoFalseAlarm` is stated for `log # <<>>`.
* A log that is emptied while a check of it runs leaves a mark without a first
  hash, which is taken for a mark of whatever log comes next (`status.py:159`).
  `RememberedStays` leaves such marks out.
* A shell that started before another one recorded a check writes its whole copy
  later, and `high_water`, which "never drops" (`status.py:168`), drops
  with it. `RememberedStays` says these are the only losses beside those of saves that
  cross, above, and of a `save_config` that is stopped half way: it is not atomic and
  takes no lock (`config.py:22`).
* A log that is cut and grows again to its old length hides the cut from the
  header: it compares numbers. The chain check with a checkpoint does not
  (`KeptCopiesPin`).
* The summary after a registration says "Custody event : logged
  (batch-register)" if a key was there, also if saving the event failed
  (`menu.py:251`).
* A folder's `batch-register` event holds the folder's id and no root, so after
  a second registration the first event counts for contents it was not made of
  (`verifier.py:451` says it commits to the root).
* After a folder is registered again with fewer readable files, a row of the
  first time still names the folder but is in no root (`verifier.py:453`);
  `merkle-proof` ends in a `KeyError` for it (`ProveMember`).
* `export` reads log, evidence, folders and anchor in separate statements; a
  registration in between gives an anchor its own files do not match
  (`ExportHoldsTogether` is the part that holds).
* A check that is superseded after its last file still replaces the header's
  record (`Record` comes before `Publish` or `Drop`); `CleanIsTrue` shows that
  the header stays true all the same.
* A file registered after a check shifts the rows read again for display beside
  the verdicts (`RowsKeepTheirVerdict` holds up to such a registration).

## 7. Not modelled

Parsing, formats and key files; the layout, colours and wording of the screens,
forms and menus; HTML pictures; old JSON storage; the scripts that measure or
draw. Signatures and hashes are ideal. SQLite is trusted: transactions are
atomic and isolated, one writer at a time; a crash rolls back. So is the
executor of `concurrent.futures`: a task's result is that of its arguments, and
a dead worker breaks every task not done. Files on disk change only between reads.
The Chain and Merkle tabs' own lists are left out of `VerificationTabs`.
`_rehash_parallel` of verifier.py is the algorithm of `HashPool` over the
records of a case and has no module of its own. The directory `export` writes
to is taken as empty.

## 8. Plan

Done: the log, tampering, witnesses, the Merkle algorithms, the store and its
reports, the search screen and its pager, the verification screen and its check,
the folder ingest with its pool, the remembered results; and the proofs of all of
them, but for the liveness properties.

Left: the export directory, with files of an earlier export beside those of one
that stopped half way, and what `verifier.py` says of them (in `StoreReports`).
