----------------------------- MODULE EvidenceCheck -----------------------------
(***************************************************************************)
(* The Evidence tab of the shell's verification screen                     *)
(* (src/vcoc/interactive/verification_screen.py): a background load        *)
(* (_BackgroundLoad) re-hashes every registered file (_run_evidence_check) *)
(* on a thread of its own, page by page, while other processes register    *)
(* evidence and log events and files change on disk.  A finished check is  *)
(* remembered for the menu's header (status.py), then published to the tab *)
(* if no newer load has superseded it.                                     *)
(*                                                                         *)
(* The keys that start and leave it are in VerificationTabs.               *)
(*                                                                         *)
(* Folders are left out: a file counts as logged when an event names it.   *)
(* The loader objects of successive screens are one here: leaving a screen *)
(* bumps its generation for good, as a new start would.                    *)
(***************************************************************************)
EXTENDS Integers, Sequences, FiniteSets

CONSTANTS Ids,        \* evidence ids: numbers, in their sorted order
          NoFile,     \* the ids whose file is not on disk: never hashed
          PageSize,   \* rows read per query while re-hashing (_PAGE)
          BlockSize,  \* rows fetched per query for display (_BLOCK)
          MaxLoads,   \* bound: loads started
          MaxChanges  \* bound: files registered, logged and altered meanwhile

ASSUME EvidenceCheckAssumption ==
    /\ Ids \subseteq Nat /\ IsFiniteSet(Ids) /\ NoFile \subseteq Ids
    /\ PageSize \in Nat \ {0} /\ BlockSize \in Nat \ {0} /\ MaxLoads \in Nat /\ MaxChanges \in Nat

VARIABLES evidence,   \* the registered ids
          logged,     \* the ids a custody event names; one event each
          altered,    \* the ids whose file on disk is not what was registered
          changes,    \* how often one of these has changed
          generation, loading,
          shown,      \* the load whose result is in place for the tab, or 0
          started,    \* loads started so far: load l runs on thread l
          load,       \* what each load is doing and has found
          record      \* shell_config's last_evidence_check, or NoRecord

world == <<evidence, logged, altered, changes>>
screen == <<generation, loading, shown, started>>
checkVars == <<world, screen, load, record>>

Loads == 1 .. MaxLoads
Counts == [events: Nat, evidence_max: Nat]
Results == [id: Ids, rehash: {"match", "MISMATCH", "not_found"}, logged: BOOLEAN]

\* new: not begun; counted: the header's counts are read; reading: between two
\* pages; hashing: rows of a page left; hashed: every row done; ended: the load
\* returned or raised; then what the thread made of it
Stages == {"new", "counted", "reading", "hashing", "hashed", "ended",
           "cancelled", "dropped", "published"}

LoadStates == [generation: Nat, stage: Stages, began: Counts, logged: SUBSET Ids,
               page: Seq(Ids), last: Int, results: Seq(Results), failed: BOOLEAN]

NoRecord == [load |-> 0]

LoadsTypeOK ==
    /\ evidence \subseteq Ids /\ logged \subseteq Ids /\ altered \subseteq Ids
    /\ changes \in 0 .. MaxChanges
    /\ generation \in Nat /\ loading \in BOOLEAN
    /\ started \in 0 .. MaxLoads /\ shown \in 0 .. started
    /\ load \in [Loads -> LoadStates]
    /\ record = NoRecord \/ record.load \in Loads

NewLoad(gen) == [generation |-> gen, stage |-> "new",
                 began |-> [events |-> 0, evidence_max |-> 0], logged |-> {},
                 page |-> <<>>, last |-> -1, results |-> <<>>, failed |-> FALSE]

LoadsInit ==
    /\ evidence \in SUBSET Ids
    /\ logged = evidence /\ altered = {} /\ changes = 0
    /\ generation = 0 /\ loading = FALSE /\ shown = 0 /\ started = 0
    /\ load = [l \in Loads |-> NewLoad(0)]
    /\ record = NoRecord

-------------------------------------------------------------------------------
(* The rest of the world.                                                  *)

Changes == changes < MaxChanges /\ changes' = changes + 1

Register(id) ==
    /\ Changes /\ id \notin evidence
    /\ evidence' = evidence \cup {id}
    /\ UNCHANGED <<logged, altered, screen, load, record>>

LogEvent(id) ==
    /\ Changes /\ id \notin logged
    /\ logged' = logged \cup {id}
    /\ UNCHANGED <<evidence, altered, screen, load, record>>

FileChanges(id) ==
    /\ Changes /\ id \in evidence \ (altered \cup NoFile)
    /\ altered' = altered \cup {id}
    /\ UNCHANGED <<evidence, logged, screen, load, record>>

-------------------------------------------------------------------------------
(* The screen's thread.                                                    *)

\* results.pop: the tab is opened for the first time, or read again...
Pop == shown' = 0 /\ UNCHANGED <<world, generation, loading, started, load, record>>

\* ...and _BackgroundLoad.start, which takes the lock its threads publish under
Start ==
    /\ started < MaxLoads
    /\ started' = started + 1
    /\ generation' = generation + 1
    /\ loading' = TRUE
    /\ load' = [load EXCEPT ![started + 1] = NewLoad(generation + 1)]
    /\ UNCHANGED <<world, shown, record>>

\* Esc: every loader is cancelled and the results go with the screen
CancelAll ==
    /\ started > 0 /\ (loading \/ shown # 0)
    /\ generation' = generation + 1
    /\ loading' = FALSE
    /\ shown' = 0
    /\ UNCHANGED <<world, started, load, record>>

-------------------------------------------------------------------------------
(* The load's thread: _run_evidence_check, then run's publication.         *)

Superseded(l) == load[l].generation # generation

Become(l, changed) == load' = [load EXCEPT ![l] = changed]

\* read_counts, before anything else is read
Begin(l) ==
    /\ l <= started /\ load[l].stage = "new"
    /\ Become(l, [load[l] EXCEPT !.stage = "counted",
                    !.began = [events |-> Cardinality(logged),
                               evidence_max |-> Cardinality(evidence)]])
    /\ UNCHANGED <<world, screen, record>>

\* SELECT COUNT(*), then the log; with no evidence there is nothing to record
ReadLog(l) ==
    /\ load[l].stage = "counted"
    /\ Become(l, [load[l] EXCEPT !.logged = logged,
                    !.stage = IF evidence = {} THEN "ended" ELSE "reading"])
    /\ UNCHANGED <<world, screen, record>>

InOrder(ids) == [k \in 1 .. Cardinality(ids) |->
                   CHOOSE x \in ids : Cardinality({y \in ids : y < x}) = k - 1]

\* The first n ids of a set, in order: ORDER BY evidence_id LIMIT n
Limit(ids, n) ==
    LET s == InOrder(ids) IN SubSeq(s, 1, IF Len(s) < n THEN Len(s) ELSE n)

\* _evidence_rows: the next keyset page
ReadPage(l) ==
    LET page == Limit({id \in evidence : id > load[l].last}, PageSize)
    IN  /\ load[l].stage = "reading"
        /\ Become(l, IF page = <<>>
                       THEN [load[l] EXCEPT !.stage = "hashed"]
                       ELSE [load[l] EXCEPT !.page = page, !.last = page[Len(page)],
                                            !.stage = "hashing"])
        /\ UNCHANGED <<world, screen, record>>

Rehash(id) == IF id \in NoFile THEN "not_found"
              ELSE IF id \in altered THEN "MISMATCH" ELSE "match"

\* One row.  Its progress callback, which only a file on disk calls, found the
\* load current: a superseded load goes no further than the next such file.
HashRow(l) ==
    LET id == Head(load[l].page)
    IN  /\ load[l].stage = "hashing"
        /\ Superseded(l) => id \in NoFile
        /\ Become(l, [load[l] EXCEPT
             !.results = Append(@, [id |-> id, rehash |-> Rehash(id),
                                    logged |-> id \in load[l].logged]),
             !.page = Tail(@),
             !.stage = IF Len(load[l].page) = 1 THEN "reading" ELSE "hashing"])
        /\ UNCHANGED <<world, screen, record>>

\* The callback raises _Cancelled, and run returns
Cancelled(l) ==
    /\ load[l].stage = "hashing" /\ Head(load[l].page) \notin NoFile
    /\ Superseded(l)
    /\ Become(l, [NewLoad(load[l].generation) EXCEPT !.stage = "cancelled"])
    /\ UNCHANGED <<world, screen, record>>

\* Mutant: the exception ends the thread
FailsSilently(l) ==
    /\ load[l].stage = "hashing" /\ Head(load[l].page) \notin NoFile
    /\ Become(l, [load[l] EXCEPT !.stage = "cancelled", !.failed = TRUE])
    /\ UNCHANGED <<world, screen, record>>

\* Any other exception (a file that cannot be read): it becomes the result
Fails(l) ==
    /\ load[l].stage = "hashing" /\ Head(load[l].page) \notin NoFile
    /\ Become(l, [load[l] EXCEPT !.stage = "ended", !.failed = TRUE])
    /\ UNCHANGED <<world, screen, record>>

Found(l, verdict) == \E i \in DOMAIN load[l].results : load[l].results[i].rehash = verdict
NotLogged(l)      == \E i \in DOMAIN load[l].results : ~load[l].results[i].logged

\* Mutant: the counts are read when the check is over
RecordCountsLate(l) ==
    /\ load[l].stage = "hashed"
    /\ record' = [load |-> l,
                  tampered |-> Found(l, "MISMATCH"),
                  not_logged |-> NotLogged(l),
                  unverifiable |-> Found(l, "not_found"),
                  events |-> Cardinality(logged),
                  evidence_max |-> Cardinality(evidence)]
    /\ Become(l, [load[l] EXCEPT !.stage = "ended"])
    /\ UNCHANGED <<world, screen>>

\* record_evidence_check, before run looks at the generation
Record(l) ==
    /\ load[l].stage = "hashed"
    /\ record' = [load |-> l,
                  tampered |-> Found(l, "MISMATCH"),
                  not_logged |-> NotLogged(l),
                  unverifiable |-> Found(l, "not_found"),
                  events |-> load[l].began.events,
                  evidence_max |-> load[l].began.evidence_max]
    /\ Become(l, [load[l] EXCEPT !.stage = "ended"])
    /\ UNCHANGED <<world, screen>>

\* run, under the lock
Publish(l) ==
    /\ load[l].stage = "ended" /\ ~Superseded(l)
    /\ loading' = FALSE
    /\ shown' = l
    /\ Become(l, [load[l] EXCEPT !.stage = "published"])
    /\ UNCHANGED <<world, generation, started, record>>

\* Mutant: a superseded load starts over
DropAndRestart(l) ==
    /\ load[l].stage = "ended" /\ Superseded(l)
    /\ Become(l, NewLoad(load[l].generation))
    /\ UNCHANGED <<world, screen, record>>

Drop(l) ==
    /\ load[l].stage = "ended" /\ Superseded(l)
    /\ Become(l, [load[l] EXCEPT !.stage = "dropped"])
    /\ UNCHANGED <<world, screen, record>>

Work(l) ==
    \/ Begin(l) \/ ReadLog(l) \/ ReadPage(l)
    \/ HashRow(l) \/ Cancelled(l) \/ Fails(l)
    \/ Record(l) \/ Publish(l) \/ Drop(l)

World == \E id \in Ids : Register(id) \/ LogEvent(id) \/ FileChanges(id)

-------------------------------------------------------------------------------
(* What the user sees.                                                     *)

\* status._files_status, from the record and cheap counts of the database
New ==
    LET Past(now, then) == IF now > then THEN now - then ELSE 0
    IN  Past(Cardinality(logged), record.events)
          + Past(Cardinality(evidence), record.evidence_max)

FilesStatus ==
    IF record = NoRecord THEN IF evidence = {} THEN "none" ELSE "unchecked"
    ELSE IF record.tampered THEN "tamper"
    ELSE IF New > 0 THEN "stale"
    ELSE IF record.not_logged \/ record.unverifiable THEN "issues"
    ELSE "clean"

\* Mutant: the block is read newest first
FetchedDescending(results, i) ==
    LET first == ((i - 1) \div BlockSize) * BlockSize + 1
        block == Limit({id \in evidence : id >= results[first].id}, BlockSize)
    IN  block[Len(block) - (i - first)]

\* _EvidenceResults._fetch: the id shown for result i, whose block is read from
\* the database as it is now, from the id saved for the block's first row
Fetched(results, i) ==
    LET first == ((i - 1) \div BlockSize) * BlockSize + 1
        block == Limit({id \in evidence : id >= results[first].id}, BlockSize)
    IN  block[i - first + 1]

-------------------------------------------------------------------------------
(* Properties.                                                             *)

\* "files: ALL GREEN" in the header is true of the database as it is now: the
\* recorded check found every registered file as registered, and an event names
\* each, although files were registered and events logged while it ran.
CleanIsTrue ==
    FilesStatus = "clean" =>
      \A id \in evidence :
        /\ id \in logged
        /\ \E i \in DOMAIN load[record.load].results :
             load[record.load].results[i] = [id |-> id, rehash |-> "match", logged |-> TRUE]

\* The verdicts are shown beside their files: pages read one after the other from
\* a table others add to line up with the blocks the tab reads again for display,
\* as long as no file was registered that the check did not see.
SeenAll(l) == evidence = {load[l].results[i].id : i \in 1 .. Len(load[l].results)}

RowsKeepTheirVerdict ==
    shown # 0 /\ ~load[shown].failed /\ SeenAll(shown) =>
      \A i \in 1 .. Len(load[shown].results) :
        Fetched(load[shown].results, i) = load[shown].results[i].id
===============================================================================
