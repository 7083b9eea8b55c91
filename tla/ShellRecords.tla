---------------------------- MODULE ShellRecords ----------------------------
(***************************************************************************)
(* What the interactive shell remembers of its checks, and what the header *)
(* of its menu makes of it.  Each shell keeps shell_config.json in memory, *)
(* read once when it starts (app.run_shell), and writes all of it back     *)
(* when a check finishes (config._remember) or a setting changes           *)
(* (config.save_config).  The header compares what is remembered with      *)
(* counts of the database (status.current_status).                         *)
(*                                                                         *)
(* Several shells share the file and the database, and the database is     *)
(* appended to, cut short, edited and started over under them.  An entry   *)
(* of the log is a number no other entry ever had, which stands for its    *)
(* hash; a record keeps, beside how many entries were checked, which ones  *)
(* they were ("saw"), which only the properties look at.                   *)
(***************************************************************************)
EXTENDS Naturals, Sequences, FiniteSets, SequencesExt

CONSTANTS
    Shells,
    None,
    Empty, Torn,      \* a file opened for writing and not written; two texts in one file
    MaxEntries,       \* bound: entries ever logged
    MaxEvidence,      \* bound: rows ever registered in one database
    Troubles,         \* what may happen to a log beside growing, in one behaviour
    Meeting,          \* with which of these things happen while a shell has a file open,
    MeetingEntries,   \* bound: entries ever logged where they do
    StartsOverAnytime \* the database may be started over while a check of it runs

ASSUME BoundsAssumption ==
    /\ MaxEntries \in Nat /\ MaxEvidence \in Nat /\ MeetingEntries \in 0..MaxEntries
    /\ Troubles \subseteq SUBSET {"cut", "edit", "restart"}
    /\ StartsOverAnytime \in BOOLEAN

VARIABLES
    log,        \* the custody log
    next,       \* the number of the next entry ever logged
    evidence,   \* the highest evidence rowid
    edited,     \* entries changed behind the program's back
    cut,        \* the log lost entries since it was begun
    restarted,  \* the database was started over at least once
    checkpoint, \* what the cosigned checkpoint commits to
    kind,       \* bound: in one behaviour all checks are of one kind...
    troubles,   \* ...and the log meets only these troubles
    file,       \* shell_config.json
    temp,       \* shell_config.json.tmp: one name for all shells
    config,     \* each shell's copy of the file
    pc,         \* what each shell's menu is doing
    entries,    \* the log as its check loaded it
    fine,       \* whether no entry of it was changed when it was loaded
    saving,     \* a snapshot about to be saved, and by which thread: _write_lock is held
    step,       \* how far _save_atomic is, and where the file it has open is now
    writing,    \* save_config has opened the file and not written it yet
    kept,       \* the record of the chain check the file had when last it could be parsed
    behind      \* the shells whose copy has another one

world == <<log, next, evidence, edited, cut, restarted>>
disk == <<file, temp, kept, behind>>
shell == <<config, pc, entries, fine, saving, step, writing>>
limits == <<kind, troubles>>
vars == <<world, checkpoint, limits, disk, shell>>

EntryIds == 1..MaxEntries
NoHash == 0
FirstHash(s) == IF s = <<>> THEN NoHash ELSE s[1]

VerifyRecord == [ok : BOOLEAN, events : 1..MaxEntries, saw : Seq(EntryIds), evidence_max : 0..MaxEvidence,
                 high_water : 1..MaxEntries, first_hash : EntryIds \cup {NoHash}]
WitnessRecord == [ok : BOOLEAN, size : 1..MaxEntries, saw : Seq(EntryIds), first_hash : EntryIds \cup {NoHash}]

\* What the checks of the log leave in shell_config.json.  The settings and the
\* record of the evidence check lie beside it and are saved with it.
Content == [last_verify : VerifyRecord \cup {None}, last_witness : WitnessRecord \cup {None}]
Nothing == [last_verify |-> None, last_witness |-> None]

\* What load_config takes for an empty file.
Unreadable == {Empty, Torn}

\* Not opened yet; open, under the temporary name, the file's own, or none (it was
\* replaced or removed); written and closed.
SaveSteps == {"none", "dumped", "temp", "file", "gone", "written"}

\* A save: by the menu or by an evidence check, and by save_config
Saves  == [by : {"menu", "worker"}, data : Content]
Writes == [attached : BOOLEAN, data : Content]

\* "None", "Empty" and "Torn" are values of their own.
ASSUME NoneAssumption ==
    /\ None \notin VerifyRecord /\ None \notin WitnessRecord
    /\ None \notin Saves /\ None \notin Writes /\ None \notin Content
    /\ Unreadable \cap (Content \cup {None}) = {}

Running(s) == pc[s] # "off"

Init ==
    /\ log = <<>> /\ next = 1
    /\ evidence = 0
    /\ edited = {}
    /\ cut = FALSE /\ restarted = FALSE
    /\ checkpoint = <<>>
    /\ kind \in {"chain", "witness"}
    /\ troubles \in Troubles
    /\ kind = "witness" => "edit" \notin troubles
    /\ file = Nothing /\ kept = None
    /\ temp = None
    /\ config = [s \in Shells |-> Nothing]
    /\ pc = [s \in Shells |-> "off"]
    /\ entries = [s \in Shells |-> <<>>]
    /\ fine = [s \in Shells |-> TRUE]
    /\ saving = [s \in Shells |-> None]
    /\ step = [s \in Shells |-> "none"]
    /\ writing = [s \in Shells |-> None]
    /\ behind = {}

----------------------------------------------------------------------------
\* The database, used by other processes.

LogEvent ==
    /\ next <= IF troubles \in Meeting THEN MeetingEntries ELSE MaxEntries
    /\ log' = Append(log, next)
    /\ next' = next + 1
    /\ UNCHANGED <<evidence, edited, cut, restarted>>

AddEvidence ==
    /\ evidence < MaxEvidence
    /\ kind = "chain" /\ troubles \cap {"cut", "restart"} # {} \* bound: where it is looked at
    /\ evidence' = evidence + 1
    /\ UNCHANGED <<log, next, edited, cut, restarted>>

CutShort ==
    /\ "cut" \in troubles
    /\ ~cut \* bound: once
    /\ \E n \in 0..(Len(log) - 1) : log' = SubSeq(log, 1, n)
    /\ cut' = TRUE
    /\ UNCHANGED <<next, evidence, edited, restarted>>

EditEntry ==
    /\ "edit" \in troubles
    /\ edited = {} \* bound: one entry
    /\ \E n \in DOMAIN log : edited' = edited \cup {log[n]}
    /\ UNCHANGED <<log, next, evidence, cut, restarted>>

\* The file is removed and a new case begun.
StartOver ==
    /\ "restart" \in troubles
    /\ ~restarted \* bound: once
    /\ StartsOverAnytime \/ \A s \in Shells : pc[s] \in {"off", "menu", "saving"}
    /\ log # <<>>
    /\ log' = <<>>
    /\ evidence' = 0
    /\ edited' = {}
    /\ cut' = FALSE
    /\ restarted' = TRUE
    /\ UNCHANGED next

World == LogEvent \/ AddEvidence \/ CutShort \/ EditEntry \/ StartOver

----------------------------------------------------------------------------
\* status.py: what the header shows.

\* removed_events
Removed(record) ==
    IF \/ record.first_hash # NoHash /\ log # <<>> /\ record.first_hash # FirstHash(log)
       \/ log = <<>> /\ evidence = 0
       \/ record.high_water < Len(log)
    THEN 0
    ELSE record.high_water - Len(log)

\* _shortened_warning, the same comparison where the check's rows are listed.
Shortened(s) == config[s].last_verify # None /\ Removed(config[s].last_verify) > 0

\* The rows and events added since the check.
AnyNew(record) == Len(log) > record.events \/ evidence > record.evidence_max

ChainState(s) ==
    LET record == config[s].last_verify IN
    IF record = None THEN "unverified"
    ELSE IF ~record.ok THEN "tamper"
    ELSE IF Removed(record) > 0 THEN "shortened"
    ELSE IF AnyNew(record) THEN "stale" ELSE "clean"

\* _witness_text
WitnessState(s) ==
    LET record == config[s].last_witness IN
    IF \/ record = None
       \/ record.first_hash # NoHash /\ log # <<>> /\ record.first_hash # FirstHash(log)
    THEN "none"
    ELSE IF ~record.ok THEN "fail"
    ELSE IF Len(log) < record.size THEN "missing"
    ELSE IF Len(log) > record.size THEN "partly" ELSE "all"

----------------------------------------------------------------------------
\* config.py: the file.

\* The name shell_config.json leads to other contents.
Shows(contents) ==
    /\ file' = contents
    /\ IF contents \in Unreadable THEN UNCHANGED <<kept, behind>>
       ELSE /\ kept' = contents.last_verify
            /\ behind' = {t \in Shells : Running(t) /\ config[t].last_verify # kept'}

\* A text written from the start of a file: what another writer left there may
\* be longer, and stick out at the end.
Over(old, text) == IF old = Empty THEN {text} ELSE {text, Torn}

\* _remember: the key is set and the copy dumped under the lock...
Remember(s, key, record, thread) ==
    /\ saving[s] = None
    /\ config' = [config EXCEPT ![s][key] = record]
    /\ saving' = [saving EXCEPT ![s] = [by |-> thread, data |-> config'[s]]]
    /\ step' = [step EXCEPT ![s] = "dumped"]

\* Mutant: the file itself is opened for writing
OpenInPlace(s) ==
    /\ step[s] = "dumped"
    /\ step' = [step EXCEPT ![s] = "file"]
    /\ file' = Empty
    /\ UNCHANGED <<world, checkpoint, limits, temp, kept, behind,
                   config, pc, entries, fine, saving, writing>>

\* ..._save_atomic opens the temporary file, whoever left it there or has it
\* open (the lock is one of threads, not of processes)...
OpenTemp(s) ==
    /\ step[s] = "dumped"
    /\ step' = [step EXCEPT ![s] = "temp"]
    /\ temp' = Empty
    /\ UNCHANGED <<world, checkpoint, limits, file, kept, behind,
                   config, pc, entries, fine, saving, writing>>

\* ...writes and closes it, wherever it is by now...
WriteTemp(s) ==
    /\ \/ /\ step[s] = "temp"
          /\ temp' \in Over(temp, saving[s].data)
          /\ UNCHANGED <<file, kept, behind>>
       \/ /\ step[s] = "file"
          /\ \E contents \in Over(file, saving[s].data) : Shows(contents)
          /\ UNCHANGED temp
       \/ /\ step[s] = "gone"
          /\ UNCHANGED disk
    /\ step' = [step EXCEPT ![s] = "written"]
    /\ UNCHANGED <<world, checkpoint, limits, config, pc, entries, fine, saving, writing>>

\* The save is over.  What the others have open under the temporary name is
\* where that name goes, and what they have open as the file is there no more.
Settles(s, newStep) ==
    /\ saving' = [saving EXCEPT ![s] = None]
    /\ step' = [t \in Shells |-> IF t = s THEN "none" ELSE newStep[t]]
    /\ pc' = [pc EXCEPT ![s] = IF saving[s].by = "menu" THEN "menu" ELSE @]

\* ...and os.replace puts what has the temporary name in the place of the file.
Replace(s) ==
    /\ step[s] = "written"
    /\ temp # None
    /\ Shows(temp)
    /\ temp' = None
    /\ Settles(s, [t \in Shells |-> IF step[t] = "temp" THEN "file"
                                    ELSE IF step[t] = "file" THEN "gone" ELSE step[t]])
    /\ writing' = [t \in Shells |-> IF writing[t] = None THEN None
                                    ELSE [writing[t] EXCEPT !.attached = FALSE]]
    /\ UNCHANGED <<world, checkpoint, limits, config, entries, fine>>

\* An OSError of any of these removes the temporary file and is no error: the
\* copy in memory has the record.  One is that the temporary file is gone.
SaveFails(s) ==
    /\ saving[s] # None
    /\ temp' = None
    /\ Settles(s, [t \in Shells |-> IF step[t] = "temp" THEN "gone" ELSE step[t]])
    /\ UNCHANGED <<world, checkpoint, limits, file, kept, behind, config, entries, fine, writing>>

\* save_config, first half: the copy is dumped and the file opened, which empties it.
OpenFile(s) ==
    /\ writing' = [writing EXCEPT ![s] = [attached |-> TRUE, data |-> config[s]]]
    /\ file' = Empty
    /\ pc' = [pc EXCEPT ![s] = "writing"]
    /\ UNCHANGED <<temp, kept, behind>>

\* Second half: the text is written, to the file if it is still the one opened.
WriteFile(s) ==
    /\ writing[s] # None
    /\ pc' = [pc EXCEPT ![s] = "menu"]
    /\ writing' = [writing EXCEPT ![s] = None]
    /\ IF writing[s].attached
       THEN \E contents \in Over(file, writing[s].data) : Shows(contents)
       ELSE UNCHANGED <<file, kept, behind>>
    /\ UNCHANGED <<world, checkpoint, limits, temp, config, entries, fine, saving, step>>

----------------------------------------------------------------------------
\* The shell.

\* run_shell: the file is loaded once; one that cannot be parsed counts as empty.
Start(s) ==
    /\ ~Running(s)
    /\ pc' = [pc EXCEPT ![s] = "menu"]
    /\ config' = [config EXCEPT ![s] = IF file \in Unreadable THEN Nothing ELSE file]
    /\ behind' = IF config'[s].last_verify = kept THEN behind \ {s} ELSE behind \cup {s}
    /\ UNCHANGED <<world, checkpoint, limits, file, temp, kept, entries, fine, saving, step, writing>>

\* The shell is left, killed or crashes, its threads with it.  A temporary file
\* that no save is at any more is not read again: the next one empties it.
Stop(s) ==
    /\ Running(s)
    /\ pc' = [pc EXCEPT ![s] = "off"]
    /\ config' = [config EXCEPT ![s] = Nothing]
    /\ entries' = [entries EXCEPT ![s] = <<>>]
    /\ fine' = [fine EXCEPT ![s] = TRUE]
    /\ saving' = [saving EXCEPT ![s] = None]
    /\ step' = [step EXCEPT ![s] = "none"]
    /\ writing' = [writing EXCEPT ![s] = None]
    /\ behind' = behind \ {s}
    /\ temp' = IF temp = None \/ \E t \in Shells \ {s} : step[t] \in {"temp", "written"}
               THEN temp ELSE Empty
    /\ UNCHANGED <<world, checkpoint, limits, file, kept>>

\* ensure_keys: where the keys are is a setting.
EnsureKeys(s) ==
    /\ kind = "chain" \* bound: WriteCheckpoint does the same beside the witnesses' checks
    /\ pc[s] = "menu"
    /\ OpenFile(s)
    /\ UNCHANGED <<world, checkpoint, limits, config, entries, fine, saving, step>>

\* action_write_checkpoint: its path is a setting too, and the witnesses cosign it.
WriteCheckpoint(s) ==
    /\ kind = "witness"
    /\ pc[s] = "menu"
    /\ log # <<>>
    /\ checkpoint' = log
    /\ OpenFile(s)
    /\ UNCHANGED <<world, limits, config, entries, fine, saving, step>>

\* _run_chain_check: the entries are loaded in one read...
LoadEntries(s) ==
    /\ pc[s] = "menu"
    /\ kind = "witness" => checkpoint # <<>>
    /\ entries' = [entries EXCEPT ![s] = log]
    /\ fine' = [fine EXCEPT ![s] = ToSet(log) \cap edited = {}]
    /\ pc' = [pc EXCEPT ![s] = "loaded"]
    /\ UNCHANGED <<world, checkpoint, limits, disk, config, saving, step, writing>>

\* The entries loaded are done with.
Forget(s) ==
    /\ entries' = [entries EXCEPT ![s] = <<>>]
    /\ fine' = [fine EXCEPT ![s] = TRUE]

\* ...nothing is recorded of an empty log, of a database whose counts cannot be
\* read, nor of a checkpoint that cannot be read...
NotRecorded(s) ==
    /\ pc[s] = "loaded"
    /\ pc' = [pc EXCEPT ![s] = "menu"]
    /\ Forget(s)
    /\ UNCHANGED <<world, checkpoint, limits, disk, config, saving, step, writing>>

\* Mutant: a mark is what was seen last
BeforeForgotten(record) == 0

\* The mark left by the earlier checks of this log.
Before(record) ==
    IF \/ record = None
       \/ record.first_hash # NoHash /\ log # <<>> /\ record.first_hash # FirstHash(log)
    THEN 0
    ELSE record.high_water

\* The most entries ever checked.
HighWater(s) ==
    LET before == Before(config[s].last_verify)
    IN  IF before > Len(entries[s]) THEN before ELSE Len(entries[s])

\* Mutant: the events are counted when the check is recorded
RecordWhatIsThereNow(s) ==
    /\ kind = "chain"
    /\ pc[s] = "loaded" /\ entries[s] # <<>>
    /\ Remember(s, "last_verify",
         [ok |-> fine[s],
          events |-> Len(log),
          saw |-> entries[s],
          evidence_max |-> evidence,
          high_water |-> HighWater(s),
          first_hash |-> FirstHash(log)], "menu")
    /\ pc' = [pc EXCEPT ![s] = "saving"]
    /\ Forget(s)
    /\ UNCHANGED <<world, checkpoint, limits, disk, writing>>

\* ...and record_chain_check reads them again for what verify_each found.
RecordChainCheck(s) ==
    /\ kind = "chain"
    /\ pc[s] = "loaded" /\ entries[s] # <<>>
    /\ Remember(s, "last_verify",
         [ok |-> fine[s],
          events |-> Len(entries[s]),
          saw |-> entries[s],
          evidence_max |-> evidence,
          high_water |-> HighWater(s),
          first_hash |-> FirstHash(log)], "menu")
    /\ pc' = [pc EXCEPT ![s] = "saving"]
    /\ Forget(s)
    /\ UNCHANGED <<world, checkpoint, limits, disk, writing>>

\* _witness_check: does the log still begin with what the checkpoint commits
\* to, and did enough witnesses cosign it?
RecordWitnessCheck(s) ==
    /\ kind = "witness"
    /\ pc[s] = "loaded"
    /\ \E quorum \in BOOLEAN :
        Remember(s, "last_witness",
          [ok |-> quorum /\ IsPrefix(checkpoint, entries[s]),
           size |-> Len(checkpoint),
           saw |-> checkpoint,
           first_hash |-> FirstHash(entries[s])], "menu")
    /\ pc' = [pc EXCEPT ![s] = "saving"]
    /\ Forget(s)
    /\ UNCHANGED <<world, checkpoint, limits, disk, writing>>

\* An evidence check goes on when its screen is left, and its result is saved
\* from its own thread, whatever the menu is doing (EvidenceCheck has its steps).
RecordEvidenceCheck(s) ==
    /\ troubles \in Meeting \* bound: where it can get in the way of anything
    /\ Running(s)
    /\ Remember(s, "last_verify", config[s].last_verify, "worker")
    /\ UNCHANGED <<world, checkpoint, limits, disk, pc, entries, fine, writing>>

Shell(s) ==
    \/ Start(s) \/ Stop(s)
    \/ EnsureKeys(s) \/ WriteCheckpoint(s) \/ WriteFile(s)
    \/ LoadEntries(s) \/ NotRecorded(s) \/ RecordChainCheck(s) \/ RecordWitnessCheck(s)
    \/ RecordEvidenceCheck(s)
    \/ OpenTemp(s) \/ WriteTemp(s) \/ Replace(s) \/ SaveFails(s)

\* bound: elsewhere the others wait while a shell has a file open
Waits(others) ==
    /\ troubles \notin Meeting
    /\ \E t \in others : step[t] \notin {"none", "dumped"} \/ writing[t] # None

Next ==
    \/ World /\ ~Waits(Shells) /\ UNCHANGED <<checkpoint, limits, disk, shell>>
    \/ \E s \in Shells : Shell(s) /\ ~Waits(Shells \ {s})

Spec == Init /\ [][Next]_vars

----------------------------------------------------------------------------
(* Properties                                                              *)

TypeOK ==
    /\ log \in Seq(EntryIds) /\ next \in 1..(MaxEntries + 1)
    /\ evidence \in 0..MaxEvidence
    /\ edited \subseteq EntryIds
    /\ cut \in BOOLEAN /\ restarted \in BOOLEAN
    /\ checkpoint \in Seq(EntryIds)
    /\ kind \in {"chain", "witness"} /\ troubles \in Troubles
    /\ file \in Content \cup Unreadable /\ temp \in Content \cup Unreadable \cup {None}
    /\ kept \in VerifyRecord \cup {None}
    /\ config \in [Shells -> Content]
    /\ pc \in [Shells -> {"off", "menu", "loaded", "saving", "writing"}]
    /\ entries \in [Shells -> Seq(EntryIds)] /\ fine \in [Shells -> BOOLEAN]
    /\ step \in [Shells -> SaveSteps]
    /\ saving \in [Shells -> Saves \cup {None}]
    /\ writing \in [Shells -> Writes \cup {None}]
    /\ behind \subseteq Shells

\* In a case that only grows, CLEAN in a header is said of exactly the entries
\* a check found sound, and a witness line claims no entry the witnesses did
\* not cosign: events logged while the check ran show as new (status.py:3).
HeaderIsHonest ==
    ~cut /\ ~restarted =>
        \A s \in Shells :
            /\ ChainState(s) = "clean" => config[s].last_verify.saw = log
            /\ ChainState(s) = "stale" => IsPrefix(config[s].last_verify.saw, log)
            /\ WitnessState(s) = "all" => config[s].last_witness.saw = log
            /\ WitnessState(s) # "missing"

\* CLEAN means that every event of the log checked out, whether or not it is the
\* log that was checked (README.md:91 says so).
CleanMeansChecked ==
    ~cut => \A s \in Shells :
        ChainState(s) = "clean" => ToSet(log) \subseteq ToSet(config[s].last_verify.saw)

\* A log is called shortened only if entries of it were removed, also when the
\* database was started over since (status.removed_events); a new database in
\* which no event is logged yet is called so too, see the README.
NoFalseAlarm ==
    \A s \in Shells :
        ChainState(s) = "shortened" \/ WitnessState(s) = "missing" => cut \/ log = <<>>

\* A record of a check is of the log its first hash names, and as long as that
\* is this log and it is not cut, what was checked is how it begins.
VerifySound(record) ==
    record # None =>
        /\ record.first_hash \in 1..(next - 1)
        /\ record.events = Len(record.saw)
        /\ record.first_hash = FirstHash(log) =>
             record.high_water <= Len(log) /\ IsPrefix(record.saw, log)
        /\ ~restarted => record.first_hash = FirstHash(log)

WitnessSound(record) ==
    record # None /\ record.ok =>
        /\ record.first_hash \in 1..(next - 1)
        /\ record.size = Len(record.saw)
        /\ record.first_hash = FirstHash(log) => IsPrefix(record.saw, log)
        /\ ~restarted => record.first_hash = FirstHash(log)

Sound(copy) == VerifySound(copy.last_verify) /\ WitnessSound(copy.last_witness)

\* Every copy of the records, in a file, in a shell and on its way to a file,
\* is sound, and so is the log a check has in hand.
CopiesAreSound ==
    ~cut =>
        /\ \A contents \in {file, temp} \cap Content : Sound(contents)
        /\ \A s \in Shells :
            /\ IsPrefix(entries[s], log)
            /\ Sound(config[s])
            /\ saving[s] # None => Sound(saving[s].data)
            /\ writing[s] # None => Sound(writing[s].data)

\* Entries are numbered in the order they were logged, a check has them in hand
\* only between its two reads, and the menu waits for what it saves.
Bookkeeping ==
    /\ Len(log) < next /\ FirstHash(log) < next
    /\ Len(checkpoint) <= MaxEntries
    /\ \A s \in Shells :
        /\ Len(entries[s]) <= MaxEntries
        /\ entries[s] # <<>> => pc[s] = "loaded"
        /\ kind = "witness" /\ pc[s] = "loaded" => checkpoint # <<>>
        /\ saving[s] # None /\ saving[s].by = "menu" => pc[s] = "saving"
        /\ step[s] = "none" <=> saving[s] = None
        /\ writing[s] # None => pc[s] = "writing"

OnlyItsTroubles == (cut => "cut" \in troubles) /\ (restarted => "restart" \in troubles)

\* What a header says: what was checked, and no alarm without a cause.
RecordsInv ==
    /\ TypeOK /\ Bookkeeping /\ OnlyItsTroubles /\ CopiesAreSound
    /\ HeaderIsHonest /\ NoFalseAlarm

\* Nothing a shell does takes back that the log is shortened while it is: not
\* a check of what is left, nor anything saved (status.py:168, "it never
\* drops, so cutting the log short stays visible after checking the rest").
CutStaysSeen ==
    [][\A s \in Shells :
        Running(s) /\ Running(s)' /\ Shortened(s) /\ UNCHANGED world => Shortened(s)']_vars

\* Another shell opened, replaced or removed the temporary file after this one
\* opened it.
Overtaken(s) ==
    \/ step[s] = "temp" /\ temp # Empty
    \/ step[s] \in {"file", "gone"}
    \/ step[s] = "written" /\ temp # saving[s].data

\* As long as the shells' saves do not get into each other's way, a remembered
\* mark leaves the file only through a save_config that was stopped half way or
\* a shell that had not seen it: not by a crash in another place, and not by the
\* other thread of the same shell (_write_lock).  What is not overtaken by a
\* shell that saves at the same time never is.  A mark without a first hash (the
\* log was empty when it was recorded) gives way to that of the next log.
RememberedStays ==
    [][/\ (\A s \in Shells : Overtaken(s) => ~WriteTemp(s) /\ ~Replace(s)) =>
            /\ file \notin Unreadable /\ file' \in Unreadable =>
                 \E s \in Shells : writing'[s] # writing[s]
            /\ behind = {} /\ kept # None =>
                 /\ kept' # None
                 /\ kept'.first_hash = kept.first_hash /\ kept.first_hash # NoHash =>
                      kept'.high_water >= kept.high_water
       /\ \A s \in Shells : Overtaken(s)' /\ ~Overtaken(s) =>
            \E t \in Shells \ {s} : step'[t] # step[t]]_vars
=============================================================================
