----------------------------- MODULE EvidenceStore -----------------------------
(***************************************************************************)
(* The evidence and folders tables of a case database (src/vcoc/db.py) and *)
(* the commands of cli.py that write them: add-evidence of a file and of a *)
(* folder, and migrate-merkle.  A folder is written by one transaction     *)
(* that stays open, and holds the write lock, from the first batch of      *)
(* hashed files to finish_folder; its batch-register event is a second     *)
(* transaction.                                                            *)
(*                                                                         *)
(* An id is a tuple: <<g>> for a file or folder, <<g, r>> for the member r *)
(* of folder g ("g/r").  Members are read in the order of r.               *)
(***************************************************************************)
EXTENDS MerkleTree, FiniteSets, Functions

CONSTANTS Clients,     \* processes with the database open
          Migrators,   \* those among them that run migrate-merkle
          Forces,      \* with --force, without it, or either
          Folders,     \* ids of folders
          Singles,     \* ids that add-evidence registers a single file under
          Digests,     \* what a file may hash to
          MaxFiles,    \* bound: files in a folder
          BatchSize,   \* INGEST_BATCH_SIZE
          MaxRuns      \* bound: commands run in all

Nobody   == "nobody"
NoFolder == <<>>       \* a NULL folder_id

ASSUME EvidenceStoreAssumption ==
    /\ Nobody \notin Clients
    /\ \A id \in Folders \cup Singles : id = <<id[1]>> /\ id[1] \in Nat
    /\ Migrators \subseteq Clients /\ Forces \subseteq BOOLEAN
    /\ MaxFiles \in Nat \ {0} /\ BatchSize \in Nat \ {0} /\ MaxRuns \in Nat

VARIABLES evidence,    \* id -> its row
          folders,     \* folder id -> its row
          version,     \* PRAGMA user_version
          log,         \* the batch-register events
          lock,        \* the client whose transaction holds the write lock
          job,         \* what each client is doing
          stale,       \* folders a member of which was registered again since, by another command
          runs         \* commands run so far

store == <<evidence, folders, version, log, lock, stale>>
vars  == <<evidence, folders, version, log, lock, job, stale, runs>>

Idle == [op |-> "idle"]

MemberId(f, r) == <<f[1], r>>
MemberIds == {MemberId(f, r) : f \in Folders, r \in 1 .. MaxFiles}

\* The order of ids as text: a folder's id comes before its members'
Before(x, y) == x[1] < y[1] \/ (x[1] = y[1] /\ Len(x) <= Len(y)
                                /\ (Len(x) = 2 => x[2] <= y[2]))
InOrder(ids) == [k \in 1 .. Cardinality(ids) |->
                   CHOOSE x \in ids : Cardinality({y \in ids : y # x /\ Before(y, x)}) = k - 1]

\* rows put in by INSERT OR REPLACE
Put(new, table) == [id \in DOMAIN new \cup DOMAIN table |->
                      IF id \in DOMAIN new THEN new[id] ELSE table[id]]

-------------------------------------------------------------------------------
(* What the tables say.                                                     *)

\* iter_member_leaves: a member's row counts whatever its folder_id
MemberLeaves(f) == [i \in DOMAIN folders[f].member_ids |->
                      LET m == folders[f].member_ids[i] IN <<m, evidence[m].sha256>>]

Leaves(items) == [i \in DOMAIN items |-> items[i][2]]

\* _legacy_root: no prefixes, and an odd node is paired with itself
LegacyRoot(leaves) ==
    LET Pairs(level) == [i \in 1 .. (Len(level) + 1) \div 2 |->
                           <<level[2 * i - 1],
                             level[IF 2 * i <= Len(level) THEN 2 * i ELSE 2 * i - 1]>>]
        levels[h \in 0 .. Height(Len(leaves))] ==
          IF h = 0 THEN leaves ELSE Pairs(levels[h - 1])
    IN  levels[Height(Len(leaves))][1]

\* A store of before schema version 2 that has folders: connect does not stamp it
LegacyStore(f, leaves) ==
    LET ids == [i \in 1 .. Len(leaves) |-> MemberId(f, i)]
    IN  /\ version = 1
        /\ evidence = [id \in {ids[i] : i \in DOMAIN ids} |->
                         [sha256 |-> leaves[id[2]], folder_id |-> f]]
        /\ folders = [g \in {f} |-> [root |-> LegacyRoot(leaves), member_ids |-> ids]]

Init ==
    /\ \/ version = 2 /\ evidence = <<>> /\ folders = <<>>   \* new, and stamped by connect
       \/ \E f \in Folders, leaves \in UNION {[1 .. n -> Digests] : n \in 1 .. MaxFiles} :
            LegacyStore(f, leaves)
    /\ log = <<>> /\ lock = Nobody /\ stale = {} /\ runs = 0
    /\ job = [c \in Clients |-> Idle]

Starts(c) == job[c] = Idle /\ runs < MaxRuns /\ runs' = runs + 1

-------------------------------------------------------------------------------
(* add-evidence of one file: put_evidence, a transaction of one statement.  *)

\* The folders that hold one of these rows as a member
HoldersOf(ids) == {f \in DOMAIN folders : \E i \in DOMAIN folders[f].member_ids :
                                             folders[f].member_ids[i] \in ids}

AddFile(c, id, digest) ==
    /\ Starts(c) /\ lock = Nobody
    /\ evidence' = Put([i \in {id} |-> [sha256 |-> digest, folder_id |-> NoFolder]], evidence)
    /\ stale' = stale \cup HoldersOf({id})
    /\ UNCHANGED <<folders, version, log, lock, job>>

-------------------------------------------------------------------------------
(* add-evidence of a folder: _ingest_walked_folder.                         *)

\* The walk found `files` files; with none the command ends there
StartFolder(c, f, files) ==
    /\ Starts(c)
    /\ job' = [job EXCEPT ![c] = [op |-> "ingest", folder |-> f, files |-> files, read |-> 0,
                                  batch |-> <<>>, fed |-> <<>>, run |-> <<>>]]
    /\ UNCHANGED store

Ingesting(c) == job[c].op = "ingest"
ReadAll(c)   == job[c].read = job[c].files

\* The next file is hashed, goes into the batch and is fed to the builder
HashMember(c, digest) ==
    /\ Ingesting(c) /\ ~ReadAll(c) /\ Len(job[c].batch) < BatchSize
    /\ job' = [job EXCEPT ![c].read = @ + 1,
                          ![c].batch = Append(@, <<MemberId(job[c].folder, job[c].read + 1), digest>>),
                          ![c].fed = Append(@, digest)]
    /\ UNCHANGED <<store, runs>>

\* "skipped (...)": the file could not be read
SkipMember(c) ==
    /\ Ingesting(c) /\ ~ReadAll(c) /\ Len(job[c].batch) < BatchSize
    /\ job' = [job EXCEPT ![c].read = @ + 1]
    /\ UNCHANGED <<store, runs>>

\* Mutant: a batch is committed as it is added
AddMembersCommitting(c) ==
    /\ Ingesting(c) /\ job[c].batch # <<>> /\ version = 2 /\ lock = Nobody
    /\ Len(job[c].batch) = BatchSize \/ ReadAll(c)
    /\ LET batch == job[c].batch
           rows  == [id \in {batch[i][1] : i \in DOMAIN batch} |->
                       LET i == CHOOSE k \in DOMAIN batch : batch[k][1] = id
                       IN  [sha256 |-> batch[i][2], folder_id |-> job[c].folder]]
       IN  /\ evidence' = Put(rows, evidence)
           /\ job' = [job EXCEPT ![c].batch = <<>>, ![c].run = Put(rows, @)]
    /\ UNCHANGED <<folders, version, log, lock, stale, runs>>

\* A full batch, or the last one: begin_folder's version check, before the first
\* of them, then add_folder_members inside the transaction
AddFolderMembers(c) ==
    /\ Ingesting(c) /\ job[c].batch # <<>>
    /\ Len(job[c].batch) = BatchSize \/ ReadAll(c)
    /\ version = 2 \/ lock = c
    /\ lock \in {Nobody, c} /\ lock' = c
    /\ LET batch == job[c].batch
           rows  == [id \in {batch[i][1] : i \in DOMAIN batch} |->
                       LET i == CHOOSE k \in DOMAIN batch : batch[k][1] = id
                       IN  [sha256 |-> batch[i][2], folder_id |-> job[c].folder]]
       IN  job' = [job EXCEPT ![c].batch = <<>>, ![c].run = Put(rows, @)]
    /\ UNCHANGED <<evidence, folders, version, log, stale, runs>>

\* Mutant: the last batch is never added
FinishUnflushed(c) ==
    LET f == job[c].folder
    IN  /\ Ingesting(c) /\ ReadAll(c) /\ lock = c /\ version = 2
        /\ evidence' = Put(job[c].run, evidence)
        /\ folders' = Put([g \in {f} |-> [root |-> Root(job[c].fed),
                                          member_ids |-> InOrder(DOMAIN job[c].run)]], folders)
        /\ stale' = (stale \ {f}) \cup (HoldersOf(DOMAIN job[c].run) \ {f})
        /\ lock' = Nobody
        /\ job' = [job EXCEPT ![c] = [op |-> "registered", folder |-> f]]
        /\ UNCHANGED <<version, log, runs>>

\* finish_folder: the folders row, member_ids from this run's members, commit
FinishFolder(c) ==
    LET f == job[c].folder
    IN  /\ Ingesting(c) /\ ReadAll(c) /\ job[c].batch = <<>> /\ lock = c /\ version = 2
        /\ evidence' = Put(job[c].run, evidence)
        /\ folders' = Put([g \in {f} |-> [root |-> Root(job[c].fed),
                                          member_ids |-> InOrder(DOMAIN job[c].run)]], folders)
        /\ stale' = (stale \ {f}) \cup (HoldersOf(DOMAIN job[c].run) \ {f})
        /\ lock' = Nobody
        /\ job' = [job EXCEPT ![c] = [op |-> "registered", folder |-> f]]
        /\ UNCHANGED <<version, log, runs>>

\* With --private-key: load_db, add_event, save_db (CustodyLog)
BatchRegister(c) ==
    /\ job[c].op = "registered" /\ lock = Nobody
    /\ log' = Append(log, [evidence_id |-> job[c].folder])
    /\ job' = [job EXCEPT ![c] = Idle]
    /\ UNCHANGED <<evidence, folders, version, lock, stale, runs>>

-------------------------------------------------------------------------------
(* migrate-merkle.                                                          *)

\* The version check, and the list of the folders with their stored roots
MigrateMerkle(c, force) ==
    /\ Starts(c) /\ version = 1
    /\ job' = [job EXCEPT ![c] = [op |-> "migrate", force |-> force, changes |-> <<>>,
                                  old |-> [f \in DOMAIN folders |-> folders[f].root]]]
    /\ UNCHANGED store

Changed(c) == {job[c].changes[i].folder : i \in DOMAIN job[c].changes}

\* One turn of the loop: the members of a folder are read, and a root made of them
ConvertFolder(c, f) ==
    /\ job[c].op = "migrate" /\ f \in DOMAIN job[c].old \ Changed(c)
    /\ \A g \in DOMAIN job[c].old \ Changed(c) : Before(f, g)
    /\ job' = [job EXCEPT ![c].changes =
                 Append(@, [folder |-> f, old |-> job[c].old[f], leaves |-> Leaves(MemberLeaves(f))])]
    /\ UNCHANGED <<store, runs>>

\* The stored root is the old rules' root of the members
Matches(change) == LegacyRoot(change.leaves) = change.old

\* BEGIN IMMEDIATE, one UPDATE per change, the stamp, commit
CommitRoots(c) ==
    LET changes == job[c].changes
    IN  /\ job[c].op = "migrate" /\ Changed(c) = DOMAIN job[c].old /\ lock = Nobody
        /\ job[c].force \/ \A i \in DOMAIN changes : Matches(changes[i])
        /\ folders' = [f \in DOMAIN folders |->
                         IF \E i \in DOMAIN changes : changes[i].folder = f
                           THEN LET i == CHOOSE k \in DOMAIN changes : changes[k].folder = f
                                IN  [folders[f] EXCEPT !.root = Root(changes[i].leaves)]
                           ELSE folders[f]]
        /\ version' = 2
        /\ job' = [job EXCEPT ![c] = Idle]
        /\ UNCHANGED <<evidence, log, lock, stale, runs>>

-------------------------------------------------------------------------------
\* The command ends early and its transaction is rolled back: no file could be
\* hashed, LegacyMerkleFormat, "database is locked", no --private-key, folders
\* that do not match, Ctrl-C, or a crash at any moment
Stop(c) ==
    /\ job[c] # Idle
    /\ job' = [job EXCEPT ![c] = Idle]
    /\ lock' = IF lock = c THEN Nobody ELSE lock
    /\ UNCHANGED <<evidence, folders, version, log, stale, runs>>

Command(c) ==
    \/ \E id \in Singles \cup MemberIds, digest \in Digests : AddFile(c, id, digest)
    \/ \E f \in Folders, files \in 1 .. MaxFiles : StartFolder(c, f, files)
    \/ \E digest \in Digests : HashMember(c, digest)
    \/ SkipMember(c)
    \/ AddFolderMembers(c)
    \/ FinishFolder(c)
    \/ BatchRegister(c)
    \/ c \in Migrators /\ \E force \in Forces : MigrateMerkle(c, force)
    \/ \E f \in Folders : ConvertFolder(c, f)
    \/ CommitRoots(c)
    \/ Stop(c)

Next == \E c \in Clients : Command(c)

Spec == Init /\ [][Next]_vars

-------------------------------------------------------------------------------
(* Properties.                                                             *)

Ids == Singles \cup Folders \cup MemberIds

TypeOK ==
    /\ DOMAIN evidence \subseteq Ids
    /\ \A id \in DOMAIN evidence : /\ evidence[id].sha256 \in Digests
                                   /\ evidence[id].folder_id \in Folders \cup {NoFolder}
    /\ DOMAIN folders \subseteq Folders /\ stale \subseteq DOMAIN folders
    /\ version \in {1, 2} /\ lock \in Clients \cup {Nobody}
    /\ \A c \in Clients : job[c].op \in {"idle", "ingest", "registered", "migrate"}

\* A folder is registered whole or not at all, wherever its registration stops:
\* a row never names a folder without a folders row, a member always has a row,
\* and an event names a stored folder.  (The KeyErrors of iter_group_leaves and
\* iter_member_leaves, "corrupt data", do not come from the program itself.)
FoldersAreWhole ==
    /\ \A id \in DOMAIN evidence : evidence[id].folder_id \in DOMAIN folders \cup {NoFolder}
    /\ \A f \in DOMAIN folders :
         /\ folders[f].member_ids # <<>>
         /\ \A i \in DOMAIN folders[f].member_ids : folders[f].member_ids[i] \in DOMAIN evidence
    /\ \A i \in DOMAIN log : log[i].evidence_id \in DOMAIN folders

\* A stored folder root is the root of the members as they are stored, under the
\* rules the version names, unless a member was registered again by itself.
RootsHold ==
    \A f \in DOMAIN folders \ stale :
      LET leaves == Leaves(MemberLeaves(f))
      IN  folders[f].root = IF version = 2 THEN Root(leaves) ELSE LegacyRoot(leaves)
===============================================================================
