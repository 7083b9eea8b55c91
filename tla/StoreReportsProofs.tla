--------------------------- MODULE StoreReportsProofs ---------------------------
(***************************************************************************)
(* Proofs about EvidenceStore and StoreReports, for any processes, folders *)
(* and files, any batch size and any number of commands.                   *)
(*                                                                         *)
(* A folder is whole because a registration carries what it is about to    *)
(* commit: the members its transaction has are the first files it hashed,  *)
(* in the order in which their digests were fed to the builder, and the    *)
(* others wait in the batch (Gathered).  The order of the member ids is    *)
(* the order of the walk, so when finish_folder writes member_ids from the *)
(* members and the root from the builder, the two agree.  A stored root    *)
(* then holds until a member's row is replaced, which marks the folder.    *)
(*                                                                         *)
(* migrate-merkle replaces roots from what it read before its transaction. *)
(* What it read is still true when it commits, because nothing registers a *)
(* folder in a store of version 1 and no other process migrates it: the    *)
(* theorems about roots assume one process that migrates.                  *)
(***************************************************************************)
EXTENDS StoreReports, MerkleProofs, FiniteSetTheorems

-------------------------------------------------------------------------------
(* The inductive invariant of the store.                                   *)

\* Tables: functions from some of the ids to rows.
Tables(ids, rows) == UNION {[dom -> rows] : dom \in SUBSET ids}

Roots == {Root(leaves) : leaves \in Seq(Digests)} \cup {LegacyRoot(leaves) : leaves \in Seq(Digests)}

Rows       == [sha256 : Digests, folder_id : Folders \cup {NoFolder}]
FolderRows == [root : Roots, member_ids : Seq(MemberIds)]
Changes    == [folder : Folders, old : Roots, leaves : Seq(Digests)]

Ingests == [op : {"ingest"}, folder : Folders, files : 1 .. MaxFiles, read : 0 .. MaxFiles,
            batch : Seq(MemberIds \X Digests), fed : Seq(Digests),
            run : Tables(MemberIds, Rows)]
Registered == [op : {"registered"}, folder : Folders]
Migrations == [op : {"migrate"}, force : BOOLEAN, changes : Seq(Changes),
               old : Tables(Folders, Roots)]

Jobs == {Idle} \cup Ingests \cup Registered \cup Migrations

StoreTypes ==
    /\ evidence \in Tables(Ids, Rows) /\ IsFiniteSet(DOMAIN evidence)
    /\ folders \in Tables(Folders, FolderRows) /\ stale \subseteq DOMAIN folders
    /\ version \in {1, 2} /\ lock \in Clients \cup {Nobody}
    /\ log \in Seq([evidence_id : Folders])
    /\ job \in [Clients -> Jobs]

Increasing(places) ==
    \A a, b \in 1 .. Len(places) : a < b => places[a] < places[b]

FirstMembers(f, places, k) == {MemberId(f, places[a]) : a \in 1 .. k}

\* The places of the files hashed so far, in the order of the walk; the first of
\* them are the members the transaction has, the others wait in the batch.
GatheredAs(j, places) ==
    LET k == Len(j.fed) - Len(j.batch)
    IN  /\ Len(places) = Len(j.fed) /\ k \in Nat
        /\ Increasing(places) /\ \A a \in 1 .. Len(places) : places[a] <= j.read
        /\ j.read <= j.files
        /\ DOMAIN j.run = FirstMembers(j.folder, places, k)
        /\ \A a \in 1 .. k : j.run[MemberId(j.folder, places[a])] =
                               [sha256 |-> j.fed[a], folder_id |-> j.folder]
        /\ \A b \in 1 .. Len(j.batch) :
             j.batch[b] = <<MemberId(j.folder, places[k + b]), j.fed[k + b]>>

Gathered ==
    \A c \in Clients : job[c].op = "ingest" =>
      \E places \in Seq(1 .. MaxFiles) : GatheredAs(job[c], places)

\* The write lock is held from the first batch on.
Held == lock # Nobody => job[lock].op = "ingest" /\ DOMAIN job[lock].run # {}

JobFoldersAreStored ==
    \A c \in Clients : /\ job[c].op = "registered" => job[c].folder \in DOMAIN folders
                       /\ job[c].op = "migrate" => DOMAIN job[c].old \subseteq DOMAIN folders

WholeInv == StoreTypes /\ FoldersAreWhole /\ Gathered /\ Held /\ JobFoldersAreStored

\* The leaves of each folder, and the roots the tables should then have.
StoredLeaves == [f \in DOMAIN folders |-> Leaves(MemberLeaves(f))]

RootsStored ==
    \A f \in DOMAIN folders \ stale :
      folders[f].root = IF version = 2 THEN Root(StoredLeaves[f]) ELSE LegacyRoot(StoredLeaves[f])

\* With one process that migrates, what it read of a folder stays true until it
\* commits, unless a member was registered again.
Reads ==
    \A c \in Clients : job[c].op = "migrate" =>
      /\ c \in Migrators /\ version = 1
      /\ DOMAIN job[c].old = DOMAIN folders
      /\ \A f \in DOMAIN folders : job[c].old[f] = folders[f].root
      /\ \A i \in DOMAIN job[c].changes :
           LET change == job[c].changes[i]
           IN  /\ change.folder \in DOMAIN folders /\ change.old = folders[change.folder].root
               /\ change.folder \notin stale => change.leaves = StoredLeaves[change.folder]

-------------------------------------------------------------------------------
(* Tables, and the order of ids.                                           *)

LEMMA TableIs ==
    ASSUME NEW I, NEW R, NEW t
    PROVE  t \in Tables(I, R) <=> DOMAIN t \subseteq I /\ t \in [DOMAIN t -> R]
<1>1. ASSUME t \in Tables(I, R) PROVE DOMAIN t \subseteq I /\ t \in [DOMAIN t -> R]
  <2>1. PICK dom \in SUBSET I : t \in [dom -> R]
    BY <1>1 DEF Tables
  <2> QED
    BY <2>1
<1>2. ASSUME DOMAIN t \subseteq I, t \in [DOMAIN t -> R] PROVE t \in Tables(I, R)
  BY <1>2 DEF Tables
<1> QED
  BY <1>1, <1>2

LEMMA PutProperties ==
    ASSUME NEW I, NEW R, NEW new \in Tables(I, R), NEW table \in Tables(I, R)
    PROVE  /\ Put(new, table) \in Tables(I, R)
           /\ DOMAIN Put(new, table) = DOMAIN new \cup DOMAIN table
           /\ \A id \in DOMAIN new : Put(new, table)[id] = new[id]
           /\ \A id \in DOMAIN table : id \notin DOMAIN new => Put(new, table)[id] = table[id]
<1>1. /\ DOMAIN new \subseteq I /\ new \in [DOMAIN new -> R]
      /\ DOMAIN table \subseteq I /\ table \in [DOMAIN table -> R]
  BY TableIs
<1> DEFINE t == Put(new, table)
<1>2. /\ DOMAIN t = DOMAIN new \cup DOMAIN table
      /\ \A id \in DOMAIN new : t[id] = new[id]
      /\ \A id \in DOMAIN table : id \notin DOMAIN new => t[id] = table[id]
  BY DEF Put
<1>3. t \in [DOMAIN t -> R]
  BY <1>1 DEF Put
<1>4. t \in Tables(I, R)
  BY <1>1, <1>2, <1>3, TableIs
<1> QED
  BY <1>2, <1>4

LEMMA FolderIds ==
    ASSUME NEW f \in Folders
    PROVE  f = <<f[1]>> /\ f[1] \in Nat /\ f # NoFolder
<1>1. f = <<f[1]>> /\ f[1] \in Nat
  BY EvidenceStoreAssumption
<1> QED
  BY <1>1 DEF NoFolder

\* The members of a folder in the order of their ids.
LEMMA MemberOrder ==
    ASSUME NEW f \in Folders, NEW r \in Nat, NEW s \in Nat
    PROVE  /\ MemberId(f, r) = MemberId(f, s) <=> r = s
           /\ Before(MemberId(f, r), MemberId(f, s)) <=> r <= s
<1>1. f[1] \in Nat
  BY FolderIds
<1> DEFINE x == MemberId(f, r)
           y == MemberId(f, s)
<1>2. x[1] = f[1] /\ y[1] = f[1] /\ x[2] = r /\ y[2] = s /\ Len(x) = 2 /\ Len(y) = 2
  BY DEF MemberId
<1>3. x = y <=> r = s
  BY DEF MemberId
<1> HIDE DEF x, y
<1>4. Before(x, y) <=> r <= s
  BY <1>1, <1>2 DEF Before
<1> QED
  BY <1>3, <1>4 DEF x, y

LEMMA PlacesDiffer ==
    ASSUME NEW places \in Seq(1 .. MaxFiles), Increasing(places)
    PROVE  /\ Len(places) \in Nat
           /\ \A a \in 1 .. Len(places) : places[a] \in 1 .. MaxFiles /\ places[a] \in Nat
           /\ \A a, b \in 1 .. Len(places) : places[a] = places[b] <=> a = b
           /\ \A a, b \in 1 .. Len(places) : places[a] <= places[b] <=> a <= b
<1>1. Len(places) \in Nat /\ \A a \in 1 .. Len(places) : places[a] \in 1 .. MaxFiles
  BY LenProperties, ElementOfSeq
<1>2. MaxFiles \in Nat
  BY EvidenceStoreAssumption
<1>3. \A a \in 1 .. Len(places) : places[a] \in Nat
  BY <1>1, <1>2
<1>4. ASSUME NEW a \in 1 .. Len(places), NEW b \in 1 .. Len(places)
      PROVE  (places[a] = places[b] <=> a = b) /\ (places[a] <= places[b] <=> a <= b)
  <2>1. a \in Nat /\ b \in Nat /\ places[a] \in Nat /\ places[b] \in Nat
    BY <1>1, <1>3
  <2>2. (a < b => places[a] < places[b]) /\ (b < a => places[b] < places[a])
    BY DEF Increasing
  <2>3. CASE a = b
    BY <2>1, <2>3
  <2>4. CASE a < b
    BY <2>1, <2>2, <2>4
  <2>5. CASE b < a
    BY <2>1, <2>2, <2>5
  <2> QED
    BY <2>1, <2>3, <2>4, <2>5
<1> QED
  BY <1>1, <1>3, <1>4

LEMMA MemberCount ==
    ASSUME NEW f \in Folders, NEW places \in Seq(1 .. MaxFiles), Increasing(places),
           NEW k \in 0 .. Len(places)
    PROVE  IsFiniteSet(FirstMembers(f, places, k)) /\ Cardinality(FirstMembers(f, places, k)) = k
<1> DEFINE T == FirstMembers(f, places, k)
           m == [a \in 1 .. k |-> MemberId(f, places[a])]
<1>1. Len(places) \in Nat /\ k \in Nat /\ \A a \in 1 .. k : a \in 1 .. Len(places)
  BY PlacesDiffer
<1>2. m \in Surjection(1 .. k, T)
  <2>1. m \in [1 .. k -> T] /\ \A t \in T : \E a \in 1 .. k : m[a] = t
    BY DEF FirstMembers
  <2> QED
    BY <2>1 DEF Surjection
<1>3. m \in Injection(1 .. k, T)
  <2>1. \A a, b \in 1 .. k : m[a] = m[b] => a = b
    BY <1>1, PlacesDiffer, MemberOrder
  <2>2. m \in [1 .. k -> T]
    BY DEF FirstMembers
  <2> QED
    BY <2>1, <2>2 DEF Injection, IsInjective
<1>4. IsFiniteSet(1 .. k) /\ Cardinality(1 .. k) = k
  BY <1>1, FS_Interval
<1> HIDE DEF m, T
<1>5. IsFiniteSet(T) /\ Cardinality(T) = k
  BY <1>2, <1>3, <1>4, FS_Surjection
<1> QED
  BY <1>5 DEF T

\* SELECT ... ORDER BY evidence_id returns the members in the order of the walk.
LEMMA MembersInOrder ==
    ASSUME NEW f \in Folders, NEW places \in Seq(1 .. MaxFiles), Increasing(places)
    PROVE  LET ids == FirstMembers(f, places, Len(places))
           IN  InOrder(ids) = [a \in 1 .. Len(places) |-> MemberId(f, places[a])]
<1> DEFINE n      == Len(places)
           ids    == FirstMembers(f, places, n)
           rank(x) == Cardinality({y \in ids : y # x /\ Before(y, x)})
<1>1. /\ n \in Nat /\ \A a \in 1 .. n : places[a] \in Nat
      /\ \A a, b \in 1 .. n : places[a] = places[b] <=> a = b
      /\ \A a, b \in 1 .. n : places[a] <= places[b] <=> a <= b
  BY PlacesDiffer
<1>2. Cardinality(ids) = n
  <2>1. n \in 0 .. n
    BY <1>1
  <2> QED
    BY <2>1, MemberCount
<1>3. ASSUME NEW a \in 1 .. n PROVE rank(MemberId(f, places[a])) = a - 1
  <2>1. \A b \in 1 .. n : /\ MemberId(f, places[b]) = MemberId(f, places[a]) <=> b = a
                          /\ Before(MemberId(f, places[b]), MemberId(f, places[a])) <=> b <= a
    BY <1>1, MemberOrder
  <2>2. \A b \in 1 .. a - 1 : b \in 1 .. n /\ b # a /\ b <= a
    BY <1>1
  <2>3. \A b \in 1 .. n : b # a /\ b <= a => b \in 1 .. a - 1
    BY <1>1
  <2>4. {y \in ids : y # MemberId(f, places[a]) /\ Before(y, MemberId(f, places[a]))}
          = FirstMembers(f, places, a - 1)
    <3> HIDE DEF n
    <3> QED
      BY <2>1, <2>2, <2>3, Zenon DEF FirstMembers
  <2>5. a - 1 \in 0 .. n
    BY <1>1
  <2>6. Cardinality(FirstMembers(f, places, a - 1)) = a - 1
    BY <2>5, MemberCount
  <2> QED
    BY <2>4, <2>6
<1>4. ASSUME NEW k \in 1 .. n
      PROVE  (CHOOSE x \in ids : rank(x) = k - 1) = MemberId(f, places[k])
  <2> DEFINE x == CHOOSE x \in ids : rank(x) = k - 1
  <2>1. MemberId(f, places[k]) \in ids /\ rank(MemberId(f, places[k])) = k - 1
    BY <1>3 DEF FirstMembers
  <2> HIDE DEF rank
  <2>2. x \in ids /\ rank(x) = k - 1
    BY <2>1
  <2>3. PICK a \in 1 .. n : x = MemberId(f, places[a])
    BY <2>2 DEF FirstMembers
  <2>4. a - 1 = k - 1
    BY <1>3, <2>2, <2>3
  <2>5. a = k
    BY <1>1, <2>4
  <2> QED
    BY <2>3, <2>5
<1>5. InOrder(ids) = [k \in 1 .. n |-> CHOOSE x \in ids : rank(x) = k - 1]
  <2> HIDE DEF n, ids
  <2> QED
    BY <1>2 DEF InOrder
<1> HIDE DEF rank, ids
<1> QED
  BY <1>4, <1>5 DEF ids

-------------------------------------------------------------------------------
(* The jobs.                                                               *)

LEMMA JobKinds ==
    ASSUME StoreTypes, NEW c \in Clients
    PROVE  /\ job[c] \in Jobs
           /\ job[c].op = "ingest" => job[c] \in Ingests
           /\ job[c].op = "registered" => job[c] \in Registered
           /\ job[c].op = "migrate" => job[c] \in Migrations
           /\ job[c].op \in {"idle", "ingest", "registered", "migrate"}
<1>1. job[c] \in Jobs
  BY DEF StoreTypes
<1>2. Idle.op = "idle"
  BY DEF Idle
<1>3. \A j \in Ingests : j.op = "ingest"
  BY DEF Ingests
<1>4. \A j \in Registered : j.op = "registered"
  BY DEF Registered
<1>5. \A j \in Migrations : j.op = "migrate"
  BY DEF Migrations
<1> QED
  BY <1>1, <1>2, <1>3, <1>4, <1>5 DEF Jobs

LEMMA IngestFields ==
    ASSUME NEW j \in Ingests
    PROVE  /\ j.op = "ingest" /\ j.folder \in Folders /\ j.files \in 1 .. MaxFiles
           /\ j.read \in 0 .. MaxFiles /\ j.batch \in Seq(MemberIds \X Digests)
           /\ j.fed \in Seq(Digests) /\ j.run \in Tables(MemberIds, Rows)
           /\ Len(j.fed) \in Nat /\ Len(j.batch) \in Nat /\ j.read \in Nat /\ j.files \in Nat
<1>1. /\ j.op = "ingest" /\ j.folder \in Folders /\ j.files \in 1 .. MaxFiles
      /\ j.read \in 0 .. MaxFiles /\ j.batch \in Seq(MemberIds \X Digests)
      /\ j.fed \in Seq(Digests) /\ j.run \in Tables(MemberIds, Rows)
  BY DEF Ingests
<1>2. Len(j.fed) \in Nat /\ Len(j.batch) \in Nat
  BY <1>1, LenProperties
<1>3. MaxFiles \in Nat
  BY EvidenceStoreAssumption
<1> QED
  BY <1>1, <1>2, <1>3

\* What one client's job becomes, when no folder is lost.
LEMMA JobChange ==
    ASSUME StoreTypes, Gathered, JobFoldersAreStored, NEW c \in Clients, NEW j \in Jobs,
           job' = [job EXCEPT ![c] = j], DOMAIN folders \subseteq DOMAIN folders',
           j.op = "ingest" => \E places \in Seq(1 .. MaxFiles) : GatheredAs(j, places),
           j.op = "registered" => j.folder \in DOMAIN folders',
           j.op = "migrate" => DOMAIN j.old \subseteq DOMAIN folders'
    PROVE  /\ job' \in [Clients -> Jobs] /\ job'[c] = j
           /\ \A d \in Clients \ {c} : job'[d] = job[d]
           /\ Gathered' /\ JobFoldersAreStored'
<1>1. job \in [Clients -> Jobs]
  BY DEF StoreTypes
<1>2. job' \in [Clients -> Jobs] /\ job'[c] = j /\ \A d \in Clients \ {c} : job'[d] = job[d]
  BY <1>1
<1>3. Gathered'
  <2> SUFFICES ASSUME NEW d \in Clients, job'[d].op = "ingest"
               PROVE  \E places \in Seq(1 .. MaxFiles) : GatheredAs(job'[d], places)
    BY DEF Gathered, GatheredAs
  <2> QED
    BY <1>2 DEF Gathered
<1>4. JobFoldersAreStored'
  BY <1>2 DEF JobFoldersAreStored
<1> QED
  BY <1>2, <1>3, <1>4

LEMMA JobOnly ==
    ASSUME WholeInv, UNCHANGED store, NEW c \in Clients, NEW j \in Jobs,
           job' = [job EXCEPT ![c] = j],
           j.op = "ingest" => \E places \in Seq(1 .. MaxFiles) : GatheredAs(j, places),
           j.op = "registered" => j.folder \in DOMAIN folders,
           j.op = "migrate" => DOMAIN j.old \subseteq DOMAIN folders,
           lock = c => j.op = "ingest" /\ DOMAIN j.run # {}
    PROVE  WholeInv'
<1>0. StoreTypes /\ FoldersAreWhole /\ Gathered /\ Held /\ JobFoldersAreStored
  BY DEF WholeInv
<1>1. /\ evidence' = evidence /\ folders' = folders /\ version' = version
      /\ log' = log /\ lock' = lock /\ stale' = stale
  BY DEF store
<1>2. /\ job' \in [Clients -> Jobs] /\ job'[c] = j
      /\ \A d \in Clients \ {c} : job'[d] = job[d]
      /\ Gathered' /\ JobFoldersAreStored'
  BY <1>0, <1>1, JobChange
<1>3. StoreTypes'
  BY <1>0, <1>1, <1>2 DEF StoreTypes
<1>4. FoldersAreWhole'
  BY <1>0, <1>1 DEF FoldersAreWhole
<1>5. Held'
  BY <1>0, <1>1, <1>2 DEF Held, StoreTypes
<1> QED
  BY <1>2, <1>3, <1>4, <1>5 DEF WholeInv

-------------------------------------------------------------------------------
(* The steps of a folder's registration.                                   *)

LEMMA StartKeeps ==
    ASSUME WholeInv, NEW c \in Clients, NEW f \in Folders, NEW files \in 1 .. MaxFiles,
           StartFolder(c, f, files)
    PROVE  WholeInv'
<1> DEFINE j == [op |-> "ingest", folder |-> f, files |-> files, read |-> 0,
                 batch |-> <<>>, fed |-> <<>>, run |-> <<>>]
<1>1. job[c] = Idle /\ job' = [job EXCEPT ![c] = j] /\ UNCHANGED store
  BY DEF StartFolder, Starts
<1>2. MaxFiles \in Nat
  BY EvidenceStoreAssumption
<1>3. j \in Ingests
  <2>1. <<>> \in Seq(MemberIds \X Digests) /\ <<>> \in Seq(Digests) /\ 0 \in 0 .. MaxFiles
    BY <1>2
  <2>2. <<>> \in Tables(MemberIds, Rows)
    <3>1. DOMAIN <<>> = {}
      OBVIOUS
    <3>2. <<>> \in [DOMAIN <<>> -> Rows]
      BY <3>1
    <3> QED
      BY <3>1, <3>2, TableIs
  <2> QED
    BY <2>1, <2>2 DEF Ingests
<1>4. GatheredAs(j, <<>>) /\ <<>> \in Seq(1 .. MaxFiles)
  <2>1. Len(<<>>) = 0 /\ DOMAIN <<>> = {} /\ <<>> \in Seq(1 .. MaxFiles)
    OBVIOUS
  <2>2. FirstMembers(f, <<>>, 0) = {} /\ Increasing(<<>>)
    BY <2>1 DEF FirstMembers, Increasing
  <2>3. 0 <= files
    BY <1>2
  <2> QED
    BY <2>1, <2>2, <2>3 DEF GatheredAs
<1>5. lock # c
  <2>1. Nobody \notin Clients
    BY EvidenceStoreAssumption
  <2> QED
    BY <1>1, <2>1 DEF WholeInv, Held, Idle
<1> HIDE DEF j
<1>6. j \in Jobs /\ j.op = "ingest"
  BY <1>3, IngestFields DEF Jobs
<1> QED
  BY <1>1, <1>4, <1>5, <1>6, JobOnly

\* A job after the next file was hashed.
LEMMA HashedJob ==
    ASSUME NEW j \in Ingests, NEW places \in Seq(1 .. MaxFiles), GatheredAs(j, places),
           j.read # j.files, NEW digest \in Digests, NEW i \in Ingests,
           i.folder = j.folder, i.files = j.files, i.read = j.read + 1, i.run = j.run,
           i.batch = Append(j.batch, <<MemberId(j.folder, j.read + 1), digest>>),
           i.fed = Append(j.fed, digest)
    PROVE  \E more \in Seq(1 .. MaxFiles) : GatheredAs(i, more)
<1> DEFINE k    == Len(j.fed) - Len(j.batch)
           n    == Len(places)
           r    == j.read + 1
           f    == j.folder
           pair == <<MemberId(f, r), digest>>
           more == Append(places, r)
<1>1. /\ j.folder \in Folders /\ j.files \in 1 .. MaxFiles /\ j.read \in Nat
      /\ j.batch \in Seq(MemberIds \X Digests) /\ j.fed \in Seq(Digests)
      /\ Len(j.fed) \in Nat /\ Len(j.batch) \in Nat
  BY IngestFields
<1>2. /\ n = Len(j.fed) /\ k \in Nat /\ Increasing(places)
      /\ \A a \in 1 .. n : places[a] <= j.read
      /\ j.read <= j.files
      /\ DOMAIN j.run = FirstMembers(f, places, k)
      /\ \A a \in 1 .. k : j.run[MemberId(f, places[a])] = [sha256 |-> j.fed[a], folder_id |-> f]
      /\ \A b \in 1 .. Len(j.batch) : j.batch[b] = <<MemberId(f, places[k + b]), j.fed[k + b]>>
  BY DEF GatheredAs
<1>3. MaxFiles \in Nat
  BY EvidenceStoreAssumption
<1>4. r \in 1 .. MaxFiles /\ r <= j.files /\ r \in Nat
  BY <1>1, <1>2, <1>3
<1>5. pair \in MemberIds \X Digests
  BY <1>1, <1>4 DEF MemberIds
<1>6. /\ more \in Seq(1 .. MaxFiles) /\ Len(more) = n + 1
      /\ \A a \in 1 .. n : more[a] = places[a]
      /\ more[n + 1] = r
  <2> HIDE DEF r
  <2> QED
    BY <1>4, AppendProperties
<1>7. /\ Len(i.fed) = Len(j.fed) + 1 /\ i.fed[Len(j.fed) + 1] = digest
      /\ \A a \in 1 .. Len(j.fed) : i.fed[a] = j.fed[a]
  BY <1>1, AppendProperties
<1>8. /\ Len(i.batch) = Len(j.batch) + 1 /\ i.batch[Len(j.batch) + 1] = pair
      /\ \A a \in 1 .. Len(j.batch) : i.batch[a] = j.batch[a]
  <2> HIDE DEF pair
  <2>1. i.batch = Append(j.batch, pair)
    BY DEF pair
  <2> QED
    BY <1>1, <1>5, <2>1, AppendProperties
<1>k. k = Len(j.fed) - Len(j.batch) /\ k \in Int
  BY <1>1
<1> HIDE DEF more, n, r, pair, k
<1>9. n \in Nat /\ \A a \in 1 .. n : places[a] \in Nat
  BY PlacesDiffer, <1>2 DEF n
<1>10. Increasing(more)
  <2> SUFFICES ASSUME NEW a \in 1 .. n + 1, NEW b \in 1 .. n + 1, a < b
               PROVE  more[a] < more[b]
    BY <1>6 DEF Increasing
  <2>1. a \in 1 .. n
    BY <1>9
  <2>2. CASE b \in 1 .. n
    BY <1>2, <1>6, <2>1, <2>2 DEF Increasing, n
  <2>3. CASE b = n + 1
    <3>1. more[a] = places[a] /\ more[b] = r /\ places[a] <= j.read /\ places[a] \in Nat
      BY <1>2, <1>6, <1>9, <2>1, <2>3
    <3> QED
      BY <1>1, <3>1 DEF r
  <2> QED
    BY <1>9, <2>2, <2>3
<1>11. \A a \in 1 .. n + 1 : more[a] <= i.read
  <2> SUFFICES ASSUME NEW a \in 1 .. n + 1 PROVE more[a] <= j.read + 1
    OBVIOUS
  <2>1. CASE a \in 1 .. n
    <3>1. more[a] = places[a] /\ places[a] <= j.read /\ places[a] \in Nat
      BY <1>2, <1>6, <1>9, <2>1
    <3> QED
      BY <1>1, <3>1
  <2>2. CASE a = n + 1
    BY <1>1, <1>6, <2>2 DEF r
  <2> QED
    BY <1>9, <2>1, <2>2
<1>12. Len(i.fed) - Len(i.batch) = k
  <2>1. (Len(j.fed) + 1) - (Len(j.batch) + 1) = Len(j.fed) - Len(j.batch)
    BY <1>1
  <2> QED
    BY <1>k, <1>7, <1>8, <2>1
<1>m. /\ k \in Nat /\ n \in Nat /\ Len(j.batch) \in Nat /\ k + Len(j.batch) = n /\ k <= n
  <2> DEFINE x == Len(j.fed)
             y == Len(j.batch)
  <2>1. x \in Nat /\ y \in Nat /\ k = x - y /\ k \in Nat /\ n = x
    BY <1>k, <1>1, <1>2, Zenon
  <2> HIDE DEF x, y
  <2>2. k \in Nat /\ n \in Nat /\ y \in Nat /\ k + y = n /\ k <= n
    BY <2>1
  <2> QED
    BY <2>2 DEF y
<1>13. \A a \in 1 .. k : a \in 1 .. n
  BY <1>m
<1>14. FirstMembers(f, more, k) = FirstMembers(f, places, k)
  BY <1>6, <1>13 DEF FirstMembers
<1>15. \A a \in 1 .. k : i.run[MemberId(f, more[a])] = [sha256 |-> i.fed[a], folder_id |-> f]
  BY <1>2, <1>6, <1>7, <1>13
<1>16. \A b \in 1 .. Len(i.batch) : i.batch[b] = <<MemberId(f, more[k + b]), i.fed[k + b]>>
  <2> SUFFICES ASSUME NEW b \in 1 .. Len(j.batch) + 1
               PROVE  i.batch[b] = <<MemberId(f, more[k + b]), i.fed[k + b]>>
    BY <1>8
  <2>1. CASE b \in 1 .. Len(j.batch)
    <3>1. k + b \in 1 .. n
      BY <1>m, <2>1
    <3> QED
      BY <1>2, <1>6, <1>7, <1>8, <2>1, <3>1
  <2>2. CASE b = Len(j.batch) + 1
    <3>1. k + b = n + 1
      BY <1>m, <2>2
    <3> QED
      BY <1>2, <1>6, <1>7, <1>8, <2>2, <3>1 DEF pair
  <2>3. b \in 1 .. Len(j.batch) \/ b = Len(j.batch) + 1
    <3> DEFINE y == Len(j.batch)
    <3>1. y \in Nat /\ b \in 1 .. y + 1
      BY <1>m
    <3> HIDE DEF y
    <3>2. b \in 1 .. y \/ b = y + 1
      BY <3>1
    <3> QED
      BY <3>2 DEF y
  <2> QED
    BY <2>1, <2>2, <2>3
<1>17. GatheredAs(i, more)
  <2>1. Len(more) = Len(i.fed)
    BY <1>2, <1>6, <1>7
  <2>2. i.read <= i.files
    BY <1>4 DEF r
  <2> HIDE DEF f
  <2>3. i.folder = f
    BY DEF f
  <2> QED
    BY <1>2, <1>6, <1>10, <1>11, <1>12, <1>14, <1>15, <1>16, <2>1, <2>2, <2>3 DEF GatheredAs
<1> QED
  BY <1>6, <1>17

LEMMA HashKeeps ==
    ASSUME WholeInv, NEW c \in Clients, NEW digest \in Digests, HashMember(c, digest)
    PROVE  WholeInv'
<1>0. StoreTypes /\ Gathered /\ Held
  BY DEF WholeInv
<1> DEFINE o    == job[c]
           pair == <<MemberId(o.folder, o.read + 1), digest>>
           j    == [o EXCEPT !.read = o.read + 1, !.batch = Append(o.batch, pair),
                             !.fed = Append(o.fed, digest)]
<1>1. o \in Ingests /\ o.read # o.files
  BY <1>0, JobKinds DEF HashMember, Ingesting, ReadAll
<1>2. job' = [job EXCEPT ![c] = j] /\ UNCHANGED store
  <2>1. job \in [Clients -> Jobs]
    BY <1>0 DEF StoreTypes
  <2> QED
    BY <2>1 DEF HashMember
<1>3. PICK places \in Seq(1 .. MaxFiles) : GatheredAs(o, places)
  BY <1>0, <1>1, IngestFields DEF Gathered
<1> HIDE DEF o
<1>4. /\ o.folder \in Folders /\ o.files \in 1 .. MaxFiles /\ o.read \in Nat
      /\ o.batch \in Seq(MemberIds \X Digests) /\ o.fed \in Seq(Digests)
      /\ MaxFiles \in Nat
  BY <1>1, IngestFields, EvidenceStoreAssumption
<1>5. o.read <= o.files
  BY <1>3 DEF GatheredAs
<1>6. o.read + 1 \in 1 .. MaxFiles /\ o.read + 1 \in 0 .. MaxFiles
  BY <1>1, <1>4, <1>5
<1>7. Append(o.batch, pair) \in Seq(MemberIds \X Digests) /\ Append(o.fed, digest) \in Seq(Digests)
  <2>1. pair \in MemberIds \X Digests
    BY <1>4, <1>6 DEF MemberIds
  <2> HIDE DEF pair
  <2> QED
    BY <1>4, <2>1, AppendProperties
<1>8. /\ j \in Ingests /\ j.op = o.op /\ j.folder = o.folder /\ j.files = o.files
      /\ j.read = o.read + 1 /\ j.run = o.run
      /\ j.batch = Append(o.batch, pair) /\ j.fed = Append(o.fed, digest)
  <2> HIDE DEF pair
  <2> QED
    BY <1>1, <1>6, <1>7 DEF Ingests
<1> HIDE DEF j
<1>9. \E more \in Seq(1 .. MaxFiles) : GatheredAs(j, more)
  BY <1>1, <1>3, <1>8, HashedJob DEF pair
<1>10. lock = c => j.op = "ingest" /\ DOMAIN j.run # {}
  <2>1. Nobody \notin Clients
    BY EvidenceStoreAssumption
  <2> QED
    BY <1>0, <1>8, <2>1 DEF Held, o
<1>11. j \in Jobs /\ j.op = "ingest"
  BY <1>8, IngestFields DEF Jobs
<1> QED
  BY <1>2, <1>9, <1>10, <1>11, JobOnly

LEMMA SkipKeeps ==
    ASSUME WholeInv, NEW c \in Clients, SkipMember(c)
    PROVE  WholeInv'
<1>0. StoreTypes /\ Gathered /\ Held
  BY DEF WholeInv
<1> DEFINE o == job[c]
           j == [o EXCEPT !.read = o.read + 1]
<1>1. o \in Ingests /\ o.read # o.files
  BY <1>0, JobKinds DEF SkipMember, Ingesting, ReadAll
<1>2. job' = [job EXCEPT ![c] = j] /\ UNCHANGED store
  <2>1. job \in [Clients -> Jobs]
    BY <1>0 DEF StoreTypes
  <2> QED
    BY <2>1 DEF SkipMember
<1>3. PICK places \in Seq(1 .. MaxFiles) : GatheredAs(o, places)
  BY <1>0, <1>1, IngestFields DEF Gathered
<1> HIDE DEF o
<1>4. o.files \in 1 .. MaxFiles /\ o.read \in Nat /\ MaxFiles \in Nat
  BY <1>1, IngestFields, EvidenceStoreAssumption
<1>5. o.read <= o.files /\ \A a \in 1 .. Len(places) : places[a] <= o.read /\ places[a] \in Nat
  BY <1>3, PlacesDiffer DEF GatheredAs
<1>6. o.read + 1 \in 0 .. MaxFiles /\ o.read + 1 <= o.files
  BY <1>1, <1>4, <1>5
<1>7. /\ j \in Ingests /\ j.op = o.op /\ j.folder = o.folder /\ j.files = o.files
      /\ j.read = o.read + 1 /\ j.run = o.run /\ j.batch = o.batch /\ j.fed = o.fed
  BY <1>1, <1>6 DEF Ingests
<1> HIDE DEF j
<1>8. GatheredAs(j, places)
  <2>1. \A a \in 1 .. Len(places) : places[a] <= j.read
    BY <1>4, <1>5, <1>7
  <2>2. j.read <= j.files
    BY <1>6, <1>7
  <2> QED
    BY <1>3, <1>7, <2>1, <2>2, Zenon DEF GatheredAs
<1>9. lock = c => j.op = "ingest" /\ DOMAIN j.run # {}
  <2>1. Nobody \notin Clients
    BY EvidenceStoreAssumption
  <2> QED
    BY <1>0, <1>7, <2>1 DEF Held, o
<1>10. j \in Jobs /\ j.op = "ingest"
  BY <1>7, IngestFields DEF Jobs
<1> QED
  BY <1>2, <1>8, <1>9, <1>10, JobOnly

\* The rows of a batch, as add_folder_members inserts them.
BatchRows(batch, f) ==
    [id \in {batch[i][1] : i \in DOMAIN batch} |->
       LET i == CHOOSE k \in DOMAIN batch : batch[k][1] = id
       IN  [sha256 |-> batch[i][2], folder_id |-> f]]

\* A job after its batch was added.
LEMMA AddedJob ==
    ASSUME NEW j \in Ingests, NEW places \in Seq(1 .. MaxFiles), GatheredAs(j, places),
           NEW i, j.batch # <<>>,
           i.folder = j.folder, i.files = j.files, i.read = j.read, i.fed = j.fed,
           i.batch = <<>>, i.run = Put(BatchRows(j.batch, j.folder), j.run)
    PROVE  /\ BatchRows(j.batch, j.folder) \in Tables(MemberIds, Rows)
           /\ GatheredAs(i, places) /\ DOMAIN i.run # {}
<1> DEFINE f     == j.folder
           batch == j.batch
           fed   == j.fed
           n     == Len(places)
           m     == Len(batch)
           k     == Len(fed) - m
           rows  == BatchRows(batch, f)
<1>1. /\ f \in Folders /\ batch \in Seq(MemberIds \X Digests) /\ fed \in Seq(Digests)
      /\ j.run \in Tables(MemberIds, Rows) /\ Len(fed) \in Nat /\ m \in Nat
  BY IngestFields
<1>2. /\ n = Len(fed) /\ k \in Nat /\ Increasing(places)
      /\ \A a \in 1 .. n : places[a] <= j.read
      /\ j.read <= j.files
      /\ DOMAIN j.run = FirstMembers(f, places, k)
      /\ \A a \in 1 .. k : j.run[MemberId(f, places[a])] = [sha256 |-> fed[a], folder_id |-> f]
      /\ \A b \in 1 .. m : batch[b] = <<MemberId(f, places[k + b]), fed[k + b]>>
  BY DEF GatheredAs
<1>3. /\ n \in Nat /\ \A a \in 1 .. n : places[a] \in Nat /\ places[a] \in 1 .. MaxFiles
      /\ \A a, b \in 1 .. n : places[a] = places[b] <=> a = b
  BY <1>2, PlacesDiffer
<1>4. DOMAIN batch = 1 .. m /\ m # 0
  BY <1>1, LenProperties, EmptySeq
<1>5. k = n - m
  BY <1>2
<1>i. i.folder = f /\ i.run = Put(rows, j.run) /\ i.fed = fed
  OBVIOUS
<1> HIDE DEF k, n, m, batch, f, fed
<1>k. k \in Nat /\ n \in Nat /\ m \in Nat /\ k = n - m
  BY <1>1, <1>2, <1>3, <1>5
<1>6. \A b \in 1 .. m : k + b \in 1 .. n /\ (k + b) - k = b
  BY <1>k
<1>7. \A a \in 1 .. k : a \in 1 .. n
  BY <1>k
<1>8. \A a \in 1 .. n : a \in 1 .. k \/ (a - k \in 1 .. m /\ a = k + (a - k))
  BY <1>k
<1>9. \A a, b \in 1 .. n : MemberId(f, places[a]) = MemberId(f, places[b]) => a = b
  BY <1>1, <1>3, MemberOrder
<1>10. DOMAIN rows = {batch[b][1] : b \in 1 .. m}
  BY <1>4 DEF BatchRows
<1>11. \A b \in 1 .. m : batch[b][1] = MemberId(f, places[k + b]) /\ batch[b][2] = fed[k + b]
  BY <1>2
<1>12. ASSUME NEW b \in 1 .. m
       PROVE  rows[MemberId(f, places[k + b])] = [sha256 |-> fed[k + b], folder_id |-> f]
  <2> DEFINE id == MemberId(f, places[k + b])
             x  == CHOOSE l \in DOMAIN batch : batch[l][1] = id
  <2>1. b \in DOMAIN batch /\ batch[b][1] = id
    BY <1>4, <1>11
  <2>2. x \in DOMAIN batch /\ batch[x][1] = id
    BY <2>1
  <2> HIDE DEF x
  <2>3. x \in 1 .. m /\ MemberId(f, places[k + x]) = id
    BY <1>4, <1>11, <2>2
  <2>4. k + x = k + b
    BY <1>6, <1>9, <2>3
  <2>5. id \in {batch[l][1] : l \in DOMAIN batch}
    BY <2>1
  <2>6. rows[id] = [sha256 |-> batch[x][2], folder_id |-> f]
    BY <2>5 DEF BatchRows, x
  <2>7. batch[x][2] = fed[k + b]
    BY <1>11, <2>3, <2>4
  <2> QED
    BY <2>6, <2>7
<1> HIDE DEF rows
<1>13. ASSUME NEW a \in 1 .. n PROVE MemberId(f, places[a]) \in MemberIds /\ fed[a] \in Digests
  <2>1. MemberId(f, places[a]) \in MemberIds
    BY <1>1, <1>3 DEF MemberIds
  <2>2. a \in 1 .. Len(fed)
    BY <1>2
  <2>3. fed[a] \in Digests
    BY <1>1, <2>2, ElementOfSeq
  <2> QED
    BY <2>1, <2>3
<1>14. rows \in Tables(MemberIds, Rows)
  <2>1. DOMAIN rows \subseteq MemberIds
    BY <1>6, <1>10, <1>11, <1>13
  <2>2. \A id \in DOMAIN rows : rows[id] \in Rows
    <3> SUFFICES ASSUME NEW b \in 1 .. m PROVE rows[MemberId(f, places[k + b])] \in Rows
      BY <1>10, <1>11
    <3>1. k + b \in 1 .. n
      BY <1>6
    <3>2. fed[k + b] \in Digests
      BY <1>13, <3>1
    <3>3. [sha256 |-> fed[k + b], folder_id |-> f] \in Rows
      BY <1>1, <3>2 DEF Rows
    <3> QED
      BY <1>12, <3>3
  <2>3. rows = [id \in DOMAIN rows |-> rows[id]]
    BY DEF rows, BatchRows
  <2>4. rows \in [DOMAIN rows -> Rows]
    BY <2>2, <2>3
  <2> QED
    BY <2>1, <2>4, TableIs
<1>15. /\ DOMAIN i.run = DOMAIN rows \cup DOMAIN j.run
       /\ \A id \in DOMAIN rows : i.run[id] = rows[id]
       /\ \A id \in DOMAIN j.run : id \notin DOMAIN rows => i.run[id] = j.run[id]
  <2>1. /\ DOMAIN Put(rows, j.run) = DOMAIN rows \cup DOMAIN j.run
        /\ \A id \in DOMAIN rows : Put(rows, j.run)[id] = rows[id]
        /\ \A id \in DOMAIN j.run : id \notin DOMAIN rows => Put(rows, j.run)[id] = j.run[id]
    BY DEF Put
  <2> QED
    BY <1>i, <2>1
<1>16. DOMAIN i.run = FirstMembers(f, places, n)
  <2>1. \A id \in DOMAIN i.run : id \in FirstMembers(f, places, n)
    BY <1>2, <1>6, <1>7, <1>10, <1>11, <1>15 DEF FirstMembers
  <2>2. ASSUME NEW a \in 1 .. n PROVE MemberId(f, places[a]) \in DOMAIN i.run
    <3>1. CASE a \in 1 .. k
      BY <1>2, <1>15, <3>1 DEF FirstMembers
    <3>2. CASE a - k \in 1 .. m /\ a = k + (a - k)
      BY <1>10, <1>11, <1>15, <3>2
    <3> QED
      BY <1>8, <3>1, <3>2
  <2> QED
    BY <2>1, <2>2 DEF FirstMembers
<1>17. ASSUME NEW a \in 1 .. n
       PROVE  i.run[MemberId(f, places[a])] = [sha256 |-> fed[a], folder_id |-> f]
  <2> DEFINE id == MemberId(f, places[a])
  <2>1. CASE a \in 1 .. k
    <3>1. id \in DOMAIN j.run /\ j.run[id] = [sha256 |-> fed[a], folder_id |-> f]
      BY <1>2, <2>1 DEF FirstMembers
    <3>2. id \notin DOMAIN rows
      <4> SUFFICES ASSUME NEW b \in 1 .. m, id = MemberId(f, places[k + b]) PROVE FALSE
        BY <1>10, <1>11
      <4>1. a = k + b
        BY <1>6, <1>9
      <4> QED
        BY <1>2, <2>1, <4>1
    <3> QED
      BY <1>15, <3>1, <3>2
  <2>2. CASE a - k \in 1 .. m /\ a = k + (a - k)
    <3>1. rows[id] = [sha256 |-> fed[a], folder_id |-> f]
      BY <1>12, <2>2
    <3>2. id \in DOMAIN rows
      BY <1>10, <1>11, <2>2
    <3> QED
      BY <1>15, <3>1, <3>2
  <2> QED
    BY <1>8, <2>1, <2>2
<1>18. Len(i.fed) - Len(i.batch) = n
  <2>1. Len(i.fed) = n /\ Len(i.batch) = 0
    BY <1>i, <1>2
  <2> QED
    BY <1>3, <2>1
<1>19. GatheredAs(i, places)
  <2>1. Len(places) = Len(i.fed) /\ Len(i.batch) = 0
    BY <1>i, <1>2 DEF n
  <2>2. \A b \in 1 .. Len(i.batch) :
          i.batch[b] = <<MemberId(i.folder, places[n + b]), i.fed[n + b]>>
    BY <2>1
  <2>3. /\ n \in Nat /\ Increasing(places)
        /\ \A a \in 1 .. Len(places) : places[a] <= i.read
        /\ i.read <= i.files
    BY <1>2, <1>3 DEF n
  <2>4. /\ DOMAIN i.run = FirstMembers(i.folder, places, n)
        /\ \A a \in 1 .. n : i.run[MemberId(i.folder, places[a])]
                               = [sha256 |-> i.fed[a], folder_id |-> i.folder]
    BY <1>i, <1>16, <1>17
  <2> QED
    BY <1>18, <2>1, <2>2, <2>3, <2>4, Zenon DEF GatheredAs
<1>20. DOMAIN i.run # {}
  <2>1. 1 \in 1 .. m
    BY <1>1, <1>4
  <2> QED
    BY <1>10, <1>15, <2>1
<1> QED
  BY <1>14, <1>19, <1>20 DEF rows, batch, f

LEMMA AddMembersKeeps ==
    ASSUME WholeInv, NEW c \in Clients, AddFolderMembers(c)
    PROVE  WholeInv'
<1>0. StoreTypes /\ FoldersAreWhole /\ Gathered /\ JobFoldersAreStored
  BY DEF WholeInv
<1> DEFINE o == job[c]
           i == [o EXCEPT !.batch = <<>>, !.run = Put(BatchRows(o.batch, o.folder), o.run)]
<1>1. o \in Ingests /\ o.batch # <<>>
  BY <1>0, JobKinds DEF AddFolderMembers, Ingesting
<1>2. job' = [job EXCEPT ![c] = i]
  <2>1. job \in [Clients -> Jobs]
    BY <1>0 DEF StoreTypes
  <2> QED
    BY <2>1 DEF AddFolderMembers, BatchRows
<1>3. /\ evidence' = evidence /\ folders' = folders /\ version' = version
      /\ log' = log /\ stale' = stale /\ lock' = c
  BY DEF AddFolderMembers
<1>4. PICK places \in Seq(1 .. MaxFiles) : GatheredAs(o, places)
  BY <1>0, <1>1, IngestFields DEF Gathered
<1> HIDE DEF o
<1>5. /\ i.folder = o.folder /\ i.files = o.files /\ i.read = o.read /\ i.fed = o.fed
      /\ i.op = o.op
      /\ i.batch = <<>> /\ i.run = Put(BatchRows(o.batch, o.folder), o.run)
  <2> DEFINE p == Put(BatchRows(o.batch, o.folder), o.run)
  <2> HIDE DEF p
  <2> QED
    BY <1>1 DEF Ingests
<1>6. /\ BatchRows(o.batch, o.folder) \in Tables(MemberIds, Rows)
      /\ GatheredAs(i, places) /\ DOMAIN i.run # {}
  <2> HIDE DEF i
  <2> QED
    BY <1>1, <1>4, <1>5, AddedJob
<1>7. Put(BatchRows(o.batch, o.folder), o.run) \in Tables(MemberIds, Rows)
  BY <1>1, <1>6, IngestFields, PutProperties
<1>8. i \in Ingests
  <2> DEFINE p == Put(BatchRows(o.batch, o.folder), o.run)
  <2> HIDE DEF p
  <2>1. p \in Tables(MemberIds, Rows) /\ <<>> \in Seq(MemberIds \X Digests)
    BY <1>7 DEF p
  <2>2. i = [o EXCEPT !.batch = <<>>, !.run = p]
    BY DEF p
  <2> HIDE DEF i
  <2> QED
    BY <1>1, <2>1, <2>2 DEF Ingests
<1>9. i.op = "ingest" /\ i \in Jobs
  BY <1>8, IngestFields DEF Jobs
<1> HIDE DEF i
<1>10. /\ job' \in [Clients -> Jobs] /\ job'[c] = i
       /\ Gathered' /\ JobFoldersAreStored'
  BY <1>0, <1>2, <1>3, <1>6, <1>9, JobChange
<1>11. StoreTypes'
  BY <1>0, <1>3, <1>10 DEF StoreTypes
<1>12. FoldersAreWhole'
  BY <1>0, <1>3 DEF FoldersAreWhole
<1>13. Held'
  BY <1>3, <1>6, <1>9, <1>10 DEF Held
<1> QED
  BY <1>10, <1>11, <1>12, <1>13 DEF WholeInv

\* A single file's row replaces whatever row had its id.
LEMMA AddFileKeeps ==
    ASSUME WholeInv, NEW c \in Clients, NEW id \in Singles \cup MemberIds, NEW digest \in Digests,
           AddFile(c, id, digest)
    PROVE  WholeInv'
<1>0. StoreTypes /\ FoldersAreWhole /\ Gathered /\ Held /\ JobFoldersAreStored
  BY DEF WholeInv
<1> DEFINE new == [i \in {id} |-> [sha256 |-> digest, folder_id |-> NoFolder]]
<1>1. /\ folders' = folders /\ version' = version
      /\ log' = log /\ lock' = lock /\ job' = job
  BY DEF AddFile
<1>2. evidence' = Put(new, evidence) /\ stale' = stale \cup HoldersOf({id})
  BY DEF AddFile
<1>3. evidence \in Tables(Ids, Rows) /\ IsFiniteSet(DOMAIN evidence)
  BY <1>0 DEF StoreTypes
<1>4. new \in Tables(Ids, Rows) /\ DOMAIN new = {id} /\ new[id].folder_id = NoFolder
  <2>1. [sha256 |-> digest, folder_id |-> NoFolder] \in Rows
    BY DEF Rows
  <2>2. {id} \subseteq Ids
    BY DEF Ids
  <2> QED
    BY <2>1, <2>2, TableIs
<1> HIDE DEF new
<1>5. /\ evidence' \in Tables(Ids, Rows)
      /\ DOMAIN evidence' = DOMAIN new \cup DOMAIN evidence
      /\ \A i \in DOMAIN new : evidence'[i] = new[i]
      /\ \A i \in DOMAIN evidence : i \notin DOMAIN new => evidence'[i] = evidence[i]
  <2>1. evidence' \in Tables(Ids, Rows)
    <3>1. Put(new, evidence) \in Tables(Ids, Rows)
      BY <1>3, <1>4, PutProperties
    <3> QED
      BY <1>2, <3>1
  <2>2. /\ DOMAIN Put(new, evidence) = DOMAIN new \cup DOMAIN evidence
        /\ \A i \in DOMAIN new : Put(new, evidence)[i] = new[i]
        /\ \A i \in DOMAIN evidence : i \notin DOMAIN new => Put(new, evidence)[i] = evidence[i]
    BY DEF Put
  <2> QED
    BY <1>2, <2>1, <2>2
<1>6. IsFiniteSet(DOMAIN evidence')
  <2>1. IsFiniteSet({id})
    BY FS_Singleton
  <2> QED
    <3>1. IsFiniteSet({id} \cup DOMAIN evidence)
      BY <1>3, <2>1, FS_Union
    <3>2. DOMAIN evidence' = {id} \cup DOMAIN evidence
      BY <1>4, <1>5
    <3> QED
      BY <3>1, <3>2, Zenon
<1>7. HoldersOf({id}) \subseteq DOMAIN folders
  BY DEF HoldersOf
<1>8. StoreTypes'
  BY <1>0, <1>1, <1>2, <1>5, <1>6, <1>7 DEF StoreTypes
<1>9. FoldersAreWhole'
  <2>1. \A i \in DOMAIN evidence' : evidence'[i].folder_id \in DOMAIN folders \cup {NoFolder}
    <3> SUFFICES ASSUME NEW i \in DOMAIN evidence'
                 PROVE  evidence'[i].folder_id \in DOMAIN folders \cup {NoFolder}
      OBVIOUS
    <3>1. CASE i = id
      BY <1>4, <1>5, <3>1
    <3>2. CASE i # id
      BY <1>0, <1>4, <1>5, <3>2 DEF FoldersAreWhole
    <3> QED
      BY <3>1, <3>2
  <2>2. \A f \in DOMAIN folders : /\ folders[f].member_ids # <<>>
                                  /\ \A i \in DOMAIN folders[f].member_ids :
                                       folders[f].member_ids[i] \in DOMAIN evidence'
    BY <1>0, <1>5 DEF FoldersAreWhole
  <2>3. \A i \in DOMAIN log : log[i].evidence_id \in DOMAIN folders
    BY <1>0 DEF FoldersAreWhole
  <2> QED
    BY <1>1, <2>1, <2>2, <2>3 DEF FoldersAreWhole
<1>10. Gathered' /\ Held' /\ JobFoldersAreStored'
  <2>1. Gathered'
    BY <1>0, <1>1 DEF Gathered
  <2>2. Held' /\ JobFoldersAreStored'
    BY <1>0, <1>1 DEF Held, JobFoldersAreStored
  <2> QED
    BY <2>1, <2>2
<1> QED
  BY <1>8, <1>9, <1>10 DEF WholeInv

\* What finish_folder writes of a job whose batches were all added: the members in
\* the order in which their digests were fed to the builder.
LEMMA Gatherings ==
    ASSUME NEW j \in Ingests, NEW places \in Seq(1 .. MaxFiles), GatheredAs(j, places),
           j.batch = <<>>, DOMAIN j.run # {}
    PROVE  LET ids == InOrder(DOMAIN j.run)
           IN  /\ ids \in Seq(MemberIds) /\ ids # <<>>
               /\ Len(ids) = Len(j.fed) /\ DOMAIN ids = 1 .. Len(j.fed)
               /\ \A a \in DOMAIN ids : ids[a] \in DOMAIN j.run /\ j.run[ids[a]].sha256 = j.fed[a]
               /\ \A id \in DOMAIN j.run : j.run[id].folder_id = j.folder
               /\ IsFiniteSet(DOMAIN j.run)
<1> DEFINE f   == j.folder
           n   == Len(places)
           ids == InOrder(DOMAIN j.run)
<1>1. f \in Folders /\ Len(j.fed) \in Nat /\ j.fed \in Seq(Digests)
  BY IngestFields
<1>2. Len(j.batch) = 0 /\ n = Len(j.fed) /\ n \in Nat /\ Increasing(places)
  BY <1>1 DEF GatheredAs
<1>3. Len(j.fed) - Len(j.batch) = n
  BY <1>1, <1>2
<1>4. /\ DOMAIN j.run = FirstMembers(f, places, n)
      /\ \A a \in 1 .. n : j.run[MemberId(f, places[a])] = [sha256 |-> j.fed[a], folder_id |-> f]
  BY <1>3 DEF GatheredAs
<1>5. ids = [a \in 1 .. n |-> MemberId(f, places[a])]
  <2>1. InOrder(FirstMembers(f, places, n)) = [a \in 1 .. n |-> MemberId(f, places[a])]
    BY <1>1, <1>2, MembersInOrder
  <2> QED
    BY <1>4, <2>1, Zenon
<1>6. \A a \in 1 .. n : places[a] \in 1 .. MaxFiles
  BY <1>2, PlacesDiffer
<1>7. n # 0
  <2> SUFFICES ASSUME n = 0 PROVE FALSE
    OBVIOUS
  <2>1. FirstMembers(f, places, n) = {}
    BY DEF FirstMembers
  <2> QED
    BY <1>4, <2>1
<1>8. n \in 0 .. n
  BY <1>2
<1>9. IsFiniteSet(DOMAIN j.run)
  BY <1>1, <1>2, <1>4, <1>8, MemberCount
<1> HIDE DEF ids, n, f
<1>10. ids \in [1 .. n -> MemberIds]
  BY <1>1, <1>5, <1>6 DEF MemberIds
<1>11. ids \in Seq(MemberIds) /\ Len(ids) = n /\ DOMAIN ids = 1 .. n
  BY <1>2, <1>10, SeqDef, LenProperties
<1>12. ids # <<>>
  BY <1>7, <1>11
<1>13. \A a \in DOMAIN ids : ids[a] \in DOMAIN j.run /\ j.run[ids[a]].sha256 = j.fed[a]
  <2> SUFFICES ASSUME NEW a \in 1 .. n
               PROVE  ids[a] \in DOMAIN j.run /\ j.run[ids[a]].sha256 = j.fed[a]
    BY <1>11
  <2>1. ids[a] = MemberId(f, places[a])
    BY <1>5
  <2>2. MemberId(f, places[a]) \in DOMAIN j.run
    BY <1>4 DEF FirstMembers
  <2>3. j.run[MemberId(f, places[a])] = [sha256 |-> j.fed[a], folder_id |-> f]
    BY <1>4
  <2>4. [sha256 |-> j.fed[a], folder_id |-> f].sha256 = j.fed[a]
    OBVIOUS
  <2> QED
    BY <2>1, <2>2, <2>3, <2>4, Zenon
<1>14. \A id \in DOMAIN j.run : j.run[id].folder_id = f
  <2> SUFFICES ASSUME NEW a \in 1 .. n PROVE j.run[MemberId(f, places[a])].folder_id = f
    BY <1>4 DEF FirstMembers
  <2>1. j.run[MemberId(f, places[a])] = [sha256 |-> j.fed[a], folder_id |-> f]
    BY <1>4
  <2>2. [sha256 |-> j.fed[a], folder_id |-> f].folder_id = f
    OBVIOUS
  <2> QED
    BY <2>1, <2>2, Zenon
<1>15. Len(ids) = Len(j.fed) /\ DOMAIN ids = 1 .. Len(j.fed)
  BY <1>2, <1>11
<1> QED
  BY <1>9, <1>11, <1>12, <1>13, <1>14, <1>15 DEF ids, f

\* The tables after a folder was registered, and the job that registered it.
LEMMA Finished ==
    ASSUME WholeInv, NEW c \in Clients, FinishFolder(c)
    PROVE  LET o   == job[c]
               f   == o.folder
               ids == InOrder(DOMAIN o.run)
           IN  /\ o \in Ingests /\ f \in Folders /\ o.fed \in Seq(Digests)
               /\ o.run \in Tables(MemberIds, Rows) /\ IsFiniteSet(DOMAIN o.run)
               /\ \A id \in DOMAIN o.run : o.run[id].folder_id = f
               /\ ids \in Seq(MemberIds) /\ ids # <<>> /\ DOMAIN ids = 1 .. Len(o.fed)
               /\ \A a \in DOMAIN ids : ids[a] \in DOMAIN o.run /\ o.run[ids[a]].sha256 = o.fed[a]
               /\ DOMAIN evidence' = DOMAIN o.run \cup DOMAIN evidence
               /\ \A id \in DOMAIN o.run : evidence'[id] = o.run[id]
               /\ \A id \in DOMAIN evidence : id \notin DOMAIN o.run => evidence'[id] = evidence[id]
               /\ DOMAIN folders' = {f} \cup DOMAIN folders
               /\ folders'[f] = [root |-> Root(o.fed), member_ids |-> ids]
               /\ \A g \in DOMAIN folders : g # f => folders'[g] = folders[g]
<1>0. StoreTypes /\ Gathered /\ Held
  BY DEF WholeInv
<1> DEFINE o   == job[c]
           f   == o.folder
           ids == InOrder(DOMAIN o.run)
           row == [root |-> Root(o.fed), member_ids |-> ids]
<1>1. o \in Ingests /\ o.batch = <<>> /\ lock = c
  BY <1>0, JobKinds DEF FinishFolder, Ingesting
<1>2. DOMAIN o.run # {}
  <2>1. Nobody \notin Clients
    BY EvidenceStoreAssumption
  <2> QED
    BY <1>0, <1>1, <2>1 DEF Held
<1>3. PICK places \in Seq(1 .. MaxFiles) : GatheredAs(o, places)
  BY <1>0, <1>1, IngestFields DEF Gathered
<1>4. evidence' = Put(o.run, evidence) /\ folders' = Put([g \in {f} |-> row], folders)
  BY DEF FinishFolder
<1> HIDE DEF o
<1>5. f \in Folders /\ o.fed \in Seq(Digests) /\ o.run \in Tables(MemberIds, Rows)
  BY <1>1, IngestFields
<1>6. /\ ids \in Seq(MemberIds) /\ ids # <<>> /\ DOMAIN ids = 1 .. Len(o.fed)
      /\ \A a \in DOMAIN ids : ids[a] \in DOMAIN o.run /\ o.run[ids[a]].sha256 = o.fed[a]
      /\ \A id \in DOMAIN o.run : o.run[id].folder_id = o.folder
      /\ IsFiniteSet(DOMAIN o.run)
  BY <1>1, <1>2, <1>3, Gatherings
<1>7. /\ DOMAIN evidence' = DOMAIN o.run \cup DOMAIN evidence
      /\ \A id \in DOMAIN o.run : evidence'[id] = o.run[id]
      /\ \A id \in DOMAIN evidence : id \notin DOMAIN o.run => evidence'[id] = evidence[id]
  BY <1>4 DEF Put
<1> HIDE DEF row, f
<1>8. /\ DOMAIN folders' = {f} \cup DOMAIN folders
      /\ folders'[f] = row
      /\ \A g \in DOMAIN folders : g # f => folders'[g] = folders[g]
  BY <1>4 DEF Put
<1> QED
  BY <1>1, <1>5, <1>6, <1>7, <1>8 DEF o, f, row

LEMMA FinishKeeps ==
    ASSUME WholeInv, NEW c \in Clients, FinishFolder(c)
    PROVE  WholeInv'
<1>0. StoreTypes /\ FoldersAreWhole /\ Gathered /\ Held /\ JobFoldersAreStored
  BY DEF WholeInv
<1> DEFINE o   == job[c]
           f   == o.folder
           ids == InOrder(DOMAIN o.run)
           j   == [op |-> "registered", folder |-> f]
<1>1. o \in Ingests /\ f \in Folders /\ o.fed \in Seq(Digests)
  BY Finished
<1>2. /\ o.run \in Tables(MemberIds, Rows) /\ IsFiniteSet(DOMAIN o.run)
      /\ \A id \in DOMAIN o.run : o.run[id].folder_id = f
  BY Finished
<1>3. /\ ids \in Seq(MemberIds) /\ ids # <<>>
      /\ \A a \in DOMAIN ids : ids[a] \in DOMAIN o.run
  BY Finished
<1>4. /\ DOMAIN evidence' = DOMAIN o.run \cup DOMAIN evidence
      /\ \A id \in DOMAIN o.run : evidence'[id] = o.run[id]
      /\ \A id \in DOMAIN evidence : id \notin DOMAIN o.run => evidence'[id] = evidence[id]
  BY Finished
<1>5. /\ DOMAIN folders' = {f} \cup DOMAIN folders
      /\ folders'[f] = [root |-> Root(o.fed), member_ids |-> ids]
      /\ \A g \in DOMAIN folders : g # f => folders'[g] = folders[g]
  BY Finished
<1>6. /\ evidence' = Put(o.run, evidence)
      /\ folders' = Put([g \in {f} |-> [root |-> Root(o.fed), member_ids |-> ids]], folders)
      /\ stale' = (stale \ {f}) \cup (HoldersOf(DOMAIN o.run) \ {f})
      /\ lock' = Nobody /\ version' = version /\ log' = log /\ lock = c
      /\ job' = [job EXCEPT ![c] = j]
  BY DEF FinishFolder
<1> HIDE DEF o, f, ids
<1>7. evidence' \in Tables(Ids, Rows) /\ IsFiniteSet(DOMAIN evidence')
  <2>1. evidence \in Tables(Ids, Rows) /\ IsFiniteSet(DOMAIN evidence)
    BY <1>0 DEF StoreTypes
  <2>2. MemberIds \subseteq Ids
    BY DEF Ids
  <2>3. o.run \in Tables(Ids, Rows)
    BY <1>2, <2>2, TableIs
  <2>4. evidence' \in Tables(Ids, Rows)
    BY <1>6, <2>1, <2>3, PutProperties
  <2>5. IsFiniteSet(DOMAIN evidence')
    <3>1. IsFiniteSet(DOMAIN o.run) /\ IsFiniteSet(DOMAIN evidence)
      BY <1>2, <2>1
    <3>2. IsFiniteSet(DOMAIN o.run \cup DOMAIN evidence)
      BY <3>1, FS_Union
    <3> QED
      BY <1>4, <3>2, Zenon
  <2> QED
    BY <2>4, <2>5
<1>8. folders' \in Tables(Folders, FolderRows)
  <2> DEFINE row == [root |-> Root(o.fed), member_ids |-> ids]
             new == [g \in {f} |-> row]
  <2>1. Root(o.fed) \in Roots
    BY <1>1 DEF Roots
  <2>2. row \in FolderRows
    BY <1>3, <2>1 DEF FolderRows
  <2> HIDE DEF row
  <2>3. new \in Tables(Folders, FolderRows)
    BY <1>1, <2>2, TableIs
  <2>4. folders' = Put(new, folders)
    BY <1>6 DEF row
  <2>5. folders \in Tables(Folders, FolderRows)
    BY <1>0 DEF StoreTypes
  <2> HIDE DEF new
  <2> QED
    BY <2>3, <2>4, <2>5, PutProperties
<1>9. stale' \subseteq DOMAIN folders'
  <2>1. stale \subseteq DOMAIN folders
    BY <1>0 DEF StoreTypes
  <2>2. HoldersOf(DOMAIN o.run) \subseteq DOMAIN folders
    BY DEF HoldersOf
  <2> QED
    BY <1>5, <1>6, <2>1, <2>2
<1>10. j \in Jobs /\ j.op = "registered" /\ j.folder = f
  BY <1>1 DEF Jobs, Registered
<1> HIDE DEF j
<1>11. /\ job' \in [Clients -> Jobs] /\ job'[c] = j
       /\ Gathered' /\ JobFoldersAreStored'
  <2>1. DOMAIN folders \subseteq DOMAIN folders' /\ j.folder \in DOMAIN folders'
    BY <1>5, <1>10
  <2>2. j.op = "ingest" => FALSE
    BY <1>10
  <2> QED
    BY <1>0, <1>6, <1>10, <2>1, <2>2, JobChange
<1>12. StoreTypes'
  BY <1>0, <1>6, <1>7, <1>8, <1>9, <1>11 DEF StoreTypes
<1>13. FoldersAreWhole'
  <2>1. ASSUME NEW id \in DOMAIN evidence'
        PROVE  evidence'[id].folder_id \in DOMAIN folders' \cup {NoFolder}
    <3>1. CASE id \in DOMAIN o.run
      BY <1>2, <1>4, <1>5, <3>1
    <3>2. CASE id \notin DOMAIN o.run
      <4>1. id \in DOMAIN evidence /\ evidence'[id] = evidence[id]
        BY <1>4, <3>2
      <4>2. evidence[id].folder_id \in DOMAIN folders \cup {NoFolder}
        BY <1>0, <4>1 DEF FoldersAreWhole
      <4> QED
        BY <1>5, <4>1, <4>2
    <3> QED
      BY <3>1, <3>2
  <2>2. ASSUME NEW g \in DOMAIN folders'
        PROVE  /\ folders'[g].member_ids # <<>>
               /\ \A i \in DOMAIN folders'[g].member_ids :
                    folders'[g].member_ids[i] \in DOMAIN evidence'
    <3>1. CASE g = f
      <4>1. folders'[g].member_ids = ids
        BY <1>5, <3>1
      <4> QED
        BY <1>3, <1>4, <4>1
    <3>2. CASE g # f
      <4>1. g \in DOMAIN folders /\ folders'[g] = folders[g]
        BY <1>5, <3>2
      <4>2. /\ folders[g].member_ids # <<>>
            /\ \A i \in DOMAIN folders[g].member_ids :
                 folders[g].member_ids[i] \in DOMAIN evidence
        BY <1>0, <4>1 DEF FoldersAreWhole
      <4> QED
        BY <1>4, <4>1, <4>2
    <3> QED
      BY <3>1, <3>2
  <2>3. \A i \in DOMAIN log : log[i].evidence_id \in DOMAIN folders'
    BY <1>0, <1>5 DEF FoldersAreWhole
  <2> QED
    BY <1>6, <2>1, <2>2, <2>3 DEF FoldersAreWhole
<1>14. Held'
  BY <1>6 DEF Held
<1> QED
  BY <1>11, <1>12, <1>13, <1>14 DEF WholeInv

LEMMA RegisterKeeps ==
    ASSUME WholeInv, NEW c \in Clients, BatchRegister(c)
    PROVE  WholeInv'
<1>0. StoreTypes /\ FoldersAreWhole /\ Gathered /\ Held /\ JobFoldersAreStored
  BY DEF WholeInv
<1> DEFINE event == [evidence_id |-> job[c].folder]
<1>1. /\ evidence' = evidence /\ folders' = folders /\ version' = version
      /\ stale' = stale /\ lock' = lock /\ log' = Append(log, event)
      /\ job' = [job EXCEPT ![c] = Idle] /\ lock = Nobody /\ job[c].op = "registered"
  BY DEF BatchRegister
<1>2. job[c].folder \in Folders /\ job[c].folder \in DOMAIN folders
  BY <1>0, <1>1, JobKinds DEF JobFoldersAreStored, Registered
<1>3. /\ event \in [evidence_id : Folders] /\ event.evidence_id \in DOMAIN folders
      /\ log \in Seq([evidence_id : Folders])
  BY <1>0, <1>2 DEF StoreTypes
<1> HIDE DEF event
<1>4. /\ log' \in Seq([evidence_id : Folders]) /\ Len(log') = Len(log) + 1
      /\ \A i \in 1 .. Len(log) : log'[i] = log[i]
      /\ log'[Len(log) + 1] = event
  BY <1>1, <1>3, AppendProperties
<1>5. Len(log) \in Nat /\ DOMAIN log = 1 .. Len(log) /\ DOMAIN log' = 1 .. Len(log')
  BY <1>3, <1>4, LenProperties
<1>6. \A i \in DOMAIN log' : log'[i].evidence_id \in DOMAIN folders
  <2> SUFFICES ASSUME NEW i \in 1 .. Len(log) + 1 PROVE log'[i].evidence_id \in DOMAIN folders
    BY <1>4, <1>5
  <2>1. CASE i \in 1 .. Len(log)
    BY <1>0, <1>4, <1>5, <2>1 DEF FoldersAreWhole
  <2>2. CASE i = Len(log) + 1
    BY <1>3, <1>4, <2>2
  <2> QED
    BY <1>5, <2>1, <2>2
<1>7. FoldersAreWhole'
  BY <1>0, <1>1, <1>6 DEF FoldersAreWhole
<1>8. Idle \in Jobs /\ Idle.op = "idle"
  BY DEF Jobs, Idle
<1>9. /\ job' \in [Clients -> Jobs] /\ job'[c] = Idle
      /\ Gathered' /\ JobFoldersAreStored'
  BY <1>0, <1>1, <1>8, JobChange
<1>10. StoreTypes'
  BY <1>0, <1>1, <1>4, <1>9 DEF StoreTypes
<1>11. Held'
  BY <1>1 DEF Held
<1> QED
  BY <1>7, <1>9, <1>10, <1>11 DEF WholeInv

\* A command ends early.
LEMMA StopKeeps ==
    ASSUME WholeInv, NEW c \in Clients, Stop(c)
    PROVE  WholeInv'
<1>0. StoreTypes /\ FoldersAreWhole /\ Gathered /\ Held /\ JobFoldersAreStored
  BY DEF WholeInv
<1>1. /\ evidence' = evidence /\ folders' = folders /\ version' = version
      /\ stale' = stale /\ log' = log /\ lock' = IF lock = c THEN Nobody ELSE lock
      /\ job' = [job EXCEPT ![c] = Idle]
  BY DEF Stop
<1>2. Idle \in Jobs /\ Idle.op = "idle"
  BY DEF Jobs, Idle
<1>3. /\ job' \in [Clients -> Jobs] /\ \A d \in Clients \ {c} : job'[d] = job[d]
      /\ Gathered' /\ JobFoldersAreStored'
  BY <1>0, <1>1, <1>2, JobChange
<1>4. StoreTypes'
  BY <1>0, <1>1, <1>3 DEF StoreTypes
<1>5. FoldersAreWhole'
  BY <1>0, <1>1 DEF FoldersAreWhole
<1>6. Held'
  BY <1>0, <1>1, <1>3 DEF Held, StoreTypes
<1> QED
  BY <1>3, <1>4, <1>5, <1>6 DEF WholeInv

-------------------------------------------------------------------------------
(* The steps of a migration.                                               *)

\* A folder's leaves as the store has them now.
LEMMA LeavesType ==
    ASSUME StoreTypes, FoldersAreWhole, NEW f \in DOMAIN folders
    PROVE  /\ Leaves(MemberLeaves(f)) =
                [i \in DOMAIN folders[f].member_ids |-> evidence[folders[f].member_ids[i]].sha256]
           /\ Leaves(MemberLeaves(f)) \in Seq(Digests)
<1> DEFINE ids    == folders[f].member_ids
           leaves == [i \in DOMAIN ids |-> evidence[ids[i]].sha256]
<1>1. folders[f] \in FolderRows
  BY TableIs DEF StoreTypes
<1>2. ids \in Seq(MemberIds)
  BY <1>1 DEF FolderRows
<1>3. DOMAIN ids = 1 .. Len(ids) /\ Len(ids) \in Nat
  BY <1>2, LenProperties
<1>4. \A id \in DOMAIN evidence : evidence[id] \in Rows
  BY TableIs DEF StoreTypes
<1>5. \A i \in DOMAIN ids : ids[i] \in DOMAIN evidence
  BY DEF FoldersAreWhole
<1>6. Leaves(MemberLeaves(f)) = leaves
  <2>1. DOMAIN MemberLeaves(f) = DOMAIN ids
    BY DEF MemberLeaves
  <2>2. \A i \in DOMAIN ids : MemberLeaves(f)[i][2] = evidence[ids[i]].sha256
    BY DEF MemberLeaves
  <2> QED
    BY <2>1, <2>2 DEF Leaves
<1> HIDE DEF ids
<1>7. leaves \in [1 .. Len(ids) -> Digests]
  BY <1>3, <1>4, <1>5 DEF Rows
<1>8. leaves \in Seq(Digests)
  BY <1>3, <1>7, SeqDef
<1> QED
  BY <1>6, <1>8 DEF ids

LEMMA MigrateKeeps ==
    ASSUME WholeInv, NEW c \in Clients, NEW force \in Forces, MigrateMerkle(c, force)
    PROVE  WholeInv'
<1>0. StoreTypes /\ Held
  BY DEF WholeInv
<1> DEFINE old == [f \in DOMAIN folders |-> folders[f].root]
           j   == [op |-> "migrate", force |-> force, changes |-> <<>>, old |-> old]
<1>1. job[c] = Idle /\ job' = [job EXCEPT ![c] = j] /\ UNCHANGED store
  BY DEF MigrateMerkle, Starts
<1>2. folders \in Tables(Folders, FolderRows)
  BY <1>0 DEF StoreTypes
<1>3. old \in Tables(Folders, Roots)
  <2>1. DOMAIN folders \subseteq Folders /\ \A f \in DOMAIN folders : folders[f] \in FolderRows
    BY <1>2, TableIs
  <2>2. \A f \in DOMAIN folders : folders[f].root \in Roots
    BY <2>1 DEF FolderRows
  <2>3. DOMAIN old = DOMAIN folders /\ old \in [DOMAIN old -> Roots]
    BY <2>2
  <2> QED
    BY <2>1, <2>3, TableIs
<1>4. DOMAIN old = DOMAIN folders
  OBVIOUS
<1> HIDE DEF old
<1>5. j \in Migrations /\ j.op = "migrate" /\ DOMAIN j.old \subseteq DOMAIN folders
  <2>1. force \in BOOLEAN
    BY EvidenceStoreAssumption
  <2>2. <<>> \in Seq(Changes)
    OBVIOUS
  <2> QED
    BY <1>3, <1>4, <2>1, <2>2 DEF Migrations
<1>6. lock = c => FALSE
  <2>1. Nobody \notin Clients
    BY EvidenceStoreAssumption
  <2> QED
    BY <1>0, <1>1, <2>1 DEF Held, Idle
<1>7. j \in Jobs
  BY <1>5 DEF Jobs
<1> HIDE DEF j
<1> QED
  BY <1>1, <1>5, <1>6, <1>7, JobOnly

LEMMA ConvertKeeps ==
    ASSUME WholeInv, NEW c \in Clients, NEW f \in Folders, ConvertFolder(c, f)
    PROVE  WholeInv'
<1>0. StoreTypes /\ FoldersAreWhole /\ Held /\ JobFoldersAreStored
  BY DEF WholeInv
<1> DEFINE o      == job[c]
           change == [folder |-> f, old |-> o.old[f], leaves |-> Leaves(MemberLeaves(f))]
           more   == Append(o.changes, change)
           j      == [o EXCEPT !.changes = more]
<1>1. o \in Migrations /\ f \in DOMAIN o.old /\ o.op = "migrate"
  BY <1>0, JobKinds DEF ConvertFolder
<1>2. job' = [job EXCEPT ![c] = j] /\ UNCHANGED store
  <2>1. job \in [Clients -> Jobs]
    BY <1>0 DEF StoreTypes
  <2> QED
    BY <2>1 DEF ConvertFolder
<1>3. f \in DOMAIN folders /\ DOMAIN o.old \subseteq DOMAIN folders
  BY <1>0, <1>1 DEF JobFoldersAreStored
<1> HIDE DEF o
<1>4. o.old \in Tables(Folders, Roots) /\ o.changes \in Seq(Changes)
  BY <1>1 DEF Migrations
<1>5. change \in Changes
  <2>1. o.old[f] \in Roots
    BY <1>1, <1>4, TableIs
  <2>2. Leaves(MemberLeaves(f)) \in Seq(Digests)
    BY <1>0, <1>3, LeavesType
  <2> QED
    BY <2>1, <2>2 DEF Changes
<1> HIDE DEF change
<1>6. more \in Seq(Changes)
  BY <1>4, <1>5, AppendProperties
<1> HIDE DEF more
<1>7. j \in Migrations /\ j.op = "migrate" /\ j.old = o.old
  BY <1>1, <1>6 DEF Migrations
<1>8. lock = c => FALSE
  <2>1. Nobody \notin Clients
    BY EvidenceStoreAssumption
  <2> QED
    BY <1>0, <1>1, <2>1 DEF Held, o
<1>9. j \in Jobs
  BY <1>7 DEF Jobs
<1> HIDE DEF j
<1> QED
  BY <1>2, <1>3, <1>7, <1>8, <1>9, JobOnly

\* The folders after migrate-merkle committed: their members as before, and a new
\* root where a change names the folder.
LEMMA Committed ==
    ASSUME StoreTypes, NEW c \in Clients, CommitRoots(c)
    PROVE  /\ DOMAIN folders' = DOMAIN folders /\ folders' \in Tables(Folders, FolderRows)
           /\ job[c] \in Migrations /\ job[c].changes \in Seq(Changes)
           /\ \A f \in DOMAIN folders :
                /\ folders'[f].member_ids = folders[f].member_ids
                /\ \/ /\ \A i \in DOMAIN job[c].changes : job[c].changes[i].folder # f
                      /\ folders'[f] = folders[f]
                   \/ \E i \in DOMAIN job[c].changes :
                        /\ job[c].changes[i].folder = f
                        /\ folders'[f].root = Root(job[c].changes[i].leaves)
<1> DEFINE changes == job[c].changes
           named(f) == \E i \in DOMAIN changes : changes[i].folder = f
           turn(f)  == CHOOSE k \in DOMAIN changes : changes[k].folder = f
           row(f)   == IF named(f) THEN [folders[f] EXCEPT !.root = Root(changes[turn(f)].leaves)]
                       ELSE folders[f]
<1>1. folders' = [f \in DOMAIN folders |-> row(f)]
  BY DEF CommitRoots
<1>2. job[c] \in Migrations /\ changes \in Seq(Changes)
  BY JobKinds DEF CommitRoots, Migrations
<1>3. DOMAIN folders \subseteq Folders /\ \A f \in DOMAIN folders : folders[f] \in FolderRows
  BY TableIs DEF StoreTypes
<1> HIDE DEF changes
<1>4. ASSUME NEW f \in DOMAIN folders, named(f)
      PROVE  turn(f) \in DOMAIN changes /\ changes[turn(f)].folder = f
  BY <1>4
<1>5. ASSUME NEW i \in DOMAIN changes PROVE Root(changes[i].leaves) \in Roots
  <2>1. changes[i] \in Changes
    BY <1>2, ElementOfSeq, LenProperties
  <2>2. changes[i].leaves \in Seq(Digests)
    BY <2>1 DEF Changes
  <2> QED
    BY <2>2 DEF Roots
<1>6. ASSUME NEW f \in DOMAIN folders
      PROVE  /\ row(f) \in FolderRows /\ row(f).member_ids = folders[f].member_ids
             /\ named(f) => row(f).root = Root(changes[turn(f)].leaves)
  <2>1. folders[f] \in FolderRows
    BY <1>3
  <2>2. CASE named(f)
    <3> DEFINE root == Root(changes[turn(f)].leaves)
    <3>1. root \in Roots
      BY <1>4, <1>5, <2>2
    <3>2. row(f) = [folders[f] EXCEPT !.root = root]
      BY <2>2
    <3> HIDE DEF root, row
    <3>3. row(f) \in FolderRows /\ row(f).member_ids = folders[f].member_ids /\ row(f).root = root
      BY <2>1, <3>1, <3>2 DEF FolderRows
    <3> QED
      BY <3>3 DEF root
  <2>3. CASE ~named(f)
    BY <2>1, <2>3
  <2> QED
    BY <2>2, <2>3
<1>7. ASSUME NEW f \in DOMAIN folders
      PROVE  \/ (\A i \in DOMAIN changes : changes[i].folder # f) /\ row(f) = folders[f]
             \/ \E i \in DOMAIN changes : /\ changes[i].folder = f
                                          /\ row(f).root = Root(changes[i].leaves)
  <2>1. CASE named(f)
    <3> HIDE DEF row
    <3>1. row(f).root = Root(changes[turn(f)].leaves)
      BY <1>6, <2>1
    <3> HIDE DEF turn
    <3> QED
      BY <1>4, <2>1, <3>1
  <2>2. CASE ~named(f)
    BY <2>2
  <2> QED
    BY <2>1, <2>2
<1> HIDE DEF row
<1>8. DOMAIN folders' = DOMAIN folders /\ \A f \in DOMAIN folders : folders'[f] = row(f)
  BY <1>1
<1>9. folders' \in [DOMAIN folders' -> FolderRows]
  BY <1>1, <1>6
<1>10. folders' \in Tables(Folders, FolderRows)
  BY <1>3, <1>8, <1>9, TableIs
<1>11. ASSUME NEW f \in DOMAIN folders
       PROVE  /\ folders'[f].member_ids = folders[f].member_ids
              /\ \/ (\A i \in DOMAIN changes : changes[i].folder # f) /\ folders'[f] = folders[f]
                 \/ \E i \in DOMAIN changes : /\ changes[i].folder = f
                                              /\ folders'[f].root = Root(changes[i].leaves)
  <2>1. folders'[f] = row(f)
    BY <1>8
  <2>2. folders'[f].member_ids = folders[f].member_ids
    BY <1>6, <2>1
  <2>3. CASE (\A i \in DOMAIN changes : changes[i].folder # f) /\ row(f) = folders[f]
    BY <2>1, <2>2, <2>3
  <2>4. CASE \E i \in DOMAIN changes : /\ changes[i].folder = f
                                      /\ row(f).root = Root(changes[i].leaves)
    BY <2>1, <2>2, <2>4
  <2> QED
    BY <1>7, <2>3, <2>4
<1> QED
  BY <1>2, <1>8, <1>10, <1>11 DEF changes

LEMMA CommitKeeps ==
    ASSUME WholeInv, NEW c \in Clients, CommitRoots(c)
    PROVE  WholeInv'
<1>0. StoreTypes /\ FoldersAreWhole /\ Gathered /\ Held /\ JobFoldersAreStored
  BY DEF WholeInv
<1>1. /\ evidence' = evidence /\ log' = log /\ lock' = lock /\ stale' = stale
      /\ version' = 2 /\ lock = Nobody /\ job' = [job EXCEPT ![c] = Idle]
  BY DEF CommitRoots
<1>2. /\ DOMAIN folders' = DOMAIN folders /\ folders' \in Tables(Folders, FolderRows)
      /\ \A f \in DOMAIN folders : folders'[f].member_ids = folders[f].member_ids
  BY <1>0, Committed
<1>3. Idle \in Jobs /\ Idle.op = "idle"
  BY DEF Jobs, Idle
<1>4. job' \in [Clients -> Jobs] /\ Gathered' /\ JobFoldersAreStored'
  BY <1>0, <1>1, <1>2, <1>3, JobChange
<1>5. StoreTypes'
  BY <1>0, <1>1, <1>2, <1>4 DEF StoreTypes
<1>6. FoldersAreWhole'
  <2>1. \A id \in DOMAIN evidence : evidence[id].folder_id \in DOMAIN folders \cup {NoFolder}
    BY <1>0 DEF FoldersAreWhole
  <2>2. \A f \in DOMAIN folders :
          /\ folders'[f].member_ids # <<>>
          /\ \A i \in DOMAIN folders'[f].member_ids :
               folders'[f].member_ids[i] \in DOMAIN evidence
    BY <1>0, <1>2 DEF FoldersAreWhole
  <2>3. \A i \in DOMAIN log : log[i].evidence_id \in DOMAIN folders
    BY <1>0 DEF FoldersAreWhole
  <2> QED
    BY <1>1, <1>2, <2>1, <2>2, <2>3 DEF FoldersAreWhole
<1>7. Held'
  BY <1>1 DEF Held
<1> QED
  BY <1>4, <1>5, <1>6, <1>7 DEF WholeInv

-------------------------------------------------------------------------------
(* Every folder is whole.                                                  *)

\* A store of before schema version 2.
LegacyMembers(f, leaves) ==
    \A i \in 1 .. Len(leaves) : /\ folders[f].member_ids[i] = MemberId(f, i)
                                /\ MemberId(f, i) \in DOMAIN evidence
                                /\ evidence[MemberId(f, i)].sha256 = leaves[i]

LEMMA LegacyRows ==
    ASSUME NEW f \in Folders, NEW leaves \in UNION {[1 .. n -> Digests] : n \in 1 .. MaxFiles},
           LegacyStore(f, leaves)
    PROVE  /\ leaves \in Seq(Digests) /\ Len(leaves) \in 1 .. MaxFiles
           /\ DOMAIN folders = {f} /\ folders[f].root = LegacyRoot(leaves)
           /\ DOMAIN folders[f].member_ids = 1 .. Len(leaves)
           /\ LegacyMembers(f, leaves)
           /\ \A id \in DOMAIN evidence : evidence[id].folder_id = f
           /\ evidence \in Tables(Ids, Rows) /\ IsFiniteSet(DOMAIN evidence)
           /\ folders \in Tables(Folders, FolderRows)
<1> DEFINE ids == [i \in 1 .. Len(leaves) |-> MemberId(f, i)]
           row == [root |-> LegacyRoot(leaves), member_ids |-> ids]
<1>1. PICK n \in 1 .. MaxFiles : leaves \in [1 .. n -> Digests]
  OBVIOUS
<1>2. MaxFiles \in Nat /\ n \in Nat
  <2>1. MaxFiles \in Nat
    BY EvidenceStoreAssumption
  <2> QED
    BY <1>1, <2>1
<1>3. leaves \in Seq(Digests) /\ Len(leaves) = n
  BY <1>1, <1>2, SeqDef, LenProperties
<1>4. /\ evidence = [id \in {ids[i] : i \in DOMAIN ids} |->
                       [sha256 |-> leaves[id[2]], folder_id |-> f]]
      /\ folders = [g \in {f} |-> row]
  BY DEF LegacyStore
<1>5. DOMAIN ids = 1 .. n /\ \A i \in 1 .. n : ids[i] = MemberId(f, i) /\ ids[i] \in MemberIds
  BY <1>1, <1>2, <1>3 DEF MemberIds
<1>6. ids \in [1 .. n -> MemberIds]
  BY <1>3, <1>5
<1>7. ids \in Seq(MemberIds)
  BY <1>2, <1>6, SeqDef
<1> HIDE DEF ids
<1>8. DOMAIN evidence = {ids[i] : i \in 1 .. n}
  BY <1>4, <1>5
<1>9. ASSUME NEW i \in 1 .. n
      PROVE  evidence[ids[i]] = [sha256 |-> leaves[i], folder_id |-> f] /\ leaves[i] \in Digests
  <2>1. ids[i][2] = i
    BY <1>5 DEF MemberId
  <2>2. ids[i] \in {ids[k] : k \in DOMAIN ids}
    BY <1>5
  <2>3. evidence[ids[i]] = [sha256 |-> leaves[ids[i][2]], folder_id |-> f]
    BY <1>4, <2>2
  <2> QED
    BY <1>1, <2>1, <2>3
<1>10. ASSUME NEW i \in 1 .. n
       PROVE  /\ evidence[ids[i]] \in Rows /\ evidence[ids[i]].sha256 = leaves[i]
              /\ evidence[ids[i]].folder_id = f
  <2>1. [sha256 |-> leaves[i], folder_id |-> f] \in Rows
    BY <1>9 DEF Rows
  <2> QED
    BY <1>9, <2>1
<1>11. IsFiniteSet(DOMAIN evidence)
  <2>1. IsFiniteSet(1 .. n)
    BY <1>2, FS_Interval
  <2>2. ids \in Surjection(1 .. n, DOMAIN evidence)
    BY <1>6, <1>8 DEF Surjection
  <2> QED
    BY <2>1, <2>2, FS_Surjection
<1>12. evidence \in Tables(Ids, Rows)
  <2>1. DOMAIN evidence \subseteq Ids
    BY <1>5, <1>8 DEF Ids
  <2>2. \A id \in DOMAIN evidence : evidence[id] \in Rows
    BY <1>8, <1>10
  <2>3. evidence = [id \in DOMAIN evidence |-> evidence[id]]
    BY <1>4
  <2>4. evidence \in [DOMAIN evidence -> Rows]
    BY <2>2, <2>3
  <2> QED
    BY <2>1, <2>4, TableIs
<1>13. row \in FolderRows
  <2>1. LegacyRoot(leaves) \in Roots
    BY <1>3 DEF Roots
  <2> QED
    BY <1>7, <2>1 DEF FolderRows
<1>14. row.root = LegacyRoot(leaves) /\ row.member_ids = ids
  OBVIOUS
<1> HIDE DEF row
<1>15. DOMAIN folders = {f} /\ folders[f] = row /\ folders \in Tables(Folders, FolderRows)
  <2>1. DOMAIN folders = {f} /\ folders[f] = row
    BY <1>4
  <2>2. folders \in [DOMAIN folders -> FolderRows]
    BY <1>4, <1>13
  <2>3. DOMAIN folders \subseteq Folders
    BY <2>1
  <2> QED
    BY <2>1, <2>2, <2>3, TableIs
<1>16. DOMAIN folders[f].member_ids = 1 .. Len(leaves)
  BY <1>3, <1>5, <1>14, <1>15
<1>17. LegacyMembers(f, leaves)
  BY <1>3, <1>5, <1>8, <1>10, <1>14, <1>15 DEF LegacyMembers
<1>18. \A id \in DOMAIN evidence : evidence[id].folder_id = f
  BY <1>8, <1>10
<1>19. folders[f].root = LegacyRoot(leaves) /\ Len(leaves) \in 1 .. MaxFiles
  BY <1>1, <1>3, <1>14, <1>15
<1> QED
  BY <1>3, <1>11, <1>12, <1>15, <1>16, <1>17, <1>18, <1>19

LEMMA WholeInit ==
    Init => WholeInv
<1> SUFFICES ASSUME Init PROVE WholeInv
  OBVIOUS
<1>1. /\ log = <<>> /\ lock = Nobody /\ stale = {}
      /\ job = [c \in Clients |-> Idle]
  BY DEF Init
<1>2. Idle \in Jobs /\ Idle.op = "idle"
  BY DEF Jobs, Idle
<1>3. Gathered /\ JobFoldersAreStored /\ Held
  BY <1>1, <1>2 DEF Gathered, JobFoldersAreStored, Held
<1>4. /\ evidence \in Tables(Ids, Rows) /\ IsFiniteSet(DOMAIN evidence)
      /\ folders \in Tables(Folders, FolderRows) /\ version \in {1, 2}
      /\ \A id \in DOMAIN evidence : evidence[id].folder_id \in DOMAIN folders \cup {NoFolder}
      /\ \A f \in DOMAIN folders :
           /\ folders[f].member_ids # <<>>
           /\ \A i \in DOMAIN folders[f].member_ids : folders[f].member_ids[i] \in DOMAIN evidence
  <2>1. CASE version = 2 /\ evidence = <<>> /\ folders = <<>>
    <3>1. DOMAIN evidence = {} /\ DOMAIN folders = {}
      BY <2>1
    <3>2. evidence \in [DOMAIN evidence -> Rows] /\ folders \in [DOMAIN folders -> FolderRows]
      BY <2>1
    <3>3. evidence \in Tables(Ids, Rows)
      BY <3>1, <3>2, TableIs
    <3>4. folders \in Tables(Folders, FolderRows)
      BY <3>1, <3>2, TableIs
    <3>5. IsFiniteSet(DOMAIN evidence)
      BY <3>1, FS_EmptySet
    <3> QED
      BY <2>1, <3>1, <3>3, <3>4, <3>5
  <2>2. ASSUME NEW f \in Folders,
               NEW leaves \in UNION {[1 .. n -> Digests] : n \in 1 .. MaxFiles},
               LegacyStore(f, leaves)
        PROVE  <1>4!:
    <3>1. /\ leaves \in Seq(Digests) /\ Len(leaves) \in 1 .. MaxFiles
          /\ DOMAIN folders = {f} /\ DOMAIN folders[f].member_ids = 1 .. Len(leaves)
      BY <2>2, LegacyRows
    <3>2. LegacyMembers(f, leaves)
      BY <2>2, LegacyRows
    <3>3. /\ \A id \in DOMAIN evidence : evidence[id].folder_id = f
          /\ evidence \in Tables(Ids, Rows) /\ IsFiniteSet(DOMAIN evidence)
          /\ folders \in Tables(Folders, FolderRows)
      BY <2>2, LegacyRows
    <3>4. folders[f].member_ids # <<>>
      <4>1. MaxFiles \in Nat
        BY EvidenceStoreAssumption
      <4>2. 1 \in 1 .. Len(leaves)
        BY <3>1, <4>1
      <4> QED
        BY <3>1, <4>2
    <3>5. version = 1
      BY <2>2 DEF LegacyStore
    <3> QED
      BY <3>1, <3>2, <3>3, <3>4, <3>5 DEF LegacyMembers
  <2> QED
    BY <2>1, <2>2 DEF Init
<1>5. StoreTypes
  <2>1. job \in [Clients -> Jobs]
    BY <1>1, <1>2
  <2>2. log \in Seq([evidence_id : Folders])
    BY <1>1
  <2> QED
    BY <1>1, <1>4, <2>1, <2>2 DEF StoreTypes
<1>6. FoldersAreWhole
  BY <1>1, <1>4 DEF FoldersAreWhole
<1> QED
  BY <1>3, <1>5, <1>6 DEF WholeInv

LEMMA WholeNext ==
    WholeInv /\ [Next]_vars => WholeInv'
<1> SUFFICES ASSUME WholeInv, [Next]_vars PROVE WholeInv'
  OBVIOUS
<1>1. CASE UNCHANGED vars
  <2>0. /\ evidence' = evidence /\ folders' = folders /\ version' = version /\ log' = log
        /\ lock' = lock /\ job' = job /\ stale' = stale
    BY <1>1 DEF vars
  <2>1. StoreTypes'
    BY <2>0 DEF WholeInv, StoreTypes
  <2>2. FoldersAreWhole'
    BY <2>0 DEF WholeInv, FoldersAreWhole
  <2>3. Gathered'
    BY <2>0 DEF WholeInv, Gathered
  <2>4. Held' /\ JobFoldersAreStored'
    BY <2>0 DEF WholeInv, Held, JobFoldersAreStored
  <2> QED
    BY <2>1, <2>2, <2>3, <2>4 DEF WholeInv
<1>2. ASSUME NEW c \in Clients, Command(c) PROVE WholeInv'
  <2>1. CASE \E id \in Singles \cup MemberIds, digest \in Digests : AddFile(c, id, digest)
    BY <2>1, AddFileKeeps
  <2>2. CASE \E f \in Folders, files \in 1 .. MaxFiles : StartFolder(c, f, files)
    BY <2>2, StartKeeps
  <2>3. CASE \E digest \in Digests : HashMember(c, digest)
    BY <2>3, HashKeeps
  <2>4. CASE SkipMember(c)
    BY <2>4, SkipKeeps
  <2>5. CASE AddFolderMembers(c)
    BY <2>5, AddMembersKeeps
  <2>6. CASE FinishFolder(c)
    BY <2>6, FinishKeeps
  <2>7. CASE BatchRegister(c)
    BY <2>7, RegisterKeeps
  <2>8. CASE \E force \in Forces : MigrateMerkle(c, force)
    BY <2>8, MigrateKeeps
  <2>9. CASE \E f \in Folders : ConvertFolder(c, f)
    BY <2>9, ConvertKeeps
  <2>10. CASE CommitRoots(c)
    BY <2>10, CommitKeeps
  <2>11. CASE Stop(c)
    BY <2>11, StopKeeps
  <2> QED
    BY <1>2, <2>1, <2>2, <2>3, <2>4, <2>5, <2>6, <2>7, <2>8, <2>9, <2>10, <2>11 DEF Command
<1> QED
  BY <1>1, <1>2 DEF Next

-------------------------------------------------------------------------------
(* The root a folder has in the table.                                     *)

OneMigrator == \A c, d \in Migrators : c = d

RootsInv == WholeInv /\ RootsStored /\ Reads

LEMMA LeavesOf ==
    ASSUME StoreTypes, FoldersAreWhole, NEW f \in DOMAIN folders
    PROVE  /\ StoredLeaves[f] =
                [i \in DOMAIN folders[f].member_ids |-> evidence[folders[f].member_ids[i]].sha256]
           /\ StoredLeaves[f] \in Seq(Digests)
<1>1. StoredLeaves[f] = Leaves(MemberLeaves(f))
  BY DEF StoredLeaves
<1> QED
  BY <1>1, LeavesType

LEMMA LeavesAfter ==
    ASSUME NEW f \in DOMAIN folders'
    PROVE  StoredLeaves'[f] = [i \in DOMAIN folders'[f].member_ids |->
                                 evidence'[folders'[f].member_ids[i]].sha256]
<1> DEFINE ids   == folders'[f].member_ids
           items == [i \in DOMAIN ids |-> <<ids[i], evidence'[ids[i]].sha256>>]
<1>1. StoredLeaves'[f] = [i \in DOMAIN items |-> items[i][2]]
  BY DEF StoredLeaves, Leaves, MemberLeaves
<1>2. DOMAIN items = DOMAIN ids /\ \A i \in DOMAIN ids : items[i][2] = evidence'[ids[i]].sha256
  OBVIOUS
<1> HIDE DEF items
<1> QED
  BY <1>1, <1>2

LEMMA RootsAreStored ==
    RootsStored => RootsHold
BY DEF RootsStored, RootsHold, StoredLeaves

LEMMA RootsInit ==
    Init => RootsInv
<1> SUFFICES ASSUME Init PROVE RootsInv
  OBVIOUS
<1>1. WholeInv
  BY WholeInit
<1>2. Reads
  <2>1. \A c \in Clients : job[c] = Idle
    BY DEF Init
  <2> QED
    BY <2>1 DEF Reads, Idle
<1>3. RootsStored
  <2> DEFINE RootHolds(f) == folders[f].root = IF version = 2 THEN Root(StoredLeaves[f])
                                               ELSE LegacyRoot(StoredLeaves[f])
  <2> SUFFICES ASSUME NEW f \in DOMAIN folders PROVE RootHolds(f)
    BY DEF RootsStored
  <2>1. CASE version = 2 /\ evidence = <<>> /\ folders = <<>>
    BY <2>1
  <2>2. ASSUME NEW g \in Folders,
               NEW leaves \in UNION {[1 .. n -> Digests] : n \in 1 .. MaxFiles},
               LegacyStore(g, leaves)
        PROVE  RootHolds(f)
    <3>1. /\ leaves \in Seq(Digests) /\ DOMAIN folders = {g} /\ folders[g].root = LegacyRoot(leaves)
          /\ DOMAIN folders[g].member_ids = 1 .. Len(leaves)
      BY <2>2, LegacyRows
    <3>2. LegacyMembers(g, leaves)
      BY <2>2, LegacyRows
    <3>3. StoredLeaves[g] = [i \in DOMAIN folders[g].member_ids |->
                               evidence[folders[g].member_ids[i]].sha256]
      BY <1>1, <3>1, LeavesOf DEF WholeInv
    <3>4. StoredLeaves[g] = [i \in 1 .. Len(leaves) |-> leaves[i]]
      BY <3>1, <3>2, <3>3 DEF LegacyMembers
    <3>5. leaves = [i \in 1 .. Len(leaves) |-> leaves[i]]
      BY <3>1, LenProperties
    <3>6. version = 1
      BY <2>2 DEF LegacyStore
    <3> QED
      BY <3>1, <3>4, <3>5, <3>6
  <2> QED
    BY <2>1, <2>2 DEF Init
<1> QED
  BY <1>1, <1>2, <1>3 DEF RootsInv

\* A folder whose row and whose members' rows do not change keeps its leaves.
LEMMA SameLeaves ==
    ASSUME StoreTypes, FoldersAreWhole, StoreTypes', FoldersAreWhole',
           NEW f \in DOMAIN folders, f \in DOMAIN folders',
           folders'[f].member_ids = folders[f].member_ids,
           \A i \in DOMAIN folders[f].member_ids :
             evidence'[folders[f].member_ids[i]] = evidence[folders[f].member_ids[i]]
    PROVE  StoredLeaves'[f] = StoredLeaves[f]
<1> DEFINE ids == folders[f].member_ids
<1>1. StoredLeaves[f] = [i \in DOMAIN ids |-> evidence[ids[i]].sha256]
  BY LeavesOf
<1>2. StoredLeaves'[f] = [i \in DOMAIN folders'[f].member_ids |->
                            evidence'[folders'[f].member_ids[i]].sha256]
  BY LeavesAfter
<1> QED
  BY <1>1, <1>2

SameTables == /\ evidence' = evidence /\ folders' = folders /\ version' = version
              /\ stale' = stale

LEMMA RootsStay ==
    ASSUME RootsStored, SameTables
    PROVE  RootsStored'
BY DEF RootsStored, SameTables, StoredLeaves, MemberLeaves

\* A step of a client that is not migrating after it.
LEMMA ReadsStay ==
    ASSUME Reads, SameTables, NEW c \in Clients,
           \A d \in Clients \ {c} : job'[d] = job[d], job'[c].op # "migrate"
    PROVE  Reads'
<1> SUFFICES ASSUME NEW d \in Clients, job'[d].op = "migrate"
             PROVE  /\ d \in Migrators /\ version' = 1
                    /\ DOMAIN job'[d].old = DOMAIN folders'
                    /\ \A f \in DOMAIN folders' : job'[d].old[f] = folders'[f].root
                    /\ \A i \in DOMAIN job'[d].changes :
                         LET change == job'[d].changes[i]
                         IN  /\ change.folder \in DOMAIN folders'
                             /\ change.old = folders'[change.folder].root
                             /\ change.folder \notin stale' =>
                                  change.leaves = StoredLeaves'[change.folder]
  BY DEF Reads
<1>1. job'[d] = job[d]
  OBVIOUS
<1>2. StoredLeaves' = StoredLeaves
  BY DEF SameTables, StoredLeaves, MemberLeaves
<1> QED
  BY <1>1, <1>2 DEF Reads, SameTables

LEMMA AddFileRoots ==
    ASSUME RootsInv, WholeInv', NEW c \in Clients, NEW id, NEW digest, AddFile(c, id, digest)
    PROVE  RootsInv'
<1>0. /\ WholeInv /\ RootsStored /\ Reads
      /\ StoreTypes /\ FoldersAreWhole /\ StoreTypes' /\ FoldersAreWhole'
  BY DEF RootsInv, WholeInv
<1>1. /\ folders' = folders /\ version' = version /\ job' = job
      /\ stale' = stale \cup HoldersOf({id})
      /\ \A i : i # id /\ i \in DOMAIN evidence => evidence'[i] = evidence[i]
  BY DEF AddFile, Put
<1>2. ASSUME NEW f \in DOMAIN folders, f \notin stale'
      PROVE  f \notin stale /\ StoredLeaves'[f] = StoredLeaves[f]
  <2>1. \A i \in DOMAIN folders[f].member_ids : folders[f].member_ids[i] # id
    BY <1>1, <1>2 DEF HoldersOf
  <2>2. \A i \in DOMAIN folders[f].member_ids : folders[f].member_ids[i] \in DOMAIN evidence
    BY <1>0 DEF FoldersAreWhole
  <2>3. f \in DOMAIN folders' /\ folders'[f].member_ids = folders[f].member_ids
    BY <1>1
  <2>4. \A i \in DOMAIN folders[f].member_ids :
          evidence'[folders[f].member_ids[i]] = evidence[folders[f].member_ids[i]]
    BY <1>1, <2>1, <2>2
  <2>5. StoredLeaves'[f] = StoredLeaves[f]
    BY <1>0, <2>3, <2>4, SameLeaves
  <2> QED
    BY <1>1, <1>2, <2>5
<1>3. RootsStored'
  <2> SUFFICES ASSUME NEW f \in DOMAIN folders, f \notin stale'
               PROVE  folders'[f].root = IF version' = 2 THEN Root(StoredLeaves'[f])
                                         ELSE LegacyRoot(StoredLeaves'[f])
    BY <1>1 DEF RootsStored
  <2>1. folders[f].root = IF version = 2 THEN Root(StoredLeaves[f])
                          ELSE LegacyRoot(StoredLeaves[f])
    BY <1>0, <1>2 DEF RootsStored
  <2> QED
    BY <1>1, <1>2, <2>1
<1>4. Reads'
  <2> SUFFICES ASSUME NEW d \in Clients, job[d].op = "migrate"
               PROVE  /\ d \in Migrators /\ version = 1
                      /\ DOMAIN job[d].old = DOMAIN folders
                      /\ \A f \in DOMAIN folders : job[d].old[f] = folders[f].root
                      /\ \A i \in DOMAIN job[d].changes :
                           LET change == job[d].changes[i]
                           IN  /\ change.folder \in DOMAIN folders
                               /\ change.old = folders[change.folder].root
                               /\ change.folder \notin stale' =>
                                    change.leaves = StoredLeaves'[change.folder]
    BY <1>1 DEF Reads
  <2>1. \A i \in DOMAIN job[d].changes :
          job[d].changes[i].folder \notin stale' =>
            job[d].changes[i].leaves = StoredLeaves'[job[d].changes[i].folder]
    BY <1>0, <1>2 DEF Reads
  <2> QED
    BY <1>0, <2>1 DEF Reads
<1> QED
  BY <1>3, <1>4 DEF RootsInv

\* A registration replaces the folder's root by the root of what it read, and marks
\* the other folders whose rows it replaced.
LEMMA FinishRoots ==
    ASSUME RootsInv, WholeInv', NEW c \in Clients, FinishFolder(c)
    PROVE  RootsInv'
<1>0. /\ WholeInv /\ RootsStored /\ Reads
      /\ StoreTypes /\ FoldersAreWhole /\ StoreTypes' /\ FoldersAreWhole'
  BY DEF RootsInv, WholeInv
<1> DEFINE o   == job[c]
           f   == o.folder
           ids == InOrder(DOMAIN o.run)
<1>1. /\ f \in Folders /\ o.fed \in Seq(Digests) /\ DOMAIN ids = 1 .. Len(o.fed)
      /\ \A a \in DOMAIN ids : ids[a] \in DOMAIN o.run /\ o.run[ids[a]].sha256 = o.fed[a]
  BY <1>0, Finished
<1>2. /\ DOMAIN evidence' = DOMAIN o.run \cup DOMAIN evidence
      /\ \A id \in DOMAIN o.run : evidence'[id] = o.run[id]
      /\ \A id \in DOMAIN evidence : id \notin DOMAIN o.run => evidence'[id] = evidence[id]
  BY <1>0, Finished
<1>3. /\ DOMAIN folders' = {f} \cup DOMAIN folders
      /\ folders'[f] = [root |-> Root(o.fed), member_ids |-> ids]
      /\ \A g \in DOMAIN folders : g # f => folders'[g] = folders[g]
  BY <1>0, Finished
<1>4. /\ stale' = (stale \ {f}) \cup (HoldersOf(DOMAIN o.run) \ {f})
      /\ version' = version /\ version = 2
      /\ job' = [job EXCEPT ![c] = [op |-> "registered", folder |-> f]]
  BY DEF FinishFolder
<1>5. RootsStored'
  <2> HIDE DEF o, f, ids
  <2> SUFFICES ASSUME NEW g \in DOMAIN folders', g \notin stale'
               PROVE  folders'[g].root = Root(StoredLeaves'[g])
    BY <1>4 DEF RootsStored
  <2>1. CASE g = f
    <3>1. folders'[g].member_ids = ids /\ folders'[g].root = Root(o.fed)
      BY <1>3, <2>1
    <3>2. \A i \in DOMAIN ids : evidence'[ids[i]].sha256 = o.fed[i]
      BY <1>1, <1>2
    <3>3. StoredLeaves'[g] = [i \in DOMAIN folders'[g].member_ids |->
                                evidence'[folders'[g].member_ids[i]].sha256]
      BY LeavesAfter
    <3>5. StoredLeaves'[g] = [i \in 1 .. Len(o.fed) |-> o.fed[i]]
      BY <1>1, <3>1, <3>2, <3>3
    <3>6. o.fed = [i \in 1 .. Len(o.fed) |-> o.fed[i]]
      BY <1>1, LenProperties
    <3> QED
      BY <3>1, <3>5, <3>6
  <2>2. CASE g # f
    <3>1. g \in DOMAIN folders /\ folders'[g] = folders[g] /\ g \notin stale
      BY <1>3, <1>4, <2>2
    <3>2. \A i \in DOMAIN folders[g].member_ids : folders[g].member_ids[i] \notin DOMAIN o.run
      BY <1>4, <2>2, <3>1 DEF HoldersOf
    <3>3. \A i \in DOMAIN folders[g].member_ids : folders[g].member_ids[i] \in DOMAIN evidence
      BY <1>0, <3>1 DEF FoldersAreWhole
    <3>4. \A i \in DOMAIN folders[g].member_ids :
            evidence'[folders[g].member_ids[i]] = evidence[folders[g].member_ids[i]]
      BY <1>2, <3>2, <3>3
    <3>5. folders'[g].member_ids = folders[g].member_ids
      BY <3>1
    <3>6. StoredLeaves'[g] = StoredLeaves[g]
      BY <1>0, <3>1, <3>4, <3>5, SameLeaves
    <3>7. folders[g].root = Root(StoredLeaves[g])
      BY <1>0, <1>4, <3>1 DEF RootsStored
    <3> QED
      BY <3>1, <3>6, <3>7
  <2> QED
    BY <2>1, <2>2
<1>6. Reads'
  <2> SUFFICES ASSUME NEW d \in Clients, job'[d].op = "migrate" PROVE FALSE
    BY DEF Reads
  <2>1. job \in [Clients -> Jobs]
    BY <1>0 DEF StoreTypes
  <2>2. job[d].op = "migrate"
    BY <1>4, <2>1
  <2> QED
    BY <1>0, <1>4, <2>2 DEF Reads
<1> QED
  BY <1>5, <1>6 DEF RootsInv

LEMMA MigrateRoots ==
    ASSUME RootsInv, NEW c \in Migrators, NEW force, MigrateMerkle(c, force)
    PROVE  RootsStored' /\ Reads'
<1>0. StoreTypes /\ RootsStored /\ Reads /\ c \in Clients
  BY EvidenceStoreAssumption DEF RootsInv, WholeInv
<1> DEFINE old == [f \in DOMAIN folders |-> folders[f].root]
           j   == [op |-> "migrate", force |-> force, changes |-> <<>>, old |-> old]
<1>1. SameTables /\ job' = [job EXCEPT ![c] = j] /\ version = 1
  BY DEF MigrateMerkle, store, SameTables
<1>2. job'[c] = j /\ \A d \in Clients \ {c} : job'[d] = job[d]
  BY <1>0, <1>1 DEF StoreTypes
<1>3. DOMAIN old = DOMAIN folders /\ \A f \in DOMAIN folders : old[f] = folders[f].root
  OBVIOUS
<1> HIDE DEF old
<1>4. DOMAIN j.changes = {} /\ j.old = old
  OBVIOUS
<1>5. StoredLeaves' = StoredLeaves
  BY <1>1 DEF SameTables, StoredLeaves, MemberLeaves
<1>s. version' = version /\ folders' = folders /\ stale' = stale
  BY <1>1 DEF SameTables
<1> HIDE DEF j
<1>6. Reads'
  <2> SUFFICES ASSUME NEW d \in Clients, job'[d].op = "migrate"
               PROVE  /\ d \in Migrators /\ version = 1
                      /\ DOMAIN job'[d].old = DOMAIN folders
                      /\ \A f \in DOMAIN folders : job'[d].old[f] = folders[f].root
                      /\ \A i \in DOMAIN job'[d].changes :
                           LET change == job'[d].changes[i]
                           IN  /\ change.folder \in DOMAIN folders
                               /\ change.old = folders[change.folder].root
                               /\ change.folder \notin stale =>
                                    change.leaves = StoredLeaves[change.folder]
    BY <1>s, <1>5 DEF Reads
  <2>1. CASE d = c
    BY <1>1, <1>2, <1>3, <1>4, <2>1
  <2>2. CASE d # c
    BY <1>0, <1>2, <2>2 DEF Reads
  <2> QED
    BY <2>1, <2>2
<1> QED
  BY <1>0, <1>1, <1>6, RootsStay

\* A folder is read in one SELECT: what was read is what the table has then.
LEMMA ConvertRoots ==
    ASSUME RootsInv, NEW c \in Clients, NEW f \in Folders, ConvertFolder(c, f)
    PROVE  RootsStored' /\ Reads'
<1>0. StoreTypes /\ RootsStored /\ Reads
  BY DEF RootsInv, WholeInv
<1> DEFINE o      == job[c]
           change == [folder |-> f, old |-> o.old[f], leaves |-> Leaves(MemberLeaves(f))]
           more   == Append(o.changes, change)
           j      == [o EXCEPT !.changes = more]
<1>1. /\ SameTables /\ job' = [job EXCEPT ![c] = j] /\ o.op = "migrate" /\ f \in DOMAIN o.old
  <2>1. job \in [Clients -> Jobs]
    BY <1>0 DEF StoreTypes
  <2> QED
    BY <2>1 DEF ConvertFolder, store, SameTables
<1>2. job'[c] = j /\ \A d \in Clients \ {c} : job'[d] = job[d]
  BY <1>0, <1>1 DEF StoreTypes
<1>3. o \in Migrations
  BY <1>0, <1>1, JobKinds
<1>4. /\ c \in Migrators /\ version = 1 /\ DOMAIN o.old = DOMAIN folders
      /\ \A g \in DOMAIN folders : o.old[g] = folders[g].root
      /\ \A i \in DOMAIN o.changes :
           LET x == o.changes[i]
           IN  /\ x.folder \in DOMAIN folders /\ x.old = folders[x.folder].root
               /\ x.folder \notin stale => x.leaves = StoredLeaves[x.folder]
  BY <1>0, <1>1 DEF Reads
<1> HIDE DEF o
<1>5. /\ change.folder = f /\ change.folder \in DOMAIN folders
      /\ change.old = folders[change.folder].root
      /\ change.leaves = StoredLeaves[change.folder]
  BY <1>1, <1>4 DEF StoredLeaves
<1>6. o.changes \in Seq(Changes) /\ j.old = o.old /\ j.changes = more
  BY <1>3 DEF Migrations
<1>7. DOMAIN more = 1 .. Len(o.changes) + 1
  <2> HIDE DEF change
  <2> QED
    BY <1>6
<1>8. /\ \A i \in 1 .. Len(o.changes) : more[i] = o.changes[i]
      /\ more[Len(o.changes) + 1] = change
  <2> HIDE DEF change
  <2> QED
    BY <1>6
<1>9. DOMAIN o.changes = 1 .. Len(o.changes) /\ Len(o.changes) \in Nat
  BY <1>6, LenProperties
<1> HIDE DEF j, change, more
<1>10. ASSUME NEW i \in DOMAIN j.changes
       PROVE  LET x == j.changes[i]
              IN  /\ x.folder \in DOMAIN folders /\ x.old = folders[x.folder].root
                  /\ x.folder \notin stale => x.leaves = StoredLeaves[x.folder]
  <2>1. i \in 1 .. Len(o.changes) \/ i = Len(o.changes) + 1
    BY <1>6, <1>7, <1>9
  <2>2. CASE i \in 1 .. Len(o.changes)
    BY <1>4, <1>6, <1>8, <1>9, <2>2
  <2>3. CASE i = Len(o.changes) + 1
    BY <1>5, <1>6, <1>8, <2>3
  <2> QED
    BY <2>1, <2>2, <2>3
<1>11. StoredLeaves' = StoredLeaves
  BY <1>1 DEF SameTables, StoredLeaves, MemberLeaves
<1>s. version' = version /\ folders' = folders /\ stale' = stale
  BY <1>1 DEF SameTables
<1>12. Reads'
  <2> SUFFICES ASSUME NEW d \in Clients, job'[d].op = "migrate"
               PROVE  /\ d \in Migrators /\ version = 1
                      /\ DOMAIN job'[d].old = DOMAIN folders
                      /\ \A g \in DOMAIN folders : job'[d].old[g] = folders[g].root
                      /\ \A i \in DOMAIN job'[d].changes :
                           LET x == job'[d].changes[i]
                           IN  /\ x.folder \in DOMAIN folders
                               /\ x.old = folders[x.folder].root
                               /\ x.folder \notin stale => x.leaves = StoredLeaves[x.folder]
    BY <1>s, <1>11 DEF Reads
  <2>1. CASE d = c
    BY <1>2, <1>4, <1>6, <1>10, <2>1
  <2>2. CASE d # c
    BY <1>0, <1>2, <2>2 DEF Reads
  <2> QED
    BY <2>1, <2>2
<1> QED
  BY <1>0, <1>1, <1>12, RootsStay

\* The commit: no other process migrates, and no folder was left out.
LEMMA CommitRootsHold ==
    ASSUME RootsInv, OneMigrator, NEW c \in Clients, CommitRoots(c)
    PROVE  RootsStored' /\ Reads'
<1>0. StoreTypes /\ FoldersAreWhole /\ RootsStored /\ Reads
  BY DEF RootsInv, WholeInv
<1> DEFINE changes == job[c].changes
<1>1. /\ evidence' = evidence /\ stale' = stale /\ version' = 2
      /\ job' = [job EXCEPT ![c] = Idle] /\ job[c].op = "migrate"
      /\ Changed(c) = DOMAIN job[c].old
  BY DEF CommitRoots
<1>2. /\ DOMAIN folders' = DOMAIN folders
      /\ \A f \in DOMAIN folders :
           /\ folders'[f].member_ids = folders[f].member_ids
           /\ \/ (\A i \in DOMAIN changes : changes[i].folder # f) /\ folders'[f] = folders[f]
              \/ \E i \in DOMAIN changes : /\ changes[i].folder = f
                                           /\ folders'[f].root = Root(changes[i].leaves)
  BY <1>0, Committed
<1>3. /\ c \in Migrators /\ DOMAIN job[c].old = DOMAIN folders
      /\ \A i \in DOMAIN changes : changes[i].folder \notin stale =>
           changes[i].leaves = StoredLeaves[changes[i].folder]
  BY <1>0, <1>1 DEF Reads
<1>4. \A f \in DOMAIN folders : \E i \in DOMAIN changes : changes[i].folder = f
  BY <1>1, <1>3 DEF Changed
<1> HIDE DEF changes
<1>5. RootsStored'
  <2> SUFFICES ASSUME NEW f \in DOMAIN folders, f \notin stale
               PROVE  folders'[f].root = Root(StoredLeaves'[f])
    BY <1>1, <1>2 DEF RootsStored
  <2>1. PICK i \in DOMAIN changes : changes[i].folder = f /\ folders'[f].root = Root(changes[i].leaves)
    BY <1>2, <1>4
  <2>2. changes[i].leaves = StoredLeaves[f]
    BY <1>3, <2>1
  <2>3. StoredLeaves[f] = [k \in DOMAIN folders[f].member_ids |->
                             evidence[folders[f].member_ids[k]].sha256]
    BY <1>0, LeavesOf
  <2>4. StoredLeaves'[f] = [k \in DOMAIN folders'[f].member_ids |->
                              evidence'[folders'[f].member_ids[k]].sha256]
    BY <1>2, LeavesAfter
  <2>5. folders'[f].member_ids = folders[f].member_ids
    BY <1>2
  <2>6. StoredLeaves'[f] = StoredLeaves[f]
    BY <1>1, <2>3, <2>4, <2>5
  <2> QED
    BY <2>1, <2>2, <2>6
<1>6. Reads'
  <2> SUFFICES ASSUME NEW d \in Clients, job'[d].op = "migrate" PROVE FALSE
    BY DEF Reads
  <2>1. d # c /\ job[d].op = "migrate"
    BY <1>0, <1>1 DEF StoreTypes, Idle
  <2>2. d \in Migrators
    BY <1>0, <2>1 DEF Reads
  <2> QED
    BY <1>3, <2>1, <2>2 DEF OneMigrator
<1> QED
  BY <1>5, <1>6

LEMMA RootsNext ==
    ASSUME OneMigrator
    PROVE  RootsInv /\ [Next]_vars => RootsInv'
<1> SUFFICES ASSUME RootsInv, [Next]_vars PROVE RootsInv'
  OBVIOUS
<1>0. WholeInv /\ RootsStored /\ Reads /\ StoreTypes
  BY DEF RootsInv, WholeInv
<1>1. WholeInv'
  BY <1>0, WholeNext
<1>2. CASE UNCHANGED vars
  <2>1. SameTables /\ job' = job
    BY <1>2 DEF vars, SameTables
  <2>2. StoredLeaves' = StoredLeaves
    BY <2>1 DEF SameTables, StoredLeaves, MemberLeaves
  <2>3. Reads'
    BY <1>0, <2>1, <2>2 DEF Reads, SameTables
  <2> QED
    BY <1>0, <1>1, <2>1, <2>3, RootsStay DEF RootsInv
<1>3. ASSUME NEW c \in Clients, Command(c) PROVE RootsInv'
  <2>0. job \in [Clients -> Jobs]
    BY <1>0 DEF StoreTypes
  <2>1. ASSUME SameTables, \A d \in Clients \ {c} : job'[d] = job[d], job'[c].op # "migrate"
        PROVE  RootsInv'
    BY <1>0, <1>1, <2>1, RootsStay, ReadsStay DEF RootsInv
  <2>2. CASE \E id \in Singles \cup MemberIds, digest \in Digests : AddFile(c, id, digest)
    BY <1>1, <2>2, AddFileRoots
  <2>3. CASE \E f \in Folders, files \in 1 .. MaxFiles : StartFolder(c, f, files)
    BY <2>0, <2>1, <2>3 DEF StartFolder, store, SameTables
  <2>4. CASE \/ \E digest \in Digests : HashMember(c, digest)
             \/ SkipMember(c)
             \/ AddFolderMembers(c)
    <3>1. job[c] \in Ingests
      BY <1>0, <2>4, JobKinds DEF HashMember, SkipMember, AddFolderMembers, Ingesting
    <3>2. SameTables /\ \A d \in Clients \ {c} : job'[d] = job[d]
      BY <2>0, <2>4 DEF HashMember, SkipMember, AddFolderMembers, store, SameTables
    <3>3. job'[c].op = "ingest"
      <4>1. ASSUME NEW digest \in Digests, HashMember(c, digest) PROVE job'[c].op = "ingest"
        BY <2>0, <3>1, <4>1 DEF HashMember, Ingests
      <4>2. CASE SkipMember(c)
        BY <2>0, <3>1, <4>2 DEF SkipMember, Ingests
      <4>3. CASE AddFolderMembers(c)
        BY <2>0, <3>1, <4>3 DEF AddFolderMembers, Ingests
      <4> QED
        BY <2>4, <4>1, <4>2, <4>3
    <3> QED
      BY <2>1, <3>2, <3>3
  <2>5. CASE FinishFolder(c)
    BY <1>1, <2>5, FinishRoots
  <2>6. CASE BatchRegister(c) \/ Stop(c)
    BY <2>0, <2>1, <2>6 DEF BatchRegister, Stop, SameTables, Idle
  <2>7. CASE c \in Migrators /\ \E force \in Forces : MigrateMerkle(c, force)
    BY <1>1, <2>7, MigrateRoots DEF RootsInv
  <2>8. CASE \E f \in Folders : ConvertFolder(c, f)
    BY <1>1, <2>8, ConvertRoots DEF RootsInv
  <2>9. CASE CommitRoots(c)
    BY <1>1, <2>9, CommitRootsHold DEF RootsInv
  <2> QED
    BY <1>3, <2>2, <2>3, <2>4, <2>5, <2>6, <2>7, <2>8, <2>9 DEF Command
<1> QED
  BY <1>2, <1>3 DEF Next

-------------------------------------------------------------------------------
(* The readers.                                                            *)

\* The group ids of a table are finitely many.
LEMMA GroupsOf ==
    ASSUME NEW rows, IsFiniteSet(DOMAIN rows)
    PROVE  /\ IsFiniteSet(GroupIds(rows)) /\ Cardinality(GroupIds(rows)) \in Nat
<1> DEFINE group(id) == IF rows[id].folder_id # NoFolder THEN rows[id].folder_id ELSE id
           g == [id \in DOMAIN rows |-> group(id)]
<1>1. g \in Surjection(DOMAIN rows, GroupIds(rows))
  <2>1. GroupIds(rows) = {group(id) : id \in DOMAIN rows}
    BY DEF GroupIds
  <2> HIDE DEF group
  <2>2. g \in [DOMAIN rows -> GroupIds(rows)]
    BY <2>1
  <2>3. \A x \in GroupIds(rows) : \E id \in DOMAIN rows : g[id] = x
    BY <2>1
  <2> QED
    BY <2>2, <2>3 DEF Surjection
<1> HIDE DEF g
<1> QED
  BY <1>1, FS_Surjection, FS_CardinalityType

ReportOps == {"none", "proof", "member", "proved", "KeyError",
              "log", "evidence", "folders", "exported"}

\* The folders that rows name are among these.
RowsFound(rows, subtrees) ==
    \A id \in DOMAIN rows : rows[id].folder_id \in DOMAIN subtrees \cup {NoFolder}

\* What an export has read: every folder it names is stored, and in its own files
\* once it has read the folders.
ExportFields(r) ==
    /\ r.op \in ReportOps
    /\ r.op \in {"log", "evidence", "folders", "exported"} => "custody_log" \in DOMAIN r
    /\ r.op \in {"log", "evidence"} => LoggedFound(r.custody_log, folders)
    /\ r.op \in {"evidence", "folders", "exported"} => "evidence_index" \in DOMAIN r
    /\ r.op = "evidence" => RowsFound(r.evidence_index, folders)
    /\ r.op \in {"folders", "exported"} =>
         /\ "folder_index" \in DOMAIN r
         /\ LoggedFound(r.custody_log, r.folder_index)
         /\ RowsFound(r.evidence_index, r.folder_index)

ReadersInv == DOMAIN report = Readers /\ \A r \in Readers : ExportFields(report[r])

\* One reader's report changes.
LEMMA ReportChange ==
    ASSUME ReadersInv, NEW r \in Readers, NEW new, ExportFields(new),
           report' = [report EXCEPT ![r] = new], folders' = folders
    PROVE  ReadersInv'
<1>1. DOMAIN report' = Readers /\ \A q \in Readers : report'[q] = IF q = r THEN new ELSE report[q]
  BY DEF ReadersInv
<1>2. ASSUME NEW q \in Readers PROVE ExportFields(report[q])'
  <2>1. ExportFields(report[q])
    BY DEF ReadersInv
  <2>2. CASE q = r
    <3>1. report'[q] = new
      BY <1>1, <2>2
    <3> QED
      BY <3>1 DEF ExportFields
  <2>3. CASE q # r
    <3>1. report'[q] = report[q]
      BY <1>1, <2>3
    <3> QED
      BY <2>1, <3>1 DEF ExportFields
  <2> QED
    BY <2>2, <2>3
<1> QED
  BY <1>1, <1>2 DEF ReadersInv

\* A report of some other kind than an export.
LEMMA OtherReport ==
    ASSUME NEW r, r.op \in ReportOps \ {"log", "evidence", "folders", "exported"}
    PROVE  ExportFields(r)
BY DEF ExportFields

LEMMA ReportStepKeeps ==
    ASSUME FoldersAreWhole, ReadersInv, ReportStep, UNCHANGED vars
    PROVE  ReadersInv'
<1>0. folders' = folders
  BY DEF vars
<1>1. ASSUME NEW p \in Provers, NEW id \in DOMAIN evidence, GetEvidence(p, id) PROVE ReadersInv'
  <2> DEFINE new == [op |-> "proof", id |-> id, rec |-> evidence[id]]
  <2>1. new.op = "proof" /\ report' = [report EXCEPT ![p] = new]
    BY <1>1 DEF GetEvidence
  <2> HIDE DEF new
  <2>2. ExportFields(new)
    BY <2>1, OtherReport DEF ReportOps
  <2> QED
    BY <2>1, <2>2, <1>0, ReportChange DEF Readers
<1>2. ASSUME NEW p \in Provers, ProveMember(p) PROVE ReadersInv'
  <2>1. PICK local, row, holds : report' = [report EXCEPT ![p] =
                       IF local = NotFound THEN [op |-> "KeyError"]
                       ELSE Put([op |-> "member", local |-> local, folder_row |-> row,
                                 holds |-> holds], report[p])]
    <3>1. p \in DOMAIN report
      BY DEF ReadersInv, Readers
    <3> QED
      BY <1>2, <3>1 DEF ProveMember
  <2> DEFINE fields == [op |-> "member", local |-> local, folder_row |-> row, holds |-> holds]
             more   == Put(fields, report[p])
             new    == IF local = NotFound THEN [op |-> "KeyError"] ELSE more
  <2>2. "op" \in DOMAIN fields /\ fields["op"] = "member"
    OBVIOUS
  <2>3. more.op = "member"
    <3> HIDE DEF fields
    <3>1. /\ DOMAIN more = DOMAIN fields \cup DOMAIN report[p]
          /\ \A x \in DOMAIN fields : more[x] = fields[x]
          /\ \A x \in DOMAIN report[p] : x \notin DOMAIN fields => more[x] = report[p][x]
      BY DEF Put
    <3> HIDE DEF more
    <3> QED
      BY <2>2, <3>1
  <2> HIDE DEF more
  <2>4. new.op \in {"KeyError", "member"}
    BY <2>3
  <2>5. report' = [report EXCEPT ![p] = new]
    BY <2>1 DEF more
  <2> HIDE DEF new
  <2>6. ExportFields(new)
    BY <2>4, OtherReport DEF ReportOps
  <2> QED
    BY <2>5, <2>6, <1>0, ReportChange DEF Readers
<1>3. ASSUME NEW p \in Provers, ProveGroup(p) PROVE ReadersInv'
  <2> DEFINE f      == report[p].rec.folder_id
             nested == f # NoFolder
             group  == ProofStream(GroupLeaves(evidence, folders),
                                   IF nested THEN f ELSE report[p].id)
             written(leaf, local, subtree, folder) ==
               [op |-> "proved", id |-> report[p].id, rec |-> report[p].rec, leaf |-> leaf,
                root |-> group.root, provable |-> Provable(p),
                proof |-> [local_proof |-> local, subtree_root |-> subtree,
                           folder_proof |-> folder]]
             member == written(report[p].local.leaf, report[p].local.proof,
                               report[p].local.root, group.proof)
             single == written(report[p].rec.sha256, group.proof, group.root, <<>>)
             new    == IF group = NotFound THEN [op |-> "KeyError"]
                       ELSE IF nested THEN member ELSE single
  <2>0. report' = [report EXCEPT ![p] = new]
    BY <1>3 DEF ProveGroup
  <2> HIDE DEF group, nested
  <2>3. member.op = "proved" /\ single.op = "proved"
    OBVIOUS
  <2> HIDE DEF member, single
  <2>1. new.op \in {"KeyError", "proved"}
    BY <2>3
  <2> HIDE DEF new
  <2>2. ExportFields(new)
    BY <2>1, OtherReport DEF ReportOps
  <2> QED
    BY <2>0, <2>2, <1>0, ReportChange DEF Readers
<1>4. ASSUME NEW e \in Exporters, ExportLog(e) PROVE ReadersInv'
  <2> DEFINE new == [op |-> "log", custody_log |-> log]
  <2>1. report' = [report EXCEPT ![e] = new]
    BY <1>4 DEF ExportLog
  <2>2. new.op = "log" /\ "custody_log" \in DOMAIN new /\ new.custody_log = log
    OBVIOUS
  <2>3. LoggedFound(log, folders)
    BY DEF FoldersAreWhole, LoggedFound
  <2> HIDE DEF new
  <2>4. ExportFields(new)
    BY <2>2, <2>3 DEF ExportFields, ReportOps
  <2> QED
    BY <1>0, <2>1, <2>4, ReportChange DEF Readers
<1>5. ASSUME NEW e \in Exporters PROVE e \in DOMAIN report /\ e \in Readers /\ ExportFields(report[e])
  BY DEF ReadersInv, Readers
<1>6. ASSUME NEW e \in Exporters, ExportEvidence(e) PROVE ReadersInv'
  <2> DEFINE old    == report[e]
             fields == [op |-> "evidence", evidence_index |-> evidence]
             new    == Put(fields, old)
  <2>1. report' = [report EXCEPT ![e] = new] /\ old.op = "log"
    BY <1>5, <1>6 DEF ExportEvidence
  <2>2. "custody_log" \in DOMAIN old /\ LoggedFound(old.custody_log, folders)
    BY <1>5, <2>1 DEF ExportFields
  <2>3. RowsFound(evidence, folders)
    BY DEF FoldersAreWhole, RowsFound
  <2> HIDE DEF old
  <2>4. /\ new.op = "evidence" /\ {"evidence_index", "custody_log"} \subseteq DOMAIN new
        /\ new.evidence_index = evidence /\ new.custody_log = old.custody_log
    BY <2>2 DEF Put
  <2> HIDE DEF new
  <2>5. ExportFields(new)
    BY <2>2, <2>3, <2>4 DEF ExportFields, ReportOps
  <2> QED
    BY <1>0, <1>5, <2>1, <2>5, ReportChange
<1>7. ASSUME NEW e \in Exporters, ExportFolders(e) PROVE ReadersInv'
  <2> DEFINE old    == report[e]
             fields == [op |-> "folders", folder_index |-> folders]
             new    == Put(fields, old)
  <2>1. report' = [report EXCEPT ![e] = new] /\ old.op = "evidence"
    BY <1>5, <1>7 DEF ExportFolders
  <2>2. /\ {"custody_log", "evidence_index"} \subseteq DOMAIN old
        /\ LoggedFound(old.custody_log, folders) /\ RowsFound(old.evidence_index, folders)
    BY <1>5, <2>1 DEF ExportFields
  <2> HIDE DEF old
  <2>3. /\ new.op = "folders" /\ {"folder_index", "evidence_index", "custody_log"} \subseteq DOMAIN new
        /\ new.folder_index = folders
        /\ new.evidence_index = old.evidence_index /\ new.custody_log = old.custody_log
    BY <2>2 DEF Put
  <2> HIDE DEF new
  <2>4. ExportFields(new)
    BY <2>2, <2>3 DEF ExportFields, ReportOps
  <2> QED
    BY <1>0, <1>5, <2>1, <2>4, ReportChange
<1>8. ASSUME NEW e \in Exporters, WriteAnchor(e) PROVE ReadersInv'
  <2> DEFINE old    == report[e]
             root   == RootOver(GroupLeaves(evidence, folders))
             fields == [op |-> "exported", merkle_root |-> root]
             new    == Put(fields, old)
  <2>1. report' = [report EXCEPT ![e] = new] /\ old.op = "folders"
    BY <1>5, <1>8 DEF WriteAnchor
  <2>2. /\ {"custody_log", "evidence_index", "folder_index"} \subseteq DOMAIN old
        /\ LoggedFound(old.custody_log, old.folder_index)
        /\ RowsFound(old.evidence_index, old.folder_index)
    BY <1>5, <2>1 DEF ExportFields
  <2> HIDE DEF old, root
  <2>3. /\ new.op = "exported"
        /\ {"folder_index", "evidence_index", "custody_log"} \subseteq DOMAIN new
        /\ new.folder_index = old.folder_index
        /\ new.evidence_index = old.evidence_index /\ new.custody_log = old.custody_log
    BY <2>2 DEF Put
  <2> HIDE DEF new
  <2>4. ExportFields(new)
    BY <2>2, <2>3 DEF ExportFields, ReportOps
  <2> QED
    BY <1>0, <1>5, <2>1, <2>4, ReportChange
<1>9. ASSUME NEW r \in Readers, CloseReport(r) PROVE ReadersInv'
  <2>1. NoReport.op = "none" /\ report' = [report EXCEPT ![r] = NoReport]
    BY <1>9 DEF CloseReport, NoReport
  <2>2. ExportFields(NoReport)
    BY <2>1, OtherReport DEF ReportOps
  <2> QED
    BY <1>0, <2>1, <2>2, ReportChange
<1> QED
  BY <1>1, <1>2, <1>3, <1>4, <1>6, <1>7, <1>8, <1>9 DEF ReportStep

-------------------------------------------------------------------------------
(* What merkle-proof reads and writes.                                     *)

\* Folders are registered and converted, and never removed.
LEMMA FoldersStay ==
    [Next]_vars => DOMAIN folders \subseteq DOMAIN folders'
<1> SUFFICES ASSUME [Next]_vars PROVE DOMAIN folders \subseteq DOMAIN folders'
  OBVIOUS
<1>1. CASE folders' = folders
  BY <1>1
<1>2. ASSUME NEW c \in Clients, FinishFolder(c) PROVE DOMAIN folders \subseteq DOMAIN folders'
  BY <1>2 DEF FinishFolder, Put
<1>3. ASSUME NEW c \in Clients, CommitRoots(c) PROVE DOMAIN folders \subseteq DOMAIN folders'
  BY <1>3 DEF CommitRoots
<1>4. ASSUME NEW c \in Clients, Command(c), ~FinishFolder(c), ~CommitRoots(c)
      PROVE  folders' = folders
  BY <1>4 DEF Command, AddFile, StartFolder, HashMember, SkipMember, AddFolderMembers,
     BatchRegister, MigrateMerkle, ConvertFolder, Stop, store
<1>5. CASE UNCHANGED vars
  BY <1>5 DEF vars
<1> QED
  BY <1>1, <1>2, <1>3, <1>4, <1>5 DEF Next

\* A member's proof is one in the tree of its folder's root, if the folder held the
\* evidence and its root when it was read.
MemberProved(local, rec, row) ==
    /\ local.leaf = rec.sha256 /\ local.root = row.root
    /\ VerifyProof(local.leaf, local.proof, local.root)

ProofFields(r) ==
    /\ r.op \in {"proof", "member"} =>
         "rec" \in DOMAIN r /\ r.rec.folder_id \in DOMAIN folders \cup {NoFolder}
    /\ r.op = "member" /\ r.holds => MemberProved(r.local, r.rec, r.folder_row)
    /\ r.op = "proved" /\ r.provable =>
         VerifyNestedProof(r.leaf, r.proof, r.root) /\ r.leaf = r.rec.sha256

ProversInv == DOMAIN report = Readers /\ \A r \in Readers : ProofFields(report[r])

LEMMA NoProof ==
    ASSUME NEW r, r.op \in ReportOps \ {"proof", "member", "proved"}
    PROVE  ProofFields(r)
BY DEF ProofFields

\* One reader's report changes, and no table.
LEMMA ProofChange ==
    ASSUME ProversInv, NEW r \in Readers, NEW new, ProofFields(new), folders' = folders,
           report' = [report EXCEPT ![r] = new]
    PROVE  ProversInv'
<1>1. DOMAIN report' = Readers /\ \A q \in Readers : report'[q] = IF q = r THEN new ELSE report[q]
  BY DEF ProversInv
<1>2. ASSUME NEW q \in Readers PROVE ProofFields(report[q])'
  <2>1. ProofFields(report[q])
    BY DEF ProversInv
  <2>2. CASE q = r
    <3>1. report'[q] = new
      BY <1>1, <2>2
    <3> QED
      BY <3>1 DEF ProofFields
  <2>3. CASE q # r
    <3>1. report'[q] = report[q]
      BY <1>1, <2>3
    <3> QED
      BY <2>1, <3>1 DEF ProofFields
  <2> QED
    BY <2>2, <2>3
<1> QED
  BY <1>1, <1>2 DEF ProversInv

\* The folder of a member, read while it holds the evidence and its own root.
LEMMA MemberFound ==
    ASSUME RootsInv, version = 2, NEW f \in DOMAIN folders, f \notin stale, NEW id,
           NEW local, local = ProofStream(MemberLeaves(f), id), local # NotFound
    PROVE  MemberProved(local, evidence[id], folders[f])
<1> DEFINE ids   == folders[f].member_ids
           items == MemberLeaves(f)
<1>1. folders[f] \in FolderRows
  BY TableIs DEF RootsInv, WholeInv, StoreTypes
<1>2. ids \in Seq(MemberIds)
  BY <1>1 DEF FolderRows
<1>3. PICK n \in Nat : n = Len(ids) /\ DOMAIN ids = 1 .. n
  BY <1>2, LenProperties
<1>4. DOMAIN items = 1 .. n /\ items = [i \in 1 .. n |-> items[i]]
  BY <1>3 DEF MemberLeaves
<1>5. \A i \in 1 .. n : items[i][1] = ids[i] /\ items[i][2] = evidence[ids[i]].sha256
  BY <1>3 DEF MemberLeaves
<1>6. Leaves(items) = ItemLeaves(items, n)
  BY <1>4 DEF Leaves, ItemLeaves
<1> HIDE DEF items
<1>7. Len(items) = n
  BY <1>4, ListIs
<1>8. PICK i \in 1 .. n :
        /\ items[i][1] = id /\ local.leaf = items[i][2]
        /\ local.root = Root(ItemLeaves(items, n))
        /\ VerifyProof(items[i][2], local.proof, local.root)
  <2>1. n \in Nat /\ n = Len(items)
    BY <1>7
  <2>2. local = ProofStream(items, id) /\ local # NotFound
    BY DEF items
  <2>3. Finds(items, n, id, local)
    BY ONLY <2>1, <2>2, StreamVerifies
  <2> QED
    BY ONLY <2>3 DEF Finds
<1>9. local.leaf = evidence[id].sha256 /\ VerifyProof(local.leaf, local.proof, local.root)
  BY <1>5, <1>8
<1>10. folders[f].root = Root(StoredLeaves[f])
  BY DEF RootsInv, RootsStored
<1>11. StoredLeaves[f] = Leaves(items)
  BY DEF StoredLeaves, items
<1> QED
  BY <1>6, <1>8, <1>9, <1>10, <1>11 DEF MemberProved

\* The groups, read at any moment.
LEMMA GroupFound ==
    ASSUME StoreTypes, NEW id, NEW group,
           group = ProofStream(GroupLeaves(evidence, folders), id), group # NotFound
    PROVE  /\ VerifyProof(IF id \in DOMAIN folders THEN folders[id].root ELSE evidence[id].sha256,
                          group.proof, group.root)
           /\ Cardinality(GroupIds(evidence)) > 1 => group.proof # <<>>
<1> DEFINE gids  == InOrder(GroupIds(evidence))
           items == GroupLeaves(evidence, folders)
<1>1. PICK n \in Nat : n = Cardinality(GroupIds(evidence))
  <2>1. evidence = [x \in DOMAIN evidence |-> evidence[x]] /\ IsFiniteSet(DOMAIN evidence)
    <3>1. evidence \in Tables(Ids, Rows) /\ IsFiniteSet(DOMAIN evidence)
      BY DEF StoreTypes
    <3>2. evidence \in [DOMAIN evidence -> Rows]
      BY <3>1, TableIs
    <3> QED
      BY <3>1, <3>2
  <2> QED
    BY <2>1, GroupsOf
<1>2. DOMAIN gids = 1 .. n
  BY <1>1 DEF InOrder
<1>3. /\ DOMAIN items = 1 .. n /\ items = [i \in 1 .. n |-> items[i]]
      /\ \A i \in 1 .. n :
           /\ items[i][1] = gids[i]
           /\ items[i][2] = IF gids[i] \in DOMAIN folders THEN folders[gids[i]].root
                            ELSE evidence[gids[i]].sha256
  <2> HIDE DEF gids
  <2>1. items = [i \in 1 .. n |->
                   <<gids[i], IF gids[i] \in DOMAIN folders THEN folders[gids[i]].root
                              ELSE evidence[gids[i]].sha256>>]
    BY <1>2 DEF GroupLeaves, gids
  <2> HIDE DEF items
  <2> QED
    BY <2>1
<1>a. group = ProofStream(items, id)
  OBVIOUS
<1> HIDE DEF gids, items
<1>4. Len(items) = n
  BY <1>3, ListIs
<1>5. /\ \E i \in 1 .. n :
           /\ items[i][1] = id /\ group.leaf = items[i][2]
           /\ group.root = Root(ItemLeaves(items, n))
           /\ VerifyProof(items[i][2], group.proof, group.root)
      /\ n > 1 => group.proof # <<>>
  <2>1. n = Len(items) /\ n \in Nat
    BY <1>4
  <2>2. group # NotFound
    OBVIOUS
  <2>3. Finds(items, n, id, group)
    BY ONLY <2>1, <2>2, <1>a, StreamVerifies
  <2> QED
    BY ONLY <2>3 DEF Finds
<1>7. PICK i \in 1 .. n : items[i][1] = id /\ VerifyProof(items[i][2], group.proof, group.root)
  BY ONLY <1>5
<1>6. items[i][2] = IF id \in DOMAIN folders THEN folders[id].root ELSE evidence[id].sha256
  BY <1>3, <1>7
<1> QED
  BY <1>1, <1>5, <1>6, <1>7

LEMMA ReportsStepIsStoreStep ==
    [ReportsNext]_allvars => [Next]_vars
BY DEF ReportsNext, allvars, vars

\* The fields that are put into a record, and the row it keeps.
LEMMA MemberFields ==
    ASSUME NEW old, NEW fields, "rec" \in DOMAIN old,
           DOMAIN fields = {"op", "local", "folder_row", "holds"}
    PROVE  LET new == Put(fields, old)
           IN  /\ "rec" \in DOMAIN new /\ new.rec = old.rec
               /\ \A x \in DOMAIN fields : new[x] = fields[x]
BY DEF Put

LEMMA GetEvidenceProves ==
    ASSUME WholeInv, ProversInv, NEW p \in Provers, NEW id \in DOMAIN evidence,
           GetEvidence(p, id), UNCHANGED vars
    PROVE  ProversInv'
<1> DEFINE new == [op |-> "proof", id |-> id, rec |-> evidence[id]]
<1>1. new.op = "proof" /\ "rec" \in DOMAIN new /\ new.rec = evidence[id]
  OBVIOUS
<1>2. report' = [report EXCEPT ![p] = new]
  BY DEF GetEvidence
<1> HIDE DEF new
<1>3. evidence[id].folder_id \in DOMAIN folders \cup {NoFolder}
  BY DEF WholeInv, FoldersAreWhole
<1>4. ProofFields(new)
  BY <1>1, <1>3 DEF ProofFields
<1> QED
  BY <1>2, <1>4, ProofChange DEF Readers, vars

LEMMA ProveMemberProves ==
    ASSUME RootsInv, ProversInv, NEW p \in Provers, report[p].op = "proof", ProveMember(p),
           UNCHANGED vars
    PROVE  ProversInv'
<1> DEFINE old    == report[p]
           f      == old.rec.folder_id
           local  == ProofStream(MemberLeaves(f), old.id)
           holds  == /\ version = 2 /\ f \notin stale
                     /\ evidence[old.id] = old.rec
           fields == [op |-> "member", local |-> local, folder_row |-> folders[f],
                      holds |-> holds]
           more   == Put(fields, old)
           new    == IF local = NotFound THEN [op |-> "KeyError"] ELSE more
<1>1. /\ report' = [report EXCEPT ![p] = new] /\ f # NoFolder
      /\ p \in DOMAIN report
  BY DEF ProveMember, ProversInv, Readers
<1>2. "rec" \in DOMAIN old /\ f \in DOMAIN folders
  <2>1. ProofFields(old)
    BY DEF ProversInv, Readers
  <2> QED
    BY <1>1, <2>1 DEF ProofFields
<1>3. ASSUME holds, local # NotFound PROVE MemberProved(local, old.rec, folders[f])
  <2>1. f \in DOMAIN folders /\ f \notin stale /\ version = 2
    BY <1>2, <1>3
  <2>2. MemberProved(local, evidence[old.id], folders[f])
    <3>1. local = ProofStream(MemberLeaves(f), old.id)
      OBVIOUS
    <3> HIDE DEF f, local
    <3> QED
      BY <1>3, <2>1, <3>1, MemberFound
  <2> QED
    BY <1>3, <2>2
<1> HIDE DEF holds, local, f, old
<1>4. /\ DOMAIN fields = {"op", "local", "folder_row", "holds"}
      /\ fields["op"] = "member" /\ fields["local"] = local
      /\ fields["folder_row"] = folders[f] /\ fields["holds"] = holds
  OBVIOUS
<1> HIDE DEF fields
<1>5. /\ "rec" \in DOMAIN more /\ more.rec = old.rec
      /\ \A x \in DOMAIN fields : more[x] = fields[x]
  BY <1>2, <1>4, MemberFields
<1> HIDE DEF more
<1>6. /\ more.op = "member" /\ more.local = local /\ more.folder_row = folders[f]
      /\ more.holds = holds
  BY <1>4, <1>5
<1>7. CASE local = NotFound
  <2>1. new.op = "KeyError"
    BY <1>7
  <2> HIDE DEF new
  <2>2. ProofFields(new)
    BY <2>1, NoProof DEF ReportOps
  <2> QED
    BY <1>1, <2>2, ProofChange DEF Readers, vars
<1>8. CASE local # NotFound
  <2>1. new = more
    BY <1>8
  <2>2. old.rec.folder_id \in DOMAIN folders
    BY <1>2 DEF f
  <2>3. more.holds => MemberProved(more.local, more.rec, more.folder_row)
    BY <1>3, <1>5, <1>6, <1>8
  <2>4. ProofFields(more)
    BY <1>5, <1>6, <2>2, <2>3 DEF ProofFields
  <2> HIDE DEF new
  <2> QED
    BY <1>1, <2>1, <2>4, ProofChange DEF Readers, vars
<1> QED
  BY <1>7, <1>8

\* A proof that is written, of a member and of a single file.
LEMMA MemberWritten ==
    ASSUME StoreTypes, NEW f \in DOMAIN folders, Cardinality(GroupIds(evidence)) > 1,
           NEW group, group = ProofStream(GroupLeaves(evidence, folders), f),
           group # NotFound, NEW local, NEW rec, MemberProved(local, rec, folders[f])
    PROVE  VerifyNestedProof(local.leaf, [local_proof |-> local.proof,
                                          subtree_root |-> local.root,
                                          folder_proof |-> group.proof], group.root)
<1>1. VerifyProof(folders[f].root, group.proof, group.root) /\ group.proof # <<>>
  BY GroupFound
<1> QED
  BY <1>1 DEF MemberProved, VerifyNestedProof

LEMMA SingleWritten ==
    ASSUME StoreTypes, NEW id, id \notin DOMAIN folders,
           NEW group, group = ProofStream(GroupLeaves(evidence, folders), id),
           group # NotFound
    PROVE  VerifyNestedProof(evidence[id].sha256, [local_proof |-> group.proof,
                                                   subtree_root |-> group.root,
                                                   folder_proof |-> <<>>], group.root)
<1>1. VerifyProof(evidence[id].sha256, group.proof, group.root)
  BY GroupFound
<1> QED
  BY <1>1 DEF VerifyNestedProof

LEMMA ProveGroupProves ==
    ASSUME RootsInv, ProversInv, NEW p \in Provers, ProveGroup(p), UNCHANGED vars
    PROVE  ProversInv'
<1> DEFINE old    == report[p]
           f      == old.rec.folder_id
           nested == f # NoFolder
           group  == ProofStream(GroupLeaves(evidence, folders), IF nested THEN f ELSE old.id)
           ok     == Provable(p)
           written(leaf, local, subtree, folder) ==
             [op |-> "proved", id |-> old.id, rec |-> old.rec, leaf |-> leaf,
              root |-> group.root, provable |-> ok,
              proof |-> [local_proof |-> local, subtree_root |-> subtree,
                         folder_proof |-> folder]]
           member == written(old.local.leaf, old.local.proof, old.local.root, group.proof)
           single == written(old.rec.sha256, group.proof, group.root, <<>>)
           new    == IF group = NotFound THEN [op |-> "KeyError"]
                     ELSE IF nested THEN member ELSE single
<1>1. report' = [report EXCEPT ![p] = new] /\ old.op = (IF nested THEN "member" ELSE "proof")
  BY DEF ProveGroup
<1>2. ProofFields(old) /\ StoreTypes
  BY DEF ProversInv, Readers, RootsInv, WholeInv
<1>3. f \in DOMAIN folders \cup {NoFolder}
  BY <1>1, <1>2 DEF ProofFields
<1>4. ok <=> IF ~nested THEN evidence[old.id] = old.rec /\ old.id \notin DOMAIN folders
             ELSE /\ old.holds /\ folders[f] = old.folder_row
                  /\ Cardinality(GroupIds(evidence)) > 1
  BY DEF Provable
<1>5. CASE group = NotFound
  <2>1. new.op = "KeyError"
    BY <1>5
  <2> HIDE DEF new
  <2>2. ProofFields(new)
    BY <2>1, NoProof DEF ReportOps
  <2> QED
    BY <1>1, <2>2, ProofChange DEF Readers, vars
<1>6. CASE group # NotFound /\ nested
  <2> DEFINE proof == [local_proof |-> old.local.proof, subtree_root |-> old.local.root,
                       folder_proof |-> group.proof]
  <2>1. ASSUME ok
        PROVE  VerifyNestedProof(old.local.leaf, proof, group.root)
               /\ old.local.leaf = old.rec.sha256
    <3>1. f \in DOMAIN folders /\ MemberProved(old.local, old.rec, folders[f])
      BY <1>1, <1>2, <1>3, <1>4, <1>6, <2>1 DEF ProofFields
    <3>2. Cardinality(GroupIds(evidence)) > 1
      BY <1>4, <1>6, <2>1
    <3>3. group = ProofStream(GroupLeaves(evidence, folders), f)
      BY <1>6
    <3>4. group # NotFound
      BY <1>6
    <3> HIDE DEF group, ok, f, old, nested
    <3> QED
      BY <1>2, <3>1, <3>2, <3>3, <3>4, MemberWritten DEF MemberProved
  <2>2. /\ member.op = "proved" /\ member.rec = old.rec /\ member.leaf = old.local.leaf
        /\ member.root = group.root /\ member.proof = proof
    OBVIOUS
  <2> HIDE DEF ok, group, old, nested
  <2>3. member.provable => ok
    OBVIOUS
  <2>4. new = member
    BY <1>6
  <2> HIDE DEF new, member, proof
  <2>5. ProofFields(member)
    BY <2>1, <2>2, <2>3 DEF ProofFields
  <2> QED
    BY <1>1, <2>4, <2>5, ProofChange DEF Readers, vars
<1>7. CASE group # NotFound /\ ~nested
  <2> DEFINE proof == [local_proof |-> group.proof, subtree_root |-> group.root,
                       folder_proof |-> <<>>]
  <2>1. ASSUME ok
        PROVE  VerifyNestedProof(old.rec.sha256, proof, group.root)
    <3>1. evidence[old.id] = old.rec /\ old.id \notin DOMAIN folders
      BY <1>4, <1>7, <2>1
    <3>3. group = ProofStream(GroupLeaves(evidence, folders), old.id)
      BY <1>7
    <3>4. group # NotFound
      BY <1>7
    <3> HIDE DEF group, ok, f, old, nested
    <3>5. VerifyNestedProof(evidence[old.id].sha256, proof, group.root)
      BY <1>2, <3>1, <3>3, <3>4, SingleWritten
    <3> QED
      BY <3>1, <3>5
  <2>2. /\ single.op = "proved" /\ single.rec = old.rec /\ single.leaf = old.rec.sha256
        /\ single.root = group.root /\ single.proof = proof
    OBVIOUS
  <2> HIDE DEF ok, group, old, nested
  <2>3. single.provable => ok
    OBVIOUS
  <2>4. new = single
    BY <1>7
  <2> HIDE DEF new, single, proof
  <2>5. ProofFields(single)
    BY <2>1, <2>2, <2>3 DEF ProofFields
  <2> QED
    BY <1>1, <2>4, <2>5, ProofChange DEF Readers, vars
<1> QED
  BY <1>5, <1>6, <1>7

LEMMA ExportStepProves ==
    ASSUME ProversInv, NEW e \in Exporters, UNCHANGED vars,
           \/ ExportLog(e) \/ ExportEvidence(e) \/ ExportFolders(e) \/ WriteAnchor(e)
    PROVE  ProversInv'
<1>0. e \in DOMAIN report /\ e \in Readers
  BY DEF ProversInv, Readers
<1>1. ASSUME NEW fields, NEW op \in ReportOps \ {"proof", "member", "proved"},
             "op" \in DOMAIN fields, fields["op"] = op,
             report' = [report EXCEPT ![e] = Put(fields, report[e])]
      PROVE  ProversInv'
  <2> DEFINE new == Put(fields, report[e])
  <2>1. new.op = op
    BY <1>1 DEF Put
  <2>2. report' = [report EXCEPT ![e] = new]
    BY <1>1
  <2> HIDE DEF new
  <2>3. ProofFields(new)
    BY <1>1, <2>1, NoProof
  <2> QED
    BY <1>0, <2>2, <2>3, ProofChange DEF vars
<1>2. CASE ExportLog(e)
  <2> DEFINE new == [op |-> "log", custody_log |-> log]
  <2>1. new.op = "log" /\ report' = [report EXCEPT ![e] = new]
    BY <1>2 DEF ExportLog
  <2> HIDE DEF new
  <2>2. ProofFields(new)
    BY <2>1, NoProof DEF ReportOps
  <2> QED
    BY <1>0, <2>1, <2>2, ProofChange DEF vars
<1>3. CASE ExportEvidence(e)
  <2> DEFINE fields == [op |-> "evidence", evidence_index |-> evidence]
  <2>1. report' = [report EXCEPT ![e] = Put(fields, report[e])]
    BY <1>0, <1>3 DEF ExportEvidence
  <2>2. "op" \in DOMAIN fields /\ fields["op"] = "evidence"
    OBVIOUS
  <2> HIDE DEF fields
  <2> QED
    BY <1>1, <2>1, <2>2 DEF ReportOps
<1>4. CASE ExportFolders(e)
  <2> DEFINE fields == [op |-> "folders", folder_index |-> folders]
  <2>1. report' = [report EXCEPT ![e] = Put(fields, report[e])]
    BY <1>0, <1>4 DEF ExportFolders
  <2>2. "op" \in DOMAIN fields /\ fields["op"] = "folders"
    OBVIOUS
  <2> HIDE DEF fields
  <2> QED
    BY <1>1, <2>1, <2>2 DEF ReportOps
<1>5. CASE WriteAnchor(e)
  <2> DEFINE root   == RootOver(GroupLeaves(evidence, folders))
             fields == [op |-> "exported", merkle_root |-> root]
  <2>1. report' = [report EXCEPT ![e] = Put(fields, report[e])]
    BY <1>0, <1>5 DEF WriteAnchor
  <2> HIDE DEF root
  <2>2. "op" \in DOMAIN fields /\ fields["op"] = "exported"
    OBVIOUS
  <2> HIDE DEF fields
  <2> QED
    BY <1>1, <2>1, <2>2 DEF ReportOps
<1> QED
  BY <1>2, <1>3, <1>4, <1>5

LEMMA ProversNext ==
    ASSUME RootsInv, ProversInv, [ReportsNext]_allvars
    PROVE  ProversInv'
<1>1. CASE ReportStep /\ UNCHANGED vars
  <2>1. ASSUME NEW p \in Provers, NEW id \in DOMAIN evidence, GetEvidence(p, id)
        PROVE  ProversInv'
    BY <1>1, <2>1, GetEvidenceProves DEF RootsInv
  <2>2. ASSUME NEW p \in Provers, report[p].op = "proof", ProveMember(p) PROVE ProversInv'
    BY <1>1, <2>2, ProveMemberProves
  <2>3. ASSUME NEW p \in Provers, ProveGroup(p) PROVE ProversInv'
    BY <1>1, <2>3, ProveGroupProves
  <2>4. ASSUME NEW e \in Exporters,
               \/ ExportLog(e) \/ ExportEvidence(e) \/ ExportFolders(e) \/ WriteAnchor(e)
        PROVE  ProversInv'
    BY <1>1, <2>4, ExportStepProves
  <2>5. ASSUME NEW r \in Readers, CloseReport(r) PROVE ProversInv'
    <3>1. NoReport.op = "none" /\ report' = [report EXCEPT ![r] = NoReport]
      BY <2>5 DEF CloseReport, NoReport
    <3>2. ProofFields(NoReport)
      BY <3>1, NoProof DEF ReportOps
    <3> QED
      BY <1>1, <3>1, <3>2, ProofChange DEF vars
  <2> QED
    BY <1>1, <2>1, <2>2, <2>3, <2>4, <2>5 DEF ReportStep
<1>2. CASE report' = report
  <2>1. DOMAIN folders \subseteq DOMAIN folders'
    BY ReportsStepIsStoreStep, FoldersStay
  <2>2. ASSUME NEW r \in Readers PROVE ProofFields(report[r])'
    <3>1. ProofFields(report[r])
      BY DEF ProversInv
    <3> QED
      BY <1>2, <2>1, <3>1 DEF ProofFields
  <2> QED
    BY <1>2, <2>2 DEF ProversInv
<1> QED
  BY <1>1, <1>2 DEF ReportsNext, allvars

-------------------------------------------------------------------------------
(* The theorems.                                                           *)

AllInv == WholeInv /\ ReadersInv

LEMMA AllInit ==
    ReportsInit => AllInv
<1> SUFFICES ASSUME ReportsInit PROVE AllInv
  OBVIOUS
<1>1. WholeInv
  BY WholeInit DEF ReportsInit
<1>2. NoReport.op = "none"
  BY DEF NoReport
<1>3. ExportFields(NoReport)
  BY <1>2, OtherReport DEF ReportOps
<1>4. ReadersInv
  BY <1>3 DEF ReportsInit, ReadersInv
<1> QED
  BY <1>1, <1>4 DEF AllInv

LEMMA AllNext ==
    AllInv /\ [ReportsNext]_allvars => AllInv'
<1> SUFFICES ASSUME AllInv, [ReportsNext]_allvars PROVE AllInv'
  OBVIOUS
<1>1. WholeInv'
  BY ReportsStepIsStoreStep, WholeNext DEF AllInv
<1>2. ReadersInv'
  <2>1. CASE ReportStep /\ UNCHANGED vars
    <3>1. FoldersAreWhole /\ ReadersInv
      BY DEF AllInv, WholeInv
    <3> QED
      BY <2>1, <3>1, ReportStepKeeps
  <2>2. CASE report' = report
    <3>1. DOMAIN folders \subseteq DOMAIN folders'
      BY ReportsStepIsStoreStep, FoldersStay
    <3>2. ASSUME NEW r \in Readers PROVE ExportFields(report[r])'
      <4>1. ExportFields(report[r])
        BY DEF AllInv, ReadersInv
      <4> QED
        BY <2>2, <3>1, <4>1 DEF ExportFields, LoggedFound, RowsFound
    <3> QED
      BY <2>2, <3>2 DEF AllInv, ReadersInv
  <2> QED
    BY <2>1, <2>2 DEF ReportsNext, allvars
<1> QED
  BY <1>1, <1>2 DEF AllInv

LEMMA AllAlways ==
    ReportsSpec => []AllInv
BY AllInit, AllNext, PTL DEF ReportsSpec

LEMMA RootsAlways ==
    ASSUME OneMigrator
    PROVE  ReportsSpec => []RootsInv
<1>1. ReportsInit => RootsInv
  BY RootsInit DEF ReportsInit
<1>2. RootsInv /\ [ReportsNext]_allvars => RootsInv'
  BY ReportsStepIsStoreStep, RootsNext
<1> QED
  BY <1>1, <1>2, PTL DEF ReportsSpec

\* add-evidence, migrate-merkle, merkle-proof and export, in any interleaving and
\* stopped at any moment, keep the tables well typed and every folder whole: a
\* row's folder is stored, a folder's members are, and an event's folder is.
THEOREM FoldersStayWhole ==
    ReportsSpec => []ReportsInv
<1>1. AllInv => ReportsInv
  <2> SUFFICES ASSUME AllInv PROVE ReportsInv
    OBVIOUS
  <2>0. StoreTypes /\ FoldersAreWhole /\ ReadersInv
    BY DEF AllInv, WholeInv
  <2>1. DOMAIN evidence \subseteq Ids /\ \A id \in DOMAIN evidence : evidence[id] \in Rows
    BY <2>0, TableIs DEF StoreTypes
  <2>2. \A id \in DOMAIN evidence : /\ evidence[id].sha256 \in Digests
                                    /\ evidence[id].folder_id \in Folders \cup {NoFolder}
    BY <2>1 DEF Rows
  <2>3. DOMAIN folders \subseteq Folders
    BY <2>0, TableIs DEF StoreTypes
  <2>4. \A c \in Clients : job[c].op \in {"idle", "ingest", "registered", "migrate"}
    BY <2>0, JobKinds
  <2>5. TypeOK
    BY <2>0, <2>1, <2>2, <2>3, <2>4 DEF StoreTypes, TypeOK
  <2>6. \A r \in Readers : report[r].op \in {"none", "proof", "member", "proved", "KeyError",
                                             "log", "evidence", "folders", "exported"}
    BY <2>0 DEF ReadersInv, ExportFields, ReportOps
  <2> QED
    BY <2>0, <2>5, <2>6 DEF ReportsInv, ReportsTypeOK
<1> QED
  BY <1>1, AllAlways, PTL

\* With at most one process that migrates, a stored folder root is the root of the
\* members' rows under the rules of the store's version, unless another command
\* registered a member again.
THEOREM StoredRootsHold ==
    ASSUME OneMigrator
    PROVE  ReportsSpec => []RootsHold
<1>1. RootsInv => RootsHold
  BY RootsAreStored DEF RootsInv
<1> QED
  BY <1>1, RootsAlways, PTL

\* Whatever is committed between the reads of an export, by any processes, verifier.py
\* finds a leaf for every group of the evidence it exported, and the folder of every
\* event of the log it exported.
THEOREM ExportsHoldTogether ==
    ReportsSpec => []ExportHoldsTogether
<1>1. AllInv => ExportHoldsTogether
  <2> SUFFICES ASSUME AllInv, NEW e \in Exporters, report[e].op = "exported"
               PROVE  /\ LeavesFound(report[e].evidence_index, report[e].folder_index)
                      /\ LoggedFound(report[e].custody_log, report[e].folder_index)
    BY DEF ExportHoldsTogether
  <2>1. ExportFields(report[e])
    BY DEF AllInv, ReadersInv, Readers
  <2>2. /\ LoggedFound(report[e].custody_log, report[e].folder_index)
        /\ RowsFound(report[e].evidence_index, report[e].folder_index)
    BY <2>1 DEF ExportFields
  <2> QED
    BY <2>2 DEF LeavesFound, RowsFound
<1> QED
  BY <1>1, AllAlways, PTL

\* With at most one process that migrates, a proof that merkle-proof writes verifies
\* and its leaf is the digest on record, whatever is committed between its reads, in
\* every case Provable allows: no bound on the files, the folders or the commands.
THEOREM ProofsVerifyAmongGroups ==
    ASSUME OneMigrator
    PROVE  ReportsSpec => []ProofVerifiesAmongGroups
<1>1. ReportsInit => ProversInv
  <2> SUFFICES ASSUME ReportsInit PROVE ProversInv
    OBVIOUS
  <2>1. NoReport.op = "none"
    BY DEF NoReport
  <2>2. ProofFields(NoReport)
    BY <2>1, NoProof DEF ReportOps
  <2> QED
    BY <2>2 DEF ReportsInit, ProversInv
<1>2. RootsInv /\ ProversInv /\ [ReportsNext]_allvars => ProversInv'
  BY ProversNext
<1>3. ProversInv => ProofVerifiesAmongGroups
  BY DEF ProversInv, ProofFields, ProofVerifiesAmongGroups, Proved, Verifies, Readers
<1> QED
  BY <1>1, <1>2, <1>3, RootsAlways, PTL DEF ReportsSpec
===============================================================================
