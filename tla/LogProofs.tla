------------------------------- MODULE LogProofs -------------------------------
(***************************************************************************)
(* Proofs about the custody log and its witnesses.                         *)
(*                                                                         *)
(* CustodyLog, for any set of processes, any payloads and any bound on the *)
(* chains.  The argument: every chain, stored or in memory, is well        *)
(* chained, and what a process believes stored is a prefix of the table.   *)
(* A save whose keys are free therefore starts exactly at the end of the   *)
(* table, so the table becomes the process's own chain.                    *)
(*                                                                         *)
(* WitnessedLog, for any logs, histories, witnesses and runs, under the    *)
(* assumption that a witness runs one `cosign` at a time (the run of TLC   *)
(* with overlapping ones finds two histories).  The argument: between its  *)
(* load and its save a run's copy of the state is the state, so what it    *)
(* saves extends what is there; everything a witness gave out therefore    *)
(* stays a prefix of what it remembers, and two prefixes of one history    *)
(* agree.  A quorum adds one witness in common.                            *)
(***************************************************************************)
EXTENDS CustodyLog, WitnessedLog, SequenceTheorems, FiniteSetTheorems, TLAPS

\* A hash of a history is a hash.
LEMMA HistoryType ==
    ASSUME NEW entries \in Seq(Entries), NEW n \in 0 .. Len(entries)
    PROVE  History(entries, n) \in Hashes
<1>1. n \in Nat /\ \A i \in 1 .. n : entries[i] \in Entries
  BY ElementOfSeq, LenProperties
<1>2. \A i \in 1 .. n : <<entries[i].index, Canonical(entries[i].payload)>> \in Nat \X Canonicals
  BY <1>1 DEF Entries, Canonicals
<1>3. History(entries, n) \in [1 .. n -> Nat \X Canonicals]
  BY <1>2 DEF History
<1> QED
  BY <1>1, <1>3, SeqDef DEF Hashes

\* add_event makes an entry of the right shape.
LEMMA NewEntryType ==
    ASSUME NEW entries \in Seq(Entries), NEW payload \in Payloads
    PROVE  NewEntry(entries, payload) \in Entries
<1>1. LastHash(entries) \in Hashes
  <2>1. CASE entries = <<>>
    BY <2>1, EmptySeq DEF LastHash, GenesisHash, Hashes
  <2>2. CASE entries # <<>>
    <3>1. Len(entries) \in 1 .. Len(entries)
      BY <2>2, EmptySeq
    <3>2. entries[Len(entries)] \in Entries
      BY <3>1, ElementOfSeq
    <3> QED
      BY <2>2, <3>2 DEF LastHash, Entries
  <2> QED
    BY <2>1, <2>2
<1>2. Len(entries) \in Nat
  BY LenProperties
<1>3. PayloadHash(Len(entries), payload, LastHash(entries)) \in Hashes
  <2>1. <<Len(entries), Canonical(payload)>> \in Nat \X Canonicals
    BY <1>2 DEF Canonicals
  <2> QED
    BY <1>1, <2>1 DEF PayloadHash, Hashes
<1> QED
  BY <1>1, <1>2, <1>3 DEF NewEntry, Entries, Signatures, Sign

\* add_event keeps a chain well chained.
LEMMA AddKeepsChain ==
    ASSUME NEW entries \in Seq(Entries), NEW payload \in Payloads,
           WellChained(entries)
    PROVE  /\ Append(entries, NewEntry(entries, payload)) \in Seq(Entries)
           /\ WellChained(Append(entries, NewEntry(entries, payload)))
<1> DEFINE e == NewEntry(entries, payload)
           n == Len(entries)
           longer == Append(entries, e)
<1>1. n \in Nat /\ e \in Entries
  BY NewEntryType, LenProperties
<1>2. /\ longer \in Seq(Entries)
      /\ Len(longer) = n + 1
      /\ longer[n + 1] = e
      /\ \A i \in 1 .. n : longer[i] = entries[i]
  BY <1>1
<1>3. \A m \in 0 .. n : History(longer, m) = History(entries, m)
  BY <1>1, <1>2 DEF History
<1>4. LastHash(entries) = History(entries, n)
  <2>1. CASE n = 0
    <3>1. entries = <<>>
      BY <2>1, EmptySeq
    <3>2. History(entries, 0) = <<>>
      BY DEF History
    <3> QED
      BY <2>1, <3>1, <3>2 DEF LastHash, GenesisHash
  <2>2. CASE n # 0
    BY <2>2, <1>1, EmptySeq DEF LastHash, WellChained
  <2> QED
    BY <2>1, <2>2
<1>5. /\ e.index = n
      /\ e.prev_hash = History(longer, n)
      /\ e.entry_hash = Append(History(entries, n), <<n, Canonical(payload)>>)
      /\ e.payload = payload
      /\ e.signature = Sign(e.entry_hash)
  <2>1. /\ e.index = n
        /\ e.prev_hash = LastHash(entries)
        /\ e.entry_hash = Append(LastHash(entries), <<n, Canonical(payload)>>)
        /\ e.payload = payload
        /\ e.signature = Sign(e.entry_hash)
    BY DEF NewEntry, PayloadHash
  <2>2. History(longer, n) = History(entries, n)
    BY <1>1, <1>3
  <2> QED
    BY <1>4, <2>1, <2>2
<1>6. e.entry_hash = History(longer, n + 1)
  <2> DEFINE h == History(entries, n)
  <2>1. h \in Hashes
    BY <1>1, HistoryType
  <2>2. Len(h) = n
    BY <1>1 DEF History
  <2>3. Append(h, <<n, Canonical(payload)>>) =
          [i \in 1 .. n + 1 |-> IF i <= n THEN h[i] ELSE <<n, Canonical(payload)>>]
    BY <1>1, <2>1, <2>2 DEF Hashes
  <2>4. \A i \in 1 .. n + 1 :
          <<longer[i].index, Canonical(longer[i].payload)>> =
             IF i <= n THEN h[i] ELSE <<n, Canonical(payload)>>
    BY <1>1, <1>2, <1>5 DEF History
  <2> QED
    BY <1>1, <1>5, <2>3, <2>4 DEF History
<1>7. ASSUME NEW i \in 1 .. Len(longer)
      PROVE  /\ longer[i].index = i - 1
             /\ longer[i].prev_hash = History(longer, i - 1)
             /\ longer[i].entry_hash = History(longer, i)
             /\ longer[i].signature = Sign(longer[i].entry_hash)
  <2>1. CASE i = n + 1
    BY <2>1, <1>1, <1>2, <1>5, <1>6
  <2>2. CASE i \in 1 .. n
    <3>1. i - 1 \in 0 .. n /\ i \in 0 .. n
      BY <2>2, <1>1
    <3> QED
      BY <2>2, <3>1, <1>1, <1>2, <1>3 DEF WellChained
  <2> QED
    BY <2>1, <2>2, <1>1, <1>2
<1> QED
  BY <1>2, <1>7 DEF WellChained

\* What save_db hands to the database: the entries after the persisted mark.
LEMMA UnsavedEntries ==
    ASSUME NEW w \in Writers, chain[w] \in Seq(Entries), persisted[w] \in Nat,
           persisted[w] <= Len(chain[w])
    PROVE  /\ Unsaved(w) \in Seq(Entries)
           /\ Len(Unsaved(w)) = Len(chain[w]) - persisted[w]
           /\ \A i \in 1 .. Len(chain[w]) - persisted[w] :
                  Unsaved(w)[i] = chain[w][persisted[w] + i]
<1> DEFINE c == chain[w]
           p == persisted[w]
<1>1. Len(c) \in Nat /\ p \in Nat /\ p <= Len(c)
  BY LenProperties
<1>2. /\ SubSeq(c, p + 1, Len(c)) \in Seq(Entries)
      /\ Len(SubSeq(c, p + 1, Len(c))) =
           IF p + 1 <= Len(c) THEN Len(c) - (p + 1) + 1 ELSE 0
      /\ \A i \in 1 .. Len(c) - (p + 1) + 1 :
           SubSeq(c, p + 1, Len(c))[i] = c[p + 1 + i - 1]
  <2>1. p + 1 \in Int /\ Len(c) \in Int
    BY <1>1
  <2>2. \A i \in p + 1 .. Len(c) : c[i] \in Entries
    BY <1>1, ElementOfSeq
  <2> DEFINE m == p + 1
             n == Len(c)
  <2> HIDE DEF c, m, n
  <2>3. m \in Int /\ n \in Int /\ \A i \in m .. n : c[i] \in Entries
    BY <2>1, <2>2 DEF m, n
  <2>4. /\ SubSeq(c, m, n) \in Seq(Entries)
        /\ Len(SubSeq(c, m, n)) = IF m <= n THEN n - m + 1 ELSE 0
        /\ \A i \in 1 .. n - m + 1 : SubSeq(c, m, n)[i] = c[m + i - 1]
    BY <2>3, SubSeqProperties
  <2> QED
    BY <2>4 DEF m, n
<1>3. Unsaved(w) = SubSeq(c, p + 1, Len(c))
  BY DEF Unsaved
<1>4. /\ Len(c) - (p + 1) + 1 = Len(c) - p
      /\ \A i \in 1 .. Len(c) - p : p + 1 + i - 1 = p + i
      /\ ~(p + 1 <= Len(c)) => Len(c) - p = 0
  BY <1>1
<1> QED
  BY <1>2, <1>3, <1>4

\* A save whose keys are free leaves the process's own chain in the table.
LEMMA SaveStoresChain ==
    ASSUME NEW w \in Writers, IInv, KeysFree(Unsaved(w), log)
    PROVE  \/ Unsaved(w) = <<>> /\ persisted[w] = Len(chain[w])
           \/ log \o Unsaved(w) = chain[w] /\ persisted[w] = Len(log)
<1> DEFINE c == chain[w]
           p == persisted[w]
<1>1. /\ c \in Seq(Entries) /\ log \in Seq(Entries)
      /\ p \in Nat /\ Len(c) \in Nat /\ Len(log) \in Nat
      /\ p <= Len(c) /\ p <= Len(log)
      /\ \A i \in 1 .. p : c[i] = log[i]
      /\ WellChained(c) /\ WellChained(log)
  BY LenProperties DEF IInv, TypeOK, PersistedPrefix
<1>2. CASE p = Len(c)
  <2>1. Unsaved(w) = <<>>
    BY <1>1, <1>2, SubSeqEmpty DEF Unsaved
  <2> QED
    BY <1>2, <2>1
<1>3. CASE p < Len(c)
  <2>2. /\ Unsaved(w) \in Seq(Entries)
        /\ Len(Unsaved(w)) = Len(c) - p
        /\ \A i \in 1 .. Len(c) - p : Unsaved(w)[i] = c[p + i]
    BY <1>1, UnsavedEntries
  <2>3. Unsaved(w)[1].index = p
    <3>1. /\ 1 \in 1 .. Len(c) - p
          /\ p + 1 \in 1 .. Len(c)
          /\ (p + 1) - 1 = p
      BY <1>1, <1>3
    <3>2. Unsaved(w)[1] = c[p + 1]
      BY <2>2, <3>1
    <3>3. c[p + 1].index = p
      BY <1>1, <3>1 DEF WellChained
    <3> QED
      BY <3>2, <3>3
  <2>4. p = Len(log)
    <3> SUFFICES ASSUME p < Len(log) PROVE FALSE
      BY <1>1
    <3>1. log[p + 1].index = p /\ p + 1 \in 1 .. Len(log)
      BY <1>1 DEF WellChained
    <3>2. 1 \in 1 .. Len(Unsaved(w))
      BY <1>1, <1>3, <2>2
    <3> QED
      BY <2>3, <3>1, <3>2 DEF KeysFree
  <2>5. /\ log \o Unsaved(w) \in Seq(Entries)
        /\ Len(log \o Unsaved(w)) = Len(c)
        /\ \A i \in 1 .. Len(c) : (log \o Unsaved(w))[i] = c[i]
    BY <1>1, <2>2, <2>4, ConcatProperties
  <2>6. log \o Unsaved(w) = c
    BY <1>1, <2>5, SeqEqual
  <2> QED
    BY <2>4, <2>6
<1> QED
  BY <1>1, <1>2, <1>3

-------------------------------------------------------------------------------
(* The invariant.                                                          *)

LEMMA InitInv == Init => IInv
<1> SUFFICES ASSUME Init PROVE IInv
  OBVIOUS
<1>1. <<>> \in Seq(Entries) /\ Len(<<>>) = 0
  BY EmptySeq
<1>2. TypeOK
  BY <1>1 DEF Init, TypeOK, Phases
<1>3. WellChained(<<>>)
  BY <1>1 DEF WellChained
<1>4. \A w \in Writers : PersistedPrefix(w)
  BY <1>1 DEF Init, PersistedPrefix
<1> QED
  BY <1>2, <1>3, <1>4 DEF Init, IInv

\* What a save does, said once for the invariant and the action properties.
LEMMA SaveEffect ==
    ASSUME IInv, NEW w \in Writers, SaveDb(w)
    PROVE  /\ log' \in {log, chain[w]}
           /\ log' = log => persisted[w] = Len(chain[w]) \/ chain[w] = log
           /\ Len(log') >= Len(log)
           /\ Len(log') >= Len(chain[w])
           /\ \A i \in 1 .. Len(log) : log'[i] = log[i]
           /\ \A i \in 1 .. Len(chain[w]) : log'[i] = chain[w][i]
<1>1. /\ chain[w] \in Seq(Entries) /\ log \in Seq(Entries)
      /\ Len(chain[w]) \in Nat /\ Len(log) \in Nat /\ persisted[w] \in Nat
      /\ persisted[w] <= Len(chain[w]) /\ persisted[w] <= Len(log)
      /\ \A i \in 1 .. persisted[w] : chain[w][i] = log[i]
  BY LenProperties DEF IInv, TypeOK, PersistedPrefix
<1>2. log' = log \o Unsaved(w) /\ KeysFree(Unsaved(w), log)
  BY DEF SaveDb
<1>3. CASE Unsaved(w) = <<>> /\ persisted[w] = Len(chain[w])
  <2>1. log' = log
    BY <1>1, <1>2, <1>3, ConcatEmptySeq
  <2> QED
    BY <1>1, <1>3, <2>1
<1>4. CASE log \o Unsaved(w) = chain[w] /\ persisted[w] = Len(log)
  BY <1>1, <1>2, <1>4
<1> QED
  BY <1>2, <1>3, <1>4, SaveStoresChain

LEMMA StepInv ==
    ASSUME IInv, NEW w \in Writers, Step(w)
    PROVE  IInv'
<1> USE DEF IInv
<1>0. /\ log \in Seq(Entries) /\ Len(log) \in Nat
      /\ chain[w] \in Seq(Entries) /\ Len(chain[w]) \in Nat
      /\ persisted[w] \in Nat
  BY LenProperties DEF TypeOK
<1>1. CASE LoadDb(w)
  <2>1. TypeOK'
    BY <1>0, <1>1 DEF LoadDb, TypeOK, Phases
  <2>2. WellChained(log)'
    BY <1>1 DEF LoadDb
  <2>3. \A v \in Writers : WellChained(chain[v])' /\ PersistedPrefix(v)'
    BY <1>0, <1>1 DEF LoadDb, TypeOK, PersistedPrefix
  <2> QED
    BY <2>1, <2>2, <2>3
<1>2. ASSUME NEW payload \in Events, AddEvent(w, payload)
      PROVE  IInv'
  <2> DEFINE longer == Append(chain[w], NewEntry(chain[w], payload))
  <2>0. payload \in Payloads
    BY DEF Events
  <2>1. longer \in Seq(Entries) /\ WellChained(longer)
    BY <1>0, <2>0, AddKeepsChain
  <2>2. Len(longer) = Len(chain[w]) + 1 /\ \A i \in 1 .. Len(chain[w]) : longer[i] = chain[w][i]
    BY <1>0, <2>0, NewEntryType
  <2>3. /\ chain' = [chain EXCEPT ![w] = longer]
        /\ pc' = [pc EXCEPT ![w] = "loaded"]
        /\ log' = log /\ persisted' = persisted
    BY <1>2 DEF AddEvent
  <2> HIDE DEF longer
  <2>4. TypeOK'
    BY <2>1, <2>3 DEF TypeOK, Phases
  <2>5. WellChained(log)'
    BY <2>3
  <2>6. ASSUME NEW v \in Writers
        PROVE  WellChained(chain[v])' /\ PersistedPrefix(v)'
    <3>1. CASE v = w
      <4>1. chain'[w] = longer /\ persisted'[w] = persisted[w] /\ pc'[w] = "loaded"
        BY <2>3 DEF TypeOK
      <4>2. WellChained(chain[w])'
        BY <4>1, <2>1
      <4>3. /\ persisted[w] <= Len(chain[w]) /\ persisted[w] <= Len(log)
            /\ \A i \in 1 .. persisted[w] : chain[w][i] = log[i]
        BY DEF PersistedPrefix
      <4>4. persisted[w] <= Len(longer)
        BY <1>0, <2>2, <4>3
      <4>5. \A i \in 1 .. persisted[w] : longer[i] = log[i]
        BY <1>0, <2>2, <4>3
      <4>6. PersistedPrefix(w)'
        BY <2>3, <4>1, <4>3, <4>4, <4>5 DEF PersistedPrefix
      <4> QED
        BY <3>1, <4>2, <4>6
    <3>2. CASE v # w
      BY <2>3, <3>2 DEF TypeOK, PersistedPrefix
    <3> QED
      BY <3>1, <3>2
  <2> QED
    BY <2>4, <2>5, <2>6
<1>3. CASE SaveDb(w)
  <2>1. /\ log' \in {log, chain[w]}
        /\ Len(log') >= Len(log) /\ Len(log') >= Len(chain[w])
        /\ \A i \in 1 .. Len(log) : log'[i] = log[i]
        /\ \A i \in 1 .. Len(chain[w]) : log'[i] = chain[w][i]
    BY <1>3, SaveEffect
  <2>2. /\ persisted' = [persisted EXCEPT ![w] = Len(chain[w])]
        /\ pc' = [pc EXCEPT ![w] = "saved"]
        /\ chain' = chain
    BY <1>3 DEF SaveDb
  <2>3. TypeOK'
    BY <1>0, <2>1, <2>2 DEF TypeOK, Phases
  <2>4. WellChained(log)'
    BY <2>1
  <2>5. ASSUME NEW v \in Writers
        PROVE  WellChained(chain[v])' /\ PersistedPrefix(v)'
    <3>1. WellChained(chain[v])'
      BY <2>2
    <3>2. CASE v = w
      <4>1. Len(log') \in Nat
        BY <1>0, <2>1
      <4> QED
        BY <1>0, <2>1, <2>2, <3>1, <3>2, <4>1 DEF TypeOK, PersistedPrefix
    <3>3. CASE v # w
      <4>1. persisted[v] \in Nat /\ persisted'[v] = persisted[v] /\ pc'[v] = pc[v]
        BY <2>2, <3>3 DEF TypeOK
      <4>2. Len(log') \in Nat
        BY <1>0, <2>1
      <4> QED
        BY <1>0, <2>1, <2>2, <3>1, <4>1, <4>2 DEF PersistedPrefix
    <3> QED
      BY <3>2, <3>3
  <2> QED
    BY <2>3, <2>4, <2>5
<1>4. CASE SaveConflict(w) \/ SaveLocked(w)
  <2>1. /\ log' = log /\ chain' = chain /\ persisted' = persisted
        /\ \E failed \in {"conflict", "locked"} : pc' = [pc EXCEPT ![w] = failed]
    BY <1>4 DEF SaveConflict, SaveLocked
  <2> QED
    BY <2>1 DEF TypeOK, Phases, PersistedPrefix
<1>5. CASE Exit(w)
  <2>1. <<>> \in Seq(Entries) /\ Len(<<>>) = 0
    BY EmptySeq
  <2>2. TypeOK'
    BY <1>5, <2>1 DEF Exit, TypeOK, Phases
  <2>3. WellChained(log)'
    BY <1>5 DEF Exit
  <2>4. WellChained(<<>>)
    BY <2>1 DEF WellChained
  <2>5. ASSUME NEW v \in Writers
        PROVE  WellChained(chain[v])' /\ PersistedPrefix(v)'
    BY <1>0, <1>5, <2>1, <2>4 DEF Exit, TypeOK, PersistedPrefix
  <2> QED
    BY <2>2, <2>3, <2>5
<1> QED
  BY <1>1, <1>2, <1>3, <1>4, <1>5 DEF Step

LEMMA StutterInv ==
    ASSUME IInv, UNCHANGED vars
    PROVE  IInv'
BY DEF vars, IInv, TypeOK, PersistedPrefix

\* The inductive invariant holds: stored and loaded chains are well chained,
\* and what each process believes stored is a prefix of the table.
THEOREM LogInvariant == Spec => []IInv
<1>1. IInv /\ [Next]_vars => IInv'
  BY StepInv, StutterInv DEF Next
<1> QED
  BY <1>1, InitInv, PTL DEF Spec

-------------------------------------------------------------------------------
(* What follows from it.                                                   *)

LEMMA WellChainedIsSound ==
    ASSUME NEW entries \in Seq(Entries), WellChained(entries)
    PROVE  ChainSound(entries)
<1> SUFFICES ASSUME NEW i \in 1 .. Len(entries)
             PROVE  EntrySound(entries, i)
  BY DEF ChainSound
<1>0. Len(entries) \in Nat /\ i \in Nat
  BY LenProperties
<1>1. Linked(entries, i)
  <2>1. CASE i = 1
    <3>1. entries[1].prev_hash = History(entries, 0)
      BY <1>0, <2>1 DEF WellChained
    <3>2. History(entries, 0) = <<>>
      BY DEF History
    <3> QED
      BY <2>1, <3>1, <3>2 DEF Linked, ExpectedPrev, GenesisHash
  <2>2. CASE i # 1
    BY <1>0, <2>2 DEF WellChained, Linked, ExpectedPrev
  <2> QED
    BY <2>1, <2>2
<1>2. HashValid(entries[i])
  <2> DEFINE h == History(entries, i - 1)
             x == <<entries[i].index, Canonical(entries[i].payload)>>
  <2>1. h \in Seq(Nat \X Canonicals) /\ Len(h) = i - 1
    <3>1. i - 1 \in 0 .. Len(entries)
      BY <1>0
    <3>2. h \in Hashes
      BY <3>1, HistoryType
    <3>3. Len(h) = i - 1
      BY <1>0, <3>1 DEF History
    <3> QED
      BY <3>2, <3>3 DEF Hashes
  <2>2. x \in Nat \X Canonicals
    <3>1. entries[i] \in Entries
      BY ElementOfSeq
    <3> QED
      BY <3>1 DEF Entries, Canonicals
  <2>3. Append(h, x) = [j \in 1 .. i |-> IF j <= i - 1 THEN h[j] ELSE x]
    BY <1>0, <2>1, <2>2
  <2>4. \A j \in 1 .. i : <<entries[j].index, Canonical(entries[j].payload)>> =
                            IF j <= i - 1 THEN h[j] ELSE x
    BY <1>0 DEF History
  <2>5. Append(h, x) = History(entries, i)
    BY <1>0, <2>3, <2>4 DEF History
  <2> QED
    BY <2>5 DEF WellChained, HashValid, PayloadHash
<1>3. SignatureValid(entries[i])
  BY DEF WellChained, SignatureValid
<1> QED
  BY <1>1, <1>2, <1>3 DEF EntrySound

\* Types: the table and every chain in memory are sequences of entries.
THEOREM TypeCorrect == Spec => []TypeOK
<1>1. IInv => TypeOK
  BY DEF IInv
<1> QED
  BY <1>1, LogInvariant, PTL

\* verify_each finds no fault in the stored log, whatever processes wrote it.
THEOREM LogAlwaysVerifies == Spec => []LogVerifies
<1>1. IInv => LogVerifies
  BY WellChainedIsSound DEF IInv, TypeOK, LogVerifies
<1> QED
  BY <1>1, LogInvariant, PTL

\* An entry's index is its position, and its hash commits to what was hashed of every
\* entry before it: its index and its canonical payload, which leaves columns out.
THEOREM HeadAlwaysCommits == Spec => []HeadCommitsToHistory
<1>1. IInv => HeadCommitsToHistory
  BY DEF IInv, WellChained, HeadCommitsToHistory
<1> QED
  BY <1>1, LogInvariant, PTL

\* No event that a run reported as logged is lost or replaced.
THEOREM SavedAlwaysStored == Spec => []SavedIsStored
<1>1. IInv => SavedIsStored
  BY DEF IInv, PersistedPrefix, SavedIsStored
<1> QED
  BY <1>1, LogInvariant, PTL

LEMMA StepAppends ==
    ASSUME IInv, NEW w \in Writers, Step(w)
    PROVE  /\ Len(log') >= Len(log)
           /\ \A i \in 1 .. Len(log) : log'[i] = log[i]
<1>0. Len(log) \in Nat
  BY LenProperties DEF IInv, TypeOK
<1>1. CASE SaveDb(w)
  BY <1>1, SaveEffect
<1>2. CASE ~SaveDb(w)
  BY <1>0, <1>2 DEF Step, LoadDb, AddEvent, SaveConflict, SaveLocked, Exit
<1> QED
  BY <1>1, <1>2

\* No step changes or drops a stored entry.
THEOREM LogAppendOnly == Spec => AppendOnly
<1>1. ASSUME IInv, Next
      PROVE  /\ Len(log') >= Len(log)
             /\ \A i \in 1 .. Len(log) : log'[i] = log[i]
  BY <1>1, StepAppends DEF Next
<1> QED
  BY <1>1, LogInvariant, PTL DEF Spec, AppendOnly

\* A primary-key conflict means the table grew after this process loaded it.
THEOREM ConflictsMeanGrowth == Spec => ConflictMeansGrowth
<1>1. ASSUME IInv, Next, NEW w \in Writers, pc[w] = "loaded", pc'[w] = "conflict"
      PROVE  Len(log) > persisted[w]
  <2>1. PICK v \in Writers : Step(v)
    BY <1>1 DEF Next
  <2>2. SaveConflict(w)
    BY <1>1, <2>1 DEF Step, LoadDb, AddEvent, SaveDb, SaveConflict, SaveLocked, Exit,
                      IInv, TypeOK
  <2>3. /\ log \in Seq(Entries) /\ chain[w] \in Seq(Entries)
        /\ Len(log) \in Nat /\ Len(chain[w]) \in Nat /\ persisted[w] \in Nat
        /\ persisted[w] <= Len(log)
        /\ WellChained(log) /\ WellChained(chain[w])
    BY <1>1, LenProperties DEF IInv, TypeOK, PersistedPrefix
  <2>4. PICK i \in 1 .. Len(Unsaved(w)), j \in 1 .. Len(log) :
            Unsaved(w)[i].index = log[j].index
    BY <2>2 DEF SaveConflict, KeysFree
  <2>5. /\ persisted[w] <= Len(chain[w])
        /\ Len(Unsaved(w)) = Len(chain[w]) - persisted[w]
        /\ Unsaved(w)[i] = chain[w][persisted[w] + i]
    <3>1. persisted[w] <= Len(chain[w])
      BY <1>1 DEF IInv, PersistedPrefix
    <3> QED
      BY <2>3, <3>1, UnsavedEntries
  <2>6. Unsaved(w)[i].index = persisted[w] + i - 1
    <3>1. persisted[w] + i \in 1 .. Len(chain[w])
      BY <2>3, <2>5
    <3>2. chain[w][persisted[w] + i].index = (persisted[w] + i) - 1
      BY <2>3, <3>1 DEF WellChained
    <3> QED
      BY <2>3, <2>5, <3>2
  <2>7. log[j].index = j - 1
    BY <2>3 DEF WellChained
  <2>8. i >= 1 /\ j <= Len(log) /\ i \in Int /\ j \in Int
    BY <2>3, <2>5
  <2>9. persisted[w] + i - 1 = j - 1
    BY <2>4, <2>6, <2>7
  <2> QED
    BY <2>3, <2>8, <2>9
<1>2. ASSUME IInv, [Next]_vars
      PROVE  [\A w \in Writers : (pc[w] = "loaded" /\ pc'[w] = "conflict") =>
                 Len(log) > persisted[w]]_vars
  BY <1>1, <1>2
<1> QED
  BY <1>2, LogInvariant, PTL DEF Spec, ConflictMeansGrowth

\* The custody log implements the append-only history: every step of every
\* process maps to a growth of the history or to a stutter.
THEOREM Refinement == Spec => ImplementsAppendLog
<1> DEFINE H == [i \in 1 .. Len(log) |-> log[i].payload]
<1>1. Init => Abstract!Init
  BY EmptySeq DEF Init, Abstract!Init
<1>2. ASSUME IInv, IInv', [Next]_vars
      PROVE  [Abstract!Grow]_H
  <2>1. CASE UNCHANGED vars
    BY <2>1 DEF vars
  <2>2. CASE Next
    <3>1. /\ Len(log') >= Len(log)
          /\ \A i \in 1 .. Len(log) : log'[i] = log[i]
      BY <1>2, <2>2, StepAppends DEF Next
    <3>2. /\ Len(log) \in Nat /\ Len(log') \in Nat
          /\ \A i \in 1 .. Len(log') : log'[i] \in Entries
      BY <1>2, LenProperties, ElementOfSeq DEF IInv, TypeOK
    <3>3. H' \in [1 .. Len(log') -> Payloads]
      BY <3>2 DEF Entries
    <3>4. H' \in Seq(Payloads)
      BY <3>2, <3>3, SeqDef
    <3>5. Len(H) = Len(log) /\ Len(H') = Len(log')
      BY <3>2
    <3>6. \A i \in 1 .. Len(log) : H'[i] = H[i]
      BY <3>1, <3>2
    <3> QED
      BY <3>1, <3>4, <3>5, <3>6 DEF Abstract!Grow, Abstract!Extends
  <2> QED
    BY <1>2, <2>1, <2>2
<1> QED
  BY <1>1, <1>2, LogInvariant, PTL DEF Spec, ImplementsAppendLog, Abstract!Spec

-------------------------------------------------------------------------------
(* The witnesses.                                                          *)

\* A witness runs one command at a time.
SerialRuns == \A r, s \in Runs : Owner[r] = Owner[s] => r = s

-------------------------------------------------------------------------------
(* Prefixes.                                                               *)

LEMMA HistoryLength == \A h \in Histories : Len(h) \in Nat
BY HistoriesAssumption, LenProperties

LEMMA PrefixReflexive == \A h \in Histories : Prefix(h, h)
BY HistoryLength DEF Prefix

LEMMA PrefixTransitive ==
    \A f, g, h \in Histories : Prefix(f, g) /\ Prefix(g, h) => Prefix(f, h)
BY HistoryLength DEF Prefix

LEMMA PrefixesComparable ==
    \A f, g, h \in Histories : Prefix(f, h) /\ Prefix(g, h) => Comparable(f, g)
BY HistoryLength DEF Prefix, Comparable

-------------------------------------------------------------------------------
(* The invariant.                                                          *)

\* Where a run is, and what then holds of its copy and of the state file
RunInv(r) ==
    LET body == accepted[r].file.body
        mine == state[Owner[r]]
    IN  phase[r] \notin {"idle", "refused"} =>
          /\ accepted[r] \in Accepted
          /\ accepted[r].log_key = body.log_id
          /\ accepted[r].file.cosignatures = {} \/ accepted[r].file \in cosigned
          /\ phase[r] = "grow" =>
               /\ loaded[r] = mine
               /\ mine[body.log_id] # None =>
                    Prefix(mine[body.log_id].root, body.root)
          /\ phase[r] \in {"same", "saved"} =>
               /\ mine[body.log_id] # None
               /\ mine[body.log_id].root = body.root

KeysRemembered ==
    \A w \in Witnesses, l \in Logs : state[w][l] # None => state[w][l].log_key = l

WitnessInv ==
    /\ WitnessTypeOK
    /\ KeysRemembered
    /\ StateCoversCosigned
    /\ \A r \in Runs : RunInv(r)

LEMMA WitnessInitInv == WitnessInit => WitnessInv
<1> SUFFICES ASSUME WitnessInit PROVE WitnessInv
  OBVIOUS
<1>1. WitnessTypeOK
  BY DEF WitnessInit, WitnessTypeOK, NothingSeen, StateEntries
<1>2. KeysRemembered
  BY DEF WitnessInit, KeysRemembered, NothingSeen
<1>3. StateCoversCosigned
  BY DEF WitnessInit, StateCoversCosigned, CosignedBy
<1>4. \A r \in Runs : RunInv(r)
  BY DEF WitnessInit, RunInv
<1> QED
  BY <1>1, <1>2, <1>3, <1>4 DEF WitnessInv

\* What a decision to cosign means.
LEMMA AcceptMeans ==
    ASSUME WitnessInv, NEW r \in Runs, NEW in \in Presented, Accept(r, in)
    PROVE  LET body == in.file.body
               mine == state[Owner[r]]
           IN  /\ in.file \in Files
               /\ body \in Bodies /\ body.log_id \in Logs /\ body.root \in Histories
               /\ LogKey(mine, in) = body.log_id
               /\ in.file.cosignatures = {} \/ in.file \in cosigned
               /\ \/ /\ phase' = [phase EXCEPT ![r] = "grow"]
                     /\ mine[body.log_id] # None =>
                          Prefix(mine[body.log_id].root, body.root)
                  \/ /\ phase' = [phase EXCEPT ![r] = "same"]
                     /\ mine[body.log_id] # None
                     /\ mine[body.log_id].root = body.root
<1> DEFINE mine == state[Owner[r]]
<1>1. in.file \in Files /\ (in.file.cosignatures = {} \/ in.file \in cosigned)
  BY DEF Presented, Files, WitnessInv, WitnessTypeOK
<1>2. /\ in.file.body \in Bodies
      /\ in.file.body.log_id \in Logs
      /\ in.file.body.root \in Histories
  BY <1>1 DEF Files, Bodies
<1>3. CASE Grows(mine, in) /\ phase' = [phase EXCEPT ![r] = "grow"]
  BY <1>1, <1>2, <1>3 DEF Grows, KeyAccepted, FirstUse, ExtendsLast
<1>4. CASE Same(mine, in) /\ phase' = [phase EXCEPT ![r] = "same"]
  BY <1>1, <1>2, <1>4 DEF Same, KeyAccepted, Repeats
<1> QED
  BY <1>3, <1>4 DEF Accept

LEMMA AcceptInv ==
    ASSUME WitnessInv, NEW r \in Runs, NEW in \in Presented, Accept(r, in)
    PROVE  WitnessInv'
<1> DEFINE acc == [file |-> in.file, log_key |-> LogKey(state[Owner[r]], in)]
<1>1. /\ accepted' = [accepted EXCEPT ![r] = acc]
      /\ loaded' = [loaded EXCEPT ![r] = state[Owner[r]]]
      /\ state' = state /\ cosigned' = cosigned
  BY DEF Accept
<1>2. acc \in Accepted
  BY AcceptMeans DEF Accepted
<1>3. WitnessTypeOK'
  BY <1>1, <1>2, AcceptMeans, OwnerAssumption DEF WitnessInv, WitnessTypeOK
<1>4. KeysRemembered'
  BY <1>1 DEF WitnessInv, KeysRemembered
<1>5. StateCoversCosigned'
  BY <1>1 DEF WitnessInv, StateCoversCosigned, CosignedBy
<1>6. ASSUME NEW s \in Runs PROVE RunInv(s)'
  <2>1. CASE s = r
    <3>1. /\ accepted'[r] = acc /\ loaded'[r] = state[Owner[r]]
          /\ acc.file = in.file /\ acc.log_key = LogKey(state[Owner[r]], in)
      BY <1>1 DEF WitnessInv, WitnessTypeOK
    <3>2. phase'[r] = "grow" \/ phase'[r] = "same"
      BY AcceptMeans DEF WitnessInv, WitnessTypeOK
    <3>3. /\ LogKey(state[Owner[r]], in) = in.file.body.log_id
          /\ in.file.cosignatures = {} \/ in.file \in cosigned
      BY AcceptMeans
    <3>4. phase'[r] = "grow" =>
            (state[Owner[r]][in.file.body.log_id] # None =>
               Prefix(state[Owner[r]][in.file.body.log_id].root, in.file.body.root))
      BY AcceptMeans DEF WitnessInv, WitnessTypeOK
    <3>5. phase'[r] \in {"same", "saved"} =>
            /\ state[Owner[r]][in.file.body.log_id] # None
            /\ state[Owner[r]][in.file.body.log_id].root = in.file.body.root
      BY AcceptMeans DEF WitnessInv, WitnessTypeOK
    <3> HIDE DEF acc
    <3> QED
      BY <2>1, <3>1, <3>2, <3>3, <3>4, <3>5, <1>1, <1>2 DEF RunInv
  <2>2. CASE s # r
    <3>1. accepted'[s] = accepted[s] /\ loaded'[s] = loaded[s] /\ phase'[s] = phase[s]
      BY <2>2, <1>1, AcceptMeans DEF WitnessInv, WitnessTypeOK
    <3>2. RunInv(s)
      BY DEF WitnessInv
    <3>3. state' = state /\ cosigned' = cosigned
      BY <1>1
    <3> QED
      BY <3>1, <3>2, <3>3, Zenon DEF RunInv
  <2> QED
    BY <2>1, <2>2
<1> QED
  BY <1>3, <1>4, <1>5, <1>6 DEF WitnessInv

LEMMA RefuseInv ==
    ASSUME WitnessInv, NEW r \in Runs, NEW in \in Presented, Refuse(r, in)
    PROVE  WitnessInv'
<1>1. /\ phase' = [phase EXCEPT ![r] = "refused"]
      /\ UNCHANGED <<state, cosigned, loaded, accepted>>
  BY DEF Refuse
<1>2. WitnessTypeOK'
  BY <1>1 DEF WitnessInv, WitnessTypeOK
<1>3. KeysRemembered' /\ StateCoversCosigned'
  BY <1>1 DEF WitnessInv, KeysRemembered, StateCoversCosigned, CosignedBy
<1>4. ASSUME NEW s \in Runs PROVE RunInv(s)'
  <2>1. CASE s = r
    BY <1>1, <2>1 DEF RunInv, WitnessInv, WitnessTypeOK
  <2>2. CASE s # r
    BY <1>1, <2>2 DEF RunInv, WitnessInv, WitnessTypeOK
  <2> QED
    BY <2>1, <2>2
<1> QED
  BY <1>2, <1>3, <1>4 DEF WitnessInv

\* What a save leaves in the state file: this log's entry now is the body's
\* root, which extends what was there; nothing else of any witness changes.
LEMMA SaveStateEffect ==
    ASSUME SerialRuns, WitnessInv, NEW r \in Runs, SaveState(r)
    PROVE  LET body == accepted[r].file.body
           IN  /\ body.log_id \in Logs /\ body.root \in Histories
               /\ state'[Owner[r]][body.log_id] # None
               /\ state'[Owner[r]][body.log_id].root = body.root
               /\ state'[Owner[r]][body.log_id].log_key = body.log_id
               /\ state[Owner[r]][body.log_id] # None =>
                    Prefix(state[Owner[r]][body.log_id].root, body.root)
               /\ \A w \in Witnesses, l \in Logs :
                    (w # Owner[r] \/ l # body.log_id) => state'[w][l] = state[w][l]
               /\ state' \in [Witnesses -> [Logs -> StateEntries]]
<1> DEFINE body == accepted[r].file.body
           entry == [root |-> body.root, log_key |-> accepted[r].log_key]
<1>1. /\ accepted[r] \in Accepted /\ accepted[r].log_key = body.log_id
      /\ loaded[r] = state[Owner[r]]
      /\ state[Owner[r]][body.log_id] # None =>
           Prefix(state[Owner[r]][body.log_id].root, body.root)
  BY DEF SaveState, WitnessInv, RunInv
<1>2. body.log_id \in Logs /\ body.root \in Histories
  BY <1>1 DEF Accepted, Files, Bodies
<1>3. /\ entry \in Remembered /\ entry # None
      /\ entry.root = body.root /\ entry.log_key = body.log_id
  <2>1. entry \in Remembered
    BY <1>1, <1>2 DEF Remembered
  <2>2. entry # None
    BY <2>1, NoneAssumption
  <2> QED
    BY <1>1, <2>1, <2>2
<1>4. state' = [state EXCEPT ![Owner[r]] =
                  [state[Owner[r]] EXCEPT ![body.log_id] = entry]]
  BY <1>1 DEF SaveState
<1>5. Owner[r] \in Witnesses /\ state \in [Witnesses -> [Logs -> StateEntries]]
  BY OwnerAssumption DEF WitnessInv, WitnessTypeOK
<1>6. entry \in StateEntries
  BY <1>3 DEF StateEntries
<1> HIDE DEF entry
<1>7. state' \in [Witnesses -> [Logs -> StateEntries]]
  BY <1>2, <1>4, <1>5, <1>6
<1>8. /\ state'[Owner[r]][body.log_id] = entry
      /\ \A w \in Witnesses, l \in Logs :
           (w # Owner[r] \/ l # body.log_id) => state'[w][l] = state[w][l]
  BY <1>2, <1>4, <1>5
<1> QED
  BY <1>1, <1>2, <1>3, <1>7, <1>8

LEMMA SaveInv ==
    ASSUME SerialRuns, WitnessInv, NEW r \in Runs, SaveState(r)
    PROVE  WitnessInv'
<1> DEFINE body == accepted[r].file.body
           mine == Owner[r]
<1>1. /\ phase' = [phase EXCEPT ![r] = "saved"]
      /\ cosigned' = cosigned /\ loaded' = loaded /\ accepted' = accepted
  BY DEF SaveState
<1>2. /\ body.log_id \in Logs /\ body.root \in Histories
      /\ state'[mine][body.log_id].root = body.root
      /\ state'[mine][body.log_id].log_key = body.log_id
      /\ state'[mine][body.log_id] # None
      /\ state[mine][body.log_id] # None =>
           Prefix(state[mine][body.log_id].root, body.root)
      /\ \A w \in Witnesses, l \in Logs :
           (w # mine \/ l # body.log_id) => state'[w][l] = state[w][l]
      /\ state' \in [Witnesses -> [Logs -> StateEntries]]
  BY SaveStateEffect
<1>3. WitnessTypeOK'
  BY <1>1, <1>2 DEF WitnessInv, WitnessTypeOK
<1>4. KeysRemembered'
  <2> SUFFICES ASSUME NEW w \in Witnesses, NEW l \in Logs, state'[w][l] # None
               PROVE  state'[w][l].log_key = l
    BY DEF KeysRemembered
  <2>1. CASE w = mine /\ l = body.log_id
    BY <1>2, <2>1
  <2>2. CASE w # mine \/ l # body.log_id
    <3>1. state'[w][l] = state[w][l]
      BY <1>2, <2>2
    <3>2. state[w][l] # None => state[w][l].log_key = l
      BY DEF WitnessInv, KeysRemembered
    <3> QED
      BY <3>1, <3>2
  <2> QED
    BY <2>1, <2>2
<1>5. ASSUME NEW w \in Witnesses, NEW b \in CosignedBy(w)'
      PROVE  state'[w][b.log_id] # None /\ Prefix(b.root, state'[w][b.log_id].root)
  <2>1. /\ b \in CosignedBy(w)
        /\ b.log_id \in Logs /\ b.root \in Histories
    BY <1>1 DEF CosignedBy, WitnessInv, WitnessTypeOK, Files, Bodies
  <2>2. state[w][b.log_id] # None /\ Prefix(b.root, state[w][b.log_id].root)
    BY <2>1 DEF WitnessInv, StateCoversCosigned
  <2>3. CASE w = mine /\ b.log_id = body.log_id
    <3> DEFINE last == state[w][b.log_id].root
    <3>1. last \in Histories
      BY <2>1, <2>2 DEF WitnessInv, WitnessTypeOK, StateEntries, Remembered
    <3>2. /\ Prefix(last, body.root) /\ body.root \in Histories
          /\ state'[w][b.log_id] # None /\ state'[w][b.log_id].root = body.root
      <4> HIDE DEF body, mine
      <4> QED
        BY <1>2, <2>2, <2>3
    <3>3. Prefix(b.root, body.root)
      <4> HIDE DEF body, last
      <4>1. Prefix(b.root, last)
        BY <2>2 DEF last
      <4> QED
        BY <2>1, <3>1, <3>2, <4>1, PrefixTransitive
    <3> QED
      BY <3>2, <3>3
  <2>4. CASE ~(w = mine /\ b.log_id = body.log_id)
    BY <1>2, <2>1, <2>2, <2>4
  <2> QED
    BY <2>3, <2>4
<1>6. ASSUME NEW s \in Runs PROVE RunInv(s)'
  <2>1. CASE s = r
    <3>1. phase'[r] = "saved"
      BY <1>1 DEF WitnessInv, WitnessTypeOK
    <3>2. /\ accepted[r] \in Accepted
          /\ accepted[r].log_key = body.log_id
          /\ accepted[r].file.cosignatures = {} \/ accepted[r].file \in cosigned
      BY DEF WitnessInv, SaveState, RunInv
    <3> QED
      BY <2>1, <3>1, <3>2, <1>1, <1>2 DEF RunInv
  <2>2. CASE s # r
    <3>1. Owner[s] # mine /\ Owner[s] \in Witnesses
      BY <2>2, OwnerAssumption DEF SerialRuns
    <3>2. state'[Owner[s]] = state[Owner[s]]
      BY <3>1, OwnerAssumption DEF SaveState, WitnessInv, WitnessTypeOK
    <3>3. phase'[s] = phase[s]
      BY <2>2, <1>1 DEF WitnessInv, WitnessTypeOK
    <3> QED
      BY <3>2, <3>3, <1>1 DEF RunInv, WitnessInv
  <2> QED
    BY <2>1, <2>2
<1> QED
  BY <1>3, <1>4, <1>5, <1>6 DEF WitnessInv, StateCoversCosigned

LEMMA WriteInv ==
    ASSUME WitnessInv, NEW r \in Runs, WriteOut(r)
    PROVE  WitnessInv'
<1> DEFINE file == accepted[r].file
           out == [file EXCEPT !.cosignatures = @ \cup {Owner[r]}]
<1>1. /\ cosigned' = cosigned \cup {out}
      /\ state' = state
      /\ phase' = [phase EXCEPT ![r] = "idle"]
      /\ loaded' = [loaded EXCEPT ![r] = NothingSeen]
      /\ accepted' = [accepted EXCEPT ![r] = None]
  BY DEF WriteOut, Forget
<1>2. /\ accepted[r] \in Accepted
      /\ file.cosignatures = {} \/ file \in cosigned
      /\ state[Owner[r]][file.body.log_id] # None
      /\ state[Owner[r]][file.body.log_id].root = file.body.root
  BY DEF WriteOut, WitnessInv, RunInv
<1>3. /\ file \in Files /\ out \in Files
      /\ out.body = file.body
      /\ out.cosignatures = file.cosignatures \cup {Owner[r]}
      /\ file.body.root \in Histories
  BY <1>2, OwnerAssumption DEF Accepted, Files, Bodies
<1>4. WitnessTypeOK'
  BY <1>1, <1>3 DEF WitnessInv, WitnessTypeOK, NothingSeen, StateEntries
<1>5. KeysRemembered'
  BY <1>1 DEF WitnessInv, KeysRemembered
<1>6. ASSUME NEW w \in Witnesses, NEW b \in CosignedBy(w)'
      PROVE  state'[w][b.log_id] # None /\ Prefix(b.root, state'[w][b.log_id].root)
  <2>1. PICK f \in cosigned' : w \in f.cosignatures /\ b = f.body
    BY DEF CosignedBy
  <2>2. CASE f \in cosigned
    BY <2>1, <2>2, <1>1 DEF CosignedBy, WitnessInv, StateCoversCosigned
  <2>3. CASE f = out /\ w = Owner[r]
    BY <2>1, <2>3, <1>1, <1>2, <1>3, PrefixReflexive
  <2>4. CASE f = out /\ w # Owner[r]
    <3>1. w \in file.cosignatures /\ file \in cosigned /\ b = file.body
      BY <2>1, <2>4, <1>2, <1>3
    <3> QED
      BY <3>1, <1>1 DEF CosignedBy, WitnessInv, StateCoversCosigned
  <2> QED
    BY <2>1, <2>2, <2>3, <2>4, <1>1
<1>7. ASSUME NEW s \in Runs PROVE RunInv(s)'
  <2>1. CASE s = r
    <3>1. phase'[s] = "idle"
      BY <2>1, <1>1 DEF WitnessInv, WitnessTypeOK
    <3> QED
      BY <3>1 DEF RunInv
  <2>2. CASE s # r
    <3>1. accepted'[s] = accepted[s] /\ loaded'[s] = loaded[s] /\ phase'[s] = phase[s]
      BY <2>2, <1>1 DEF WitnessInv, WitnessTypeOK
    <3>2. accepted[s].file \in cosigned => accepted[s].file \in cosigned'
      BY <1>1
    <3> QED
      BY <3>1, <3>2, <1>1 DEF RunInv, WitnessInv
  <2> QED
    BY <2>1, <2>2
<1> QED
  BY <1>4, <1>5, <1>6, <1>7 DEF WitnessInv, StateCoversCosigned

LEMMA StopInv ==
    ASSUME WitnessInv, NEW r \in Runs, Stop(r)
    PROVE  WitnessInv'
<1>1. /\ cosigned' = cosigned /\ state' = state
      /\ phase' = [phase EXCEPT ![r] = "idle"]
      /\ loaded' = [loaded EXCEPT ![r] = NothingSeen]
      /\ accepted' = [accepted EXCEPT ![r] = None]
  BY DEF Stop, Forget
<1>2. WitnessTypeOK'
  BY <1>1 DEF WitnessInv, WitnessTypeOK, NothingSeen, StateEntries
<1>3. KeysRemembered' /\ StateCoversCosigned'
  BY <1>1 DEF WitnessInv, KeysRemembered, StateCoversCosigned, CosignedBy
<1>4. ASSUME NEW s \in Runs PROVE RunInv(s)'
  <2>1. CASE s = r
    <3>1. phase'[s] = "idle"
      BY <2>1, <1>1 DEF WitnessInv, WitnessTypeOK
    <3> QED
      BY <3>1 DEF RunInv
  <2>2. CASE s # r
    <3>1. accepted'[s] = accepted[s] /\ loaded'[s] = loaded[s] /\ phase'[s] = phase[s]
      BY <2>2, <1>1 DEF WitnessInv, WitnessTypeOK
    <3>2. RunInv(s)
      BY DEF WitnessInv
    <3>3. cosigned' = cosigned /\ state' = state
      BY <1>1
    <3> QED
      BY <3>1, <3>2, <3>3 DEF RunInv
  <2> QED
    BY <2>1, <2>2
<1> QED
  BY <1>2, <1>3, <1>4 DEF WitnessInv

LEMMA WitnessStutterInv ==
    ASSUME WitnessInv, UNCHANGED witnessVars
    PROVE  WitnessInv'
BY DEF witnessVars, WitnessInv, WitnessTypeOK, KeysRemembered, StateCoversCosigned, CosignedBy, RunInv

\* The inductive invariant holds when runs of one witness do not overlap.
THEOREM WitnessInvariant == ASSUME SerialRuns PROVE WitnessSpec => []WitnessInv
<1>1. WitnessInv /\ [WitnessNext]_witnessVars => WitnessInv'
  BY AcceptInv, RefuseInv, SaveInv, WriteInv, StopInv, WitnessStutterInv DEF WitnessNext, WitnessStep
<1> QED
  BY <1>1, WitnessInitInv, PTL DEF WitnessSpec

-------------------------------------------------------------------------------
(* What follows from it.                                                   *)

\* The state file covers every cosignature the witness ever gave out.
\* Runs of one witness do not overlap (SerialRuns): witness.py takes no lock from
\* load_state to save_state, and two cosigns that overlap can break this.
THEOREM StateAlwaysCovers == ASSUME SerialRuns PROVE WitnessSpec => []StateCoversCosigned
<1>1. WitnessInv => StateCoversCosigned
  BY DEF WitnessInv
<1> QED
  BY <1>1, WitnessInvariant, PTL

LEMMA CoveredIsOneHistory == WitnessInv => OneHistory
<1> SUFFICES ASSUME WitnessInv, NEW w \in Witnesses,
                    NEW b \in CosignedBy(w), NEW c \in CosignedBy(w),
                    b.log_id = c.log_id
             PROVE  Comparable(b.root, c.root)
  BY DEF OneHistory
<1>1. /\ b.log_id \in Logs /\ b.root \in Histories /\ c.root \in Histories
  BY DEF CosignedBy, WitnessInv, WitnessTypeOK, Files, Bodies
<1>2. /\ state[w][b.log_id] # None
      /\ Prefix(b.root, state[w][b.log_id].root)
      /\ Prefix(c.root, state[w][b.log_id].root)
  BY DEF WitnessInv, StateCoversCosigned
<1>3. state[w][b.log_id].root \in Histories
  BY <1>1, <1>2 DEF WitnessInv, WitnessTypeOK, StateEntries, Remembered
<1> QED
  BY <1>1, <1>2, <1>3, PrefixesComparable

\* A witness never vouches for two histories of a log that contradict each other.
\* Runs of one witness do not overlap (SerialRuns): witness.py takes no lock from
\* load_state to save_state, and two cosigns that overlap can break this.
THEOREM WitnessOneHistory == ASSUME SerialRuns PROVE WitnessSpec => []OneHistory
<1> QED
  BY CoveredIsOneHistory, WitnessInvariant, PTL

\* A run that saved the state but lost its output can be repeated.  Runs of one
\* witness do not overlap (SerialRuns): another run could replace what is repeated.
THEOREM RetryAlwaysAccepted == ASSUME SerialRuns PROVE WitnessSpec => []RetryAccepted
<1>1. WitnessInv => RetryAccepted
  <2> SUFFICES ASSUME WitnessInv, NEW r \in Runs, phase[r] = "saved",
                      NEW key \in {accepted[r].file.body.log_id, None}
               PROVE  Same(state[Owner[r]], [file |-> accepted[r].file,
                                             proof |-> None, log_key |-> key])
    BY DEF RetryAccepted
  <2> DEFINE body == accepted[r].file.body
             in == [file |-> accepted[r].file, proof |-> None, log_key |-> key]
  <2>1. /\ accepted[r] \in Accepted
        /\ state[Owner[r]][body.log_id] # None
        /\ state[Owner[r]][body.log_id].root = body.root
    BY DEF WitnessInv, RunInv
  <2>2. body.log_id \in Logs /\ Owner[r] \in Witnesses
    BY <2>1, OwnerAssumption DEF Accepted, Files, Bodies
  <2>3. state[Owner[r]][body.log_id].log_key = body.log_id
    BY <2>1, <2>2 DEF WitnessInv, KeysRemembered
  <2>4. in.file.body = body /\ in.log_key = key
    OBVIOUS
  <2>5. KeyAccepted(state[Owner[r]], in)
    BY <2>1, <2>2, <2>3, <2>4 DEF KeyAccepted, LogKey
  <2>6. Repeats(state[Owner[r]], body)
    BY <2>1 DEF Repeats, Size
  <2> QED
    BY <2>4, <2>5, <2>6 DEF Same
<1> QED
  BY <1>1, WitnessInvariant, PTL

\* What a witness remembers of a log only ever grows along one history.
\* Runs of one witness do not overlap (SerialRuns): witness.py takes no lock from
\* load_state to save_state, and two cosigns that overlap can break this.
THEOREM RememberedGrows == ASSUME SerialRuns PROVE WitnessSpec => RememberedOnlyGrows
<1>1. ASSUME WitnessInv, [WitnessNext]_witnessVars, NEW w \in Witnesses, NEW l \in Logs,
             state[w][l] # None
      PROVE  /\ state'[w][l] # None
             /\ Prefix(state[w][l].root, state'[w][l].root)
             /\ state'[w][l].log_key = state[w][l].log_key
  <2>1. state[w][l].root \in Histories
    BY <1>1 DEF WitnessInv, WitnessTypeOK, StateEntries, Remembered
  <2>2. CASE state' = state
    BY <1>1, <2>1, <2>2, PrefixReflexive
  <2>3. ASSUME NEW r \in Runs, SaveState(r)
        PROVE  /\ state'[w][l] # None
               /\ Prefix(state[w][l].root, state'[w][l].root)
               /\ state'[w][l].log_key = state[w][l].log_key
    <3>1. CASE w = Owner[r] /\ l = accepted[r].file.body.log_id
      <4>1. state[w][l].log_key = l
        BY <1>1 DEF WitnessInv, KeysRemembered
      <4>2. /\ state'[w][l] # None
            /\ state'[w][l].root = accepted[r].file.body.root
            /\ state'[w][l].log_key = l
            /\ Prefix(state[w][l].root, accepted[r].file.body.root)
        <5> DEFINE body == accepted[r].file.body
        <5>1. /\ state'[Owner[r]][body.log_id] # None
              /\ state'[Owner[r]][body.log_id].root = body.root
              /\ state'[Owner[r]][body.log_id].log_key = body.log_id
              /\ state[Owner[r]][body.log_id] # None =>
                   Prefix(state[Owner[r]][body.log_id].root, body.root)
          BY <1>1, <2>3, SaveStateEffect, Zenon
        <5> HIDE DEF body
        <5>2. w = Owner[r] /\ l = body.log_id
          BY <3>1 DEF body
        <5>3. Prefix(state[w][l].root, body.root)
          BY <1>1, <5>1, <5>2
        <5> QED
          BY <5>1, <5>2, <5>3 DEF body
      <4> QED
        BY <4>1, <4>2
    <3>2. CASE ~(w = Owner[r] /\ l = accepted[r].file.body.log_id)
      <4>1. state'[w][l] = state[w][l]
        BY <1>1, <2>3, <3>2, SaveStateEffect
      <4> QED
        BY <1>1, <2>1, <4>1, PrefixReflexive
    <3> QED
      BY <3>1, <3>2
  <2>4. state' = state \/ \E r \in Runs : SaveState(r)
    BY <1>1 DEF WitnessNext, WitnessStep, Accept, Refuse, WriteOut, Stop, witnessVars
  <2> QED
    BY <2>2, <2>3, <2>4
<1>2. ASSUME WitnessInv, [WitnessNext]_witnessVars
      PROVE  [\A w \in Witnesses, l \in Logs : state[w][l] # None =>
                /\ state'[w][l] # None
                /\ Prefix(state[w][l].root, state'[w][l].root)
                /\ state'[w][l].log_key = state[w][l].log_key]_witnessVars
  BY <1>1, <1>2
<1> QED
  BY <1>2, WitnessInvariant, PTL DEF WitnessSpec, RememberedOnlyGrows

\* Two logs accepted by the verifier against checkpoints that a quorum each
\* cosigned agree as far as both checkpoints reach, if any two quorums meet and no
\* witness runs two cosigns at once (SerialRuns): a witness they share that does can
\* stand behind two forks.
THEOREM QuorumProtects ==
    ASSUME SerialRuns, IsFiniteSet(Witnesses), Quorum \in Nat, QuorumsIntersect
    PROVE  WitnessSpec => []AcceptedLogsAgree
<1>1. WitnessInv => AcceptedLogsAgree
  <2> SUFFICES ASSUME WitnessInv, NEW f \in cosigned, NEW g \in cosigned,
                      NEW d \in Histories, NEW e \in Histories,
                      f.body.log_id = g.body.log_id, Accepts(f, d), Accepts(g, e),
                      NEW i \in 1 .. Len(f.body.root), i <= Len(g.body.root)
               PROVE  d[i] = e[i]
    BY DEF AcceptedLogsAgree
  <2> DEFINE F == CosigningWitnesses(f, Witnesses)
             G == CosigningWitnesses(g, Witnesses)
  <2>1. PICK w \in Witnesses : w \in f.cosignatures /\ w \in g.cosignatures
    <3>1. F \subseteq Witnesses /\ G \subseteq Witnesses
      BY DEF CosigningWitnesses
    <3>2. /\ Cardinality(F) \in Nat /\ Cardinality(G) \in Nat
          /\ Cardinality(Witnesses) \in Nat
      BY <3>1, FS_Subset, FS_CardinalityType
    <3>3. Cardinality(F) + Cardinality(G) > Cardinality(Witnesses)
      BY <3>2 DEF Accepts, QuorumsIntersect
    <3>4. F \cap G # {}
      BY <3>1, <3>3, FS_MajoritiesIntersect
    <3> QED
      BY <3>1, <3>4 DEF CosigningWitnesses
  <2>2. f.body.root \in Histories /\ g.body.root \in Histories
    BY DEF WitnessInv, WitnessTypeOK, Files, Bodies
  <2>3. Comparable(f.body.root, g.body.root)
    BY <2>1, CoveredIsOneHistory DEF OneHistory, CosignedBy
  <2>4. f.body.root[i] = g.body.root[i]
    BY <2>2, <2>3, HistoryLength DEF Comparable, Prefix
  <2>5. d[i] = f.body.root[i] /\ e[i] = g.body.root[i]
    BY <2>2, HistoryLength DEF Accepts, NoCheckpointProblem, Prefix
  <2> QED
    BY <2>4, <2>5
<1> QED
  BY <1>1, WitnessInvariant, PTL
===============================================================================
