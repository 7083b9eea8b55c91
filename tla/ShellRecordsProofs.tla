-------------------------- MODULE ShellRecordsProofs --------------------------
(***************************************************************************)
(* Proofs about ShellRecords, for any shells and any bounds.               *)
(*                                                                         *)
(* The argument: every copy of a record, wherever it is on its way between *)
(* a shell's memory and the file, names the log it was made of by the hash *)
(* of its first entry, and begins that log as long as it is not cut.  So   *)
(* the counts the header compares speak of the same entries.               *)
(***************************************************************************)
EXTENDS ShellRecords, SequenceTheorems, TLAPS

USE DEF Saves, Writes

-------------------------------------------------------------------------------
(* Logs.                                                                   *)

LEMMA Numbers ==
    /\ MaxEntries \in Nat /\ MaxEvidence \in Nat /\ MeetingEntries \in 0..MaxEntries
    /\ EntryIds = 1..MaxEntries /\ NoHash = 0 /\ NoHash \notin EntryIds
BY BoundsAssumption DEF EntryIds, NoHash

LEMMA FirstOf ==
    ASSUME NEW s \in Seq(EntryIds)
    PROVE  /\ Len(s) \in Nat
           /\ s = <<>> => FirstHash(s) = NoHash /\ Len(s) = 0
           /\ s # <<>> => /\ FirstHash(s) = s[1] /\ s[1] \in EntryIds
                          /\ FirstHash(s) # NoHash /\ Len(s) >= 1
           /\ FirstHash(s) \in EntryIds \cup {NoHash}
<1>1. Len(s) \in Nat /\ (s # <<>> => Len(s) # 0) /\ (s = <<>> => Len(s) = 0)
  BY EmptySeq, LenProperties
<1>2. CASE s = <<>>
  BY <1>1, <1>2 DEF FirstHash
<1>3. CASE s # <<>>
  <2>1. s[1] \in EntryIds
    BY <1>1, <1>3, ElementOfSeq
  <2> QED
    BY <1>1, <1>3, <2>1, Numbers DEF FirstHash
<1> QED
  BY <1>2, <1>3

LEMMA PrefixMeans ==
    ASSUME NEW s \in Seq(EntryIds), NEW t \in Seq(EntryIds)
    PROVE  IsPrefix(s, t) <=> Len(s) <= Len(t) /\ \A k \in 1..Len(s) : s[k] = t[k]
<1>1. Len(s) \in Nat /\ Len(t) \in Nat
  BY LenProperties
<1>2. CASE ~(Len(s) <= Len(t))
  BY <1>2 DEF IsPrefix
<1>3. CASE Len(s) <= Len(t)
  <2> DEFINE p == SubSeq(s, 1, Len(s))
             q == SubSeq(t, 1, Len(s))
  <2>1. \A k \in 1..Len(s) : s[k] \in EntryIds /\ t[k] \in EntryIds
    BY <1>1, <1>3, ElementOfSeq
  <2>2. p \in Seq(EntryIds) /\ Len(p) = Len(s) /\ \A k \in 1..Len(s) : p[k] = s[k]
    BY <1>1, <2>1, SubSeqProperties
  <2>3. q \in Seq(EntryIds) /\ Len(q) = Len(s) /\ \A k \in 1..Len(s) : q[k] = t[k]
    BY <1>1, <2>1, SubSeqProperties
  <2> HIDE DEF p, q
  <2>4. p = q <=> \A k \in 1..Len(s) : s[k] = t[k]
    BY <2>2, <2>3, SeqEqual
  <2> QED
    BY <1>3, <2>4 DEF IsPrefix, p, q
<1> QED
  BY <1>2, <1>3

LEMMA PrefixFacts ==
    ASSUME NEW s \in Seq(EntryIds), NEW t \in Seq(EntryIds), NEW u \in Seq(EntryIds)
    PROVE  /\ IsPrefix(s, s) /\ IsPrefix(<<>>, s)
           /\ IsPrefix(s, t) /\ IsPrefix(t, u) => IsPrefix(s, u)
           /\ IsPrefix(s, t) /\ s # <<>> => t # <<>> /\ FirstHash(s) = FirstHash(t)
           /\ IsPrefix(s, t) => Len(s) <= Len(t)
           /\ IsPrefix(s, t) /\ Len(t) <= Len(s) => s = t
<1>1. Len(s) \in Nat /\ Len(t) \in Nat /\ Len(u) \in Nat
  BY LenProperties
<1>2. IsPrefix(s, s)
  BY <1>1, PrefixMeans
<1>3. IsPrefix(<<>>, s)
  <2>1. ASSUME NEW e \in Seq(EntryIds), e = <<>>
        PROVE  IsPrefix(e, s)
    <3>1. Len(e) = 0
      BY <2>1, FirstOf
    <3>2. \A k \in 1..Len(e) : e[k] = s[k]
      BY <3>1
    <3>3. Len(e) <= Len(s)
      BY <1>1, <3>1
    <3> QED
      BY <3>2, <3>3, PrefixMeans, Zenon
  <2> QED
    BY <2>1, EmptySeq
<1>4. IsPrefix(s, t) /\ IsPrefix(t, u) => IsPrefix(s, u)
  BY <1>1, PrefixMeans
<1>5. IsPrefix(s, t) /\ s # <<>> => t # <<>> /\ FirstHash(s) = FirstHash(t)
  <2> SUFFICES ASSUME IsPrefix(s, t), s # <<>>
               PROVE  t # <<>> /\ FirstHash(s) = FirstHash(t)
    OBVIOUS
  <2>1. Len(s) >= 1 /\ FirstHash(s) = s[1]
    BY FirstOf
  <2>2. Len(s) <= Len(t) /\ \A k \in 1..Len(s) : s[k] = t[k]
    BY PrefixMeans
  <2>3. Len(t) >= 1 /\ s[1] = t[1]
    BY <1>1, <2>1, <2>2
  <2>4. t # <<>>
    BY <2>3, FirstOf
  <2> QED
    BY <2>1, <2>3, <2>4, FirstOf
<1>6. IsPrefix(s, t) => Len(s) <= Len(t)
  BY PrefixMeans
<1>7. IsPrefix(s, t) /\ Len(t) <= Len(s) => s = t
  BY <1>1, PrefixMeans, SeqEqual
<1> QED
  BY <1>2, <1>3, <1>4, <1>5, <1>6, <1>7

LEMMA LogGrows ==
    ASSUME NEW s \in Seq(EntryIds), NEW e \in EntryIds
    PROVE  /\ Append(s, e) \in Seq(EntryIds)
           /\ Len(Append(s, e)) = Len(s) + 1
           /\ IsPrefix(s, Append(s, e))
           /\ FirstHash(Append(s, e)) = IF s = <<>> THEN e ELSE FirstHash(s)
<1> DEFINE a == Append(s, e)
<1>1. /\ a \in Seq(EntryIds) /\ a # <<>>
      /\ Len(a) = Len(s) + 1
      /\ \A k \in 1..Len(s) : a[k] = s[k]
      /\ a[Len(s) + 1] = e
  BY AppendProperties
<1>2. Len(s) \in Nat
  BY LenProperties
<1> HIDE DEF a
<1>3. IsPrefix(s, a)
  BY <1>1, <1>2, PrefixMeans
<1>4. FirstHash(a) = IF s = <<>> THEN e ELSE FirstHash(s)
  <2>1. CASE s = <<>>
    <3>1. Len(s) = 0
      BY <2>1, FirstOf
    <3> QED
      BY <1>1, <2>1, <3>1 DEF FirstHash
  <2>2. CASE s # <<>>
    BY <1>1, <1>3, <2>2, PrefixFacts
  <2> QED
    BY <2>1, <2>2
<1> QED
  BY <1>1, <1>3, <1>4 DEF a

LEMMA LogIsCut ==
    ASSUME NEW s \in Seq(EntryIds), NEW n \in 0..(Len(s) - 1)
    PROVE  /\ SubSeq(s, 1, n) \in Seq(EntryIds)
           /\ Len(SubSeq(s, 1, n)) = n
           /\ FirstHash(SubSeq(s, 1, n)) \in {NoHash, FirstHash(s)}
<1>1. Len(s) \in Nat /\ n \in Nat /\ n <= Len(s)
  BY LenProperties
<1>2. \A k \in 1..n : s[k] \in EntryIds
  BY <1>1, ElementOfSeq
<1> DEFINE c == SubSeq(s, 1, n)
<1>3. c \in Seq(EntryIds) /\ Len(c) = n /\ \A k \in 1..n : c[k] = s[k]
  BY <1>1, <1>2, SubSeqProperties
<1> HIDE DEF c
<1>4. FirstHash(c) \in {NoHash, FirstHash(s)}
  <2>1. IsPrefix(c, s)
    BY <1>1, <1>3, PrefixMeans
  <2>2. c = <<>> => FirstHash(c) = NoHash
    BY DEF FirstHash
  <2>3. c # <<>> => FirstHash(c) = FirstHash(s)
    BY <1>3, <2>1, PrefixFacts
  <2> QED
    BY <2>2, <2>3
<1> QED
  BY <1>3, <1>4 DEF c
-------------------------------------------------------------------------------
(* The file's contents.                                                        *)

LEMMA Contents ==
    /\ Nothing \in Content /\ Nothing.last_verify = None /\ Nothing.last_witness = None
    /\ \A c \in Content : /\ c.last_verify \in VerifyRecord \cup {None}
                          /\ c.last_witness \in WitnessRecord \cup {None}
BY DEF Content, Nothing

LEMMA NewVerify ==
    ASSUME TypeOK, NEW s \in Shells, NEW r \in VerifyRecord \cup {None}, NEW thread \in {"menu", "worker"},
           Remember(s, "last_verify", r, thread)
    PROVE  /\ config' \in [Shells -> Content]
           /\ saving' \in [Shells -> Saves \cup {None}]
           /\ config'[s].last_verify = r /\ config'[s].last_witness = config[s].last_witness
           /\ saving'[s] = [by |-> thread, data |-> config'[s]] /\ saving'[s] # None
           /\ \A t \in Shells \ {s} : config'[t] = config[t] /\ saving'[t] = saving[t]
           /\ step' = [step EXCEPT ![s] = "dumped"] /\ step' \in [Shells -> SaveSteps]
<1> DEFINE c == [config[s] EXCEPT !.last_verify = r]
<1>1. config[s] \in Content
  BY DEF TypeOK
<1>2. c \in Content /\ c.last_verify = r /\ c.last_witness = config[s].last_witness
  BY <1>1 DEF Content
<1>3. config' = [config EXCEPT ![s] = c]
  BY DEF Remember
<1> HIDE DEF c
<1>4. config' \in [Shells -> Content] /\ config'[s] = c /\ \A t \in Shells \ {s} : config'[t] = config[t]
  BY <1>2, <1>3 DEF TypeOK
<1>5. saving' = [saving EXCEPT ![s] = [by |-> thread, data |-> c]]
  BY <1>4 DEF Remember
<1>6. [by |-> thread, data |-> c] # None /\ [by |-> thread, data |-> c] \in Saves
  BY <1>2, NoneAssumption
<1>7. step' = [step EXCEPT ![s] = "dumped"] /\ step' \in [Shells -> SaveSteps]
  BY DEF Remember, TypeOK, SaveSteps
<1> QED
  BY <1>2, <1>4, <1>5, <1>6, <1>7 DEF TypeOK

LEMMA NewWitness ==
    ASSUME TypeOK, NEW s \in Shells, NEW r \in WitnessRecord \cup {None},
           Remember(s, "last_witness", r, "menu")
    PROVE  /\ config' \in [Shells -> Content]
           /\ saving' \in [Shells -> Saves \cup {None}]
           /\ config'[s].last_witness = r /\ config'[s].last_verify = config[s].last_verify
           /\ saving'[s] = [by |-> "menu", data |-> config'[s]] /\ saving'[s] # None
           /\ \A t \in Shells \ {s} : config'[t] = config[t] /\ saving'[t] = saving[t]
           /\ step' = [step EXCEPT ![s] = "dumped"] /\ step' \in [Shells -> SaveSteps]
<1> DEFINE c == [config[s] EXCEPT !.last_witness = r]
<1>1. config[s] \in Content
  BY DEF TypeOK
<1>2. c \in Content /\ c.last_witness = r /\ c.last_verify = config[s].last_verify
  BY <1>1 DEF Content
<1>3. config' = [config EXCEPT ![s] = c]
  BY DEF Remember
<1> HIDE DEF c
<1>4. config' \in [Shells -> Content] /\ config'[s] = c /\ \A t \in Shells \ {s} : config'[t] = config[t]
  BY <1>2, <1>3 DEF TypeOK
<1>5. saving' = [saving EXCEPT ![s] = [by |-> "menu", data |-> c]]
  BY <1>4 DEF Remember
<1>6. [by |-> "menu", data |-> c] # None /\ [by |-> "menu", data |-> c] \in Saves
  BY <1>2, NoneAssumption
<1>7. step' = [step EXCEPT ![s] = "dumped"] /\ step' \in [Shells -> SaveSteps]
  BY DEF Remember, TypeOK, SaveSteps
<1> QED
  BY <1>2, <1>4, <1>5, <1>6, <1>7 DEF TypeOK

\* The record of a check of the chain, and its mark.
ChainRecord(s) ==
    [ok |-> fine[s],
     events |-> Len(entries[s]),
     saw |-> entries[s],
     evidence_max |-> evidence,
     high_water |-> HighWater(s),
     first_hash |-> FirstHash(log)]

WitnessCheck(s, quorum) ==
    [ok |-> quorum /\ IsPrefix(checkpoint, entries[s]),
     size |-> Len(checkpoint),
     saw |-> checkpoint,
     first_hash |-> FirstHash(entries[s])]

LEMMA MarkKept ==
    ASSUME TypeOK, Bookkeeping, NEW s \in Shells
    PROVE  /\ Before(config[s].last_verify) \in 0..MaxEntries
           /\ HighWater(s) \in 0..MaxEntries
           /\ HighWater(s) >= Len(entries[s]) /\ HighWater(s) >= Before(config[s].last_verify)
           /\ HighWater(s) \in {Before(config[s].last_verify), Len(entries[s])}
<1>1. config[s] \in Content /\ entries[s] \in Seq(EntryIds) /\ Len(entries[s]) <= MaxEntries
  BY DEF TypeOK, Bookkeeping
<1>2. Len(entries[s]) \in Nat
  BY <1>1, FirstOf
<1>3. config[s].last_verify # None => config[s].last_verify.high_water \in 1..MaxEntries
  BY <1>1, Contents DEF VerifyRecord
<1>4. Before(config[s].last_verify) \in 0..MaxEntries
  BY <1>3, Numbers DEF Before
<1> QED
  BY <1>1, <1>2, <1>4, Numbers DEF HighWater

LEMMA ChainRecordType ==
    ASSUME TypeOK, Bookkeeping, NEW s \in Shells, entries[s] # <<>>
    PROVE  ChainRecord(s) \in VerifyRecord
<1>1. entries[s] \in Seq(EntryIds) /\ Len(entries[s]) \in 1..MaxEntries
  <2>1. entries[s] \in Seq(EntryIds) /\ Len(entries[s]) <= MaxEntries
    BY DEF TypeOK, Bookkeeping
  <2> QED
    BY <2>1, FirstOf, Numbers
<1>2. HighWater(s) \in 1..MaxEntries
  BY <1>1, MarkKept, Numbers
<1>3. FirstHash(log) \in EntryIds \cup {NoHash}
  BY FirstOf DEF TypeOK
<1>4. evidence \in 0..MaxEvidence /\ fine[s] \in BOOLEAN
  BY DEF TypeOK
<1> QED
  BY <1>1, <1>2, <1>3, <1>4 DEF ChainRecord, VerifyRecord

LEMMA WitnessCheckType ==
    ASSUME TypeOK, Bookkeeping, NEW s \in Shells, checkpoint # <<>>, NEW quorum \in BOOLEAN
    PROVE  WitnessCheck(s, quorum) \in WitnessRecord
<1>1. checkpoint \in Seq(EntryIds) /\ Len(checkpoint) \in 1..MaxEntries
  <2>1. checkpoint \in Seq(EntryIds) /\ Len(checkpoint) <= MaxEntries
    BY DEF TypeOK, Bookkeeping
  <2> QED
    BY <2>1, FirstOf, Numbers
<1>2. FirstHash(entries[s]) \in EntryIds \cup {NoHash}
  BY FirstOf DEF TypeOK
<1>3. (quorum /\ IsPrefix(checkpoint, entries[s])) \in BOOLEAN
  BY DEF IsPrefix
<1> QED
  BY <1>1, <1>2, <1>3 DEF WitnessCheck, WitnessRecord

-------------------------------------------------------------------------------
(* The values of the variables, and how the log and the checks keep in step.   *)

TypeInv == TypeOK /\ Bookkeeping

\* In Init every shell is off, and no copy of a record exists.
LEMMA TypeInit == Init => TypeInv
<1> SUFFICES ASSUME Init PROVE TypeInv
  OBVIOUS
<1>1. <<>> \in Seq(EntryIds) /\ Len(<<>>) = 0 /\ FirstHash(<<>>) = 0
  BY EmptySeq, Numbers DEF FirstHash, NoHash
<1>2. TypeOK
  <2>1. /\ log \in Seq(EntryIds) /\ next \in 1..(MaxEntries + 1)
        /\ evidence \in 0..MaxEvidence
        /\ checkpoint \in Seq(EntryIds)
    BY <1>1, Numbers DEF Init
  <2>2. /\ edited \subseteq EntryIds
        /\ cut \in BOOLEAN /\ restarted \in BOOLEAN
        /\ kind \in {"chain", "witness"} /\ troubles \in Troubles
        /\ pc \in [Shells -> {"off", "menu", "loaded", "saving", "writing"}]
        /\ behind \subseteq Shells
    BY DEF Init
  <2>3. /\ file \in Content \cup Unreadable /\ temp \in Content \cup Unreadable \cup {None}
        /\ kept \in VerifyRecord \cup {None}
        /\ fine \in [Shells -> BOOLEAN] /\ step \in [Shells -> SaveSteps]
        /\ config \in [Shells -> Content]
        /\ entries \in [Shells -> Seq(EntryIds)]
    BY <1>1, Contents DEF Init, SaveSteps
  <2>4. /\ saving \in [Shells -> Saves \cup {None}]
        /\ writing \in [Shells -> Writes \cup {None}]
    BY DEF Init
  <2> QED
    BY <2>1, <2>2, <2>3, <2>4 DEF TypeOK
<1>3. Bookkeeping
  BY <1>1, Numbers DEF Init, Bookkeeping
<1> QED
  BY <1>2, <1>3 DEF TypeInv

\* A step of the database keeps them: the log grows by the next number, or is cut.
LEMMA TypeWorld ==
    ASSUME TypeInv, World, UNCHANGED <<checkpoint, limits, disk, shell>>
    PROVE  TypeInv'
<1> DEFINE l == log'
<1>1. UNCHANGED <<checkpoint, kind, troubles, file, temp, kept, behind, config, pc, entries, fine,
                saving, step, writing>>
  BY DEF limits, disk, shell
<1>2. log \in Seq(EntryIds) /\ Len(log) \in Nat /\ next \in 1..(MaxEntries + 1)
  BY LenProperties DEF TypeInv, TypeOK
<1>3. Len(log) < next /\ FirstHash(log) < next
  BY DEF TypeInv, Bookkeeping
<1>4. /\ l \in Seq(EntryIds) /\ next' \in 1..(MaxEntries + 1)
      /\ Len(l) < next' /\ FirstHash(l) < next'
  <2>1. CASE LogEvent
    <3>1. next \in EntryIds /\ next' = next + 1 /\ l = Append(log, next)
      BY <1>2, <2>1, Numbers DEF LogEvent
    <3>2. FirstHash(log) \in Nat
      BY <1>2, FirstOf, Numbers
    <3>3. l \in Seq(EntryIds) /\ Len(l) = Len(log) + 1 /\ FirstHash(l) \in {next, FirstHash(log)}
      BY <1>2, <3>1, LogGrows
    <3> QED
      BY <1>2, <1>3, <3>1, <3>2, <3>3, Numbers
  <2>2. CASE CutShort
    <3>1. PICK n \in 0..(Len(log) - 1) : l = SubSeq(log, 1, n)
      BY <2>2 DEF CutShort
    <3>2. l \in Seq(EntryIds) /\ Len(l) = n /\ FirstHash(l) \in {NoHash, FirstHash(log)}
      BY <1>2, <3>1, LogIsCut
    <3> QED
      BY <1>2, <1>3, <2>2, <3>2, Numbers DEF CutShort
  <2>3. CASE StartOver
    <3>1. l = <<>> /\ next' = next
      BY <2>3 DEF StartOver
    <3>2. l \in Seq(EntryIds) /\ Len(l) = 0 /\ FirstHash(l) = 0
      BY <3>1, EmptySeq, Numbers DEF FirstHash
    <3> QED
      BY <1>2, <3>1, <3>2
  <2>4. CASE AddEvidence \/ EditEntry
    BY <1>2, <1>3, <2>4 DEF AddEvidence, EditEntry
  <2> QED
    BY <2>1, <2>2, <2>3, <2>4 DEF World
<1>5. evidence' \in 0..MaxEvidence /\ edited' \subseteq EntryIds /\ cut' \in BOOLEAN /\ restarted' \in BOOLEAN
  <2>1. evidence \in 0..MaxEvidence /\ edited \subseteq EntryIds /\ cut \in BOOLEAN /\ restarted \in BOOLEAN
    BY DEF TypeInv, TypeOK
  <2>2. \A n \in DOMAIN log : log[n] \in EntryIds
    BY <1>2, ElementOfSeq, LenProperties
  <2>3. CASE LogEvent
    BY <2>1, <2>3 DEF LogEvent
  <2>4. CASE AddEvidence
    BY <2>1, <2>4, Numbers DEF AddEvidence
  <2>5. CASE CutShort
    BY <2>1, <2>5 DEF CutShort
  <2>6. CASE EditEntry
    BY <2>1, <2>2, <2>6 DEF EditEntry
  <2>7. CASE StartOver
    <3>1. evidence' = 0 /\ edited' = {} /\ cut' = FALSE /\ restarted' = TRUE
      BY <2>7 DEF StartOver
    <3>2. evidence' \in 0..MaxEvidence
      BY <3>1, Numbers
    <3>3. cut' \in BOOLEAN /\ restarted' \in BOOLEAN /\ edited' \subseteq EntryIds
      BY <3>1, Zenon
    <3> QED
      BY <3>2, <3>3
  <2> QED
    BY <2>3, <2>4, <2>5, <2>6, <2>7 DEF World
<1> HIDE DEF l
<1>6. TypeOK'
  BY <1>1, <1>4, <1>5 DEF TypeInv, TypeOK, l
<1>7. Bookkeeping'
  BY <1>1, <1>4 DEF TypeInv, Bookkeeping, l
<1> QED
  BY <1>6, <1>7 DEF TypeInv

\* A step of a shell keeps them: every record it makes is a record.
LEMMA TypeShell ==
    ASSUME TypeInv, NEW s \in Shells, Shell(s)
    PROVE  TypeInv'
<1> USE DEF TypeInv
<1>1. /\ config[s] \in Content
      /\ saving[s] # None => saving[s].data \in Content
      /\ writing[s] # None => writing[s] \in Writes /\ writing[s].data \in Content
  BY DEF TypeOK
<1>0. /\ pc \in [Shells -> {"off", "menu", "loaded", "saving", "writing"}]
      /\ entries \in [Shells -> Seq(EntryIds)] /\ fine \in [Shells -> BOOLEAN]
      /\ saving \in [Shells -> Saves \cup {None}]
      /\ step \in [Shells -> SaveSteps]
      /\ writing \in [Shells -> Writes \cup {None}]
      /\ file \in Content \cup Unreadable /\ temp \in Content \cup Unreadable \cup {None}
      /\ kept \in VerifyRecord \cup {None} /\ behind \subseteq Shells
  BY DEF TypeOK
<1>2. log \in Seq(EntryIds) /\ <<>> \in Seq(EntryIds) /\ Len(<<>>) = 0 /\ MaxEntries \in Nat
  BY EmptySeq, Numbers DEF TypeOK
<1>3. Len(log) <= MaxEntries
  BY <1>2, LenProperties DEF TypeOK, Bookkeeping
<1>4. CASE Start(s)
  <2>1. /\ pc' = [pc EXCEPT ![s] = "menu"] /\ ~Running(s)
        /\ config' = [config EXCEPT ![s] = IF file \in Unreadable THEN Nothing ELSE file]
        /\ behind' \in {behind \ {s}, behind \cup {s}}
        /\ UNCHANGED <<world, checkpoint, limits, file, temp, kept, entries, fine, saving, step, writing>>
    BY <1>4 DEF Start
  <2>2. config' \in [Shells -> Content]
    BY <1>0, <2>1, Contents DEF TypeOK
  <2>3. TypeOK'
    BY <1>0, <2>1, <2>2 DEF TypeOK, world, limits
  <2>4. Bookkeeping'
    BY <1>0, <2>1 DEF Running, Bookkeeping, world, limits
  <2> QED
    BY <2>3, <2>4
<1>5. CASE Stop(s)
  <2>1. /\ pc' = [pc EXCEPT ![s] = "off"] /\ config' = [config EXCEPT ![s] = Nothing]
        /\ entries' = [entries EXCEPT ![s] = <<>>] /\ fine' = [fine EXCEPT ![s] = TRUE]
        /\ saving' = [saving EXCEPT ![s] = None] /\ step' = [step EXCEPT ![s] = "none"]
        /\ writing' = [writing EXCEPT ![s] = None] /\ behind' = behind \ {s}
        /\ temp' \in {temp, Empty}
        /\ UNCHANGED <<world, checkpoint, limits, file, kept>>
    BY <1>5 DEF Stop
  <2>2. TypeOK'
    <3>1. config' \in [Shells -> Content]
      BY <2>1, Contents DEF TypeOK
    <3>2. /\ entries' \in [Shells -> Seq(EntryIds)] /\ fine' \in [Shells -> BOOLEAN]
          /\ step' \in [Shells -> SaveSteps]
      BY <1>0, <1>2, <2>1 DEF SaveSteps
    <3>3. /\ saving' \in [Shells -> Saves \cup {None}] /\ writing' \in [Shells -> Writes \cup {None}]
          /\ pc' \in [Shells -> {"off", "menu", "loaded", "saving", "writing"}]
      BY <1>0, <2>1
    <3>4. temp' \in Content \cup Unreadable \cup {None}
      BY <1>0, <2>1 DEF Unreadable
    <3> QED
      BY <1>0, <2>1, <3>1, <3>2, <3>3, <3>4 DEF TypeOK, world, limits
  <2>3. Bookkeeping'
    BY <1>0, <1>2, <2>1 DEF Bookkeeping, world, limits
  <2> QED
    BY <2>2, <2>3
<1>6. CASE EnsureKeys(s) \/ WriteCheckpoint(s)
  <2>1. /\ OpenFile(s) /\ pc[s] = "menu"
        /\ checkpoint' \in {checkpoint, log} /\ (log = <<>> => checkpoint' = checkpoint)
        /\ UNCHANGED <<world, limits, config, entries, fine, saving, step>>
    BY <1>6 DEF EnsureKeys, WriteCheckpoint
  <2>2. [attached |-> TRUE, data |-> config[s]] \in Writes
    BY <1>1
  <2>3. /\ writing' = [writing EXCEPT ![s] = [attached |-> TRUE, data |-> config[s]]]
        /\ pc' = [pc EXCEPT ![s] = "writing"] /\ file' = Empty
        /\ UNCHANGED <<temp, kept, behind>>
    BY <2>1 DEF OpenFile
  <2>4. TypeOK'
    BY <1>0, <1>2, <2>1, <2>2, <2>3 DEF TypeOK, world, limits, Unreadable
  <2>5. Bookkeeping'
    BY <1>0, <1>3, <2>1, <2>3 DEF Bookkeeping, world, limits
  <2> QED
    BY <2>4, <2>5
<1>7. ASSUME NEW contents \in Content \cup Unreadable, Shows(contents)
      PROVE  /\ file' \in Content \cup Unreadable /\ kept' \in VerifyRecord \cup {None}
             /\ behind' \subseteq Shells
  <2>1. contents \in Content => contents.last_verify \in VerifyRecord \cup {None}
    BY Contents
  <2> QED
    BY <1>0, <1>7, <2>1 DEF Shows
<1>8. CASE WriteFile(s)
  <2>1. /\ writing[s] # None /\ pc' = [pc EXCEPT ![s] = "menu"]
        /\ writing' = [writing EXCEPT ![s] = None]
        /\ UNCHANGED <<world, checkpoint, limits, temp, config, entries, fine, saving, step>>
    BY <1>8 DEF WriteFile
  <2>2. /\ file' \in Content \cup Unreadable /\ kept' \in VerifyRecord \cup {None}
        /\ behind' \subseteq Shells
    <3>1. CASE ~writing[s].attached
      BY <1>0, <1>8, <3>1 DEF WriteFile
    <3>2. CASE writing[s].attached
      <4>1. PICK contents \in Over(file, writing[s].data) : Shows(contents)
        BY <1>8, <3>2 DEF WriteFile
      <4>2. contents \in Content \cup Unreadable
        BY <1>1, <2>1, <4>1 DEF Over, Unreadable
      <4> QED
        BY <1>7, <4>1, <4>2
    <3> QED
      BY <3>1, <3>2
  <2>3. TypeOK'
    BY <1>0, <2>1, <2>2 DEF TypeOK, world, limits
  <2>4. Bookkeeping'
    BY <1>0, <2>1 DEF Bookkeeping, world, limits
  <2> QED
    BY <2>3, <2>4
<1>9. CASE LoadEntries(s)
  <2>1. (ToSet(log) \cap edited = {}) \in BOOLEAN
    OBVIOUS
  <2>2. /\ entries' = [entries EXCEPT ![s] = log] /\ pc' = [pc EXCEPT ![s] = "loaded"]
        /\ fine' \in [Shells -> BOOLEAN] /\ pc[s] = "menu"
        /\ kind = "witness" => checkpoint # <<>>
        /\ UNCHANGED <<world, checkpoint, limits, disk, config, saving, step, writing>>
    BY <1>0, <1>9, <2>1 DEF LoadEntries
  <2>3. TypeOK'
    BY <1>0, <1>2, <2>2 DEF TypeOK, world, limits, disk
  <2>4. Bookkeeping'
    BY <1>0, <1>3, <2>2 DEF Bookkeeping, world, limits
  <2> QED
    BY <2>3, <2>4
<1>10. CASE NotRecorded(s)
  <2>1. /\ entries' = [entries EXCEPT ![s] = <<>>] /\ pc' = [pc EXCEPT ![s] = "menu"]
        /\ fine' = [fine EXCEPT ![s] = TRUE] /\ pc[s] = "loaded"
        /\ UNCHANGED <<world, checkpoint, limits, disk, config, saving, step, writing>>
    BY <1>10 DEF NotRecorded, Forget
  <2>2. TypeOK'
    BY <1>0, <1>2, <2>1 DEF TypeOK, world, limits, disk
  <2>3. Bookkeeping'
    BY <1>0, <1>2, <2>1 DEF Bookkeeping, world, limits
  <2> QED
    BY <2>2, <2>3
<1>11. ASSUME config' \in [Shells -> Content],
              saving' \in [Shells -> Saves \cup {None}], saving'[s] # None,
              \A t \in Shells \ {s} : saving'[t] = saving[t],
              step' = [step EXCEPT ![s] = "dumped"], step' \in [Shells -> SaveSteps],
              UNCHANGED <<world, checkpoint, limits, disk, writing>>,
              \/ /\ pc[s] = "loaded" /\ pc' = [pc EXCEPT ![s] = "saving"] /\ Forget(s)
              \/ saving'[s].by = "worker" /\ UNCHANGED <<pc, entries, fine>>
       PROVE  TypeInv'
  <2>1. /\ entries' \in [Shells -> Seq(EntryIds)] /\ fine' \in [Shells -> BOOLEAN]
        /\ pc' \in [Shells -> {"off", "menu", "loaded", "saving", "writing"}]
    <3>1. CASE UNCHANGED <<pc, entries, fine>>
      BY <1>0, <3>1
    <3>2. CASE pc' = [pc EXCEPT ![s] = "saving"] /\ Forget(s)
      <4>1. entries' \in [Shells -> Seq(EntryIds)]
        BY <1>0, <1>2, <3>2 DEF Forget
      <4>2. fine' \in [Shells -> BOOLEAN]
        BY <1>0, <3>2 DEF Forget
      <4>3. pc' \in [Shells -> {"off", "menu", "loaded", "saving", "writing"}]
        BY <1>0, <3>2
      <4> QED
        BY <4>1, <4>2, <4>3
    <3> QED
      BY <1>11, <3>1, <3>2
  <2>2. TypeOK'
    BY <1>0, <1>11, <2>1 DEF TypeOK, world, limits, disk
  <2>3. /\ Len(log) < next /\ FirstHash(log) < next /\ Len(checkpoint) <= MaxEntries
        /\ \A t \in Shells :
             /\ Len(entries[t]) <= MaxEntries
             /\ entries[t] # <<>> => pc[t] = "loaded"
             /\ kind = "witness" /\ pc[t] = "loaded" => checkpoint # <<>>
             /\ saving[t] # None /\ saving[t].by = "menu" => pc[t] = "saving"
             /\ step[t] = "none" <=> saving[t] = None
             /\ writing[t] # None => pc[t] = "writing"
    BY DEF Bookkeeping
  <2>4. ASSUME NEW t \in Shells
        PROVE  /\ Len(entries'[t]) <= MaxEntries
               /\ entries'[t] # <<>> => pc'[t] = "loaded"
               /\ kind = "witness" /\ pc'[t] = "loaded" => checkpoint # <<>>
               /\ saving'[t] # None /\ saving'[t].by = "menu" => pc'[t] = "saving"
               /\ step'[t] = "none" <=> saving'[t] = None
               /\ writing[t] # None => pc'[t] = "writing"
    <3>1. CASE t # s
      BY <1>0, <1>11, <2>3, <3>1 DEF Forget
    <3>2. CASE t = s
      BY <1>0, <1>2, <1>11, <2>3, <3>2 DEF Forget
    <3> QED
      BY <3>1, <3>2
  <2>5. Bookkeeping'
    BY <1>11, <2>3, <2>4 DEF Bookkeeping, world, limits
  <2> QED
    BY <2>2, <2>5
<1>12. CASE RecordChainCheck(s)
  <2>1. ChainRecord(s) \in VerifyRecord
    BY <1>12, ChainRecordType DEF RecordChainCheck
  <2>2. Remember(s, "last_verify", ChainRecord(s), "menu")
    BY <1>12 DEF RecordChainCheck, ChainRecord
  <2>3. /\ pc[s] = "loaded" /\ pc' = [pc EXCEPT ![s] = "saving"] /\ Forget(s)
        /\ UNCHANGED <<world, checkpoint, limits, disk, writing>>
    BY <1>12 DEF RecordChainCheck
  <2> QED
    BY <1>11, <2>1, <2>2, <2>3, NewVerify
<1>13. CASE RecordWitnessCheck(s)
  <2>1. PICK quorum \in BOOLEAN : Remember(s, "last_witness", WitnessCheck(s, quorum), "menu")
    BY <1>13 DEF RecordWitnessCheck, WitnessCheck
  <2>2. WitnessCheck(s, quorum) \in WitnessRecord
    BY <1>13, WitnessCheckType DEF RecordWitnessCheck, Bookkeeping
  <2>3. /\ pc[s] = "loaded" /\ pc' = [pc EXCEPT ![s] = "saving"] /\ Forget(s)
        /\ UNCHANGED <<world, checkpoint, limits, disk, writing>>
    BY <1>13 DEF RecordWitnessCheck
  <2> QED
    BY <1>11, <2>1, <2>2, <2>3, NewWitness
<1>14. CASE RecordEvidenceCheck(s)
  <2>1. config[s].last_verify \in VerifyRecord \cup {None}
    BY <1>1, Contents
  <2>2. /\ Remember(s, "last_verify", config[s].last_verify, "worker")
        /\ UNCHANGED <<world, checkpoint, limits, disk, pc, entries, fine, writing>>
    BY <1>14 DEF RecordEvidenceCheck
  <2>3. /\ config' \in [Shells -> Content] /\ saving' \in [Shells -> Saves \cup {None}]
        /\ saving'[s] # None /\ saving'[s] = [by |-> "worker", data |-> config'[s]]
        /\ \A t \in Shells \ {s} : saving'[t] = saving[t]
        /\ step' = [step EXCEPT ![s] = "dumped"] /\ step' \in [Shells -> SaveSteps]
    BY <2>1, <2>2, NewVerify
  <2>4. saving'[s].by = "worker"
    BY <2>3
  <2> QED
    BY <1>11, <2>2, <2>3, <2>4
<1>15. CASE OpenTemp(s)
  <2>1. /\ step[s] = "dumped" /\ step' = [step EXCEPT ![s] = "temp"] /\ temp' = Empty
        /\ UNCHANGED <<world, checkpoint, limits, file, kept, behind, config, pc, entries, fine,
                       saving, writing>>
    BY <1>15 DEF OpenTemp
  <2>2. TypeOK'
    BY <1>0, <2>1 DEF TypeOK, world, limits, Unreadable, SaveSteps
  <2>3. Bookkeeping'
    BY <1>0, <2>1 DEF Bookkeeping, world, limits
  <2> QED
    BY <2>2, <2>3
<1>16. CASE WriteTemp(s)
  <2>1. /\ step[s] \in {"temp", "file", "gone"} /\ step' = [step EXCEPT ![s] = "written"]
        /\ UNCHANGED <<world, checkpoint, limits, config, pc, entries, fine, saving, writing>>
    BY <1>16 DEF WriteTemp
  <2>2. saving[s] # None
    BY <2>1 DEF Bookkeeping
  <2>3. /\ file' \in Content \cup Unreadable /\ temp' \in Content \cup Unreadable \cup {None}
        /\ kept' \in VerifyRecord \cup {None} /\ behind' \subseteq Shells
    <3>1. CASE step[s] = "temp"
      <4>1. temp' \in Over(temp, saving[s].data) /\ UNCHANGED <<file, kept, behind>>
        BY <1>16, <3>1 DEF WriteTemp
      <4> QED
        BY <1>0, <1>1, <2>2, <4>1 DEF Over, Unreadable
    <3>2. CASE step[s] = "file"
      <4>1. PICK contents \in Over(file, saving[s].data) : Shows(contents)
        BY <1>16, <3>2 DEF WriteTemp
      <4>2. contents \in Content \cup Unreadable
        BY <1>1, <2>2, <4>1 DEF Over, Unreadable
      <4>3. temp' = temp
        BY <1>16, <3>2 DEF WriteTemp
      <4> QED
        BY <1>0, <1>7, <4>1, <4>2, <4>3
    <3>3. CASE step[s] = "gone"
      BY <1>0, <1>16, <3>3 DEF WriteTemp, disk
    <3> QED
      BY <2>1, <3>1, <3>2, <3>3
  <2>4. TypeOK'
    BY <1>0, <2>1, <2>3 DEF TypeOK, world, limits, SaveSteps
  <2>5. Bookkeeping'
    BY <1>0, <2>1, <2>2 DEF Bookkeeping, world, limits
  <2> QED
    BY <2>4, <2>5
<1>17. ASSUME NEW moved \in [Shells -> SaveSteps], saving[s] # None, Settles(s, moved),
              \A t \in Shells : moved[t] = "none" <=> step[t] = "none",
              UNCHANGED <<world, checkpoint, limits, config, entries, fine>>,
              file' \in Content \cup Unreadable, kept' \in VerifyRecord \cup {None},
              temp' = None, behind' \subseteq Shells,
              writing' \in [Shells -> Writes \cup {None}],
              \A t \in Shells : writing'[t] # None => writing[t] # None
       PROVE  TypeInv'
  <2>1. /\ saving' = [saving EXCEPT ![s] = None]
        /\ step' = [t \in Shells |-> IF t = s THEN "none" ELSE moved[t]]
        /\ pc' = [pc EXCEPT ![s] = IF saving[s].by = "menu" THEN "menu" ELSE @]
    BY <1>17 DEF Settles
  <2>2. /\ saving' \in [Shells -> Saves \cup {None}] /\ step' \in [Shells -> SaveSteps]
        /\ pc' \in [Shells -> {"off", "menu", "loaded", "saving", "writing"}]
    BY <1>0, <1>17, <2>1 DEF SaveSteps
  <2>3. TypeOK'
    BY <1>0, <1>17, <2>2 DEF TypeOK, world, limits
  <2>4. Bookkeeping'
    BY <1>0, <1>17, <2>1 DEF Bookkeeping, world, limits
  <2> QED
    BY <2>3, <2>4
<1>18. CASE Replace(s)
  <2> DEFINE moved == [t \in Shells |-> IF step[t] = "temp" THEN "file"
                                        ELSE IF step[t] = "file" THEN "gone" ELSE step[t]]
  <2>1. /\ step[s] = "written" /\ temp # None /\ Shows(temp) /\ temp' = None /\ Settles(s, moved)
        /\ writing' = [t \in Shells |-> IF writing[t] = None THEN None
                                        ELSE [writing[t] EXCEPT !.attached = FALSE]]
        /\ UNCHANGED <<world, checkpoint, limits, config, entries, fine>>
    BY <1>18 DEF Replace
  <2>2. saving[s] # None
    BY <2>1 DEF Bookkeeping
  <2>3. moved \in [Shells -> SaveSteps] /\ \A t \in Shells : moved[t] = "none" <=> step[t] = "none"
    BY <1>0 DEF SaveSteps
  <2> HIDE DEF moved
  <2>4. writing' \in [Shells -> Writes \cup {None}]
    BY <1>0, <2>1
  <2>5. \A t \in Shells : writing'[t] # None => writing[t] # None
    BY <2>1
  <2>6. temp \in Content \cup Unreadable
    BY <1>0, <2>1
  <2> QED
    BY <1>7, <1>17, <2>1, <2>2, <2>3, <2>4, <2>5, <2>6
<1>19. CASE SaveFails(s)
  <2> DEFINE moved == [t \in Shells |-> IF step[t] = "temp" THEN "gone" ELSE step[t]]
  <2>1. /\ saving[s] # None /\ temp' = None /\ Settles(s, moved)
        /\ UNCHANGED <<world, checkpoint, limits, file, kept, behind, config, entries, fine, writing>>
    BY <1>19 DEF SaveFails
  <2>2. moved \in [Shells -> SaveSteps] /\ \A t \in Shells : moved[t] = "none" <=> step[t] = "none"
    BY <1>0 DEF SaveSteps
  <2> HIDE DEF moved
  <2> QED
    BY <1>0, <1>17, <2>1, <2>2
<1> QED
  BY <1>4, <1>5, <1>6, <1>8, <1>9, <1>10, <1>12, <1>13, <1>14, <1>15, <1>16, <1>18, <1>19 DEF Shell

LEMMA TypeStep == TypeInv /\ [Next]_vars => TypeInv'
<1> SUFFICES ASSUME TypeInv, [Next]_vars PROVE TypeInv'
  OBVIOUS
<1>1. CASE UNCHANGED vars
  BY <1>1 DEF TypeInv, TypeOK, Bookkeeping, vars, world, shell, limits, disk
<1> QED
  BY <1>1, TypeWorld, TypeShell DEF Next

-------------------------------------------------------------------------------
(* THEOREM RecordsInvariant                                                    *)

\* A log meets one trouble: it is not cut and started over in one behaviour,
\* and no check runs while its database is started over.
OneTrouble == ~StartsOverAnytime /\ \A t \in Troubles : ~({"cut", "restart"} \subseteq t)

Inductive == TypeInv /\ OnlyItsTroubles /\ CopiesAreSound

\* Soundness of a record survives whatever the database goes through that does
\* not cut it: it grows, and a new log begins with a new entry.
LEMMA SoundWorld ==
    ASSUME TypeInv, World, ~cut, ~cut', NEW c \in Content, Sound(c)
    PROVE  Sound(c)'
<1> DEFINE v == c.last_verify
           w == c.last_witness
<1>1. /\ v # None => v \in VerifyRecord /\ VerifySound(v)
      /\ w # None /\ w.ok => w \in WitnessRecord /\ WitnessSound(w)
  BY Contents DEF Sound
<1>2. log \in Seq(EntryIds) /\ next \in Nat /\ FirstHash(log) < next /\ FirstHash(log) \in Nat
  <2>1. log \in Seq(EntryIds) /\ next \in Nat /\ FirstHash(log) < next
    BY Numbers DEF TypeInv, TypeOK, Bookkeeping
  <2> QED
    BY <2>1, FirstOf, Numbers
<1>3. v # None => v.saw \in Seq(EntryIds)
  BY <1>1 DEF VerifyRecord
<1>4. w # None /\ w.ok => w.saw \in Seq(EntryIds)
  BY <1>1 DEF WitnessRecord
<1> HIDE DEF v, w
<1>5. CASE LogEvent
  <2> DEFINE l == log'
  <2>1. next \in EntryIds /\ l = Append(log, next) /\ next' = next + 1 /\ restarted' = restarted
    BY <1>2, <1>5, Numbers DEF LogEvent, TypeInv, TypeOK
  <2>2. /\ l \in Seq(EntryIds) /\ Len(l) = Len(log) + 1 /\ IsPrefix(log, l)
        /\ FirstHash(l) = IF log = <<>> THEN next ELSE FirstHash(log)
        /\ Len(log) \in Nat
    BY <1>2, <2>1, LogGrows, LenProperties
  <2> HIDE DEF l
  <2>3. FirstHash(l) # next => FirstHash(l) = FirstHash(log)
    BY <2>2
  <2>4. log = <<>> => FirstHash(log) = 0
    BY Numbers DEF FirstHash
  <2>5. ASSUME v # None PROVE VerifySound(v)'
    <3>1. /\ v.first_hash \in 1..(next - 1) /\ v.events = Len(v.saw)
          /\ v.first_hash = FirstHash(log) => v.high_water <= Len(log) /\ IsPrefix(v.saw, log)
          /\ ~restarted => v.first_hash = FirstHash(log)
      BY <1>1, <2>5 DEF VerifySound
    <3>2. v.high_water \in Nat
      BY <1>1, <2>5, Numbers DEF VerifyRecord
    <3>3. v.first_hash \in 1..(next' - 1) /\ v.first_hash # next
      BY <1>2, <2>1, <3>1
    <3>4. ~restarted' => v.first_hash = FirstHash(l)
      BY <1>2, <2>1, <2>2, <2>4, <3>1
    <3>5. v.first_hash = FirstHash(l) => v.high_water <= Len(l) /\ IsPrefix(v.saw, l)
      <4> SUFFICES ASSUME v.first_hash = FirstHash(l)
                   PROVE  v.high_water <= Len(l) /\ IsPrefix(v.saw, l)
        OBVIOUS
      <4>1. v.high_water <= Len(log) /\ IsPrefix(v.saw, log)
        BY <2>3, <3>1, <3>3
      <4>2. IsPrefix(v.saw, l)
        BY <1>2, <1>3, <2>2, <2>5, <4>1, PrefixFacts
      <4> QED
        BY <2>2, <3>2, <4>1, <4>2
    <3> QED
      BY <3>1, <3>3, <3>4, <3>5 DEF VerifySound, l
  <2>6. ASSUME w # None, w.ok PROVE WitnessSound(w)'
    <3>1. /\ w.first_hash \in 1..(next - 1) /\ w.size = Len(w.saw)
          /\ w.first_hash = FirstHash(log) => IsPrefix(w.saw, log)
          /\ ~restarted => w.first_hash = FirstHash(log)
      BY <1>1, <2>6 DEF WitnessSound
    <3>3. w.first_hash \in 1..(next' - 1) /\ w.first_hash # next
      BY <1>2, <2>1, <3>1
    <3>4. ~restarted' => w.first_hash = FirstHash(l)
      BY <1>2, <2>1, <2>2, <2>4, <3>1
    <3>5. w.first_hash = FirstHash(l) => IsPrefix(w.saw, l)
      BY <1>2, <1>4, <2>2, <2>3, <2>6, <3>1, <3>3, PrefixFacts
    <3> QED
      BY <3>1, <3>3, <3>4, <3>5 DEF WitnessSound, l
  <2> QED
    BY <2>5, <2>6 DEF Sound, VerifySound, WitnessSound, v, w
<1>6. CASE StartOver
  <2>1. log' = <<>> /\ restarted' = TRUE /\ next' = next
    BY <1>6 DEF StartOver
  <2>2. FirstHash(log)' = 0
    BY <2>1, Numbers DEF FirstHash
  <2>3. VerifySound(v)'
    BY <1>1, <1>2, <2>1, <2>2 DEF VerifySound
  <2>4. WitnessSound(w)'
    BY <1>1, <1>2, <2>1, <2>2 DEF WitnessSound
  <2> QED
    BY <2>3, <2>4 DEF Sound, v, w
<1>7. CASE AddEvidence \/ EditEntry
  <2>1. log' = log /\ next' = next /\ restarted' = restarted
    BY <1>7 DEF AddEvidence, EditEntry
  <2> QED
    BY <2>1 DEF Sound, VerifySound, WitnessSound, FirstHash
<1>8. ~CutShort
  BY DEF CutShort
<1> QED
  BY <1>5, <1>6, <1>7, <1>8 DEF World

\* A step of a shell leaves the database alone...
LEMMA WorldStays ==
    ASSUME NEW s \in Shells, Shell(s)
    PROVE  UNCHANGED <<world, limits>>
BY DEF Shell, Start, Stop, EnsureKeys, WriteCheckpoint, WriteFile, LoadEntries, NotRecorded,
   RecordChainCheck, RecordWitnessCheck, RecordEvidenceCheck, OpenTemp, WriteTemp, Replace, SaveFails

\* ...and a record stays sound.
LEMMA SoundStays ==
    ASSUME UNCHANGED world, NEW c
    PROVE  Sound(c)' <=> Sound(c)
BY DEF world, Sound, VerifySound, WitnessSound, FirstHash

\* A step of a shell puts only sound records where it puts any.
LEMMA SoundShell ==
    ASSUME TypeInv, CopiesAreSound, NEW s \in Shells, Shell(s)
    PROVE  CopiesAreSound'
<1>0. TypeOK
  BY DEF TypeInv
<1>1. /\ pc \in [Shells -> {"off", "menu", "loaded", "saving", "writing"}]
      /\ config \in [Shells -> Content] /\ entries \in [Shells -> Seq(EntryIds)]
      /\ saving \in [Shells -> Saves \cup {None}]
      /\ writing \in [Shells -> Writes \cup {None}]
      /\ file \in Content \cup Unreadable /\ temp \in Content \cup Unreadable \cup {None}
  BY DEF TypeInv, TypeOK
<1>2. UNCHANGED world
  BY WorldStays
<1>3. \A c : Sound(c)' <=> Sound(c)
  BY <1>2, SoundStays
<1> SUFFICES ASSUME ~cut PROVE CopiesAreSound'
  BY <1>2 DEF CopiesAreSound, world
<1>4. /\ file \in Content => Sound(file)
      /\ temp \in Content => Sound(temp)
      /\ \A t \in Shells :
          /\ IsPrefix(entries[t], log)
          /\ Sound(config[t])
          /\ saving[t] # None => Sound(saving[t].data)
          /\ writing[t] # None => Sound(writing[t].data)
  BY DEF CopiesAreSound
<1>5. log \in Seq(EntryIds) /\ IsPrefix(log, log) /\ IsPrefix(<<>>, log) /\ Sound(Nothing)
  <2>1. log \in Seq(EntryIds)
    BY DEF TypeInv, TypeOK
  <2> QED
    BY <2>1, PrefixFacts, Contents DEF Sound, VerifySound, WitnessSound
<1>19. ASSUME file' \in Content => Sound(file'), temp' \in Content => Sound(temp'),
              \A t \in Shells : /\ IsPrefix(entries'[t], log)
                                /\ Sound(config'[t])
                                /\ saving'[t] # None => Sound(saving'[t].data)
                                /\ writing'[t] # None => Sound(writing'[t].data)
       PROVE  CopiesAreSound'
  BY <1>2, <1>3, <1>19 DEF CopiesAreSound, world
<1>20. Empty \notin Content /\ Torn \notin Content /\ None \notin Content
  BY NoneAssumption DEF Unreadable
<1>6. CASE Start(s)
  <2>1. /\ UNCHANGED <<file, temp, entries, saving, writing>>
        /\ config' = [config EXCEPT ![s] = IF file \in Unreadable THEN Nothing ELSE file]
    BY <1>6 DEF Start
  <2>2. \A t \in Shells : Sound(config'[t])
    BY <1>1, <1>4, <1>5, <2>1
  <2> QED
    BY <1>4, <1>19, <2>1, <2>2
<1>7. CASE Stop(s)
  <2>1. /\ entries' = [entries EXCEPT ![s] = <<>>] /\ config' = [config EXCEPT ![s] = Nothing]
        /\ saving' = [saving EXCEPT ![s] = None] /\ writing' = [writing EXCEPT ![s] = None]
        /\ file' = file /\ temp' \in {temp, Empty}
    BY <1>7 DEF Stop
  <2>2. \A t \in Shells : /\ IsPrefix(entries'[t], log) /\ Sound(config'[t])
                          /\ saving'[t] # None => Sound(saving'[t].data)
                          /\ writing'[t] # None => Sound(writing'[t].data)
    BY <1>1, <1>4, <1>5, <2>1
  <2> QED
    BY <1>4, <1>19, <1>20, <2>1, <2>2
<1>8. CASE EnsureKeys(s) \/ WriteCheckpoint(s)
  <2>1. /\ UNCHANGED <<temp, config, entries, saving>> /\ file' = Empty
        /\ writing' = [writing EXCEPT ![s] = [attached |-> TRUE, data |-> config[s]]]
    BY <1>8 DEF EnsureKeys, WriteCheckpoint, OpenFile
  <2>2. \A t \in Shells : writing'[t] # None => Sound(writing'[t].data)
    BY <1>1, <1>4, <2>1
  <2> QED
    BY <1>4, <1>19, <1>20, <2>1, <2>2
<1>10. CASE WriteFile(s)
  <2>1. /\ UNCHANGED <<temp, config, entries, saving>> /\ writing[s] # None
        /\ writing' = [writing EXCEPT ![s] = None]
        /\ file' \in {file, writing[s].data, Torn}
    BY <1>10 DEF WriteFile, Over, Shows
  <2>2. file' \in Content => Sound(file')
    BY <1>4, <1>20, <2>1
  <2>3. \A t \in Shells : writing'[t] # None => Sound(writing'[t].data)
    BY <1>1, <1>4, <2>1
  <2> QED
    BY <1>4, <1>19, <2>1, <2>2, <2>3
<1>11. CASE LoadEntries(s) \/ NotRecorded(s)
  <2>1. /\ UNCHANGED <<file, temp, config, saving, writing>>
        /\ entries' \in {[entries EXCEPT ![s] = log], [entries EXCEPT ![s] = <<>>]}
    BY <1>11 DEF LoadEntries, NotRecorded, Forget, disk
  <2>2. \A t \in Shells : IsPrefix(entries'[t], log)
    BY <1>1, <1>4, <1>5, <2>1
  <2> QED
    BY <1>4, <1>19, <2>1, <2>2
<1>12. CASE OpenTemp(s) \/ WriteTemp(s)
  <2>1. /\ UNCHANGED <<config, entries, saving, writing>>
        /\ saving[s] # None
    BY <1>12 DEF OpenTemp, WriteTemp, TypeInv, Bookkeeping
  <2>3. file' \in {file, saving[s].data, Torn} /\ temp' \in {temp, Empty, saving[s].data, Torn}
    <3>1. CASE OpenTemp(s)
      BY <3>1 DEF OpenTemp
    <3>2. CASE WriteTemp(s)
      BY <3>2 DEF WriteTemp, Over, Shows, disk
    <3> QED
      BY <1>12, <3>1, <3>2
  <2>2. (file' \in Content => Sound(file')) /\ (temp' \in Content => Sound(temp'))
    BY <1>4, <1>20, <2>1, <2>3
  <2> QED
    BY <1>4, <1>19, <2>1, <2>2
<1>13. CASE Replace(s) \/ SaveFails(s)
  <2>1. /\ UNCHANGED <<config, entries>>
        /\ file' \in {file, temp} /\ temp' = None
        /\ saving' = [saving EXCEPT ![s] = None]
    BY <1>13 DEF Replace, SaveFails, Settles, Shows
  <2>2. ASSUME NEW t \in Shells, writing'[t] # None PROVE Sound(writing'[t].data)
    <3>1. CASE Replace(s)
      <4>1. writing[t] # None /\ writing[t] \in Writes
            /\ writing'[t] = [writing[t] EXCEPT !.attached = FALSE]
        BY <1>1, <2>2, <3>1 DEF Replace
      <4>2. writing'[t].data = writing[t].data
        BY <4>1
      <4> QED
        BY <1>4, <4>1, <4>2
    <3>2. CASE SaveFails(s)
      BY <1>4, <2>2, <3>2 DEF SaveFails
    <3> QED
      BY <1>13, <3>1, <3>2
  <2>3. \A t \in Shells : saving'[t] # None => Sound(saving'[t].data)
    BY <1>1, <1>4, <2>1
  <2> QED
    BY <1>4, <1>19, <1>20, <2>1, <2>2, <2>3
<1>14. ASSUME UNCHANGED <<file, temp, writing>>, Sound(config'[s]),
              \A t \in Shells : IsPrefix(entries'[t], log),
              saving'[s].data = config'[s],
              \A t \in Shells \ {s} : config'[t] = config[t] /\ saving'[t] = saving[t]
       PROVE  CopiesAreSound'
  BY <1>4, <1>14, <1>19
<1>15. ASSUME entries' = [entries EXCEPT ![s] = <<>>]
       PROVE  \A t \in Shells : IsPrefix(entries'[t], log)
  BY <1>1, <1>4, <1>5, <1>15
<1>16. CASE RecordChainCheck(s)
  <2> DEFINE r == ChainRecord(s)
  <2>1. /\ entries[s] # <<>> /\ UNCHANGED <<file, temp, writing>>
        /\ entries' = [entries EXCEPT ![s] = <<>>]
        /\ Remember(s, "last_verify", r, "menu")
    BY <1>16 DEF RecordChainCheck, ChainRecord, Forget, disk
  <2>2. r \in VerifyRecord
    BY <2>1, ChainRecordType DEF TypeInv
  <2>3. VerifySound(r)
    <3>1. /\ entries[s] \in Seq(EntryIds) /\ IsPrefix(entries[s], log)
          /\ Len(entries[s]) <= Len(log) /\ log # <<>> /\ Len(log) \in Nat /\ Len(entries[s]) \in Nat
      BY <1>1, <1>4, <1>5, <2>1, PrefixFacts, LenProperties
    <3>2. FirstHash(log) \in 1..(next - 1)
      <4>1. FirstHash(log) < next /\ next \in Nat
        BY Numbers DEF TypeInv, TypeOK, Bookkeeping
      <4> QED
        BY <1>5, <3>1, <4>1, FirstOf, Numbers
    <3>3. Before(config[s].last_verify) <= Len(log)
      <4> DEFINE v == config[s].last_verify
      <4>1. v # None => v.first_hash \in 1..(next - 1) /\ (v.first_hash = FirstHash(log) => v.high_water <= Len(log))
        BY <1>4 DEF Sound, VerifySound
      <4> HIDE DEF v
      <4>2. Before(v) <= Len(log)
        BY <3>1, <4>1, Numbers DEF Before
      <4> QED
        BY <4>2 DEF v
    <3>4. HighWater(s) <= Len(log)
      BY <3>1, <3>3, MarkKept DEF TypeInv
    <3> QED
      BY <3>1, <3>2, <3>4 DEF VerifySound, ChainRecord
  <2> HIDE DEF r
  <2>4. /\ config'[s].last_verify = r /\ config'[s].last_witness = config[s].last_witness
        /\ saving'[s].data = config'[s]
        /\ \A t \in Shells \ {s} : config'[t] = config[t] /\ saving'[t] = saving[t]
    <3>1. /\ config'[s].last_verify = r /\ config'[s].last_witness = config[s].last_witness
          /\ saving'[s] = [by |-> "menu", data |-> config'[s]]
          /\ \A t \in Shells \ {s} : config'[t] = config[t] /\ saving'[t] = saving[t]
      BY <1>0, <2>1, <2>2, NewVerify
    <3> QED
      BY <3>1
  <2>5. Sound(config'[s])
    BY <1>4, <2>3, <2>4 DEF Sound
  <2> QED
    BY <1>14, <1>15, <2>1, <2>4, <2>5
<1>17. CASE RecordWitnessCheck(s)
  <2>1. /\ checkpoint # <<>> /\ UNCHANGED <<file, temp, writing>>
        /\ entries' = [entries EXCEPT ![s] = <<>>]
    BY <1>17 DEF RecordWitnessCheck, Forget, disk, TypeInv, Bookkeeping
  <2>2. PICK quorum \in BOOLEAN : Remember(s, "last_witness", WitnessCheck(s, quorum), "menu")
    BY <1>17 DEF RecordWitnessCheck, WitnessCheck
  <2> DEFINE r == WitnessCheck(s, quorum)
  <2>3. r \in WitnessRecord
    BY <2>1, WitnessCheckType DEF TypeInv
  <2>4. WitnessSound(r)
    <3> SUFFICES ASSUME r.ok PROVE WitnessSound(r)
      BY DEF WitnessSound
    <3>1. IsPrefix(checkpoint, entries[s]) /\ checkpoint \in Seq(EntryIds)
      BY DEF WitnessCheck, TypeInv, TypeOK
    <3>2. entries[s] # <<>> /\ log # <<>> /\ FirstHash(entries[s]) = FirstHash(log) /\ IsPrefix(checkpoint, log)
      <4>1. entries[s] # <<>>
        BY <1>1, <1>5, <2>1, <3>1, PrefixFacts
      <4>2. log # <<>> /\ FirstHash(entries[s]) = FirstHash(log)
        BY <1>1, <1>4, <1>5, <4>1, PrefixFacts
      <4>3. IsPrefix(checkpoint, log)
        BY <1>1, <1>4, <1>5, <3>1, PrefixFacts
      <4> QED
        BY <4>1, <4>2, <4>3
    <3>3. FirstHash(log) \in 1..(next - 1)
      <4>1. FirstHash(log) < next /\ next \in Nat
        BY Numbers DEF TypeInv, TypeOK, Bookkeeping
      <4> QED
        BY <1>5, <3>2, <4>1, FirstOf, Numbers
    <3> QED
      BY <3>2, <3>3 DEF WitnessSound, WitnessCheck
  <2> HIDE DEF r
  <2>5. /\ config'[s].last_witness = r /\ config'[s].last_verify = config[s].last_verify
        /\ saving'[s].data = config'[s]
        /\ \A t \in Shells \ {s} : config'[t] = config[t] /\ saving'[t] = saving[t]
    <3>1. /\ config'[s].last_witness = r /\ config'[s].last_verify = config[s].last_verify
          /\ saving'[s] = [by |-> "menu", data |-> config'[s]]
          /\ \A t \in Shells \ {s} : config'[t] = config[t] /\ saving'[t] = saving[t]
      BY <1>0, <2>2, <2>3, NewWitness DEF r
    <3> QED
      BY <3>1
  <2>6. Sound(config'[s])
    BY <1>4, <2>4, <2>5 DEF Sound
  <2> QED
    BY <1>14, <1>15, <2>1, <2>5, <2>6
<1>18. CASE RecordEvidenceCheck(s)
  <2> DEFINE r == config[s].last_verify
  <2>1. Remember(s, "last_verify", r, "worker") /\ UNCHANGED <<file, temp, writing, entries>>
    BY <1>18 DEF RecordEvidenceCheck, disk
  <2>2. r \in VerifyRecord \cup {None}
    BY <1>1, Contents
  <2>3. /\ config'[s].last_verify = r /\ config'[s].last_witness = config[s].last_witness
        /\ saving'[s].data = config'[s]
        /\ \A t \in Shells \ {s} : config'[t] = config[t] /\ saving'[t] = saving[t]
    <3>1. /\ config'[s].last_verify = r /\ config'[s].last_witness = config[s].last_witness
          /\ saving'[s] = [by |-> "worker", data |-> config'[s]]
          /\ \A t \in Shells \ {s} : config'[t] = config[t] /\ saving'[t] = saving[t]
      BY <1>0, <2>1, <2>2, NewVerify
    <3> QED
      BY <3>1
  <2>4. Sound(config'[s])
    BY <1>4, <2>3 DEF Sound
  <2> QED
    BY <1>4, <1>14, <2>1, <2>3, <2>4
<1> QED
  BY <1>6, <1>7, <1>8, <1>10, <1>11, <1>12, <1>13, <1>16, <1>17, <1>18 DEF Shell

\* What the header says follows from the soundness of what it is made of.
LEMMA HeaderFollows == TypeInv /\ CopiesAreSound => HeaderIsHonest /\ NoFalseAlarm
<1> SUFFICES ASSUME TypeInv, CopiesAreSound PROVE HeaderIsHonest /\ NoFalseAlarm
  OBVIOUS
<1>1. /\ log \in Seq(EntryIds) /\ Len(log) \in Nat
      /\ log # <<>> => FirstHash(log) \in EntryIds
      /\ log = <<>> => FirstHash(log) = NoHash
  <2>1. log \in Seq(EntryIds)
    BY DEF TypeInv, TypeOK
  <2> QED
    BY <2>1, FirstOf
<1>2. ASSUME NEW s \in Shells, ~cut
      PROVE  /\ config[s].last_verify \in VerifyRecord \cup {None} /\ VerifySound(config[s].last_verify)
             /\ config[s].last_witness \in WitnessRecord \cup {None} /\ WitnessSound(config[s].last_witness)
  BY <1>2, Contents DEF TypeInv, TypeOK, CopiesAreSound, Sound
<1>3. ASSUME NEW v \in VerifyRecord, VerifySound(v), v # None
      PROVE  /\ v.first_hash \in Nat /\ v.first_hash # NoHash
             /\ v.events \in Nat /\ v.high_water \in Nat /\ v.saw \in Seq(EntryIds)
             /\ v.events = Len(v.saw)
             /\ v.first_hash = FirstHash(log) => v.high_water <= Len(log) /\ IsPrefix(v.saw, log)
             /\ ~restarted => v.first_hash = FirstHash(log)
  BY <1>3, Numbers DEF VerifyRecord, VerifySound
<1>4. ASSUME NEW w \in WitnessRecord, WitnessSound(w), w # None, w.ok
      PROVE  /\ w.first_hash # NoHash
             /\ w.size \in Nat /\ w.saw \in Seq(EntryIds) /\ w.size = Len(w.saw)
             /\ w.first_hash = FirstHash(log) => IsPrefix(w.saw, log)
             /\ ~restarted => w.first_hash = FirstHash(log)
  BY <1>4, Numbers DEF WitnessRecord, WitnessSound
<1>5. ASSUME NEW s \in Shells, ~cut, ~restarted
      PROVE  /\ ChainState(s) = "clean" => config[s].last_verify.saw = log
             /\ ChainState(s) = "stale" => IsPrefix(config[s].last_verify.saw, log)
             /\ WitnessState(s) = "all" => config[s].last_witness.saw = log
             /\ WitnessState(s) # "missing"
  <2> DEFINE v == config[s].last_verify
             w == config[s].last_witness
  <2>1. /\ v # None => v \in VerifyRecord /\ VerifySound(v)
        /\ w # None => w \in WitnessRecord /\ WitnessSound(w)
    BY <1>2, <1>5
  <2>2. ASSUME v # None PROVE IsPrefix(v.saw, log) /\ v.saw \in Seq(EntryIds) /\ v.events = Len(v.saw)
    BY <1>3, <1>5, <2>1, <2>2
  <2>3. ASSUME w # None, w.ok PROVE IsPrefix(w.saw, log) /\ w.saw \in Seq(EntryIds) /\ w.size = Len(w.saw)
    BY <1>4, <1>5, <2>1, <2>3
  <2>4. ASSUME ChainState(s) \in {"clean", "stale"} PROVE v # None
    BY <2>4 DEF ChainState
  <2>5. ASSUME ChainState(s) = "clean" PROVE Len(log) <= v.events
    <3>1. v # None /\ ~AnyNew(v)
      BY <2>5 DEF ChainState
    <3>2. v.events \in Nat
      BY <1>3, <2>1, <3>1
    <3> QED
      BY <1>1, <3>1, <3>2 DEF AnyNew
  <2>6. ASSUME WitnessState(s) \in {"all", "missing"}
        PROVE  /\ w # None /\ w.ok /\ w.size \in Nat
               /\ WitnessState(s) = "all" => Len(log) = w.size
               /\ WitnessState(s) = "missing" => Len(log) < w.size
    <3>1. w # None /\ w.ok
      BY <2>6 DEF WitnessState
    <3>2. w.size \in Nat
      BY <1>4, <2>1, <3>1
    <3>3. WitnessState(s) = "all" => Len(log) = w.size
      BY <1>1, <3>2 DEF WitnessState
    <3>4. WitnessState(s) = "missing" => Len(log) < w.size
      BY <1>1, <3>2 DEF WitnessState
    <3> QED
      BY <3>1, <3>2, <3>3, <3>4
  <2>7. ASSUME ChainState(s) = "clean" PROVE v.saw = log
    BY <1>1, <2>2, <2>4, <2>5, <2>7, PrefixFacts
  <2>8. ASSUME ChainState(s) = "stale" PROVE IsPrefix(v.saw, log)
    BY <2>2, <2>4, <2>8
  <2>9. ASSUME WitnessState(s) = "all" PROVE w.saw = log
    BY <1>1, <2>3, <2>6, <2>9, PrefixFacts
  <2>10. WitnessState(s) # "missing"
    <3> SUFFICES ASSUME WitnessState(s) = "missing" PROVE FALSE
      OBVIOUS
    <3>1. Len(log) < w.size /\ IsPrefix(w.saw, log) /\ w.saw \in Seq(EntryIds) /\ w.size = Len(w.saw)
      BY <2>3, <2>6
    <3>2. Len(w.saw) <= Len(log)
      BY <1>1, <3>1, PrefixFacts
    <3> QED
      BY <1>1, <2>6, <3>1, <3>2
  <2> QED
    BY <2>7, <2>8, <2>9, <2>10
<1>6. ASSUME NEW s \in Shells, ~cut, log # <<>>
      PROVE  ChainState(s) # "shortened" /\ WitnessState(s) # "missing"
  <2> DEFINE v == config[s].last_verify
             w == config[s].last_witness
  <2>1. /\ v # None => v \in VerifyRecord /\ VerifySound(v)
        /\ w # None => w \in WitnessRecord /\ WitnessSound(w)
    BY <1>2, <1>6
  <2>2. ChainState(s) # "shortened"
    <3> SUFFICES ASSUME ChainState(s) = "shortened" PROVE FALSE
      OBVIOUS
    <3>1. v # None /\ Removed(v) > 0
      BY DEF ChainState
    <3>2. /\ v.first_hash # NoHash /\ v.high_water \in Nat
          /\ v.first_hash = FirstHash(log) => v.high_water <= Len(log)
      BY <1>3, <2>1, <3>1
    <3> HIDE DEF v
    <3>3. Removed(v) = 0
      <4>1. CASE v.first_hash = FirstHash(log)
        BY <1>1, <3>2, <4>1 DEF Removed
      <4>2. CASE v.first_hash # FirstHash(log)
        BY <1>6, <3>2, <4>2 DEF Removed
      <4> QED
        BY <4>1, <4>2
    <3> QED
      BY <3>1, <3>3
  <2>3. WitnessState(s) # "missing"
    <3> SUFFICES ASSUME WitnessState(s) = "missing" PROVE FALSE
      OBVIOUS
    <3>1. /\ w # None /\ w.ok /\ Len(log) < w.size
          /\ ~(w.first_hash # NoHash /\ log # <<>> /\ w.first_hash # FirstHash(log))
      BY DEF WitnessState
    <3>2. /\ w.saw \in Seq(EntryIds) /\ w.size = Len(w.saw) /\ w.size \in Nat
          /\ w.first_hash # NoHash
          /\ w.first_hash = FirstHash(log) => IsPrefix(w.saw, log)
      BY <1>4, <2>1, <3>1
    <3>3. IsPrefix(w.saw, log)
      BY <1>6, <3>1, <3>2
    <3>4. Len(w.saw) <= Len(log)
      BY <1>1, <3>2, <3>3, PrefixFacts
    <3> QED
      BY <1>1, <3>1, <3>2, <3>4
  <2> QED
    BY <2>2, <2>3
<1>7. HeaderIsHonest
  BY <1>5 DEF HeaderIsHonest
<1>8. NoFalseAlarm
  BY <1>6 DEF NoFalseAlarm
<1> QED
  BY <1>7, <1>8

LEMMA InductiveInit == Init => Inductive
<1>1. Init => OnlyItsTroubles /\ CopiesAreSound
  <2> SUFFICES ASSUME Init PROVE OnlyItsTroubles /\ CopiesAreSound
    OBVIOUS
  <2>1. <<>> \in Seq(EntryIds) /\ IsPrefix(<<>>, <<>>) /\ Sound(Nothing)
    BY EmptySeq, PrefixFacts, Contents DEF Sound, VerifySound, WitnessSound
  <2> QED
    BY <2>1, NoneAssumption DEF Init, OnlyItsTroubles, CopiesAreSound
<1> QED
  BY <1>1, TypeInit DEF Inductive

LEMMA InductiveStep ==
    ASSUME OneTrouble, Inductive, [Next]_vars
    PROVE  Inductive'
<1>1. TypeInv'
  BY TypeStep DEF Inductive
<1>2. CASE UNCHANGED vars
  <2>1. OnlyItsTroubles'
    BY <1>2 DEF Inductive, OnlyItsTroubles, vars, world, limits
  <2>2. \A c : Sound(c)' <=> Sound(c)
    BY <1>2, SoundStays DEF vars
  <2>3. CopiesAreSound'
    BY <1>2, <2>2 DEF Inductive, CopiesAreSound, vars, world, disk, shell
  <2> QED
    BY <1>1, <2>1, <2>3 DEF Inductive
<1>3. ASSUME NEW s \in Shells, Shell(s) PROVE Inductive'
  <2>1. UNCHANGED <<world, troubles>>
    BY <1>3, WorldStays DEF limits
  <2>2. OnlyItsTroubles'
    BY <2>1 DEF Inductive, OnlyItsTroubles, world
  <2> QED
    BY <1>1, <1>3, <2>2, SoundShell DEF Inductive
<1>4. ASSUME World, UNCHANGED <<checkpoint, limits, disk, shell>> PROVE Inductive'
  <2>1. OnlyItsTroubles'
    BY <1>4 DEF Inductive, OnlyItsTroubles, World, LogEvent, AddEvidence, CutShort, EditEntry, StartOver, limits
  <2>2. CopiesAreSound'
    <3> SUFFICES ASSUME ~cut' PROVE CopiesAreSound'
      BY DEF CopiesAreSound
    <3>1. ~cut
      <4>1. CASE StartOver
        BY <4>1 DEF StartOver, OneTrouble, Inductive, OnlyItsTroubles, TypeInv, TypeOK
      <4>2. CASE ~StartOver
        BY <1>4, <4>2 DEF World, LogEvent, AddEvidence, CutShort, EditEntry
      <4> QED
        BY <4>1, <4>2
    <3>2. \A c \in Content : Sound(c) => Sound(c)'
      BY <1>4, <3>1, SoundWorld DEF Inductive
    <3>3. UNCHANGED <<file, temp, config, entries, saving, writing>>
      BY <1>4 DEF disk, shell
    <3>4. /\ file \in Content => Sound(file)
          /\ temp \in Content => Sound(temp)
          /\ \A t \in Shells : /\ config[t] \in Content /\ Sound(config[t])
                               /\ saving[t] # None => saving[t].data \in Content /\ Sound(saving[t].data)
                               /\ writing[t] # None => writing[t].data \in Content /\ Sound(writing[t].data)
      <4>1. TypeOK /\ CopiesAreSound
        BY DEF Inductive, TypeInv
      <4>2. /\ config \in [Shells -> Content]
            /\ saving \in [Shells -> Saves \cup {None}]
            /\ writing \in [Shells -> Writes \cup {None}]
        BY <4>1 DEF TypeOK
      <4> QED
        BY <3>1, <4>1, <4>2 DEF CopiesAreSound
    <3>5. \A t \in Shells : IsPrefix(entries[t], log')
      <4> TAKE t \in Shells
      <4>1. /\ log \in Seq(EntryIds) /\ entries[t] \in Seq(EntryIds)
            /\ IsPrefix(entries[t], log) /\ (entries[t] # <<>> => pc[t] = "loaded")
        BY <3>1 DEF Inductive, TypeInv, TypeOK, Bookkeeping, CopiesAreSound
      <4>2. CASE LogEvent
        <5>1. next \in EntryIds /\ log' = Append(log, next)
          BY <4>2, Numbers DEF LogEvent, Inductive, TypeInv, TypeOK
        <5>2. Append(log, next) \in Seq(EntryIds) /\ IsPrefix(log, Append(log, next))
          BY <4>1, <5>1, LogGrows
        <5>3. IsPrefix(entries[t], Append(log, next))
          BY <4>1, <5>2, PrefixFacts
        <5> QED
          BY <5>1, <5>3
      <4>3. CASE StartOver
        <5>1. log' = <<>> /\ entries[t] = <<>>
          BY <4>1, <4>3 DEF StartOver, OneTrouble
        <5>2. IsPrefix(<<>>, <<>>)
          BY EmptySeq, PrefixFacts
        <5> QED
          BY <5>1, <5>2
      <4>4. CASE AddEvidence \/ EditEntry
        BY <4>1, <4>4 DEF AddEvidence, EditEntry
      <4> QED
        BY <1>4, <4>2, <4>3, <4>4 DEF World, CutShort
    <3> QED
      BY <3>2, <3>3, <3>4, <3>5 DEF CopiesAreSound
  <2> QED
    BY <1>1, <2>1, <2>2 DEF Inductive
<1> QED
  BY <1>2, <1>3, <1>4 DEF Next

\* For any number of shells that share the file, and however their checks,
\* saves and crashes interleave with each other and with the log's growth: in
\* a log that meets at most one trouble, CLEAN means exactly the entries a
\* check found sound, and no header raises an alarm without a cause.
THEOREM RecordsInvariant ==
    ASSUME OneTrouble
    PROVE  Spec => []RecordsInv
<1>1. Init => Inductive
  BY InductiveInit
<1>2. Inductive /\ [Next]_vars => Inductive'
  BY InductiveStep
<1>3. Inductive => RecordsInv
  BY HeaderFollows DEF Inductive, TypeInv, RecordsInv
<1> QED
  BY <1>1, <1>2, <1>3, PTL DEF Spec

-------------------------------------------------------------------------------
(* THEOREM CutAlwaysSeen                                                       *)

\* Whatever the log went through: a check of what is left of a shortened log
\* keeps the mark it was shortened against, and so the header keeps saying so.
THEOREM CutAlwaysSeen == Spec => CutStaysSeen
<1> DEFINE Kept == \A s \in Shells :
                     Running(s) /\ Running(s)' /\ Shortened(s) /\ UNCHANGED world => Shortened(s)'
<1>1. ASSUME TypeInv, [Next]_vars PROVE Kept
  <2> SUFFICES ASSUME NEW s \in Shells, Running(s), Running(s)', Shortened(s), UNCHANGED world
               PROVE  Shortened(s)'
    OBVIOUS
  <2>1. /\ \A r : Removed(r)' = Removed(r)
        /\ log' = log
    BY DEF Removed, FirstHash, world
  <2>2. config[s].last_verify # None /\ Removed(config[s].last_verify) > 0
    BY DEF Shortened
  <2>3. ASSUME config'[s].last_verify = config[s].last_verify PROVE Shortened(s)'
    BY <2>1, <2>2, <2>3 DEF Shortened
  <2>4. TypeOK /\ Bookkeeping /\ config \in [Shells -> Content] /\ config[s] \in Content
    BY <1>1 DEF TypeInv, TypeOK
  <2>5. ASSUME NEW t \in Shells, Shell(t), config' # config PROVE Shortened(s)'
    <3>1. CASE Start(t) \/ Stop(t)
      <4>1. pc \in [Shells -> {"off", "menu", "loaded", "saving", "writing"}]
        BY <2>4 DEF TypeOK
      <4>2. pc[s] # "off" /\ pc'[s] # "off"
        BY DEF Running
      <4>3. t # s
        BY <3>1, <4>1, <4>2 DEF Start, Stop, Running
      <4> QED
        BY <2>3, <2>4, <3>1, <4>3 DEF Start, Stop
    <3>2. CASE RecordChainCheck(t)
      <4> DEFINE r == ChainRecord(t)
      <4>1. entries[t] # <<>> /\ Remember(t, "last_verify", r, "menu")
        BY <3>2 DEF RecordChainCheck, ChainRecord
      <4>2. r \in VerifyRecord
        BY <2>4, <4>1, ChainRecordType
      <4>3. config'[t].last_verify = r /\ \A u \in Shells \ {t} : config'[u] = config[u]
        BY <2>4, <4>1, <4>2, NewVerify
      <4>4. CASE s # t
        BY <2>3, <4>3, <4>4
      <4>5. CASE s = t
        <5> DEFINE v == config[s].last_verify
        <5>1. v \in VerifyRecord /\ v # None
          BY <2>2, <2>4, Contents
        <5>2. v.high_water \in Nat /\ v.first_hash \in Nat /\ Len(log) \in Nat
          <6>1. log \in Seq(EntryIds)
            BY <2>4 DEF TypeOK
          <6> QED
            BY <5>1, <6>1, Numbers, LenProperties DEF VerifyRecord
        <5> HIDE DEF v
        <5>3. /\ ~(v.first_hash # NoHash /\ log # <<>> /\ v.first_hash # FirstHash(log))
              /\ ~(log = <<>> /\ evidence = 0) /\ ~(v.high_water < Len(log))
              /\ v.high_water - Len(log) > 0
          BY <2>2 DEF Removed, v
        <5>4. Before(v) = v.high_water
          BY <5>1, <5>3 DEF Before
        <5>5. r.high_water \in Nat /\ r.high_water >= v.high_water
              /\ r.first_hash = FirstHash(log)
          <6>1. HighWater(s) >= Before(config[s].last_verify) /\ HighWater(s) \in 0..MaxEntries
            BY <2>4, MarkKept
          <6> QED
            BY <4>5, <5>4, <6>1, Numbers DEF ChainRecord, v
        <5> HIDE DEF r
        <5>6. Removed(r) > 0
          BY <5>2, <5>3, <5>5 DEF Removed
        <5> QED
          BY <2>1, <4>2, <4>3, <4>5, <5>6, NoneAssumption DEF Shortened
      <4> QED
        BY <4>4, <4>5
    <3>3. CASE RecordWitnessCheck(t)
      <4>1. PICK quorum \in BOOLEAN : Remember(t, "last_witness", WitnessCheck(t, quorum), "menu")
        BY <3>3 DEF RecordWitnessCheck, WitnessCheck
      <4>2. WitnessCheck(t, quorum) \in WitnessRecord
        BY <2>4, <3>3, WitnessCheckType DEF RecordWitnessCheck, Bookkeeping
      <4>3. /\ config'[t].last_verify = config[t].last_verify
            /\ \A u \in Shells \ {t} : config'[u] = config[u]
        BY <2>4, <4>1, <4>2, NewWitness
      <4> QED
        BY <2>3, <4>3
    <3>4. CASE RecordEvidenceCheck(t)
      <4>1. Remember(t, "last_verify", config[t].last_verify, "worker")
        BY <3>4 DEF RecordEvidenceCheck
      <4>2. config[t].last_verify \in VerifyRecord \cup {None}
        BY <2>4, Contents
      <4>3. /\ config'[t].last_verify = config[t].last_verify
            /\ \A u \in Shells \ {t} : config'[u] = config[u]
        BY <2>4, <4>1, <4>2, NewVerify
      <4> QED
        BY <2>3, <4>3
    <3> QED
      BY <2>5, <3>1, <3>2, <3>3, <3>4
      DEF Shell, EnsureKeys, WriteCheckpoint, WriteFile, LoadEntries, NotRecorded,
          OpenTemp, WriteTemp, Replace, SaveFails
  <2>6. CASE config' = config
    BY <2>3, <2>6
  <2>7. CASE config' # config
    BY <1>1, <2>5, <2>7 DEF Next, vars, shell
  <2> QED
    BY <2>6, <2>7
<1>2. Spec => []TypeInv
  BY TypeInit, TypeStep, PTL DEF Spec
<1>3. ASSUME TypeInv, [Next]_vars PROVE [Kept]_vars
  BY <1>1, <1>3
<1> QED
  BY <1>2, <1>3, PTL DEF Spec, CutStaysSeen

-------------------------------------------------------------------------------
(* THEOREM RememberedAlwaysStays                                               *)

\* A shell's record does not fall behind the file's: of the log that the file's
\* record names, if that is the log there is or the shell's is of it too, the mark
\* is no lower.
Follows(mine, theirs) ==
    theirs # None =>
        /\ mine # None
        /\ theirs.first_hash # NoHash /\ theirs.first_hash \in {mine.first_hash, FirstHash(log)} =>
             mine.first_hash = theirs.first_hash /\ mine.high_water >= theirs.high_water

\* No record names a log that is still to begin.
Numbered(record) == record # None => record.first_hash < next

\* A snapshot on its way to the file is the shell's copy, as far as the mark goes.
SavesAreCopies(s) ==
    /\ saving[s] # None => Running(s) /\ saving[s].data = config[s]
    /\ writing[s] # None => writing[s].data.last_verify = config[s].last_verify
    /\ Numbered(config[s].last_verify)

\* Who is not behind follows what the file last had.
FileFollowed ==
    /\ \A s \in Shells : SavesAreCopies(s)
    /\ Numbered(kept)
    /\ file \in Content => file.last_verify = kept
    /\ temp \in Content => Numbered(temp.last_verify)
    /\ \A s \in Shells \ behind : Running(s) => Follows(config[s].last_verify, kept)

\* A log that begins begins with a number no record has.
LEMMA FirstHashMoves ==
    ASSUME TypeInv, [Next]_vars
    PROVE  FirstHash(log') \in {FirstHash(log), NoHash, next} /\ next' >= next /\ next \in Nat
<1>1. log \in Seq(EntryIds) /\ next \in Nat
  BY Numbers DEF TypeInv, TypeOK
<1>2. CASE LogEvent
  <2>1. next \in EntryIds /\ log' = Append(log, next) /\ next' = next + 1
    BY <1>2, Numbers DEF LogEvent, TypeInv, TypeOK
  <2>2. log # <<>> => FirstHash(Append(log, next)) = FirstHash(log)
    BY <1>1, <2>1, LogGrows
  <2>3. log = <<>> => FirstHash(Append(log, next)) = next
    BY DEF FirstHash
  <2> QED
    BY <1>1, <2>1, <2>2, <2>3
<1>3. CASE CutShort
  <2>1. PICK n \in 0..(Len(log) - 1) : log' = SubSeq(log, 1, n)
    BY <1>3 DEF CutShort
  <2> QED
    BY <1>1, <1>3, <2>1, LogIsCut DEF CutShort
<1>4. CASE StartOver
  BY <1>1, <1>4 DEF StartOver, FirstHash
<1>5. CASE UNCHANGED <<log, next>>
  BY <1>1, <1>5
<1> QED
  BY <1>2, <1>3, <1>4, <1>5, WorldStays DEF Next, World, AddEvidence, EditEntry, vars, world

LEMMA FollowsOn ==
    ASSUME TypeInv, [Next]_vars, NEW mine \in VerifyRecord \cup {None},
           NEW theirs \in VerifyRecord \cup {None}
    PROVE  /\ Numbered(theirs) => Numbered(theirs)'
           /\ Numbered(theirs) /\ Follows(mine, theirs) => Follows(mine, theirs)'
<1>1. /\ FirstHash(log') \in {FirstHash(log), NoHash, next} /\ next' >= next /\ next \in Nat
      /\ next' \in Nat
  <2>1. next' \in Nat
    BY TypeStep, Numbers DEF TypeInv, TypeOK
  <2> QED
    BY <2>1, FirstHashMoves
<1>2. FirstHash(log)' = FirstHash(log')
  BY DEF FirstHash
<1>3. theirs # None => theirs.first_hash \in Nat
  BY Numbers DEF VerifyRecord
<1> QED
  BY <1>1, <1>2, <1>3 DEF Numbered, Follows

\* Everything has its type, and every copy is of a file's contents.
LEMMA CopyTypes ==
    ASSUME TypeInv
    PROVE  /\ file \in Content \cup Unreadable /\ temp \in Content \cup Unreadable \cup {None}
           /\ Empty \notin Content /\ Torn \notin Content /\ None \notin Content /\ None \notin Unreadable
           /\ Unreadable = {Empty, Torn}
           /\ kept \in VerifyRecord \cup {None}
           /\ \A c \in Content : c.last_verify \in VerifyRecord \cup {None}
           /\ \A s \in Shells :
                /\ config[s] \in Content /\ config[s].last_verify \in VerifyRecord \cup {None}
                /\ saving[s] \in Saves \cup {None} /\ writing[s] \in Writes \cup {None}
BY Contents, NoneAssumption DEF TypeInv, TypeOK, Unreadable

\* A step that leaves the records alone.
LEMMA FollowedStays ==
    ASSUME TypeInv, [Next]_vars, FileFollowed, UNCHANGED <<file, temp, kept, behind, config, saving, writing>>,
           \A s \in Shells : Running(s)' <=> Running(s)
    PROVE  FileFollowed'
<1>1. ASSUME NEW s \in Shells PROVE SavesAreCopies(s)'
  BY CopyTypes, FollowsOn DEF FileFollowed, SavesAreCopies
<1>2. Numbered(kept)' /\ (temp \in Content => Numbered(temp.last_verify)')
  BY CopyTypes, FollowsOn DEF FileFollowed, Numbered
<1>3. ASSUME NEW s \in Shells \ behind', Running(s)'
      PROVE  Follows(config[s].last_verify, kept)'
  <2>1. Follows(config[s].last_verify, kept)
    BY <1>3 DEF FileFollowed
  <2> QED
    BY <2>1, CopyTypes, FollowsOn DEF Follows, FileFollowed
<1> QED
  BY <1>1, <1>2, <1>3 DEF FileFollowed

\* A shell's step, for the shells that are not behind after it.
LEMMA FollowedAgain ==
    ASSUME \A s \in Shells : SavesAreCopies(s)',
           Numbered(kept'), file' \in Content => file'.last_verify = kept',
           temp' \in Content => Numbered(temp'.last_verify),
           \A s \in Shells \ behind' : Running(s)' => Follows(config'[s].last_verify, kept'),
           UNCHANGED <<log, next>>
    PROVE  FileFollowed'
BY DEF FileFollowed, Follows, Numbered, FirstHash

LEMMA FollowsSelf ==
    ASSUME NEW mine \in VerifyRecord \cup {None}
    PROVE  Follows(mine, mine)
BY Numbers DEF Follows, VerifyRecord

\* A new record of a check of the chain keeps the mark of the log there is.
LEMMA NewRecordFollows ==
    ASSUME TypeInv, NEW s \in Shells, NEW theirs \in VerifyRecord \cup {None},
           ChainRecord(s) \in VerifyRecord, Follows(config[s].last_verify, theirs)
    PROVE  Follows(ChainRecord(s), theirs)
<1> DEFINE v == config[s].last_verify
           r == ChainRecord(s)
<1>1. /\ r.first_hash = FirstHash(log) /\ r.high_water = HighWater(s)
      /\ HighWater(s) \in Nat /\ HighWater(s) >= Before(v)
  BY MarkKept, Numbers DEF ChainRecord, TypeInv
<1>2. r # None
  BY NoneAssumption
<1>3. /\ v \in VerifyRecord \cup {None}
      /\ v \in VerifyRecord => v.high_water \in Nat
  BY CopyTypes, Numbers DEF VerifyRecord
<1> HIDE DEF r, v
<1>4. ASSUME theirs # None, theirs.first_hash # NoHash, theirs.first_hash = FirstHash(log)
      PROVE  r.high_water >= theirs.high_water
  <2>1. v # None /\ v.first_hash = theirs.first_hash /\ v.high_water >= theirs.high_water
    BY <1>4 DEF Follows, v
  <2>2. Before(v) = v.high_water
    BY <1>4, <2>1 DEF Before
  <2>3. theirs.high_water \in Nat /\ v.high_water \in Nat
    BY <1>3, <1>4, <2>1, Numbers DEF VerifyRecord
  <2> QED
    BY <1>1, <2>1, <2>2, <2>3
<1>5. Follows(r, theirs)
  BY <1>1, <1>2, <1>4 DEF Follows
<1> QED
  BY <1>5 DEF r

\* A record is set in a shell's copy, and the copy is on its way to the file.
LEMMA FollowedRemembers ==
    ASSUME TypeInv, FileFollowed, NEW s \in Shells, Running(s), Running(s)',
           saving[s] = None, saving'[s] # None => saving'[s].data = config'[s],
           \A t \in Shells \ {s} : config'[t] = config[t] /\ saving'[t] = saving[t],
           \A t \in Shells \ {s} : Running(t)' <=> Running(t),
           UNCHANGED <<log, next, disk, writing>>,
           Numbered(config'[s].last_verify),
           config'[s].last_verify = config[s].last_verify \/ writing[s] = None,
           \A theirs \in VerifyRecord \cup {None} :
             Follows(config[s].last_verify, theirs) => Follows(config'[s].last_verify, theirs)
    PROVE  FileFollowed'
<1>1. ASSUME NEW t \in Shells PROVE SavesAreCopies(t)'
  <2>1. SavesAreCopies(t)
    BY DEF FileFollowed
  <2>2. CASE t = s
    BY <2>1, <2>2 DEF SavesAreCopies, Numbered
  <2>3. CASE t # s
    BY <2>1, <2>3 DEF SavesAreCopies, Numbered
  <2> QED
    BY <2>2, <2>3
<1>2. ASSUME NEW t \in Shells \ behind', Running(t)'
      PROVE  Follows(config'[t].last_verify, kept')
  <2>1. Follows(config[t].last_verify, kept) /\ kept' = kept
    BY <1>2 DEF FileFollowed, disk
  <2> QED
    BY <2>1, CopyTypes
<1> QED
  BY <1>1, <1>2, FollowedAgain DEF FileFollowed, disk

\* What the file's name leads to is a mark of its own, and who has another is behind.
LEMMA FollowedShows ==
    ASSUME TypeInv, TypeInv', FileFollowed, NEW contents, Shows(contents),
           contents \in Content => Numbered(contents.last_verify),
           contents \in Content \cup Unreadable,
           UNCHANGED <<log, next, config>>, temp' \in {temp, None},
           \A t \in Shells : /\ saving'[t] \in {saving[t], None}
                             /\ writing'[t] # None => /\ writing[t] # None
                                                      /\ writing'[t].data = writing[t].data,
           \A t \in Shells : Running(t)' <=> Running(t)
    PROVE  FileFollowed'
<1>1. ASSUME NEW t \in Shells PROVE SavesAreCopies(t)'
  <2>1. SavesAreCopies(t)
    BY DEF FileFollowed
  <2> QED
    BY <2>1 DEF SavesAreCopies, Numbered
<1>2. temp' \in Content => Numbered(temp'.last_verify)
  BY CopyTypes DEF FileFollowed
<1>3. CASE contents \in Unreadable
  <2>1. file' \notin Content /\ UNCHANGED <<kept, behind>>
    BY <1>3, CopyTypes DEF Shows
  <2> QED
    BY <1>1, <1>2, <2>1, FollowedAgain DEF FileFollowed
<1>4. CASE contents \notin Unreadable
  <2>1. /\ file' = contents /\ kept' = contents.last_verify /\ Numbered(kept')
        /\ behind' = {t \in Shells : Running(t) /\ config[t].last_verify # kept'}
    BY <1>4 DEF Shows
  <2>2. ASSUME NEW t \in Shells \ behind', Running(t)'
        PROVE  Follows(config'[t].last_verify, kept')
    <3>1. config'[t].last_verify = kept' /\ kept' \in VerifyRecord \cup {None}
      BY <2>1, <2>2, CopyTypes
    <3> QED
      BY <3>1, FollowsSelf
  <2> QED
    BY <1>1, <1>2, <2>1, <2>2, FollowedAgain
<1> QED
  BY <1>3, <1>4

\* A step that touches neither what the file last had nor any copy, and ends no
\* more than a save or a write.
LEMMA FollowedQuiet ==
    ASSUME FileFollowed,
           UNCHANGED <<log, next, kept, behind, config>>,
           file' \in Content => file' = file, temp' \in Content => Numbered(temp'.last_verify),
           \A t \in Shells : /\ saving'[t] \in {saving[t], None}
                             /\ writing'[t] # None =>
                                  writing'[t].data \in {config[t]} \cup
                                    (IF writing[t] # None THEN {writing[t].data} ELSE {}),
           \A t \in Shells : Running(t)' <=> Running(t)
    PROVE  FileFollowed'
<1>1. ASSUME NEW t \in Shells PROVE SavesAreCopies(t)'
  <2>1. SavesAreCopies(t)
    BY DEF FileFollowed
  <2> QED
    BY <2>1 DEF SavesAreCopies, Numbered
<1> QED
  BY <1>1, FollowedAgain DEF FileFollowed

LEMMA FollowedShell ==
    ASSUME TypeInv, TypeInv', [Next]_vars, FileFollowed, NEW s \in Shells, Shell(s)
    PROVE  FileFollowed'
<1>1. /\ config \in [Shells -> Content] /\ saving \in [Shells -> Saves \cup {None}]
      /\ writing \in [Shells -> Writes \cup {None}]
      /\ pc \in [Shells -> {"off", "menu", "loaded", "saving", "writing"}]
      /\ TypeOK /\ Bookkeeping
  BY DEF TypeInv, TypeOK
<1>2. SavesAreCopies(s) /\ config[s] \in Content /\ config[s].last_verify \in VerifyRecord \cup {None}
  BY CopyTypes DEF FileFollowed
<1>12. UNCHANGED <<log, next>>
  BY WorldStays DEF world
<1>3. CASE LoadEntries(s) \/ NotRecorded(s)
  <2>1. \A t \in Shells : Running(t)' <=> Running(t)
    BY <1>1, <1>3 DEF LoadEntries, NotRecorded, Running
  <2> QED
    BY <1>3, <2>1, FollowedStays DEF LoadEntries, NotRecorded, disk
<1>4. CASE Start(s)
  <2>1. /\ UNCHANGED <<file, temp, kept, saving, writing>>
        /\ behind' = IF config'[s].last_verify = kept THEN behind \ {s} ELSE behind \cup {s}
        /\ pc' = [pc EXCEPT ![s] = "menu"] /\ ~Running(s)
        /\ config' = [config EXCEPT ![s] = IF file \in Unreadable THEN Nothing ELSE file]
    BY <1>4 DEF Start
  <2>2. /\ \A t \in Shells \ {s} : config'[t] = config[t] /\ (Running(t)' <=> Running(t))
        /\ Running(s)' /\ config'[s] = IF file \in Unreadable THEN Nothing ELSE file
    BY <1>1, <2>1 DEF Running
  <2>3. writing[s] = None /\ saving[s] = None
    BY <1>1, <1>2, <2>1 DEF SavesAreCopies, Bookkeeping, Running
  <2>4. Numbered(config'[s].last_verify)
    BY <2>2, Contents, CopyTypes DEF FileFollowed, Numbered
  <2>5. ASSUME NEW t \in Shells PROVE SavesAreCopies(t)'
    <3>1. SavesAreCopies(t)
      BY DEF FileFollowed
    <3>2. CASE t = s
      BY <1>12, <2>1, <2>3, <2>4, <3>2 DEF SavesAreCopies, Numbered
    <3>3. CASE t # s
      BY <1>12, <2>1, <2>2, <3>1, <3>3 DEF SavesAreCopies, Numbered
    <3> QED
      BY <3>2, <3>3
  <2>6. ASSUME NEW t \in Shells \ behind', Running(t)'
        PROVE  Follows(config'[t].last_verify, kept')
    <3>1. CASE t = s
      <4>1. config'[s].last_verify = kept
        BY <2>1, <2>6, <3>1
      <4> QED
        BY <2>1, <3>1, <4>1, CopyTypes, FollowsSelf
    <3>2. CASE t # s
      BY <2>1, <2>2, <2>6, <3>2 DEF FileFollowed
    <3> QED
      BY <3>1, <3>2
  <2> QED
    BY <1>12, <2>1, <2>5, <2>6, FollowedAgain DEF FileFollowed
<1>5. CASE Stop(s)
  <2>1. /\ UNCHANGED <<file, kept>> /\ behind' = behind \ {s} /\ temp' \in {temp, Empty}
        /\ pc' = [pc EXCEPT ![s] = "off"] /\ config' = [config EXCEPT ![s] = Nothing]
        /\ saving' = [saving EXCEPT ![s] = None] /\ writing' = [writing EXCEPT ![s] = None]
    BY <1>5 DEF Stop
  <2>2. /\ \A t \in Shells \ {s} : /\ config'[t] = config[t] /\ (Running(t)' <=> Running(t))
                                   /\ saving'[t] = saving[t] /\ writing'[t] = writing[t]
        /\ ~Running(s)' /\ config'[s] = Nothing /\ saving'[s] = None /\ writing'[s] = None
    BY <1>1, <2>1 DEF Running
  <2>3. ASSUME NEW t \in Shells PROVE SavesAreCopies(t)'
    <3>1. SavesAreCopies(t)
      BY DEF FileFollowed
    <3>2. CASE t = s
      BY <2>2, <3>2, Contents DEF SavesAreCopies, Numbered
    <3>3. CASE t # s
      BY <1>12, <2>2, <3>1, <3>3 DEF SavesAreCopies, Numbered
    <3> QED
      BY <3>2, <3>3
  <2>4. ASSUME NEW t \in Shells \ behind', Running(t)'
        PROVE  Follows(config'[t].last_verify, kept')
    <3>1. t # s
      BY <2>2, <2>4
    <3> QED
      BY <2>1, <2>2, <2>4, <3>1 DEF FileFollowed
  <2>5. temp' \in Content => Numbered(temp'.last_verify)
    BY <2>1, CopyTypes DEF FileFollowed
  <2> QED
    BY <1>12, <2>1, <2>3, <2>4, <2>5, FollowedAgain DEF FileFollowed
<1>6. CASE EnsureKeys(s) \/ WriteCheckpoint(s)
  <2>1. /\ UNCHANGED <<temp, kept, behind, config, saving>> /\ file' = Empty /\ pc[s] = "menu"
        /\ writing' = [writing EXCEPT ![s] = [attached |-> TRUE, data |-> config[s]]]
        /\ pc' = [pc EXCEPT ![s] = "writing"]
    BY <1>6 DEF EnsureKeys, WriteCheckpoint, OpenFile
  <2>2. \A t \in Shells : Running(t)' <=> Running(t)
    BY <1>1, <2>1 DEF Running
  <2>3. file' \notin Content
    BY <2>1, CopyTypes
  <2>4. ASSUME NEW t \in Shells, writing'[t] # None
        PROVE  writing'[t].data \in {config[t]} \cup (IF writing[t] # None THEN {writing[t].data} ELSE {})
    <3>1. CASE t = s
      <4>1. writing'[t] = [attached |-> TRUE, data |-> config[s]]
        BY <1>1, <2>1, <3>1
      <4> QED
        BY <3>1, <4>1
    <3>2. CASE t # s
      BY <1>1, <2>1, <2>4, <3>2
    <3> QED
      BY <3>1, <3>2
  <2> QED
    BY <1>12, <2>1, <2>2, <2>3, <2>4, FollowedQuiet DEF FileFollowed
<1>7. CASE RecordChainCheck(s)
  <2>1. ChainRecord(s) \in VerifyRecord
    BY <1>1, <1>7, ChainRecordType DEF RecordChainCheck
  <2>2. Remember(s, "last_verify", ChainRecord(s), "menu")
    BY <1>7 DEF RecordChainCheck, ChainRecord
  <2>3. /\ config'[s].last_verify = ChainRecord(s)
        /\ saving'[s] = [by |-> "menu", data |-> config'[s]]
        /\ \A t \in Shells \ {s} : config'[t] = config[t] /\ saving'[t] = saving[t]
    BY <1>1, <2>1, <2>2, NewVerify
  <2>4. /\ pc[s] = "loaded" /\ pc' = [pc EXCEPT ![s] = "saving"] /\ saving[s] = None
        /\ UNCHANGED <<disk, writing>>
    BY <1>7 DEF RecordChainCheck, Remember
  <2>5. Running(s) /\ Running(s)' /\ \A t \in Shells \ {s} : Running(t)' <=> Running(t)
    BY <1>1, <2>4 DEF Running
  <2>6. saving'[s].data = config'[s]
    BY <2>3
  <2>7. Numbered(config'[s].last_verify)
    <3>1. ChainRecord(s).first_hash = FirstHash(log)
      BY DEF ChainRecord
    <3> QED
      BY <1>1, <2>3, <3>1 DEF Numbered, Bookkeeping
  <2>8. writing[s] = None
    BY <1>1, <2>4 DEF Bookkeeping
  <2>9. \A theirs \in VerifyRecord \cup {None} :
          Follows(config[s].last_verify, theirs) => Follows(config'[s].last_verify, theirs)
    BY <2>1, <2>3, NewRecordFollows
  <2> QED
    BY <1>12, <2>3, <2>4, <2>5, <2>6, <2>7, <2>8, <2>9, FollowedRemembers
<1>8. CASE RecordWitnessCheck(s) \/ RecordEvidenceCheck(s)
  <2>1. /\ config'[s].last_verify = config[s].last_verify
        /\ saving'[s] # None => saving'[s].data = config'[s]
        /\ \A t \in Shells \ {s} : config'[t] = config[t] /\ saving'[t] = saving[t]
    <3>1. CASE RecordWitnessCheck(s)
      <4>1. PICK quorum \in BOOLEAN : Remember(s, "last_witness", WitnessCheck(s, quorum), "menu")
        BY <3>1 DEF RecordWitnessCheck, WitnessCheck
      <4>2. WitnessCheck(s, quorum) \in WitnessRecord
        BY <1>1, <3>1, WitnessCheckType DEF RecordWitnessCheck, Bookkeeping
      <4>3. /\ config'[s].last_verify = config[s].last_verify
            /\ saving'[s] = [by |-> "menu", data |-> config'[s]]
            /\ \A t \in Shells \ {s} : config'[t] = config[t] /\ saving'[t] = saving[t]
        BY <1>1, <4>1, <4>2, NewWitness
      <4> QED
        BY <4>3
    <3>2. CASE RecordEvidenceCheck(s)
      <4>1. Remember(s, "last_verify", config[s].last_verify, "worker")
        BY <3>2 DEF RecordEvidenceCheck
      <4>2. /\ config'[s].last_verify = config[s].last_verify
            /\ saving'[s] = [by |-> "worker", data |-> config'[s]]
            /\ \A t \in Shells \ {s} : config'[t] = config[t] /\ saving'[t] = saving[t]
        BY <1>1, <1>2, <4>1, NewVerify
      <4> QED
        BY <4>2
    <3> QED
      BY <1>8, <3>1, <3>2
  <2>2. saving[s] = None /\ UNCHANGED <<disk, writing>>
    BY <1>8 DEF RecordWitnessCheck, RecordEvidenceCheck, Remember
  <2>3. Running(s) /\ Running(s)' /\ \A t \in Shells \ {s} : Running(t)' <=> Running(t)
    BY <1>1, <1>8 DEF RecordWitnessCheck, RecordEvidenceCheck, Running
  <2>4. Numbered(config'[s].last_verify)
    BY <1>2, <2>1 DEF SavesAreCopies
  <2> QED
    BY <1>12, <2>1, <2>2, <2>3, <2>4, FollowedRemembers
<1>9. ASSUME NEW contents \in {saving[s].data, Torn}, saving[s] # None
      PROVE  /\ contents \in Content \cup Unreadable
             /\ contents \in Content => Numbered(contents.last_verify)
  <2>1. contents \in {config[s], Torn} /\ Numbered(config[s].last_verify)
    BY <1>2, <1>9 DEF SavesAreCopies
  <2> QED
    BY <1>2, <2>1, CopyTypes
<1>13. CASE OpenTemp(s) \/ (WriteTemp(s) /\ step[s] # "file")
  <2>1. /\ UNCHANGED <<file, kept, behind, config, saving, writing, pc>>
        /\ \/ temp' \in {temp, Empty}
           \/ saving[s] # None /\ temp' \in {saving[s].data, Torn}
    BY <1>1, <1>13 DEF OpenTemp, WriteTemp, Over, disk, Bookkeeping
  <2>2. temp' \in Content => Numbered(temp'.last_verify)
    BY <1>2, <2>1, CopyTypes DEF FileFollowed, SavesAreCopies
  <2>3. \A t \in Shells : Running(t)' <=> Running(t)
    BY <2>1 DEF Running
  <2> QED
    BY <1>12, <2>1, <2>2, <2>3, FollowedQuiet
<1>14. CASE WriteTemp(s) /\ step[s] = "file"
  <2>1. /\ UNCHANGED <<temp, config, saving, writing, pc>> /\ saving[s] # None
        /\ \E contents \in Over(file, saving[s].data) : Shows(contents)
    BY <1>1, <1>14 DEF WriteTemp, Bookkeeping
  <2>2. PICK contents \in {saving[s].data, Torn} : Shows(contents)
    BY <2>1 DEF Over
  <2>3. /\ contents \in Content \cup Unreadable
        /\ contents \in Content => Numbered(contents.last_verify)
    BY <1>9, <2>1, <2>2
  <2>4. \A t \in Shells : Running(t)' <=> Running(t)
    BY <2>1 DEF Running
  <2> QED
    BY <1>12, <2>1, <2>2, <2>3, <2>4, FollowedShows
<1>10. CASE Replace(s) \/ SaveFails(s)
  <2>1. /\ config' = config /\ temp' = None /\ saving[s] # None
        /\ saving' = [saving EXCEPT ![s] = None]
        /\ pc' = [pc EXCEPT ![s] = IF saving[s].by = "menu" THEN "menu" ELSE @]
    BY <1>1, <1>10 DEF Replace, SaveFails, Settles, Bookkeeping
  <2>2. Running(s)
    BY <1>2, <2>1 DEF SavesAreCopies
  <2>3. /\ \A t \in Shells : saving'[t] \in {saving[t], None}
        /\ \A t \in Shells : Running(t)' <=> Running(t)
    BY <1>1, <2>1, <2>2 DEF Running
  <2>4. CASE SaveFails(s)
    <3>1. UNCHANGED <<file, kept, behind, writing>>
      BY <2>4 DEF SaveFails
    <3>2. temp' \notin Content
      BY <2>1, CopyTypes
    <3> QED
      BY <1>12, <2>1, <2>3, <3>1, <3>2, FollowedQuiet
  <2>5. CASE Replace(s)
    <3>1. /\ temp # None /\ Shows(temp)
          /\ writing' = [t \in Shells |-> IF writing[t] = None THEN None
                                          ELSE [writing[t] EXCEPT !.attached = FALSE]]
      BY <2>5 DEF Replace
    <3>2. ASSUME NEW t \in Shells, writing'[t] # None
          PROVE  writing[t] # None /\ writing'[t].data = writing[t].data
      <4>1. writing[t] # None /\ writing[t] \in Writes
            /\ writing'[t] = [writing[t] EXCEPT !.attached = FALSE]
        BY <1>1, <3>1, <3>2
      <4> QED
        BY <4>1
    <3>3. temp \in Content \cup Unreadable /\ (temp \in Content => Numbered(temp.last_verify))
      BY <3>1, CopyTypes DEF FileFollowed
    <3> QED
      BY <1>12, <2>1, <2>3, <3>1, <3>2, <3>3, FollowedShows
  <2> QED
    BY <1>10, <2>4, <2>5
<1>11. CASE WriteFile(s)
  <2>1. /\ writing[s] # None /\ UNCHANGED <<temp, config, saving>>
        /\ pc' = [pc EXCEPT ![s] = "menu"] /\ writing' = [writing EXCEPT ![s] = None]
    BY <1>11 DEF WriteFile
  <2>2. pc[s] = "writing" /\ Running(s)
    BY <1>1, <2>1 DEF Bookkeeping, Running
  <2>3. \A t \in Shells : Running(t)' <=> Running(t)
    BY <1>1, <2>1, <2>2 DEF Running
  <2>4. \A t \in Shells : writing'[t] # None => writing[t] # None /\ writing'[t].data = writing[t].data
    BY <1>1, <2>1
  <2>5. /\ writing[s].data \in Content /\ Numbered(writing[s].data.last_verify)
    <3>1. writing[s] \in Writes
      BY <1>1, <2>1
    <3> QED
      BY <1>2, <2>1, <3>1 DEF SavesAreCopies
  <2>6. CASE writing[s].attached
    <3>1. PICK contents \in {writing[s].data, Torn} : Shows(contents)
      BY <1>11, <2>6 DEF WriteFile, Over
    <3>2. contents \in Content \cup Unreadable /\ (contents \in Content => Numbered(contents.last_verify))
      BY <2>5, <3>1, CopyTypes
    <3> QED
      BY <1>12, <2>1, <2>3, <2>4, <3>1, <3>2, FollowedShows
  <2>7. CASE ~writing[s].attached
    <3>1. UNCHANGED <<file, kept, behind>>
      BY <1>11, <2>7 DEF WriteFile
    <3> QED
      BY <1>12, <2>1, <2>3, <2>4, <3>1, FollowedQuiet DEF FileFollowed
  <2> QED
    BY <2>6, <2>7
<1> QED
  BY <1>3, <1>4, <1>5, <1>6, <1>7, <1>8, <1>10, <1>11, <1>13, <1>14 DEF Shell

LEMMA FollowedInit == Init => FileFollowed
BY Contents, NoneAssumption DEF Init, FileFollowed, SavesAreCopies, Numbered, Follows

LEMMA FollowedStep == TypeInv /\ FileFollowed /\ [Next]_vars => FileFollowed'
<1> SUFFICES ASSUME TypeInv, FileFollowed, [Next]_vars PROVE FileFollowed'
  OBVIOUS
<1>1. CASE UNCHANGED <<checkpoint, limits, disk, shell>>
  BY <1>1, FollowedStays DEF shell, disk, Running
<1>2. ASSUME NEW s \in Shells, Shell(s) PROVE FileFollowed'
  BY <1>2, FollowedShell, TypeStep
<1> QED
  BY <1>1, <1>2 DEF Next, vars

\* What the file loses: a save that is not overtaken puts the shell's own copy there.
FileKeeps ==
    (\A s \in Shells : Overtaken(s) => ~WriteTemp(s) /\ ~Replace(s)) =>
        /\ file \notin Unreadable /\ file' \in Unreadable =>
             \E s \in Shells : writing'[s] # writing[s]
        /\ behind = {} /\ kept # None =>
             /\ kept' # None
             /\ kept'.first_hash = kept.first_hash /\ kept.first_hash # NoHash =>
                  kept'.high_water >= kept.high_water

LEMMA WhatTheFileKeeps ==
    ASSUME TypeInv, FileFollowed, [Next]_vars
    PROVE  FileKeeps
<1> SUFFICES ASSUME \A s \in Shells : Overtaken(s) => ~WriteTemp(s) /\ ~Replace(s)
             PROVE  /\ file \notin Unreadable /\ file' \in Unreadable =>
                         \E s \in Shells : writing'[s] # writing[s]
                    /\ behind = {} /\ kept # None =>
                         /\ kept' # None
                         /\ kept'.first_hash = kept.first_hash /\ kept.first_hash # NoHash =>
                              kept'.high_water >= kept.high_water
  BY DEF FileKeeps
<1>1. CASE UNCHANGED <<file, kept>>
  <2>1. kept # None => kept.high_water \in Nat
    BY CopyTypes, Numbers DEF VerifyRecord
  <2> QED
    BY <1>1, <2>1
<1>2. ASSUME NEW s \in Shells, Shows(config[s]) \/ Shows(Torn), Running(s),
             Shows(Torn) => writing'[s] # writing[s]
      PROVE  /\ file \notin Unreadable /\ file' \in Unreadable =>
                  \E t \in Shells : writing'[t] # writing[t]
             /\ behind = {} /\ kept # None =>
                  /\ kept' # None
                  /\ kept'.first_hash = kept.first_hash /\ kept.first_hash # NoHash =>
                       kept'.high_water >= kept.high_water
  <2>1. CASE Shows(config[s])
    <3>1. file' \notin Unreadable /\ kept' = config[s].last_verify
      BY <2>1, CopyTypes, NoneAssumption DEF Shows
    <3>2. behind = {} => Follows(config[s].last_verify, kept)
      BY <1>2 DEF FileFollowed
    <3> QED
      BY <3>1, <3>2 DEF Follows
  <2>2. CASE Shows(Torn)
    <3>1. kept' = kept /\ writing'[s] # writing[s]
      BY <1>2, <2>2, CopyTypes DEF Shows
    <3>2. kept # None => kept.high_water \in Nat
      BY CopyTypes, Numbers DEF VerifyRecord
    <3> QED
      BY <3>1, <3>2
  <2> QED
    BY <1>2, <2>1, <2>2
<1>3. CASE \E s \in Shells : EnsureKeys(s) \/ WriteCheckpoint(s)
  <2>1. PICK s \in Shells : EnsureKeys(s) \/ WriteCheckpoint(s)
    BY <1>3
  <2>2. /\ kept' = kept /\ pc[s] = "menu"
        /\ writing' = [writing EXCEPT ![s] = [attached |-> TRUE, data |-> config[s]]]
    BY <2>1 DEF EnsureKeys, WriteCheckpoint, OpenFile
  <2>3. writing[s] = None
    BY <2>2 DEF TypeInv, Bookkeeping
  <2>4. [attached |-> TRUE, data |-> config[s]] \in Writes /\ s \in DOMAIN writing
    BY CopyTypes DEF TypeInv, TypeOK
  <2>5. writing'[s] # writing[s]
    BY <2>2, <2>3, <2>4, NoneAssumption
  <2>6. kept # None => kept.high_water \in Nat
    BY CopyTypes, Numbers DEF VerifyRecord
  <2> QED
    BY <2>2, <2>5, <2>6
<1>4. CASE \E s \in Shells : Replace(s)
  <2>1. PICK s \in Shells : Replace(s)
    BY <1>4
  <2>2. step[s] = "written" /\ Shows(temp) /\ ~Overtaken(s)
    BY <2>1 DEF Replace
  <2>3. saving[s] # None
    BY <2>2 DEF TypeInv, Bookkeeping
  <2>4. temp = config[s] /\ Running(s)
    BY <2>2, <2>3 DEF Overtaken, FileFollowed, SavesAreCopies
  <2>5. temp # Torn
    BY <2>4, CopyTypes
  <2>6. ~Shows(Torn)
    BY <2>2, <2>5 DEF Shows
  <2> QED
    BY <1>2, <2>2, <2>4, <2>6
<1>5. CASE \E s \in Shells : WriteTemp(s)
  <2>1. PICK s \in Shells : WriteTemp(s)
    BY <1>5
  <2>2. step[s] # "file"
    BY <2>1 DEF Overtaken
  <2> QED
    BY <1>1, <2>1, <2>2 DEF WriteTemp, disk
<1>6. CASE \E s \in Shells : WriteFile(s)
  <2>1. PICK s \in Shells : WriteFile(s)
    BY <1>6
  <2>2. /\ writing[s] # None /\ writing[s].data \in Content
        /\ writing[s].data.last_verify = config[s].last_verify
        /\ writing'[s] # writing[s] /\ Running(s)
    <3>1. writing[s] # None /\ writing[s] \in Writes /\ writing' = [writing EXCEPT ![s] = None]
          /\ s \in DOMAIN writing /\ pc[s] = "writing"
      BY <2>1, CopyTypes DEF WriteFile, TypeInv, TypeOK, Bookkeeping
    <3> QED
      BY <3>1 DEF FileFollowed, SavesAreCopies, Running
  <2>3. CASE writing[s].attached
    <3>1. PICK contents \in {writing[s].data, Torn} : Shows(contents)
      BY <2>1, <2>3 DEF WriteFile, Over
    <3>2. CASE contents = Torn
      BY <1>2, <2>2, <3>1, <3>2
    <3>3. CASE contents = writing[s].data
      <4>1. kept' = config[s].last_verify
        BY <2>2, <3>1, <3>3, NoneAssumption DEF Shows
      <4>2. behind = {} => Follows(config[s].last_verify, kept)
        BY <2>2 DEF FileFollowed
      <4> QED
        BY <2>2, <4>1, <4>2 DEF Follows
    <3> QED
      BY <3>1, <3>2, <3>3
  <2>4. CASE ~writing[s].attached
    BY <1>1, <2>1, <2>4 DEF WriteFile
  <2> QED
    BY <2>3, <2>4
<1> QED
  BY <1>1, <1>3, <1>4, <1>5, <1>6
  DEF Next, vars, disk, Shell, Start, Stop, LoadEntries, NotRecorded,
      RecordChainCheck, RecordWitnessCheck, RecordEvidenceCheck, OpenTemp, SaveFails

\* Only another shell's step gets into the way of a save: its opening of the temporary
\* file, its writing there, its replacing or removing it.
OthersOvertake ==
    \A s \in Shells : Overtaken(s)' /\ ~Overtaken(s) =>
        \E t \in Shells \ {s} : step'[t] # step[t]

LEMMA WhoOvertakes ==
    ASSUME TypeInv, [Next]_vars
    PROVE  OthersOvertake
<1> SUFFICES ASSUME NEW s \in Shells, ~Overtaken(s), \A t \in Shells \ {s} : step'[t] = step[t]
             PROVE  ~Overtaken(s)'
  BY DEF OthersOvertake
<1>1. /\ saving \in [Shells -> Saves \cup {None}] /\ step \in [Shells -> SaveSteps]
      /\ \A t \in Shells : step[t] = "none" <=> saving[t] = None
  BY DEF TypeInv, TypeOK, Bookkeeping
<1>2. CASE UNCHANGED <<temp, saving, step>>
  BY <1>2 DEF Overtaken
<1>3. ASSUME NEW t \in Shells \ {s}
      PROVE  ~OpenTemp(t) /\ ~WriteTemp(t) /\ ~Replace(t) /\ ~SaveFails(t)
  <2>1. OpenTemp(t) \/ WriteTemp(t) \/ Replace(t) \/ SaveFails(t) => step'[t] # step[t]
    BY <1>1 DEF OpenTemp, WriteTemp, Replace, SaveFails, Settles
  <2> QED
    BY <2>1
<1>4. CASE OpenTemp(s)
  BY <1>1, <1>4 DEF OpenTemp, Overtaken
<1>5. CASE WriteTemp(s)
  <2>1. step[s] = "temp" /\ temp = Empty
    BY <1>5 DEF WriteTemp, Overtaken
  <2>2. temp' = saving[s].data /\ step'[s] = "written" /\ saving' = saving
    BY <1>1, <1>5, <2>1 DEF WriteTemp, Over
  <2> QED
    BY <2>2 DEF Overtaken
<1>6. CASE Replace(s) \/ SaveFails(s)
  <2>1. step'[s] = "none"
    BY <1>6 DEF Replace, SaveFails, Settles
  <2> QED
    BY <2>1 DEF Overtaken
<1>7. ASSUME NEW t \in Shells, RecordChainCheck(t) \/ RecordWitnessCheck(t) \/ RecordEvidenceCheck(t)
      PROVE  ~Overtaken(s)'
  <2>1. temp' = temp /\ step' = [step EXCEPT ![t] = "dumped"] /\ step[t] = "none"
        /\ \E d : saving' = [saving EXCEPT ![t] = d]
    BY <1>1, <1>7 DEF RecordChainCheck, RecordWitnessCheck, RecordEvidenceCheck, Remember, disk
  <2>2. CASE t = s
    BY <1>1, <2>1, <2>2 DEF Overtaken
  <2>3. CASE t # s
    BY <1>1, <2>1, <2>3
  <2> QED
    BY <2>2, <2>3
<1>8. ASSUME NEW t \in Shells, Stop(t) PROVE ~Overtaken(s)'
  <2>1. /\ saving' = [saving EXCEPT ![t] = None] /\ step' = [step EXCEPT ![t] = "none"]
        /\ temp' = temp \/ \A u \in Shells \ {t} : step[u] \notin {"temp", "written"}
    BY <1>8 DEF Stop
  <2>2. CASE t = s
    BY <1>1, <2>1, <2>2 DEF Overtaken
  <2>3. CASE t # s
    <3>1. saving'[s] = saving[s] /\ step'[s] = step[s]
      BY <1>1, <2>1, <2>3
    <3> QED
      BY <2>1, <2>3, <3>1 DEF Overtaken
  <2> QED
    BY <2>2, <2>3
<1>9. ASSUME NEW t \in Shells, Shell(t) PROVE ~Overtaken(s)'
  BY <1>2, <1>3, <1>4, <1>5, <1>6, <1>7, <1>8, <1>9
  DEF Shell, Start, EnsureKeys, WriteCheckpoint, OpenFile, WriteFile, LoadEntries, NotRecorded, disk
<1> QED
  BY <1>2, <1>9 DEF Next, vars, disk, shell

\* For any number of shells, and whatever the log goes through: as long as no save is
\* overtaken by one of another shell, the file loses a mark only to a save_config that
\* was stopped half way or to a shell that had not seen it; and a save is overtaken only
\* by another shell that saves at the same time.
THEOREM RememberedAlwaysStays == Spec => RememberedStays
<1>1. ASSUME TypeInv, FileFollowed, [Next]_vars PROVE [FileKeeps /\ OthersOvertake]_vars
  BY <1>1, WhatTheFileKeeps, WhoOvertakes
<1>2. Spec => [](TypeInv /\ FileFollowed)
  <2>1. Init => TypeInv /\ FileFollowed
    BY TypeInit, FollowedInit
  <2>2. (TypeInv /\ FileFollowed) /\ [Next]_vars => (TypeInv /\ FileFollowed)'
    BY TypeStep, FollowedStep
  <2> QED
    BY <2>1, <2>2, PTL DEF Spec
<1> QED
  BY <1>1, <1>2, PTL DEF Spec, RememberedStays, FileKeeps, OthersOvertake
===============================================================================
