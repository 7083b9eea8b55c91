------------------------- MODULE TamperEvidenceProofs -------------------------
(***************************************************************************)
(* The properties of TamperEvidence, for any payloads, any number of       *)
(* events, and any number of changes behind the program's back.            *)
(*                                                                         *)
(* What the checks can see rests on one fact about the log, however it was *)
(* changed: a signature of the custodian's found in it is over the hash of *)
(* a row the program wrote (Genuine).  A sound row is signed over its own  *)
(* hash, and the hash commits to what is hashed of the row, prev_hash      *)
(* included, so the row is as hashed one the program wrote on top of the   *)
(* same row.  A log that is sound throughout, with a hash a checkpoint or  *)
(* an anchor kept, is as theirs row by row, from the last one down.        *)
(*                                                                         *)
(* No step is an induction on the log: a least row that differs exists     *)
(* because the naturals are well founded (LeastOf).                        *)
(***************************************************************************)
EXTENDS TamperEvidence, SequenceTheorems, WellFoundedInduction, TLAPS

-------------------------------------------------------------------------------
(* Numbers and hashes.                                                     *)

\* Every set of naturals has a least one (instead of an induction on the log).
LEMMA LeastOf ==
    ASSUME NEW T, T \subseteq Nat, T # {}
    PROVE  \E k \in T : \A i \in T : k <= i
<1> DEFINE R == OpToRel(<, Nat)
<1>1. IsWellFoundedOn(R, Nat)
  BY NatLessThanWellFounded
<1>2. PICK k \in T : \A i \in T : <<i, k>> \notin R
  <2> HIDE DEF R
  <2> QED
    BY <1>1, WFMin
<1>3. \A i \in T : ~(i < k)
  BY <1>2 DEF OpToRel
<1> HIDE DEF R
<1> QED
  BY <1>3

LEMMA HashProperties ==
    ASSUME NEW n \in Nat, NEW p \in Payloads, NEW g \in Hashes
    PROVE  PayloadHash(n, p, g) \in Hashes
<1>1. <<n, Canonical(p)>> \in Nat \X Canonicals
  BY DEF Canonicals
<1> QED
  BY <1>1, AppendProperties DEF PayloadHash, Hashes

\* A hash commits to the index, the canonical payload and prev_hash.
LEMMA HashInjective ==
    ASSUME NEW n \in Nat, NEW p \in Payloads, NEW g \in Hashes,
           NEW m \in Nat, NEW q \in Payloads, NEW h \in Hashes,
           PayloadHash(n, p, g) = PayloadHash(m, q, h)
    PROVE  n = m /\ Canonical(p) = Canonical(q) /\ g = h
<1>1. <<n, Canonical(p)>> \in Nat \X Canonicals /\ <<m, Canonical(q)>> \in Nat \X Canonicals
  BY DEF Canonicals
<1>2. g = h /\ <<n, Canonical(p)>> = <<m, Canonical(q)>>
  <2> HIDE DEF Hashes, Canonical
  <2> QED
  BY <1>1, AppendInjective DEF PayloadHash, Hashes
<1> QED
  BY <1>2

LEMMA EntryFields ==
    ASSUME NEW r \in Entries
    PROVE  /\ r.index \in Nat /\ r.payload \in Payloads /\ r.prev_hash \in Hashes
           /\ r.entry_hash \in Hashes /\ r.signature \in Signatures
           /\ r.signature.over \in Hashes
BY DEF Entries, Signatures

\* Two rows that fit the same hash are hashed of the same.
LEMMA SameHashSameRow ==
    ASSUME NEW r \in Entries, NEW s \in Entries, HashValid(r), HashValid(s),
           r.entry_hash = s.entry_hash
    PROVE  AsHashed(r, s)
<1>1. /\ r.index \in Nat /\ r.payload \in Payloads /\ r.prev_hash \in Hashes
      /\ s.index \in Nat /\ s.payload \in Payloads /\ s.prev_hash \in Hashes
  BY EntryFields
<1>2. PayloadHash(r.index, r.payload, r.prev_hash) = PayloadHash(s.index, s.payload, s.prev_hash)
  BY DEF HashValid
<1> QED
  BY <1>1, <1>2, HashInjective DEF AsHashed

LEMMA NewEntryFields ==
    ASSUME NEW entries \in Seq(Entries), NEW payload \in Payloads
    PROVE  LET entry == NewEntry(entries, payload)
           IN  /\ entry \in Entries
               /\ entry.index = Len(entries) /\ entry.payload = payload
               /\ entry.prev_hash = LastHash(entries) /\ LastHash(entries) \in Hashes
               /\ entry.entry_hash = PayloadHash(Len(entries), payload, LastHash(entries))
               /\ HashValid(entry) /\ SignatureValid(entry)
<1>1. Len(entries) \in Nat
  BY LenProperties
<1>2. LastHash(entries) \in Hashes
  <2>1. CASE entries = <<>>
    BY <2>1 DEF LastHash, GenesisHash, Hashes
  <2>2. CASE entries # <<>>
    <3>1. entries[Len(entries)] \in Entries
      BY <2>2, EmptySeq, ElementOfSeq
    <3> QED
      BY <2>2, <3>1, EntryFields DEF LastHash
  <2> QED
    BY <2>1, <2>2
<1>3. PayloadHash(Len(entries), payload, LastHash(entries)) \in Hashes
  BY <1>1, <1>2, HashProperties
<1>4. Sign(PayloadHash(Len(entries), payload, LastHash(entries))) \in Signatures
  BY <1>3 DEF Sign, Signatures
<1> QED
  BY <1>1, <1>2, <1>3, <1>4 DEF NewEntry, Entries, HashValid, SignatureValid

-------------------------------------------------------------------------------
(* Sequences of rows.                                                      *)

LEMMA SamePrefix ==
    ASSUME NEW S, NEW s \in Seq(S), NEW t \in Seq(S), NEW m \in Nat,
           m <= Len(s), m <= Len(t), \A i \in 1 .. m : s[i] = t[i]
    PROVE  /\ SubSeq(s, 1, m) = SubSeq(t, 1, m)
           /\ SubSeq(s, 1, m) \in Seq(S) /\ Len(SubSeq(s, 1, m)) = m
           /\ \A i \in 1 .. m : SubSeq(s, 1, m)[i] = s[i]
<1>1. Len(s) \in Nat /\ Len(t) \in Nat
  BY LenProperties
<1>2. \A i \in 1 .. m : s[i] \in S /\ t[i] \in S
  <2>1. \A i \in 1 .. m : i \in 1 .. Len(s) /\ i \in 1 .. Len(t)
    BY <1>1
  <2> QED
    BY <2>1, ElementOfSeq
<1> DEFINE a == SubSeq(s, 1, m)
           b == SubSeq(t, 1, m)
<1>3. /\ a \in Seq(S) /\ Len(a) = IF 1 <= m THEN m - 1 + 1 ELSE 0
      /\ \A i \in 1 .. m - 1 + 1 : a[i] = s[1 + i - 1]
  BY <1>2, SubSeqProperties
<1>4. /\ b \in Seq(S) /\ Len(b) = IF 1 <= m THEN m - 1 + 1 ELSE 0
      /\ \A i \in 1 .. m - 1 + 1 : b[i] = t[1 + i - 1]
  BY <1>2, SubSeqProperties
<1> HIDE DEF a, b
<1>5. Len(a) = m /\ \A i \in 1 .. m : a[i] = s[i]
  BY <1>3
<1>6. Len(b) = m /\ \A i \in 1 .. m : b[i] = t[i]
  BY <1>4
<1>7. a = b
  BY <1>3, <1>4, <1>5, <1>6, SeqEqual
<1> QED
  BY <1>3, <1>5, <1>7 DEF a, b

\* Where a row goes, and what is left without one.
LEMMA InsertedAt ==
    ASSUME NEW S, NEW s \in Seq(S), NEW e \in S, NEW t \in Inserted(s, e)
    PROVE  /\ t \in Seq(S) /\ Len(t) = Len(s) + 1
           /\ \E k \in 1 .. Len(s) + 1 :
                /\ t[k] = e
                /\ \A i \in 1 .. k - 1 : t[i] = s[i]
                /\ \A i \in 1 .. Len(s) : IF i < k THEN s[i].index < e.index
                                                  ELSE s[i].index > e.index
<1>1. PICK k \in 1 .. Len(s) + 1 :
        /\ \A i \in 1 .. Len(s) : IF i < k THEN s[i].index < e.index ELSE s[i].index > e.index
        /\ t = InsertAt(s, k, e)
  BY DEF Inserted
<1> DEFINE a == SubSeq(s, 1, k - 1)
           b == SubSeq(s, k, Len(s))
           u == <<e>>
<1>2. Len(s) \in Nat /\ \A i \in 1 .. Len(s) : s[i] \in S
  BY LenProperties, ElementOfSeq
<1>3. a \in Seq(S) /\ Len(a) = k - 1 /\ \A i \in 1 .. k - 1 : a[i] = s[i]
  <2>1. k - 1 \in Nat /\ k - 1 <= Len(s)
    BY <1>2
  <2> QED
    BY <2>1, SamePrefix
<1>4. b \in Seq(S) /\ Len(b) = Len(s) - k + 1
  <2>1. \A i \in k .. Len(s) : s[i] \in S
    BY <1>2
  <2>2. b \in Seq(S) /\ Len(b) = IF k <= Len(s) THEN Len(s) - k + 1 ELSE 0
    BY <1>2, <2>1, SubSeqProperties
  <2> HIDE DEF b
  <2> QED
    BY <1>2, <2>2
<1>5. u \in Seq(S) /\ Len(u) = 1 /\ u[1] = e
  OBVIOUS
<1>6. t = (a \o u) \o b
  BY <1>1 DEF InsertAt
<1> HIDE DEF a, b, u
<1>7. /\ a \o u \in Seq(S) /\ Len(a \o u) = k
      /\ \A i \in 1 .. k : (a \o u)[i] = IF i <= k - 1 THEN a[i] ELSE u[i - (k - 1)]
  <2>1. /\ a \o u \in Seq(S) /\ Len(a \o u) = Len(a) + Len(u)
        /\ \A i \in 1 .. Len(a) + Len(u) : (a \o u)[i] = IF i <= Len(a) THEN a[i] ELSE u[i - Len(a)]
    BY <1>3, <1>5, ConcatProperties
  <2>2. Len(a) + Len(u) = k
    BY <1>2, <1>3, <1>5
  <2> QED
    BY <1>3, <2>1, <2>2
<1> DEFINE c == a \o u
<1> HIDE DEF c
<1>8. /\ c \o b \in Seq(S) /\ Len(c \o b) = Len(s) + 1
      /\ \A i \in 1 .. k : (c \o b)[i] = c[i]
  <2>0. c \in Seq(S) /\ Len(c) = k
    BY <1>7 DEF c
  <2>1. /\ c \o b \in Seq(S) /\ Len(c \o b) = Len(c) + Len(b)
        /\ \A i \in 1 .. Len(c) + Len(b) : (c \o b)[i] = IF i <= Len(c) THEN c[i] ELSE b[i - Len(c)]
    BY <1>4, <2>0, ConcatProperties
  <2>2. Len(c) + Len(b) = Len(s) + 1
    BY <1>2, <1>4, <2>0
  <2>3. \A i \in 1 .. k : i \in 1 .. Len(c) + Len(b) /\ i <= Len(c)
    BY <1>2, <2>0, <2>2
  <2> QED
    BY <2>0, <2>1, <2>2, <2>3
<1>9. \A i \in 1 .. k - 1 : t[i] = s[i]
  <2> SUFFICES ASSUME NEW i \in 1 .. k - 1 PROVE t[i] = s[i]
    OBVIOUS
  <2>1. i \in 1 .. k /\ i <= k - 1
    BY <1>2
  <2> QED
    BY <1>3, <1>6, <1>7, <1>8, <2>1 DEF c
<1>10. t[k] = e
  <2>1. k \in 1 .. k /\ ~(k <= k - 1) /\ k - (k - 1) = 1
    BY <1>2
  <2> QED
    BY <1>5, <1>6, <1>7, <1>8, <2>1 DEF c
<1> QED
  BY <1>1, <1>6, <1>8, <1>9, <1>10 DEF c

LEMMA RemovedAt ==
    ASSUME NEW S, NEW s \in Seq(S), NEW i \in 1 .. Len(s)
    PROVE  RemoveAt(s, i) \in Seq(S)
<1>1. Len(s) \in Nat /\ \A j \in 1 .. Len(s) : s[j] \in S
  BY LenProperties, ElementOfSeq
<1>2. SubSeq(s, 1, i - 1) \in Seq(S)
  <2>1. i - 1 \in Nat /\ i - 1 <= Len(s)
    BY <1>1
  <2> QED
    BY <2>1, SamePrefix
<1>3. SubSeq(s, i + 1, Len(s)) \in Seq(S)
  <2>1. \A j \in i + 1 .. Len(s) : s[j] \in S
    BY <1>1
  <2> QED
    BY <1>1, <2>1, SubSeqProperties
<1> QED
  BY <1>2, <1>3, ConcatProperties DEF RemoveAt

-------------------------------------------------------------------------------
(* The inductive invariant of the log.                                     *)

\* The custodian's signature is found over the hash of a row the program wrote only.
Genuine == {row \in Entries :
              \A h : row.signature = Sign(h) => \E w \in written : w.entry_hash = h}

WrittenSound == \A w \in written : w \in Entries /\ HashValid(w) /\ SignatureValid(w)

LogInv == log \in Seq(Genuine) /\ WrittenSound

LEMMA LogTypes ==
    ASSUME LogInv
    PROVE  /\ log \in Seq(Entries) /\ written \subseteq Entries
           /\ \A i \in 1 .. Len(log) : log[i] \in Genuine
           /\ Genuine \subseteq Entries /\ written \subseteq Genuine
<1>1. Genuine \subseteq Entries
  BY DEF Genuine
<1>2. \A i \in 1 .. Len(log) : log[i] \in Genuine
  BY ElementOfSeq DEF LogInv
<1>3. log \in Seq(Entries)
  <2> HIDE DEF Genuine
  <2> QED
    BY <1>1 DEF LogInv
<1>4. written \subseteq Genuine
  <2> SUFFICES ASSUME NEW w \in written PROVE w \in Genuine
    OBVIOUS
  <2>1. w \in Entries /\ w.signature = Sign(w.entry_hash)
    BY DEF LogInv, WrittenSound, SignatureValid
  <2>2. ASSUME NEW h, w.signature = Sign(h) PROVE w.entry_hash = h
    BY <2>1, <2>2 DEF Sign
  <2> QED
    BY <2>1, <2>2 DEF Genuine
<1> QED
  BY <1>1, <1>2, <1>3, <1>4

\* A signature made up, or copied from a genuine row, makes a genuine row.
LEMMA GenuineRow ==
    ASSUME NEW row \in Entries,
           \/ row.signature.signer = "nobody"
           \/ \E r \in Genuine : row.signature = r.signature
    PROVE  row \in Genuine
<1>1. ASSUME NEW h, row.signature = Sign(h) PROVE row.signature.signer = "custodian"
  BY <1>1 DEF Sign
<1>2. CASE row.signature.signer = "nobody"
  BY <1>1, <1>2 DEF Genuine
<1>3. CASE \E r \in Genuine : row.signature = r.signature
  BY <1>3 DEF Genuine
<1> QED
  BY <1>2, <1>3

LEMMA LogEventKeeps ==
    ASSUME LogInv, NEW payload \in Payloads, LogEvent(payload)
    PROVE  LogInv'
<1> DEFINE entry == NewEntry(log, payload)
<1>1. entry \in Entries /\ HashValid(entry) /\ SignatureValid(entry)
  BY LogTypes, NewEntryFields
<1>2. log' \in Inserted(log, entry) /\ written' = written \cup {entry}
  BY DEF LogEvent
<1> HIDE DEF entry
<1>3. WrittenSound'
  <2>1. \A w \in written' : w \in Entries /\ HashValid(w) /\ SignatureValid(w)
    BY <1>1, <1>2 DEF LogInv, WrittenSound
  <2> QED
    BY <2>1 DEF WrittenSound
<1>4. Genuine \subseteq Genuine'
  BY <1>2 DEF Genuine
<1>5. entry \in Genuine'
  <2>1. \A h : entry.signature = Sign(h) => entry.entry_hash = h
    BY <1>1 DEF SignatureValid, Sign
  <2> QED
    BY <1>1, <1>2, <2>1 DEF Genuine
<1>6. log \in Seq(Genuine')
  <2> HIDE DEF Genuine
  <2> QED
    BY <1>4 DEF LogInv
<1>7. log' \in Seq(Genuine')
  <2> HIDE DEF Genuine
  <2> QED
    BY <1>2, <1>5, <1>6, InsertedAt
<1> QED
  BY <1>3, <1>7 DEF LogInv

-------------------------------------------------------------------------------
(* Changes behind the program's back.                                      *)

LEMMA RekeyedGenuine ==
    ASSUME NEW row \in Genuine, NEW r \in Rekeyed(row)
    PROVE  r \in Genuine
<1>1. PICK n \in 0 .. MaxLog : r = [row EXCEPT !.index = n]
  BY DEF Rekeyed
<1>2. row \in Entries /\ n \in Nat
  BY TamperBounds DEF Genuine
<1>3. r \in Entries /\ r.signature = row.signature
  BY <1>1, <1>2 DEF Entries
<1> QED
  BY <1>3, GenuineRow

LEMMA AlteredGenuine ==
    ASSUME LogInv, NEW row \in Genuine, NEW r \in Altered(row)
    PROVE  r \in Genuine
<1> DEFINE contents == Rekeyed(row)
                         \cup {[row EXCEPT !.payload = p] : p \in Payloads}
                         \cup {[row EXCEPT !.prev_hash = h] : h \in KnownHashes}
<1>1. /\ row \in Entries /\ row.index \in Nat /\ row.payload \in Payloads
      /\ row.prev_hash \in Hashes /\ row.entry_hash \in Hashes /\ row.signature \in Signatures
  BY EntryFields DEF Genuine
<1>2. KnownRows \subseteq Genuine
  BY LogTypes DEF KnownRows
<1>3. KnownHashes \subseteq Hashes
  <2>1. GenesisHash \in Hashes
    BY DEF GenesisHash, Hashes
  <2>2. \A x \in KnownRows : x.entry_hash \in Hashes
    BY <1>2, EntryFields DEF Genuine
  <2> QED
    BY <2>1, <2>2 DEF KnownHashes
<1>4. ASSUME NEW c \in contents PROVE c \in Entries /\ c.signature = row.signature
  <2>1. CASE c \in Rekeyed(row)
    <3>1. PICK n \in 0 .. MaxLog : c = [row EXCEPT !.index = n]
      BY <2>1 DEF Rekeyed
    <3> QED
      BY <1>1, <3>1, TamperBounds DEF Entries
  <2>2. CASE \E p \in Payloads : c = [row EXCEPT !.payload = p]
    BY <1>1, <2>2 DEF Entries
  <2>3. CASE \E h \in KnownHashes : c = [row EXCEPT !.prev_hash = h]
    BY <1>1, <1>3, <2>3 DEF Entries
  <2> QED
    BY <1>4, <2>1, <2>2, <2>3
<1>5. \/ r \in contents
      \/ \E c \in contents : r = Rehashed(c)
      \/ \E h \in KnownHashes : r = [row EXCEPT !.entry_hash = h]
      \/ \E sig \in KnownSignatures : r = [row EXCEPT !.signature = sig]
      \/ r = Forged(row)
  BY Zenon DEF Altered
<1> HIDE DEF contents
<1>6. CASE r \in contents
  BY <1>4, <1>6, GenuineRow
<1>7. CASE \E c \in contents : r = Rehashed(c)
  <2>1. PICK c \in contents : r = Rehashed(c)
    BY <1>7
  <2>2. c \in Entries /\ c.signature = row.signature
    BY <1>4
  <2>3. PayloadHash(c.index, c.payload, c.prev_hash) \in Hashes
    BY <2>2, EntryFields, HashProperties
  <2>4. r \in Entries /\ r.signature = row.signature
    BY <2>1, <2>2, <2>3 DEF Rehashed, Entries
  <2> QED
    BY <2>4, GenuineRow
<1>8. CASE \E h \in KnownHashes : r = [row EXCEPT !.entry_hash = h]
  <2>1. r \in Entries /\ r.signature = row.signature
    BY <1>1, <1>3, <1>8 DEF Entries
  <2> QED
    BY <2>1, GenuineRow
<1>9. CASE \E sig \in KnownSignatures : r = [row EXCEPT !.signature = sig]
  <2>1. PICK x \in KnownRows : r = [row EXCEPT !.signature = x.signature]
    BY <1>9 DEF KnownSignatures
  <2>2. x \in Genuine /\ x.signature \in Signatures
    BY <1>2, EntryFields DEF Genuine
  <2>3. r \in Entries /\ r.signature = x.signature
    BY <1>1, <2>1, <2>2 DEF Entries
  <2> QED
    BY <2>2, <2>3, GenuineRow
<1>10. CASE r = Forged(row)
  <2>1. [signer |-> "nobody", over |-> row.entry_hash] \in Signatures
    BY <1>1 DEF Signatures
  <2>2. r \in Entries /\ r.signature.signer = "nobody"
    BY <1>1, <1>10, <2>1 DEF Forged, Entries
  <2> QED
    BY <2>2, GenuineRow
<1> QED
  BY <1>5, <1>6, <1>7, <1>8, <1>9, <1>10

LEMMA DamageKeeps ==
    ASSUME LogInv, Damage
    PROVE  LogInv'
<1>1. written' = written
  BY DEF Damage
<1>2. Genuine' = Genuine /\ WrittenSound'
  BY <1>1 DEF Genuine, LogInv, WrittenSound
<1>3. log \in Seq(Genuine) /\ \A i \in 1 .. Len(log) : log[i] \in Genuine
  BY LogTypes DEF LogInv
<1>4. SUFFICES log' \in Seq(Genuine)
  BY <1>2 DEF LogInv
<1>5. CASE log' \in Deleted
  <2> HIDE DEF Genuine
  <2> QED
    BY <1>3, <1>5, RemovedAt DEF Deleted
<1>6. ASSUME NEW i \in 1 .. Len(log), log' \in EditedRow(i) PROVE log' \in Seq(Genuine)
  <2>1. PICK r \in Altered(log[i]) : log' \in Inserted(RemoveAt(log, i), r)
    BY <1>6 DEF EditedRow
  <2>2. RemoveAt(log, i) \in Seq(Genuine) /\ r \in Genuine
    BY <1>3, RemovedAt, AlteredGenuine
  <2> HIDE DEF Genuine
  <2> QED
    BY <2>1, <2>2, InsertedAt
<1>7. CASE log' \in Added
  <2>1. PICK r \in (UNION {Rekeyed(x) : x \in KnownRows})
                     \cup {Forged(NewEntry(log, p)) : p \in Payloads} :
               log' \in Inserted(log, r)
    BY <1>7, Zenon DEF Added
  <2>2. r \in Genuine
    <3>1. CASE \E x \in KnownRows : r \in Rekeyed(x)
      <4>1. KnownRows \subseteq Genuine
        BY LogTypes DEF KnownRows
      <4> QED
        BY <3>1, <4>1, RekeyedGenuine
    <3>2. CASE \E p \in Payloads : r = Forged(NewEntry(log, p))
      <4>1. PICK p \in Payloads : r = Forged(NewEntry(log, p))
        BY <3>2
      <4> DEFINE e == NewEntry(log, p)
      <4>2. e \in Entries /\ e.entry_hash \in Hashes
        BY LogTypes, NewEntryFields, EntryFields
      <4> HIDE DEF e
      <4>3. [signer |-> "nobody", over |-> e.entry_hash] \in Signatures
        BY <4>2 DEF Signatures
      <4>4. r \in Entries /\ r.signature.signer = "nobody"
        BY <4>1, <4>2, <4>3 DEF e, Forged, Entries
      <4> QED
        BY <4>4, GenuineRow
    <3> QED
      BY <3>1, <3>2
  <2> HIDE DEF Genuine
  <2> QED
    BY <1>3, <2>1, <2>2, InsertedAt
<1>8. ASSUME NEW i \in 1 .. Len(log), NEW j \in 1 .. Len(log), log' = Swapped(i, j)
      PROVE  log' \in Seq(Genuine)
  <2> DEFINE a == [log[j] EXCEPT !.index = log[i].index]
             b == [log[i] EXCEPT !.index = log[j].index]
  <2>1. /\ log[i] \in Entries /\ log[j] \in Entries
        /\ log[i].index \in Nat /\ log[j].index \in Nat
    BY <1>3, EntryFields DEF Genuine
  <2>2. a \in Entries /\ a.signature = log[j].signature
    BY <2>1 DEF Entries
  <2>3. b \in Entries /\ b.signature = log[i].signature
    BY <2>1 DEF Entries
  <2>4. a \in Genuine /\ b \in Genuine
    BY <1>3, <2>2, <2>3, GenuineRow
  <2>5. log' = [log EXCEPT ![i] = a, ![j] = b]
    BY <1>8 DEF Swapped
  <2> HIDE DEF a, b, Genuine
  <2>6. [log EXCEPT ![i] = a] \in Seq(Genuine) /\ Len([log EXCEPT ![i] = a]) = Len(log)
    BY <1>3, <2>4, ExceptSeq
  <2>7. [[log EXCEPT ![i] = a] EXCEPT ![j] = b] \in Seq(Genuine)
    BY <2>4, <2>6, ExceptSeq
  <2> QED
    BY <2>5, <2>7
<1> QED
  BY <1>5, <1>6, <1>7, <1>8 DEF Damage

-------------------------------------------------------------------------------
(* The log's invariant holds of every behaviour.                           *)

LEMMA LogStart == Init => LogInv
<1> SUFFICES ASSUME Init PROVE LogInv
  OBVIOUS
<1>1. log = <<>> /\ written = {}
  BY DEF Init
<1>2. <<>> \in Seq(Genuine)
  <2> HIDE DEF Genuine
  <2> QED
    OBVIOUS
<1> QED
  BY <1>1, <1>2 DEF LogInv, WrittenSound

LEMMA LogStep ==
    ASSUME LogInv, [Next]_vars
    PROVE  LogInv'
<1>1. ASSUME NEW payload \in Events, LogEvent(payload) PROVE LogInv'
  <2>1. payload \in Payloads
    BY DEF Events
  <2> QED
    BY <1>1, <2>1, LogEventKeeps
<1>2. CASE UNCHANGED <<log, written>>
  <2>1. Genuine' = Genuine
    BY <1>2 DEF Genuine
  <2> QED
    BY <1>2, <2>1 DEF LogInv, WrittenSound
<1>3. CASE Checkpoint
  BY <1>2, <1>3 DEF Checkpoint
<1>4. CASE Export
  BY <1>2, <1>4 DEF Export
<1>5. CASE Damage
  BY <1>5, DamageKeeps
<1>6. CASE UNCHANGED vars
  BY <1>2, <1>6 DEF vars
<1> QED
  BY <1>1, <1>3, <1>4, <1>5, <1>6 DEF Next

THEOREM LogInvariant == Spec => []LogInv
<1>1. LogInv /\ [Next]_vars => LogInv'
  BY LogStep
<1> QED
  BY LogStart, <1>1, PTL DEF Spec

-------------------------------------------------------------------------------
(* What the chain check says of a damaged log.                             *)

\* A row passes if and only if the program wrote it on top of the row before it.
LEMMA SoundIsWritten ==
    ASSUME LogInv, NEW i \in 1 .. Len(log)
    PROVE  EntrySound(log, i) <=> AsWritten(i)
<1>1. log[i] \in Genuine /\ log[i] \in Entries /\ written \subseteq Entries
  BY LogTypes
<1>2. ASSUME EntrySound(log, i) PROVE AsWritten(i)
  <2>1. /\ log[i].prev_hash = ExpectedPrev(log, i)
        /\ HashValid(log[i]) /\ log[i].signature = Sign(log[i].entry_hash)
    BY <1>2 DEF EntrySound, Linked, SignatureValid
  <2>2. PICK w \in written : w.entry_hash = log[i].entry_hash
    BY <1>1, <2>1 DEF Genuine
  <2>3. w \in Entries /\ HashValid(w) /\ w.signature = Sign(w.entry_hash)
    BY DEF LogInv, WrittenSound, SignatureValid
  <2>4. AsHashed(log[i], w)
    BY <1>1, <2>1, <2>2, <2>3, SameHashSameRow
  <2>5. log[i].signature = w.signature
    BY <2>1, <2>2, <2>3
  <2>6. w.prev_hash = ExpectedPrev(log, i)
    BY <2>1, <2>4 DEF AsHashed
  <2> QED
    BY <2>4, <2>5, <2>6 DEF AsWritten
<1>3. ASSUME AsWritten(i) PROVE EntrySound(log, i)
  <2>1. PICK w \in written : /\ w.prev_hash = ExpectedPrev(log, i)
                             /\ AsHashed(log[i], w) /\ log[i].signature = w.signature
    BY <1>3 DEF AsWritten
  <2>2. HashValid(w) /\ w.signature = Sign(w.entry_hash)
    BY DEF LogInv, WrittenSound, SignatureValid
  <2>3. Linked(log, i)
    BY <2>1 DEF AsHashed, Linked
  <2>4. HashValid(log[i])
    BY <2>1, <2>2 DEF AsHashed, HashValid, PayloadHash
  <2>5. SignatureValid(log[i])
    BY <2>1, <2>2 DEF AsHashed, SignatureValid
  <2> QED
    BY <2>3, <2>4, <2>5 DEF EntrySound
<1> QED
  BY <1>2, <1>3

\* verify stops at the first row that is not sound.
LEMMA FirstFailure ==
    ASSUME NEW entries \in Seq(Entries), NEW k \in 1 .. Len(entries),
           ~EntrySound(entries, k), \A j \in 1 .. k - 1 : EntrySound(entries, j)
    PROVE  /\ ~Verify(entries).ok
           /\ Verify(entries).at = entries[k].index
           /\ Verify(entries).reason = IF ~Linked(entries, k) THEN "prev_hash"
                                       ELSE IF ~HashValid(entries[k]) THEN "entry_hash"
                                       ELSE "signature"
<1> DEFINE First(i) == ~EntrySound(entries, i) /\ \A j \in 1 .. i - 1 : EntrySound(entries, j)
           c == CHOOSE i \in 1 .. Len(entries) : First(i)
<1>0. Len(entries) \in Nat
  BY LenProperties
<1>1. First(k)
  OBVIOUS
<1>2. c \in 1 .. Len(entries) /\ First(c)
  <2> HIDE DEF First
  <2> QED
    BY <1>1
<1> HIDE DEF c
<1>3. c = k
  <2>1. ~(c < k)
    <3> SUFFICES ASSUME c < k PROVE FALSE
      OBVIOUS
    <3>1. c \in 1 .. k - 1
      BY <1>0, <1>2
    <3> QED
      BY <1>2, <3>1
  <2>2. ~(k < c)
    <3> SUFFICES ASSUME k < c PROVE FALSE
      OBVIOUS
    <3>1. k \in 1 .. c - 1
      BY <1>0, <1>2
    <3> QED
      BY <1>2, <3>1
  <2> QED
    BY <1>0, <1>2, <2>1, <2>2
<1>4. ~ChainSound(entries)
  BY DEF ChainSound
<1>5. Verify(entries) = [ok |-> FALSE, at |-> entries[c].index,
                         reason |-> IF ~Linked(entries, c) THEN "prev_hash"
                                    ELSE IF ~HashValid(entries[c]) THEN "entry_hash"
                                    ELSE "signature"]
  BY <1>4, Zenon DEF Verify, c, First
<1> QED
  BY <1>3, <1>5

LEMMA DamageIsSeen == LogInv => DamageLocated
<1> SUFFICES ASSUME LogInv PROVE DamageLocated
  OBVIOUS
<1>1. log \in Seq(Entries) /\ Len(log) \in Nat
  BY LogTypes, LenProperties
<1>2. \A i \in 1 .. Len(log) : EntrySound(log, i) <=> AsWritten(i)
  BY SoundIsWritten
<1>3. Verify(log).ok <=> ChainSound(log)
  BY Zenon DEF Verify
<1>4. Verify(log).ok <=> \A i \in 1 .. Len(log) : AsWritten(i)
  BY <1>2, <1>3 DEF ChainSound
<1>5. ASSUME ~Verify(log).ok
      PROVE  \E k \in 1 .. Len(log) :
               /\ ~AsWritten(k) /\ \A i \in 1 .. k - 1 : AsWritten(i)
               /\ Verify(log).at = log[k].index
  <2> DEFINE T == {k \in 1 .. Len(log) : ~EntrySound(log, k)}
  <2>1. T # {} /\ T \subseteq Nat
    BY <1>3, <1>5 DEF ChainSound
  <2> HIDE DEF T
  <2>2. PICK k \in T : \A i \in T : k <= i
    BY <2>1, LeastOf
  <2>3. k \in 1 .. Len(log) /\ ~EntrySound(log, k)
    BY DEF T
  <2>4. \A i \in 1 .. k - 1 : i \in 1 .. Len(log) /\ EntrySound(log, i)
    <3> SUFFICES ASSUME NEW i \in 1 .. k - 1 PROVE i \in 1 .. Len(log) /\ EntrySound(log, i)
      OBVIOUS
    <3>1. i \in 1 .. Len(log) /\ ~(k <= i)
      BY <1>1, <2>3
    <3> QED
      BY <2>2, <3>1 DEF T
  <2>5. Verify(log).at = log[k].index
    BY <1>1, <2>3, <2>4, FirstFailure
  <2> QED
    BY <1>2, <2>3, <2>4, <2>5
<1> QED
  BY <1>4, <1>5 DEF DamageLocated

\* DamageLocated, for any log and any number of changes to the database file: what
\* verify and verify_each (hash_chain.py) pass is what the program wrote, row on
\* top of row, as far as it is hashed, and they name the first row that is not.
THEOREM DamageIsLocated == Spec => []DamageLocated
BY LogInvariant, DamageIsSeen, PTL
-------------------------------------------------------------------------------
(* verify and verify_each agree: a fact about any entries.                 *)

\* What one more check appends to the reasons so far.
OrNone(reason) == {<<>>, <<reason>>}

LEMMA OneMoreReason ==
    ASSUME NEW S, NEW s \in Seq(S), NEW reason \in S, NEW more \in OrNone(reason),
           NEW t, t = s \o more
    PROVE  /\ t \in Seq(S)
           /\ t = <<>> <=> s = <<>> /\ more = <<>>
           /\ s # <<>> => t[1] = s[1]
           /\ s = <<>> /\ more # <<>> => t[1] = reason
           /\ more = <<>> => t = s
           /\ \A n \in DOMAIN t : t[n] = reason \/ (n \in DOMAIN s /\ t[n] = s[n])
<1>1. CASE more = <<>>
  <2>1. t = s
    BY <1>1, ConcatEmptySeq
  <2> QED
    BY <1>1, <2>1
<1>2. CASE more = <<reason>>
  <2> DEFINE u == <<reason>>
  <2>1. u \in Seq(S) /\ Len(u) = 1 /\ u[1] = reason
    OBVIOUS
  <2> HIDE DEF u
  <2>2. /\ s \o u \in Seq(S) /\ Len(s \o u) = Len(s) + Len(u)
        /\ \A i \in 1 .. Len(s) + Len(u) : (s \o u)[i] = IF i <= Len(s) THEN s[i] ELSE u[i - Len(s)]
    BY <2>1, ConcatProperties
  <2>3. t = s \o u
    BY <1>2 DEF u
  <2>4. Len(s) \in Nat /\ DOMAIN s = 1 .. Len(s) /\ (s # <<>> => Len(s) \in Nat \ {0})
    BY LenProperties, EmptySeq
  <2>5. t \in Seq(S) /\ Len(t) = Len(s) + 1 /\ DOMAIN t = 1 .. Len(s) + 1
    BY <2>1, <2>2, <2>3, LenProperties
  <2>6. t # <<>>
    <3>1. Len(t) # 0
      BY <2>4, <2>5
    <3> QED
      BY <3>1
  <2>7. \A i \in 1 .. Len(s) : t[i] = s[i]
    <3> SUFFICES ASSUME NEW i \in 1 .. Len(s) PROVE t[i] = s[i]
      OBVIOUS
    <3>1. i \in 1 .. Len(s) + Len(u) /\ i <= Len(s)
      BY <2>1, <2>4
    <3> QED
      BY <2>2, <2>3, <3>1, Zenon
  <2>8. t[Len(s) + 1] = reason
    BY <2>1, <2>2, <2>3, <2>4
  <2>9. s # <<>> => t[1] = s[1]
    BY <2>4, <2>7
  <2>10. s = <<>> => t[1] = reason
    <3> SUFFICES ASSUME s = <<>> PROVE t[1] = reason
      OBVIOUS
    <3>1. Len(s) + 1 = 1
      OBVIOUS
    <3> QED
      BY <2>8, <3>1
  <2>11. \A n \in DOMAIN t : t[n] = reason \/ (n \in DOMAIN s /\ t[n] = s[n])
    <3> SUFFICES ASSUME NEW n \in 1 .. Len(s) + 1
                 PROVE  t[n] = reason \/ (n \in DOMAIN s /\ t[n] = s[n])
      BY <2>5
    <3>1. n \in 1 .. Len(s) \/ n = Len(s) + 1
      BY <2>4
    <3>2. CASE n \in 1 .. Len(s)
      BY <2>4, <2>7, <3>2
    <3>3. CASE n = Len(s) + 1
      BY <2>8, <3>3
    <3> QED
      BY <3>1, <3>2, <3>3
  <2> QED
    BY <1>2, <2>5, <2>6, <2>9, <2>10, <2>11, Zenon
<1> QED
  BY <1>1, <1>2 DEF OrNone

LEMMA ReasonsSay ==
    ASSUME NEW entries, NEW i
    PROVE  /\ Reasons(entries, i) = <<>> <=> EntrySound(entries, i) /\ ~Upstream(entries, i)
           /\ ~Upstream(entries, i) /\ ~EntrySound(entries, i) =>
                /\ Reasons(entries, i)[1] = IF ~Linked(entries, i) THEN "prev_hash"
                                            ELSE IF ~HashValid(entries[i]) THEN "entry_hash"
                                            ELSE "signature"
                /\ \A n \in DOMAIN Reasons(entries, i) : Reasons(entries, i)[n] # "upstream"
<1> DEFINE l == ~Linked(entries, i)
           h == ~HashValid(entries[i])
           g == ~SignatureValid(entries[i])
           u == Upstream(entries, i)
           Names == {"prev_hash", "entry_hash", "signature", "upstream"}
           q1 == ReasonIf(l, "prev_hash")
           q2 == ReasonIf(h, "entry_hash")
           q3 == ReasonIf(g, "signature")
           q4 == ReasonIf(u, "upstream")
           r2 == q1 \o q2
           r3 == r2 \o q3
           r4 == r3 \o q4
<1>1. Reasons(entries, i) = r4
  BY Zenon DEF Reasons
<1>2. EntrySound(entries, i) <=> ~l /\ ~h /\ ~g
  BY DEF EntrySound
<1> HIDE DEF l, h, g, u
<1>3. /\ q1 \in OrNone("prev_hash") /\ (q1 = <<>> <=> ~l)
      /\ q2 \in OrNone("entry_hash") /\ (q2 = <<>> <=> ~h)
      /\ q3 \in OrNone("signature") /\ (q3 = <<>> <=> ~g)
      /\ q4 \in OrNone("upstream") /\ (q4 = <<>> <=> ~u)
  BY DEF ReasonIf, OrNone
<1>4. /\ "prev_hash" \in Names /\ "entry_hash" \in Names
      /\ "signature" \in Names /\ "upstream" \in Names
      /\ "prev_hash" # "upstream" /\ "entry_hash" # "upstream" /\ "signature" # "upstream"
  OBVIOUS
<1> HIDE DEF q1, q2, q3, q4, Names
<1>5. /\ q1 \in Seq(Names)
      /\ q1 # <<>> => q1[1] = "prev_hash"
      /\ \A n \in DOMAIN q1 : q1[n] # "upstream"
  <2>1. CASE q1 = <<>>
    BY <2>1
  <2>2. CASE q1 = <<"prev_hash">>
    BY <1>4, <2>2
  <2> QED
    BY <1>3, <2>1, <2>2 DEF OrNone
<1>6. /\ r2 \in Seq(Names)
      /\ r2 = <<>> <=> q1 = <<>> /\ q2 = <<>>
      /\ q1 # <<>> => r2[1] = q1[1]
      /\ q1 = <<>> /\ q2 # <<>> => r2[1] = "entry_hash"
      /\ q2 = <<>> => r2 = q1
      /\ \A n \in DOMAIN r2 : r2[n] = "entry_hash" \/ (n \in DOMAIN q1 /\ r2[n] = q1[n])
  <2>1. q1 \in Seq(Names) /\ "entry_hash" \in Names /\ q2 \in OrNone("entry_hash")
    BY <1>3, <1>4, <1>5
  <2>2. r2 = q1 \o q2
    OBVIOUS
  <2> HIDE DEF r2
  <2>3. r2 \in Seq(Names)
    BY <2>1, <2>2, OneMoreReason
  <2>4. r2 = <<>> <=> q1 = <<>> /\ q2 = <<>>
    BY <2>1, <2>2, OneMoreReason
  <2>5. /\ q1 # <<>> => r2[1] = q1[1]
        /\ q1 = <<>> /\ q2 # <<>> => r2[1] = "entry_hash"
        /\ q2 = <<>> => r2 = q1
    BY <2>1, <2>2, OneMoreReason
  <2>6. \A n \in DOMAIN r2 : r2[n] = "entry_hash" \/ (n \in DOMAIN q1 /\ r2[n] = q1[n])
    BY <2>1, <2>2, OneMoreReason
  <2> QED
    BY <2>3, <2>4, <2>5, <2>6
<1> HIDE DEF r2
<1>7. /\ r3 \in Seq(Names)
      /\ r3 = <<>> <=> r2 = <<>> /\ q3 = <<>>
      /\ r2 # <<>> => r3[1] = r2[1]
      /\ r2 = <<>> /\ q3 # <<>> => r3[1] = "signature"
      /\ q3 = <<>> => r3 = r2
      /\ \A n \in DOMAIN r3 : r3[n] = "signature" \/ (n \in DOMAIN r2 /\ r3[n] = r2[n])
  <2>1. r2 \in Seq(Names) /\ "signature" \in Names /\ q3 \in OrNone("signature")
    BY <1>3, <1>4, <1>6
  <2>2. r3 = r2 \o q3
    OBVIOUS
  <2> HIDE DEF r3
  <2>3. r3 \in Seq(Names)
    BY <2>1, <2>2, OneMoreReason
  <2>4. r3 = <<>> <=> r2 = <<>> /\ q3 = <<>>
    BY <2>1, <2>2, OneMoreReason
  <2>5. /\ r2 # <<>> => r3[1] = r2[1]
        /\ r2 = <<>> /\ q3 # <<>> => r3[1] = "signature"
        /\ q3 = <<>> => r3 = r2
    BY <2>1, <2>2, OneMoreReason
  <2>6. \A n \in DOMAIN r3 : r3[n] = "signature" \/ (n \in DOMAIN r2 /\ r3[n] = r2[n])
    BY <2>1, <2>2, OneMoreReason
  <2> QED
    BY <2>3, <2>4, <2>5, <2>6
<1> HIDE DEF r3
<1>8. /\ r4 \in Seq(Names)
      /\ r4 = <<>> <=> r3 = <<>> /\ q4 = <<>>
      /\ r3 # <<>> => r4[1] = r3[1]
      /\ r3 = <<>> /\ q4 # <<>> => r4[1] = "upstream"
      /\ q4 = <<>> => r4 = r3
      /\ \A n \in DOMAIN r4 : r4[n] = "upstream" \/ (n \in DOMAIN r3 /\ r4[n] = r3[n])
  <2>1. r3 \in Seq(Names) /\ "upstream" \in Names /\ q4 \in OrNone("upstream")
    BY <1>3, <1>4, <1>7
  <2>2. r4 = r3 \o q4
    OBVIOUS
  <2> HIDE DEF r4
  <2>3. r4 \in Seq(Names)
    BY <2>1, <2>2, OneMoreReason
  <2>4. r4 = <<>> <=> r3 = <<>> /\ q4 = <<>>
    BY <2>1, <2>2, OneMoreReason
  <2>5. /\ r3 # <<>> => r4[1] = r3[1]
        /\ r3 = <<>> /\ q4 # <<>> => r4[1] = "upstream"
        /\ q4 = <<>> => r4 = r3
    BY <2>1, <2>2, OneMoreReason
  <2>6. \A n \in DOMAIN r4 : r4[n] = "upstream" \/ (n \in DOMAIN r3 /\ r4[n] = r3[n])
    BY <2>1, <2>2, OneMoreReason
  <2> QED
    BY <2>3, <2>4, <2>5, <2>6
<1> HIDE DEF r4
<1>9. \A n \in DOMAIN r3 : r3[n] # "upstream"
  BY <1>4, <1>5, <1>6, <1>7
<1>10. r4 = <<>> <=> ~l /\ ~h /\ ~g /\ ~u
  BY <1>3, <1>6, <1>7, <1>8, Zenon
<1>11. ~u /\ (l \/ h \/ g) =>
         r4[1] = IF l THEN "prev_hash" ELSE IF h THEN "entry_hash" ELSE "signature"
  BY <1>3, <1>5, <1>6, <1>7, <1>8
<1>12. ~u => \A n \in DOMAIN r4 : r4[n] # "upstream"
  BY <1>3, <1>8, <1>9
<1> QED
  BY <1>1, <1>2, <1>10, <1>11, <1>12, Zenon DEF l, h, g, u

LEMMA Agreement == log \in Seq(Entries) => VerifiersAgree
<1> SUFFICES ASSUME log \in Seq(Entries) PROVE VerifiersAgree
  OBVIOUS
<1> DEFINE n    == Len(log)
           each == VerifyEach(log)
           bad  == {i \in DOMAIN each : each[i] # <<>>}
<1>1. n \in Nat /\ log \in Seq(Entries)
  BY LenProperties
<1>2. DOMAIN each = 1 .. n /\ \A i \in 1 .. n : each[i] = Reasons(log, i)
  BY DEF VerifyEach
<1>3. bad = {i \in 1 .. n : Reasons(log, i) # <<>>}
  BY <1>2
<1> HIDE DEF each, bad
<1>4. Verify(log).ok <=> ChainSound(log)
  BY Zenon DEF Verify
<1>5. ChainSound(log) <=> bad = {}
  <2>1. ASSUME ChainSound(log), NEW i \in 1 .. n PROVE Reasons(log, i) = <<>>
    <3>1. \A j \in 1 .. i - 1 : j \in 1 .. n
      BY <1>1
    <3> QED
      BY <2>1, <3>1, ReasonsSay DEF ChainSound, Upstream, n
  <2>2. ASSUME bad = {} PROVE ChainSound(log)
    BY <1>3, <2>2, ReasonsSay DEF ChainSound, n
  <2> QED
    BY <1>3, <2>1, <2>2
<1>6. ASSUME NEW k \in bad, \A i \in bad : k <= i
      PROVE  /\ Verify(log).at = log[k].index
             /\ Verify(log).reason = each[k][1]
             /\ \A m \in DOMAIN each[k] : each[k][m] # "upstream"
  <2>1. k \in 1 .. n /\ Reasons(log, k) # <<>> /\ each[k] = Reasons(log, k)
    BY <1>2, <1>3
  <2>2. \A j \in 1 .. k - 1 : EntrySound(log, j)
    <3> SUFFICES ASSUME NEW j \in 1 .. k - 1 PROVE EntrySound(log, j)
      OBVIOUS
    <3>1. j \in 1 .. n /\ ~(k <= j)
      BY <1>1, <2>1
    <3>2. Reasons(log, j) = <<>>
      BY <1>3, <1>6, <3>1
    <3> QED
      BY <3>2, ReasonsSay
  <2>3. ~Upstream(log, k)
    BY <2>2 DEF Upstream
  <2>4. ~EntrySound(log, k)
    BY <2>1, <2>3, ReasonsSay
  <2>5. /\ Verify(log).at = log[k].index
        /\ Verify(log).reason = IF ~Linked(log, k) THEN "prev_hash"
                                ELSE IF ~HashValid(log[k]) THEN "entry_hash"
                                ELSE "signature"
    BY <1>1, <2>1, <2>2, <2>4, FirstFailure DEF n
  <2>6. /\ Reasons(log, k)[1] = IF ~Linked(log, k) THEN "prev_hash"
                                ELSE IF ~HashValid(log[k]) THEN "entry_hash"
                                ELSE "signature"
        /\ \A m \in DOMAIN Reasons(log, k) : Reasons(log, k)[m] # "upstream"
    BY <2>3, <2>4, ReasonsSay
  <2> QED
    BY <2>1, <2>5, <2>6
<1> QED
  BY <1>4, <1>5, <1>6, Zenon DEF VerifiersAgree, each, bad
-------------------------------------------------------------------------------
(* TamperInv: the types of the state, and the verdicts.                    *)

LEMMA HashesOf ==
    ASSUME NEW entries \in Seq(Entries)
    PROVE  /\ EntryHashes(entries) \in Seq(Hashes)
           /\ Len(EntryHashes(entries)) = Len(entries)
           /\ \A i \in 1 .. Len(entries) : EntryHashes(entries)[i] = entries[i].entry_hash
           /\ LastHash(entries) \in Hashes
<1>1. Len(entries) \in Nat /\ \A i \in 1 .. Len(entries) : entries[i] \in Entries
  BY LenProperties, ElementOfSeq
<1>2. \A i \in 1 .. Len(entries) : entries[i].entry_hash \in Hashes
  BY <1>1, EntryFields
<1>3. EntryHashes(entries) \in Seq(Hashes) /\ Len(EntryHashes(entries)) = Len(entries)
  <2> DEFINE n == Len(entries)
  <2>1. EntryHashes(entries) \in [1 .. n -> Hashes]
    BY <1>2 DEF EntryHashes
  <2> HIDE DEF n, Hashes
  <2>2. n \in Nat
    BY <1>1 DEF n
  <2> QED
    BY <2>1, <2>2 DEF n
<1>4. LastHash(entries) \in Hashes
  <2>1. CASE entries = <<>>
    BY <2>1 DEF LastHash, GenesisHash, Hashes
  <2>2. CASE entries # <<>>
    <3>1. Len(entries) \in 1 .. Len(entries)
      BY <2>2, EmptySeq
    <3> QED
      BY <1>2, <2>2, <3>1 DEF LastHash
  <2> QED
    BY <2>1, <2>2
<1> QED
  BY <1>3, <1>4 DEF EntryHashes

Kept == checkpoints \subseteq Checkpoints /\ anchors \subseteq Anchors

Counters == logged \in 0 .. MaxLog /\ damage \in 0 .. MaxDamage

LEMMA TypeStep ==
    ASSUME log \in Seq(Entries), Kept, Counters, [Next]_vars
    PROVE  Kept' /\ Counters'
<1>1. MaxLog \in Nat /\ MaxDamage \in Nat
  BY TamperBounds
<1>2. ASSUME NEW payload \in Events, LogEvent(payload) PROVE Kept' /\ Counters'
  BY <1>1, <1>2 DEF LogEvent, Kept, Counters
<1>3. CASE Checkpoint
  <2> DEFINE c == [size |-> Len(log), root |-> EntryHashes(log),
                   head_hash |-> LastHash(log), rows |-> log]
  <2>1. c \in Checkpoints
    <3>1. /\ Len(log) \in Nat /\ EntryHashes(log) \in Seq(Hashes)
          /\ LastHash(log) \in Hashes /\ log \in Seq(Entries)
      BY HashesOf, LenProperties
    <3> QED
      BY <3>1, Zenon DEF Checkpoints
  <2>2. checkpoints' = checkpoints \cup {c} /\ UNCHANGED <<log, written, logged, damage, anchors>>
    BY <1>3, Zenon DEF Checkpoint
  <2> HIDE DEF c
  <2> QED
    BY <2>1, <2>2 DEF Kept, Counters
<1>4. CASE Export
  <2> DEFINE a == [chain_entries |-> Len(log), chain_head_hash |-> LastHash(log), rows |-> log]
  <2>1. a \in Anchors
    <3>1. Len(log) \in Nat /\ LastHash(log) \in Hashes /\ log \in Seq(Entries)
      BY HashesOf, LenProperties
    <3> QED
      BY <3>1, Zenon DEF Anchors
  <2>2. anchors' = anchors \cup {a} /\ UNCHANGED <<log, written, logged, damage, checkpoints>>
    BY <1>4, Zenon DEF Export
  <2> HIDE DEF a
  <2> QED
    BY <2>1, <2>2 DEF Kept, Counters
<1>5. CASE Damage
  BY <1>1, <1>5 DEF Damage, Kept, Counters
<1>6. CASE UNCHANGED vars
  BY <1>6 DEF vars, Kept, Counters
<1> QED
  BY <1>2, <1>3, <1>4, <1>5, <1>6 DEF Next

\* TamperInv, for any bounds: verify and verify_each (hash_chain.py) never
\* disagree on the verdict, the entry or the reason.
THEOREM VerdictsAgree == Spec => []TamperInv
<1> DEFINE TInv == LogInv /\ Kept /\ Counters
<1>1. Init => TInv
  BY LogStart, TamperBounds DEF Init, Kept, Counters
<1>2. TInv /\ [Next]_vars => TInv'
  BY LogStep, TypeStep, LogTypes
<1>3. TInv => TamperInv
  BY Agreement, LogTypes DEF Kept, Counters, TypeOK, TamperInv
<1> QED
  BY <1>1, <1>2, <1>3, PTL DEF Spec

-------------------------------------------------------------------------------
(* What a kept checkpoint or anchor pins.                                  *)

\* A kept copy was made of the rows it is filed with.
KeptInv ==
    /\ \A c \in checkpoints :
         /\ c.rows \in Seq(Entries) /\ c.rows # <<>> /\ c.size = Len(c.rows)
         /\ c.root = EntryHashes(c.rows) /\ c.head_hash = LastHash(c.rows)
    /\ \A a \in anchors :
         /\ a.rows \in Seq(Entries) /\ a.chain_entries = Len(a.rows)
         /\ a.chain_head_hash = LastHash(a.rows)

LEMMA KeptStep ==
    ASSUME log \in Seq(Entries), KeptInv, [Next]_vars
    PROVE  KeptInv'
<1>1. CASE UNCHANGED <<checkpoints, anchors>>
  BY <1>1 DEF KeptInv
<1>2. CASE Checkpoint
  <2> DEFINE c == [size |-> Len(log), root |-> EntryHashes(log),
                   head_hash |-> LastHash(log), rows |-> log]
  <2>1. /\ c.rows \in Seq(Entries) /\ c.rows # <<>> /\ c.size = Len(c.rows)
        /\ c.root = EntryHashes(c.rows) /\ c.head_hash = LastHash(c.rows)
    BY <1>2 DEF Checkpoint
  <2>2. checkpoints' = checkpoints \cup {c} /\ anchors' = anchors
    BY <1>2, Zenon DEF Checkpoint
  <2> HIDE DEF c
  <2> QED
    BY <2>1, <2>2 DEF KeptInv
<1>3. CASE Export
  <2> DEFINE a == [chain_entries |-> Len(log), chain_head_hash |-> LastHash(log), rows |-> log]
  <2>1. /\ a.rows \in Seq(Entries) /\ a.chain_entries = Len(a.rows)
        /\ a.chain_head_hash = LastHash(a.rows)
    OBVIOUS
  <2>2. anchors' = anchors \cup {a} /\ checkpoints' = checkpoints
    BY <1>3, Zenon DEF Export
  <2> HIDE DEF a
  <2> QED
    BY <2>1, <2>2 DEF KeptInv
<1>4. \A payload \in Events : LogEvent(payload) => UNCHANGED <<checkpoints, anchors>>
  BY DEF LogEvent
<1>5. Damage => UNCHANGED <<checkpoints, anchors>>
  BY DEF Damage
<1>6. UNCHANGED vars => UNCHANGED <<checkpoints, anchors>>
  BY DEF vars
<1> QED
  BY <1>1, <1>2, <1>3, <1>4, <1>5, <1>6 DEF Next

\* Two sound sequences with the same hash at a place are alike there.
LEMMA SameSoundRow ==
    ASSUME NEW s \in Seq(Entries), NEW t \in Seq(Entries),
           NEW i \in 1 .. Len(s), i \in 1 .. Len(t),
           EntrySound(s, i), EntrySound(t, i),
           s[i].entry_hash = t[i].entry_hash
    PROVE  AsHashed(s[i], t[i])
<1>1. s[i] \in Entries /\ t[i] \in Entries
  BY ElementOfSeq
<1> QED
  BY <1>1, SameHashSameRow DEF EntrySound

\* The root covers the hash of every row, one by one.
LEMMA RootPins ==
    ASSUME log \in Seq(Entries), KeptInv, ChainSound(log), NEW c \in checkpoints,
           ChainSound(c.rows), CheckpointProblem(c, log) = "none"
    PROVE  \A i \in 1 .. c.size : AsHashed(log[i], c.rows[i])
<1> DEFINE r == c.rows
           m == c.size
           p == SubSeq(log, 1, m)
<1>1. /\ log \in Seq(Entries) /\ r \in Seq(Entries) /\ m = Len(r)
      /\ c.root = EntryHashes(r)
  BY DEF KeptInv
<1>2. Len(log) \in Nat /\ m \in Nat
  BY <1>1, LenProperties
<1>3. ~(Len(log) < m) /\ EntryHashes(p) = c.root
  BY DEF CheckpointProblem
<1> HIDE DEF r, m
<1>4. m <= Len(log)
  BY <1>2, <1>3
<1>5. p \in Seq(Entries) /\ Len(p) = m /\ \A i \in 1 .. m : p[i] = log[i]
  BY <1>1, <1>2, <1>4, SamePrefix
<1> HIDE DEF p
<1>6. \A i \in 1 .. m : AsHashed(log[i], r[i])
  <2> SUFFICES ASSUME NEW i \in 1 .. m PROVE AsHashed(log[i], r[i])
    OBVIOUS
  <2>1. i \in 1 .. Len(log) /\ i \in 1 .. Len(r) /\ i \in 1 .. Len(p)
    BY <1>1, <1>2, <1>4, <1>5
  <2>2. EntryHashes(p)[i] = p[i].entry_hash /\ EntryHashes(r)[i] = r[i].entry_hash
    BY <1>1, <1>5, <2>1, HashesOf
  <2>3. log[i].entry_hash = r[i].entry_hash
    BY <1>1, <1>3, <1>5, <2>2
  <2>4. EntrySound(log, i) /\ EntrySound(r, i)
    BY <2>1 DEF ChainSound, r
  <2> QED
    BY <1>1, <2>1, <2>3, <2>4, SameSoundRow
<1> QED
  BY <1>6 DEF r, m

\* The head pins its row, whose prev_hash pins the row before it, and so on down.
LEMMA HeadPins ==
    ASSUME log \in Seq(Entries), KeptInv, ChainSound(log), NEW a \in anchors,
           ChainSound(a.rows), AnchorChainProblem(a, log) = "none"
    PROVE  \A i \in 1 .. a.chain_entries : AsHashed(log[i], a.rows[i])
<1> DEFINE r == a.rows
           m == a.chain_entries
           p == SubSeq(log, 1, m)
<1>1. /\ log \in Seq(Entries) /\ r \in Seq(Entries) /\ m = Len(r)
      /\ a.chain_head_hash = LastHash(r)
  BY DEF KeptInv
<1>2. Len(log) \in Nat /\ m \in Nat
  BY <1>1, LenProperties
<1>3. ~(Len(log) < m) /\ LastHash(p) = a.chain_head_hash
  BY DEF AnchorChainProblem
<1> HIDE DEF r, m
<1>4. m <= Len(log)
  BY <1>2, <1>3
<1>5. p \in Seq(Entries) /\ Len(p) = m /\ \A i \in 1 .. m : p[i] = log[i]
  BY <1>1, <1>2, <1>4, SamePrefix
<1> HIDE DEF p
<1>6. \A i \in 1 .. m : EntrySound(log, i) /\ EntrySound(r, i)
  <2>1. \A i \in 1 .. m : i \in 1 .. Len(log) /\ i \in 1 .. Len(r)
    BY <1>1, <1>2, <1>4
  <2> QED
    BY <2>1 DEF ChainSound, r
<1>7. \A i \in 1 .. m : log[i].entry_hash = r[i].entry_hash => AsHashed(log[i], r[i])
  <2>1. \A i \in 1 .. m : i \in 1 .. Len(log) /\ i \in 1 .. Len(r)
    BY <1>1, <1>2, <1>4
  <2> QED
    BY <1>1, <1>6, <2>1, SameSoundRow
<1>8. m > 0 => AsHashed(log[m], r[m])
  <2> SUFFICES ASSUME m > 0 PROVE AsHashed(log[m], r[m])
    OBVIOUS
  <2>1. m \in 1 .. m
    BY <1>2
  <2>2. p # <<>> /\ r # <<>>
    BY <1>1, <1>5
  <2>3. log[m].entry_hash = r[m].entry_hash
    BY <1>1, <1>3, <1>5, <2>1, <2>2 DEF LastHash
  <2> QED
    BY <1>7, <2>1, <2>3
<1>9. ASSUME NEW i \in 1 .. m, i + 1 \in 1 .. m, AsHashed(log[i + 1], r[i + 1])
      PROVE  AsHashed(log[i], r[i])
  <2>1. i + 1 # 1 /\ (i + 1) - 1 = i
    BY <1>2
  <2>2. log[i + 1].prev_hash = log[i].entry_hash /\ r[i + 1].prev_hash = r[i].entry_hash
    BY <1>6, <1>9, <2>1 DEF EntrySound, Linked, ExpectedPrev
  <2> QED
    BY <1>7, <1>9, <2>2 DEF AsHashed
<1>10. \A i \in 1 .. m : AsHashed(log[i], r[i])
  <2> DEFINE T == {d \in Nat : d < m /\ ~AsHashed(log[m - d], r[m - d])}
  <2>1. SUFFICES ASSUME T # {} PROVE FALSE
    <3> SUFFICES ASSUME T = {}, NEW i \in 1 .. m PROVE AsHashed(log[i], r[i])
      OBVIOUS
    <3>1. m - i \in Nat /\ m - i < m /\ m - (m - i) = i
      BY <1>2
    <3> QED
      BY <3>1
  <2>2. PICK d \in T : \A e \in T : d <= e
    <3>1. T \subseteq Nat
      OBVIOUS
    <3> HIDE DEF T
    <3> QED
      BY <2>1, <3>1, LeastOf
  <2>3. d \in Nat /\ d < m /\ ~AsHashed(log[m - d], r[m - d])
    OBVIOUS
  <2>4. d # 0
    <3> SUFFICES ASSUME d = 0 PROVE FALSE
      OBVIOUS
    <3>1. m > 0 /\ m - d = m
      BY <1>2, <2>3
    <3> QED
      BY <1>8, <2>3, <3>1
  <2>5. d - 1 \in Nat /\ d - 1 < m /\ ~(d <= d - 1)
    BY <1>2, <2>3, <2>4
  <2>6. d - 1 \notin T
    <3> HIDE DEF T
    <3> QED
      BY <2>2, <2>5
  <2>7. AsHashed(log[m - (d - 1)], r[m - (d - 1)])
    BY <2>5, <2>6
  <2>8. m - d \in 1 .. m /\ (m - d) + 1 \in 1 .. m /\ (m - d) + 1 = m - (d - 1)
    BY <1>2, <2>3, <2>4
  <2>9. AsHashed(log[m - d], r[m - d])
    <3>1. AsHashed(log[(m - d) + 1], r[(m - d) + 1])
      BY <2>7, <2>8
    <3> QED
      BY <1>9, <2>8, <3>1
  <2> QED
    BY <2>3, <2>9
<1> QED
  BY <1>10 DEF r, m

\* KeptCopiesPin, for any log: the checkpoint's root and the anchor's one hash
\* (verifier.py) each pin what is hashed of every row they were made of.
THEOREM KeptCopiesHold == Spec => []KeptCopiesPin
<1>1. Init => KeptInv
  BY DEF Init, KeptInv
<1>2. LogInv /\ KeptInv /\ [Next]_vars => KeptInv'
  BY KeptStep, LogTypes
<1>3. LogInv /\ KeptInv => KeptCopiesPin
  BY RootPins, HeadPins, LogTypes DEF KeptCopiesPin
<1> QED
  BY <1>1, <1>2, <1>3, LogInvariant, PTL DEF Spec
-------------------------------------------------------------------------------
(* No false alarm.                                                         *)

BeginsWith(entries, rows) ==
    Len(rows) <= Len(entries) /\ \A i \in 1 .. Len(rows) : rows[i] = entries[i]

\* Until the file is touched, the rows are sound and numbered from 0 on, and every
\* kept copy was made of a beginning of the log.
Untouched ==
    damage = 0 =>
      /\ \A i \in 1 .. Len(log) : EntrySound(log, i) /\ log[i].index = i - 1
      /\ \A c \in checkpoints : BeginsWith(log, c.rows)
      /\ \A a \in anchors : BeginsWith(log, a.rows)

LEMMA UntouchedStep ==
    ASSUME LogInv, KeptInv, Counters, Untouched, [Next]_vars
    PROVE  Untouched'
<1>0. log \in Seq(Entries) /\ Len(log) \in Nat /\ damage \in Nat
  BY LogTypes, LenProperties, TamperBounds DEF Counters
<1>1. ASSUME NEW payload \in Events, LogEvent(payload) PROVE Untouched'
  <2> SUFFICES ASSUME damage = 0
               PROVE  /\ \A i \in 1 .. Len(log') : EntrySound(log', i) /\ log'[i].index = i - 1
                      /\ \A c \in checkpoints : BeginsWith(log', c.rows)
                      /\ \A a \in anchors : BeginsWith(log', a.rows)
    BY <1>1 DEF LogEvent, Untouched
  <2> DEFINE entry == NewEntry(log, payload)
             n     == Len(log)
  <2>1. /\ \A i \in 1 .. n : EntrySound(log, i) /\ log[i].index = i - 1
        /\ \A c \in checkpoints : BeginsWith(log, c.rows)
        /\ \A a \in anchors : BeginsWith(log, a.rows)
    BY DEF Untouched
  <2>2. /\ entry \in Entries /\ entry.index = n /\ entry.prev_hash = LastHash(log)
        /\ HashValid(entry) /\ SignatureValid(entry)
    BY <1>0, NewEntryFields DEF Events
  <2>3. n \in Nat /\ log' \in Inserted(log, entry)
    BY <1>0, <1>1 DEF LogEvent
  <2>4. LastHash(log) = ExpectedPrev(log, n + 1)
    <3>1. n = 0 <=> log = <<>>
      BY <1>0, EmptySeq
    <3>2. n # 0 => n + 1 # 1 /\ (n + 1) - 1 = n
      BY <1>0
    <3> QED
      BY <3>1, <3>2 DEF LastHash, ExpectedPrev
  <2> HIDE DEF n, entry
  <2>5. PICK k \in 1 .. n + 1 :
          /\ Len(log') = n + 1 /\ log'[k] = entry
          /\ \A i \in 1 .. k - 1 : log'[i] = log[i]
          /\ \A i \in 1 .. n : IF i < k THEN log[i].index < n ELSE log[i].index > n
    <3>1. /\ log' \in Seq(Entries) /\ Len(log') = Len(log) + 1
          /\ \E k \in 1 .. Len(log) + 1 :
               /\ log'[k] = entry
               /\ \A i \in 1 .. k - 1 : log'[i] = log[i]
               /\ \A i \in 1 .. Len(log) : IF i < k THEN log[i].index < entry.index
                                                  ELSE log[i].index > entry.index
      BY <1>0, <2>2, <2>3, InsertedAt
    <3> QED
      BY <2>2, <3>1, Zenon DEF n
  <2>6. k = n + 1
    <3> SUFFICES ASSUME k # n + 1 PROVE FALSE
      OBVIOUS
    <3>1. k \in 1 .. n /\ ~(k < k)
      BY <2>3
    <3>2. log[k].index > n /\ log[k].index = k - 1
      BY <2>1, <2>5, <3>1
    <3> QED
      BY <2>3, <3>1, <3>2
  <2>7. \A i \in 1 .. n : log'[i] = log[i]
    <3>1. k - 1 = n
      BY <2>3, <2>6
    <3> QED
      BY <2>5, <3>1
  <2>8. \A i \in 1 .. n + 1 : ExpectedPrev(log', i) = ExpectedPrev(log, i)
    <3>1. \A i \in 1 .. n + 1 : i # 1 => i - 1 \in 1 .. n
      BY <2>3
    <3> QED
      BY <2>7, <3>1 DEF ExpectedPrev
  <2>9. ASSUME NEW i \in 1 .. n + 1 PROVE EntrySound(log', i) /\ log'[i].index = i - 1
    <3>1. CASE i \in 1 .. n
      BY <2>1, <2>7, <2>8, <3>1 DEF EntrySound, Linked
    <3>2. CASE i = n + 1
      <4>1. log'[i] = entry /\ i - 1 = n
        BY <2>3, <2>5, <2>6, <3>2
      <4>2. ExpectedPrev(log', i) = LastHash(log)
        BY <2>4, <2>8, <3>2
      <4> QED
        BY <2>2, <4>1, <4>2 DEF EntrySound, Linked
    <3> QED
      BY <2>3, <3>1, <3>2
  <2>10. ASSUME NEW rows \in Seq(Entries), BeginsWith(log, rows) PROVE BeginsWith(log', rows)
    <3>1. Len(rows) \in Nat /\ Len(rows) <= n
      BY <2>10, LenProperties DEF BeginsWith, n
    <3>2. \A i \in 1 .. Len(rows) : i \in 1 .. n
      BY <2>3, <3>1
    <3>3. Len(rows) <= Len(log')
      BY <2>3, <2>5, <3>1
    <3> QED
      BY <2>7, <2>10, <3>2, <3>3 DEF BeginsWith
  <2> QED
    BY <2>1, <2>5, <2>9, <2>10 DEF KeptInv
<1>2. BeginsWith(log, log)
  BY <1>0 DEF BeginsWith
<1>3. CASE Checkpoint
  <2> DEFINE c == [size |-> Len(log), root |-> EntryHashes(log),
                   head_hash |-> LastHash(log), rows |-> log]
  <2>1. c.rows = log
    OBVIOUS
  <2>2. checkpoints' = checkpoints \cup {c} /\ UNCHANGED <<log, written, logged, damage, anchors>>
    BY <1>3, Zenon DEF Checkpoint
  <2> HIDE DEF c
  <2> QED
    BY <1>2, <2>1, <2>2 DEF Untouched
<1>4. CASE Export
  <2> DEFINE a == [chain_entries |-> Len(log), chain_head_hash |-> LastHash(log), rows |-> log]
  <2>1. a.rows = log
    OBVIOUS
  <2>2. anchors' = anchors \cup {a} /\ UNCHANGED <<log, written, logged, damage, checkpoints>>
    BY <1>4, Zenon DEF Export
  <2> HIDE DEF a
  <2> QED
    BY <1>2, <2>1, <2>2 DEF Untouched
<1>5. CASE Damage
  <2>1. damage' # 0
    BY <1>0, <1>5 DEF Damage
  <2> QED
    BY <2>1 DEF Untouched
<1>6. CASE UNCHANGED vars
  BY <1>6 DEF vars, Untouched, EntrySound, Linked, ExpectedPrev
<1> QED
  BY <1>1, <1>3, <1>4, <1>5, <1>6 DEF Next

LEMMA NoAlarm ==
    ASSUME LogInv, KeptInv, Untouched
    PROVE  NoFalseAlarm
<1> SUFFICES ASSUME damage = 0
             PROVE  /\ Verify(log).ok
                    /\ \A c \in checkpoints : CheckpointProblem(c, log) = "none"
                    /\ \A a \in anchors : AnchorChainProblem(a, log) = "none"
  BY DEF NoFalseAlarm
<1>1. log \in Seq(Entries) /\ Len(log) \in Nat
  BY LogTypes, LenProperties
<1>3. ChainSound(log)
  BY DEF Untouched, ChainSound
<1>4. Verify(log).ok
  BY <1>3 DEF Verify
<1>5. ASSUME NEW rows \in Seq(Entries), BeginsWith(log, rows)
      PROVE  SubSeq(log, 1, Len(rows)) = rows
  <2>1. Len(rows) \in Nat /\ Len(rows) <= Len(log)
    BY <1>5, LenProperties DEF BeginsWith
  <2>2. /\ SubSeq(log, 1, Len(rows)) \in Seq(Entries)
        /\ Len(SubSeq(log, 1, Len(rows))) = Len(rows)
        /\ \A i \in 1 .. Len(rows) : SubSeq(log, 1, Len(rows))[i] = log[i]
    BY <1>1, <2>1, SamePrefix
  <2> QED
    BY <1>5, <2>2, SeqEqual DEF BeginsWith
<1>6. ASSUME NEW c \in checkpoints PROVE CheckpointProblem(c, log) = "none"
  <2>1. /\ c.rows \in Seq(Entries) /\ c.rows # <<>> /\ c.size = Len(c.rows)
        /\ c.root = EntryHashes(c.rows) /\ c.head_hash = LastHash(c.rows)
    BY DEF KeptInv
  <2>2. BeginsWith(log, c.rows)
    BY DEF Untouched
  <2>3. SubSeq(log, 1, c.size) = c.rows
    BY <1>5, <2>1, <2>2
  <2>4. Len(c.rows) \in Nat \ {0}
    BY <2>1, EmptySeq
  <2>5. ~(Len(log) < c.size)
    BY <1>1, <2>1, <2>2, <2>4 DEF BeginsWith
  <2>6. log[c.size].entry_hash = c.head_hash
    <3>1. c.size \in 1 .. Len(c.rows)
      BY <2>1, <2>4
    <3>2. log[c.size] = c.rows[Len(c.rows)]
      BY <2>1, <2>2, <3>1 DEF BeginsWith
    <3> QED
      BY <2>1, <3>2 DEF LastHash
  <2> QED
    BY <2>1, <2>3, <2>5, <2>6 DEF CheckpointProblem
<1>7. ASSUME NEW a \in anchors PROVE AnchorChainProblem(a, log) = "none"
  <2>1. /\ a.rows \in Seq(Entries) /\ a.chain_entries = Len(a.rows)
        /\ a.chain_head_hash = LastHash(a.rows)
    BY DEF KeptInv
  <2>2. BeginsWith(log, a.rows)
    BY DEF Untouched
  <2>3. SubSeq(log, 1, a.chain_entries) = a.rows
    BY <1>5, <2>1, <2>2
  <2>4. ~(Len(log) < a.chain_entries)
    <3>1. Len(a.rows) \in Nat
      BY <2>1, LenProperties
    <3> QED
      BY <1>1, <2>1, <2>2, <3>1 DEF BeginsWith
  <2> QED
    BY <2>1, <2>3, <2>4 DEF AnchorChainProblem
<1> QED
  BY <1>4, <1>6, <1>7

\* NoFalseAlarm, for any log: the program never makes a log that its own chain
\* check, or any checkpoint or anchor it ever made, rejects.
THEOREM NoFalseAlarms == Spec => []NoFalseAlarm
<1> DEFINE AInv == LogInv /\ Kept /\ Counters /\ KeptInv /\ Untouched
<1>1. Init => AInv
  <2> SUFFICES ASSUME Init PROVE AInv
    OBVIOUS
  <2>1. Kept /\ Counters /\ KeptInv /\ Untouched
    BY TamperBounds DEF Init, Kept, Counters, KeptInv, Untouched
  <2> QED
    BY <2>1, LogStart
<1>2. AInv /\ [Next]_vars => AInv'
  <2> SUFFICES ASSUME AInv, [Next]_vars PROVE AInv'
    OBVIOUS
  <2>1. log \in Seq(Entries)
    BY LogTypes
  <2>2. LogInv'
    BY LogStep
  <2>3. Kept' /\ Counters'
    BY <2>1, TypeStep
  <2>4. KeptInv'
    BY <2>1, KeptStep
  <2>5. Untouched'
    BY UntouchedStep
  <2> QED
    BY <2>2, <2>3, <2>4, <2>5
<1>3. AInv => NoFalseAlarm
  BY NoAlarm
<1> QED
  BY <1>1, <1>2, <1>3, PTL DEF Spec
===============================================================================
