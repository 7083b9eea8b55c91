------------------------ MODULE VerificationTabsProofs ------------------------
(***************************************************************************)
(* Proofs about EvidenceCheck and VerificationTabs, for any files, page    *)
(* and block sizes, any number of loads and any keys.                      *)
(*                                                                         *)
(* The argument.  A load counts the evidence first, then reads page after  *)
(* page, each from where the last one ended.  What it has read rises from  *)
(* id to id (Read), and the files it counted are all among those it has    *)
(* read or has still ahead of it (Ahead): a file registered behind its     *)
(* place is missed, but was not counted.  At the end nothing is ahead, so  *)
(* the record's count is at most the number of results.  When the header   *)
(* is green no more files are registered than that, so the results, one    *)
(* per file, are of all of them: two finite sets of one size.              *)
(*                                                                         *)
(* For what is shown, every load has a generation of its own and only the  *)
(* newest can be published (Generations); a result in place while another  *)
(* loads overtook Ctrl-R (Shown).                                          *)
(*                                                                         *)
(* InOrder is a CHOOSE by rank, so that ORDER BY needs no recursion: the   *)
(* ranks of a finite set of numbers are a bijection onto 0 .. n - 1        *)
(* (Ranks), and a rising sequence is the order of its elements             *)
(* (RisingIsTheOrder).                                                     *)
(***************************************************************************)
EXTENDS VerificationTabs, SequenceTheorems, FiniteSetTheorems, TLAPS

-------------------------------------------------------------------------------
(* The inductive invariant.                                                *)

Records == [load : Loads, tampered : BOOLEAN, not_logged : BOOLEAN, unverifiable : BOOLEAN,
            events : Nat, evidence_max : Nat]

Types ==
    /\ LoadsTypeOK /\ record \in {NoRecord} \cup Records
    /\ tab \in {"evidence", "other"}
    /\ opened \in BOOLEAN /\ restarting \in BOOLEAN /\ overtaken \in BOOLEAN
    /\ selected \in 0 .. Cardinality(Ids)
    /\ category \in DOMAIN ViewOrder

\* The ids a load has read, in the order in which it read them: those with a result,
\* then the rest of the page.
Read(r) == [i \in 1 .. Len(r.results) + Len(r.page) |->
              IF i <= Len(r.results) THEN r.results[i].id ELSE r.page[i - Len(r.results)]]

ReadIds(r)   == {Read(r)[i] : i \in DOMAIN Read(r)}
ResultIds(r) == {r.results[i].id : i \in DOMAIN r.results}

Rising(ids) == \A i, j \in 1 .. Len(ids) : i < j => ids[i] < ids[j]

\* What a load has read, and what is still before it.
Ahead(r, ids) == ReadIds(r) \cup {id \in ids : id > r.last}

LoadHolds(r, ids, named) ==
    /\ Rising(Read(r)) /\ ReadIds(r) \subseteq ids
    /\ \A id \in ReadIds(r) : id <= r.last
    /\ r.logged \subseteq named
    /\ \A i \in DOMAIN r.results : r.results[i].logged = (r.results[i].id \in r.logged)
    /\ r.stage \in {"new", "counted"} => r.results = <<>>
    /\ r.stage \in {"new", "counted", "reading", "hashed"} => r.page = <<>>
    /\ r.stage = "new" => r.last = -1
    /\ r.stage = "hashing" => r.page # <<>>
    /\ r.stage \in {"counted", "reading", "hashing"} =>
         r.began.evidence_max <= Cardinality(Ahead(r, ids))
    /\ r.stage = "hashed" => r.began.evidence_max <= Cardinality(ResultIds(r))

LoadsHold == \A l \in Loads : LoadHolds(load[l], evidence, logged)

Over == {"cancelled", "dropped", "published"}

\* The loads' generations are their own, and only the newest may still publish.
Generations ==
    /\ \A l, m \in 1 .. started : l # m => load[l].generation # load[m].generation
    /\ \A l \in 1 .. started : load[l].generation <= generation
    /\ \A l \in 1 .. started :
         ~Superseded(l) /\ load[l].stage \notin Over => loading
    /\ \A l \in Loads : l > started => load[l].stage = "new"

RecordHolds ==
    record # NoRecord =>
      LET r == load[record.load]
      IN  /\ r.stage \in {"ended", "dropped", "published"} /\ record.load <= started
          /\ record.tampered = Found(record.load, "MISMATCH")
          /\ record.unverifiable = Found(record.load, "not_found")
          /\ record.not_logged = NotLogged(record.load)
          /\ record.evidence_max <= Cardinality(ResultIds(r))

\* A result is in place while a load runs only if it overtook Ctrl-R.
Shown ==
    /\ NewestShown
    /\ shown = 0 => selected = 0
    /\ shown # 0 /\ (loading \/ restarting) => overtaken
    /\ SelectionIsARow

TabsInv == Types /\ LoadsHold /\ Generations /\ RecordHolds /\ Shown

-------------------------------------------------------------------------------
(* Sets of numbers and their order.                                        *)

LEMMA InjectionOf ==
    ASSUME NEW S, NEW T, NEW f \in [S -> T], \A x, y \in S : x # y => f[x] # f[y]
    PROVE  f \in Injection(S, T)
<1>1. IsInjective(f)
  BY DEF IsInjective
<1> QED
  BY <1>1, Zenon DEF Injection

Below(S, x) == {y \in S : y < x}

LEMMA Ranks ==
    ASSUME NEW S, S \subseteq Nat, IsFiniteSet(S)
    PROVE  /\ \A x \in S : Cardinality(Below(S, x)) \in 0 .. Cardinality(S) - 1
           /\ \A x, y \in S : x < y => Cardinality(Below(S, x)) < Cardinality(Below(S, y))
           /\ \A k \in 1 .. Cardinality(S) : \E x \in S : Cardinality(Below(S, x)) = k - 1
<1> DEFINE n    == Cardinality(S)
           rank == [x \in S |-> Cardinality(Below(S, x))]
           T    == 0 .. n - 1
<1>1. n \in Nat
  BY FS_CardinalityType
<1>2. ASSUME NEW x \in S PROVE IsFiniteSet(Below(S, x)) /\ rank[x] \in Nat /\ rank[x] < n
  <2>1. Below(S, x) \in SUBSET S /\ x \notin Below(S, x)
    BY DEF Below
  <2>2. IsFiniteSet(Below(S, x)) /\ rank[x] <= n /\ rank[x] # n
    BY <2>1, FS_Subset
  <2>3. rank[x] \in Nat
    BY <2>2, FS_CardinalityType
  <2> QED
    BY <1>1, <2>2, <2>3
<1>3. ASSUME NEW x \in S, NEW y \in S, x < y PROVE rank[x] < rank[y]
  <2>0. x \in Nat /\ y \in Nat /\ ~(x < x)
    OBVIOUS
  <2>a. ASSUME NEW z \in Below(S, x) PROVE z \in Below(S, y)
    <3>1. z \in S /\ z \in Nat /\ z < x
      BY DEF Below
    <3>2. z < y
      BY <1>3, <2>0, <3>1
    <3> QED
      BY <3>1, <3>2 DEF Below
  <2>1. Below(S, x) \cup {x} \in SUBSET Below(S, y) /\ x \notin Below(S, x)
    BY <1>3, <2>0, <2>a DEF Below
  <2>2. Cardinality(Below(S, x) \cup {x}) = rank[x] + 1
    BY <1>2, <2>1, FS_AddElement
  <2>3. Cardinality(Below(S, x) \cup {x}) <= rank[y]
    BY <1>2, <2>1, FS_Subset
  <2> QED
    BY <1>2, <2>2, <2>3
<1>4. rank \in [S -> T]
  BY <1>1, <1>2
<1> HIDE DEF rank
<1>5. \A x, y \in S : x # y => rank[x] # rank[y]
  <2> SUFFICES ASSUME NEW x \in S, NEW y \in S, x # y PROVE rank[x] # rank[y]
    OBVIOUS
  <2>1. x \in Nat /\ y \in Nat
    OBVIOUS
  <2>2. rank[x] < rank[y] \/ rank[y] < rank[x]
    BY <1>3, <2>1
  <2>3. rank[x] \in Nat /\ rank[y] \in Nat
    BY <1>2
  <2> QED
    BY <2>2, <2>3
<1>6. IsFiniteSet(T) /\ Cardinality(T) = n
  <2>1. n - 1 \in Int /\ 0 \in Int
    BY <1>1
  <2> DEFINE b == n - 1
  <2> HIDE DEF b
  <2>2. IsFiniteSet(0 .. b) /\ Cardinality(0 .. b) = IF 0 > b THEN 0 ELSE b - 0 + 1
    BY <2>1, FS_Interval DEF b
  <2> QED
    BY <1>1, <2>2 DEF b
<1>7. \A k \in 1 .. n : k - 1 \in T
  BY <1>1
<1> HIDE DEF T
<1>8. rank \in Injection(S, T) /\ Cardinality(S) = Cardinality(T)
  BY <1>4, <1>5, <1>6, InjectionOf DEF n
<1>9. rank \in Surjection(S, T)
  BY <1>6, <1>8, FS_Injection
<1>10. \A k \in 1 .. n : \E x \in S : rank[x] = k - 1
  <2>1. \A t \in T : \E x \in S : rank[x] = t
    BY <1>9 DEF Surjection
  <2> QED
    BY <1>7, <2>1
<1> QED
  BY <1>1, <1>2, <1>3, <1>10 DEF rank

\* ORDER BY evidence_id: every element once, in rising order.
LEMMA OrderEnumerates ==
    ASSUME NEW S, S \subseteq Nat, IsFiniteSet(S)
    PROVE  /\ InOrder(S) \in Seq(S) /\ Len(InOrder(S)) = Cardinality(S)
           /\ Rising(InOrder(S))
           /\ \A x \in S : \E k \in 1 .. Cardinality(S) : InOrder(S)[k] = x
<1> DEFINE n       == Cardinality(S)
           s       == InOrder(S)
           rank    == [x \in S |-> Cardinality(Below(S, x))]
<1>1. n \in Nat
  BY FS_CardinalityType
<1>2. \A x \in S : rank[x] \in 0 .. n - 1
  BY Ranks
<1>3. \A x, y \in S : x < y => rank[x] < rank[y]
  BY Ranks
<1>4. \A k \in 1 .. n : \E x \in S : rank[x] = k - 1
  BY Ranks
<1>5. s = [k \in 1 .. n |-> CHOOSE x \in S : rank[x] = k - 1]
  <2>1. \A k \in 1 .. n : (CHOOSE x \in S : Cardinality(Below(S, x)) = k - 1)
                           = (CHOOSE x \in S : rank[x] = k - 1)
    OBVIOUS
  <2>2. s = [k \in 1 .. n |-> CHOOSE x \in S : Cardinality(Below(S, x)) = k - 1]
    BY DEF InOrder, Below
  <2> HIDE DEF rank, s, n
  <2> QED
    BY <2>1, <2>2
<1> HIDE DEF rank, s, n
<1>6. \A k \in 1 .. n : s[k] \in S /\ rank[s[k]] = k - 1
  <2> SUFFICES ASSUME NEW k \in 1 .. n PROVE s[k] \in S /\ rank[s[k]] = k - 1
    OBVIOUS
  <2>1. s[k] = CHOOSE x \in S : rank[x] = k - 1
    BY <1>5
  <2> QED
    BY <1>4, <2>1
<1>7. s \in Seq(S) /\ Len(s) = n
  BY <1>1, <1>5, <1>6
<1>8. Rising(s)
  <2> SUFFICES ASSUME NEW i \in 1 .. n, NEW j \in 1 .. n, i < j PROVE s[i] < s[j]
    BY <1>7 DEF Rising
  <2>1. s[i] \in S /\ s[j] \in S /\ rank[s[i]] = i - 1 /\ rank[s[j]] = j - 1
    BY <1>6
  <2>2. i \in Nat /\ j \in Nat /\ ~(j - 1 < i - 1) /\ i - 1 # j - 1
    BY <1>1
  <2>3. s[j] < s[i] => j - 1 < i - 1
    BY <1>3, <2>1
  <2>4. s[i] # s[j]
    BY <2>1, <2>2
  <2>5. s[i] \in Nat /\ s[j] \in Nat
    BY <2>1
  <2> QED
    BY <2>2, <2>3, <2>4, <2>5
<1>9. \A x \in S : \E k \in 1 .. n : s[k] = x
  <2> SUFFICES ASSUME NEW x \in S PROVE \E k \in 1 .. n : s[k] = x
    OBVIOUS
  <2>1. rank[x] + 1 \in 1 .. n
    BY <1>1, <1>2
  <2> DEFINE k == rank[x] + 1
             y == s[k]
  <2>2. y \in S /\ rank[y] = k - 1
    BY <1>6, <2>1
  <2>3. rank[x] \in Nat /\ k - 1 = rank[x]
    BY <1>1, <1>2
  <2> HIDE DEF y, k
  <2>4. ~(rank[x] < rank[x])
    BY <2>3
  <2>5. ~(y < x) /\ ~(x < y)
    BY <1>3, <2>2, <2>3, <2>4
  <2>6. y \in Nat /\ x \in Nat
    BY <2>2
  <2>7. y = x
    BY <2>5, <2>6
  <2> QED
    BY <2>1, <2>7 DEF y, k
<1> QED
  BY <1>7, <1>8, <1>9 DEF s, n

PageIsWhole(p, S) ==
    p # <<>> => \A x \in S : x <= p[Len(p)] => \E k \in 1 .. Len(p) : p[k] = x

\* LIMIT n: the first of them, and nothing among them is left out.
LEMMA PageProperties ==
    ASSUME NEW S, S \subseteq Nat, IsFiniteSet(S), NEW n \in Nat \ {0}
    PROVE  LET p == Limit(S, n)
           IN  /\ p \in Seq(S) /\ Rising(p)
               /\ p = <<>> => S = {}
               /\ \A k \in 1 .. Len(p) : p[k] = InOrder(S)[k]
               /\ \A k \in 1 .. n : k <= Cardinality(S) => k <= Len(p)
               /\ PageIsWhole(p, S)
<1> DEFINE s == InOrder(S)
           m == IF Len(s) < n THEN Len(s) ELSE n
           p == Limit(S, n)
<1>1. s \in Seq(S) /\ Len(s) = Cardinality(S) /\ Rising(s)
  BY OrderEnumerates
<1>2. \A x \in S : \E k \in 1 .. Len(s) : s[k] = x
  BY <1>1, OrderEnumerates
<1>3. p = SubSeq(s, 1, m)
  BY DEF Limit
<1> HIDE DEF s
<1>4. Len(s) \in Nat /\ m \in Nat /\ m <= Len(s) /\ m <= n
  BY <1>1
<1>5. p \in Seq(S) /\ Len(p) = m /\ \A k \in 1 .. m : p[k] = s[k]
  BY <1>1, <1>3, <1>4
<1>6. \A k \in 1 .. n : k <= Cardinality(S) => k <= m
  BY <1>1, <1>4
<1>7. p = <<>> => S = {}
  <2>1. p = <<>> => m = 0
    BY <1>5
  <2>2. m = 0 => Len(s) = 0
    BY <1>4
  <2>3. Len(s) = 0 => S = {}
    BY <1>2
  <2> QED
    BY <2>1, <2>2, <2>3
<1>8. Rising(p)
  BY <1>1, <1>4, <1>5 DEF Rising
<1>9. PageIsWhole(p, S)
  <2> SUFFICES ASSUME p # <<>>, NEW x \in S, x <= p[Len(p)]
               PROVE  \E k \in 1 .. m : p[k] = x
    BY <1>5 DEF PageIsWhole
  <2>1. m \in 1 .. Len(s) /\ p[Len(p)] = s[m]
    BY <1>4, <1>5
  <2>2. PICK k \in 1 .. Len(s) : s[k] = x
    BY <1>2
  <2>3. ~(m < k)
    <3> SUFFICES ASSUME m < k PROVE FALSE
      OBVIOUS
    <3>1. s[m] < s[k]
      <4>1. \A i, j \in 1 .. Len(s) : i < j => s[i] < s[j]
        BY <1>1 DEF Rising
      <4> HIDE DEF m, p
      <4> QED
        BY <2>1, <2>2, <4>1
    <3> HIDE DEF m, p
    <3>2. s[m] \in S /\ s[k] \in S
      BY <1>1, <2>1
    <3>3. s[m] \in Nat /\ s[k] \in Nat
      BY <3>2
    <3> QED
      BY <2>1, <2>2, <3>1, <3>3
  <2>4. k \in 1 .. m
    BY <1>4, <2>3
  <2> QED
    BY <1>5, <2>2, <2>4
<1> HIDE DEF p, m
<1> QED
  BY <1>5, <1>6, <1>7, <1>8, <1>9 DEF s, p

\* A rising sequence has as many elements as positions...
LEMMA RisingCount ==
    ASSUME NEW n \in Nat, NEW s \in [1 .. n -> Nat],
           \A i, j \in 1 .. n : i < j => s[i] < s[j]
    PROVE  LET S == {s[i] : i \in 1 .. n} IN IsFiniteSet(S) /\ Cardinality(S) = n
<1> DEFINE S == {s[i] : i \in 1 .. n}
<1>1. IsFiniteSet(1 .. n) /\ Cardinality(1 .. n) = n
  BY FS_Interval
<1>2. s \in Surjection(1 .. n, S)
  BY DEF Surjection
<1>3. \A i, j \in 1 .. n : i # j => s[i] # s[j]
  OBVIOUS
<1>4. s \in Injection(1 .. n, S)
  <2>1. s \in [1 .. n -> S]
    BY <1>2 DEF Surjection
  <2> QED
    BY <1>3, <2>1, InjectionOf
<1> HIDE DEF S
<1>5. IsFiniteSet(S) /\ (Cardinality(S) = Cardinality(1 .. n) <=> s \in Injection(1 .. n, S))
  BY <1>1, <1>2, FS_Surjection
<1> QED
  BY <1>1, <1>4, <1>5 DEF S

\* ...and is the order of the set of its elements.
LEMMA RisingIsTheOrder ==
    ASSUME NEW n \in Nat, NEW s \in [1 .. n -> Nat],
           \A i, j \in 1 .. n : i < j => s[i] < s[j]
    PROVE  \A k \in 1 .. n : InOrder({s[i] : i \in 1 .. n})[k] = s[k]
<1> DEFINE S       == {s[i] : i \in 1 .. n}
           rank(x) == Cardinality(Below(S, x))
<1>1. IsFiniteSet(S) /\ Cardinality(S) = n /\ S \subseteq Nat
  BY RisingCount
<1>2. \A x, y \in S : x < y => rank(x) < rank(y)
  BY <1>1, Ranks
<1>3. \A x \in S : rank(x) \in Nat
  <2>1. \A x \in S : rank(x) \in 0 .. Cardinality(S) - 1
    BY <1>1, Ranks
  <2> QED
    BY <1>1, <2>1
<1> SUFFICES ASSUME NEW k \in 1 .. n PROVE InOrder(S)[k] = s[k]
  OBVIOUS
<1>4. rank(s[k]) = k - 1
  <2> DEFINE t == [i \in 1 .. k - 1 |-> s[i]]
  <2>1. Below(S, s[k]) = {t[i] : i \in 1 .. k - 1}
    <3>1. ASSUME NEW x \in Below(S, s[k]) PROVE x \in {t[i] : i \in 1 .. k - 1}
      <4>1. PICK i \in 1 .. n : x = s[i]
        BY DEF Below
      <4>2. s[i] < s[k] /\ s[i] \in Nat /\ s[k] \in Nat
        BY <4>1 DEF Below
      <4>3. ~(k < i) /\ i # k
        BY <4>2
      <4>4. i \in 1 .. k - 1
        BY <4>3
      <4> QED
        BY <4>1, <4>4
    <3>2. ASSUME NEW i \in 1 .. k - 1 PROVE t[i] \in Below(S, s[k])
      <4>1. i \in 1 .. n /\ i < k /\ t[i] = s[i]
        OBVIOUS
      <4>2. s[i] \in S /\ s[i] < s[k]
        BY <4>1
      <4> QED
        BY <4>1, <4>2 DEF Below
    <3> QED
      BY <3>1, <3>2
  <2>2. k - 1 \in Nat /\ t \in [1 .. k - 1 -> Nat]
    OBVIOUS
  <2>3. \A i, j \in 1 .. k - 1 : i < j => t[i] < t[j]
    OBVIOUS
  <2> HIDE DEF t
  <2>4. Cardinality({t[i] : i \in 1 .. k - 1}) = k - 1
    BY <2>2, <2>3, RisingCount
  <2> QED
    BY <2>1, <2>4
<1>5. s[k] \in S
  OBVIOUS
<1>6. InOrder(S)[k] = CHOOSE x \in S : rank(x) = k - 1
  BY <1>1 DEF InOrder, Below
<1> HIDE DEF rank, S
<1> DEFINE c == CHOOSE x \in S : rank(x) = k - 1
<1>7. c \in S /\ rank(c) = k - 1
  BY <1>4, <1>5
<1>8. ~(c < s[k]) /\ ~(s[k] < c)
  BY <1>2, <1>3, <1>4, <1>5, <1>7
<1>9. c \in Nat /\ s[k] \in Nat
  BY <1>1, <1>5, <1>7
<1> QED
  BY <1>6, <1>8, <1>9

-------------------------------------------------------------------------------
(* What a load has read.                                                   *)

LEMMA IdsAreFinite ==
    ASSUME NEW S, S \subseteq Ids
    PROVE  IsFiniteSet(S) /\ S \subseteq Nat /\ Cardinality(S) \in Nat
<1>1. IsFiniteSet(Ids) /\ Ids \subseteq Nat
  BY EvidenceCheckAssumption
<1>2. IsFiniteSet(S)
  BY <1>1, FS_Subset
<1> QED
  BY <1>1, <1>2, FS_CardinalityType

LEMMA SmallerSet ==
    ASSUME NEW S, NEW T, S \subseteq T, T \subseteq Ids
    PROVE  Cardinality(S) <= Cardinality(T) /\ (Cardinality(T) <= Cardinality(S) => S = T)
<1>1. IsFiniteSet(T) /\ Cardinality(T) \in Nat /\ Cardinality(S) \in Nat
  BY IdsAreFinite
<1>2. Cardinality(S) <= Cardinality(T) /\ (Cardinality(T) = Cardinality(S) => T = S)
  BY <1>1, FS_Subset
<1> QED
  BY <1>1, <1>2

LEMMA LoadFields ==
    ASSUME NEW r \in LoadStates
    PROVE  /\ r.results \in Seq(Results) /\ r.page \in Seq(Ids)
           /\ Len(r.results) \in Nat /\ Len(r.page) \in Nat
           /\ DOMAIN r.results = 1 .. Len(r.results)
           /\ \A i \in 1 .. Len(r.results) : r.results[i] \in Results
           /\ \A i \in 1 .. Len(r.page) : r.page[i] \in Ids
           /\ r.last \in Int /\ r.began \in Counts /\ r.stage \in Stages
           /\ r.generation \in Nat /\ r.logged \subseteq Ids /\ r.failed \in BOOLEAN
<1>1. r.results \in Seq(Results) /\ r.page \in Seq(Ids)
  BY DEF LoadStates
<1>2. /\ r.last \in Int /\ r.began \in Counts /\ r.stage \in Stages
      /\ r.generation \in Nat /\ r.logged \subseteq Ids /\ r.failed \in BOOLEAN
  BY DEF LoadStates
<1> QED
  BY <1>1, <1>2

LEMMA ReadFields ==
    ASSUME NEW r \in LoadStates
    PROVE  LET n == Len(r.results)
               m == Len(r.page)
           IN  /\ Read(r) \in Seq(Ids) /\ Len(Read(r)) = n + m
               /\ \A i \in 1 .. n : i \in 1 .. n + m /\ Read(r)[i] = r.results[i].id
               /\ \A i \in 1 .. m : n + i \in 1 .. n + m /\ Read(r)[n + i] = r.page[i]
               /\ \A i \in 1 .. n + m : i \in 1 .. n \/ i - n \in 1 .. m
               /\ ResultIds(r) \subseteq ReadIds(r) /\ ReadIds(r) \subseteq Ids
<1> DEFINE n == Len(r.results)
           m == Len(r.page)
           s == Read(r)
<1>1. /\ n \in Nat /\ m \in Nat /\ DOMAIN r.results = 1 .. n
      /\ \A i \in 1 .. n : r.results[i] \in Results
      /\ \A i \in 1 .. m : r.page[i] \in Ids
  BY LoadFields
<1>2. \A i \in 1 .. n : r.results[i].id \in Ids
  BY <1>1 DEF Results
<1>3. s = [i \in 1 .. n + m |-> IF i <= n THEN r.results[i].id ELSE r.page[i - n]]
  BY DEF Read
<1>4. ReadIds(r) = {s[i] : i \in DOMAIN s} /\ ResultIds(r) = {r.results[i].id : i \in 1 .. n}
  BY <1>1 DEF ReadIds, ResultIds
<1> HIDE DEF n, m, s
<1>5. n + m \in Nat /\ \A i \in 1 .. n + m : i <= n \/ i - n \in 1 .. m
  BY <1>1
<1>6. \A i \in 1 .. n : i \in 1 .. n + m /\ s[i] = r.results[i].id
  BY <1>1, <1>3
<1>7. \A i \in 1 .. m : n + i \in 1 .. n + m /\ s[n + i] = r.page[i]
  <2> SUFFICES ASSUME NEW i \in 1 .. m PROVE n + i \in 1 .. n + m /\ s[n + i] = r.page[i]
    OBVIOUS
  <2>1. n + i \in 1 .. n + m /\ ~(n + i <= n) /\ (n + i) - n = i
    BY <1>1
  <2>2. s[n + i] = r.page[(n + i) - n]
    BY <1>3, <2>1
  <2> QED
    BY <2>1, <2>2
<1>8. \A i \in 1 .. n + m : i \in 1 .. n \/ i - n \in 1 .. m
  BY <1>1
<1>9. \A i \in 1 .. n + m : s[i] \in Ids
  <2> SUFFICES ASSUME NEW i \in 1 .. n + m PROVE s[i] \in Ids
    OBVIOUS
  <2>1. CASE i \in 1 .. n
    BY <1>2, <1>6, <2>1
  <2>2. CASE i - n \in 1 .. m
    <3>1. n + (i - n) = i
      BY <1>1
    <3>2. s[n + (i - n)] = r.page[i - n]
      BY <1>7, <2>2
    <3> QED
      BY <1>1, <2>2, <3>1, <3>2
  <2> QED
    BY <1>8, <2>1, <2>2
<1>10. s \in Seq(Ids) /\ Len(s) = n + m /\ DOMAIN s = 1 .. n + m
  BY <1>3, <1>5, <1>9
<1>11. ResultIds(r) \subseteq ReadIds(r) /\ ReadIds(r) \subseteq Ids
  BY <1>4, <1>6, <1>9, <1>10
<1> QED
  BY <1>6, <1>7, <1>8, <1>10, <1>11 DEF n, m, s

\* A load that has no page in hand has read what it has a result for.
LEMMA NoPage ==
    ASSUME NEW r \in LoadStates, r.page = <<>>
    PROVE  ReadIds(r) = ResultIds(r) /\ Len(Read(r)) = Len(r.results)
<1> DEFINE n == Len(r.results)
<1>1. Len(r.page) = 0 /\ n \in Nat /\ DOMAIN r.results = 1 .. n
  BY LoadFields
<1>a. Read(r) \in Seq(Ids) /\ Len(Read(r)) = n + Len(r.page)
  BY ReadFields
<1>2. Len(Read(r)) = n /\ DOMAIN Read(r) = 1 .. n
  <2> HIDE DEF n
  <2> QED
    BY <1>1, <1>a
<1>3. \A i \in 1 .. n : Read(r)[i] = r.results[i].id
  BY ReadFields
<1> QED
  BY <1>1, <1>2, <1>3 DEF ReadIds, ResultIds

\* The results are in the order of their ids: there are no more of them than files.
LEMMA ResultsRise ==
    ASSUME NEW r \in LoadStates, Rising(Read(r))
    PROVE  /\ \A i, j \in 1 .. Len(r.results) : i < j => r.results[i].id < r.results[j].id
           /\ Len(r.results) <= Cardinality(Ids)
<1> DEFINE n == Len(r.results)
           s == [i \in 1 .. n |-> r.results[i].id]
<1>1. n \in Nat /\ Len(r.page) \in Nat /\ \A i \in 1 .. n : r.results[i].id \in Ids
  BY LoadFields DEF Results
<1>2. \A i \in 1 .. n : i \in 1 .. Len(Read(r)) /\ Read(r)[i] = r.results[i].id
  BY ReadFields
<1>3. \A i, j \in 1 .. n : i < j => r.results[i].id < r.results[j].id
  BY <1>2 DEF Rising
<1>4. s \in [1 .. n -> Nat] /\ \A i, j \in 1 .. n : i < j => s[i] < s[j]
  BY <1>1, <1>3, EvidenceCheckAssumption
<1>5. {s[i] : i \in 1 .. n} \subseteq Ids
  BY <1>1
<1> HIDE DEF s
<1>6. Cardinality({s[i] : i \in 1 .. n}) = n
  BY <1>1, <1>4, RisingCount
<1> QED
  BY <1>3, <1>5, <1>6, SmallerSet

\* What a load holds stays so when files are registered and events logged.
LEMMA StillHolds ==
    ASSUME NEW r \in LoadStates, NEW ids, NEW ids2, NEW named, NEW named2,
           ids \subseteq ids2, ids2 \subseteq Ids, named \subseteq named2,
           LoadHolds(r, ids, named)
    PROVE  LoadHolds(r, ids2, named2)
<1>1. Ahead(r, ids) \subseteq Ahead(r, ids2)
  BY DEF Ahead
<1>2. Ahead(r, ids2) \subseteq Ids
  BY ReadFields DEF Ahead
<1>3. /\ Cardinality(Ahead(r, ids)) <= Cardinality(Ahead(r, ids2))
      /\ Cardinality(Ahead(r, ids)) \in Nat /\ Cardinality(Ahead(r, ids2)) \in Nat
  <2>1. Ahead(r, ids) \subseteq Ids
    BY <1>1, <1>2
  <2> QED
    BY <1>1, <1>2, <2>1, SmallerSet, IdsAreFinite
<1>4. r.began.evidence_max \in Nat
  BY LoadFields DEF Counts
<1>5. r.began.evidence_max <= Cardinality(Ahead(r, ids)) =>
        r.began.evidence_max <= Cardinality(Ahead(r, ids2))
  BY <1>3, <1>4
<1>6. r.stage \in {"counted", "reading", "hashing"} =>
        r.began.evidence_max <= Cardinality(Ahead(r, ids2))
  BY <1>5 DEF LoadHolds
<1> QED
  BY <1>6 DEF LoadHolds

LEMMA NewLoadHolds ==
    ASSUME NEW g \in Nat, NEW ids, NEW named
    PROVE  NewLoad(g) \in LoadStates /\ LoadHolds(NewLoad(g), ids, named)
<1> DEFINE r == NewLoad(g)
<1>1. r \in LoadStates
  BY DEF NewLoad, LoadStates, Stages, Counts
<1>2. r.results = <<>> /\ r.page = <<>> /\ r.stage = "new" /\ r.last = -1 /\ r.logged = {}
  BY DEF NewLoad
<1> HIDE DEF r
<1>3. Len(Read(r)) = 0 /\ DOMAIN Read(r) = {} /\ DOMAIN r.results = {}
  BY <1>2 DEF Read
<1>4. ReadIds(r) = {} /\ Rising(Read(r))
  BY <1>3 DEF ReadIds, Rising
<1>5. LoadHolds(r, ids, named)
  BY <1>2, <1>3, <1>4 DEF LoadHolds
<1> QED
  BY <1>1, <1>5 DEF r

-------------------------------------------------------------------------------
(* The steps of a load's thread, on the load alone.                        *)

LEMMA FirstAndRest ==
    ASSUME NEW T, NEW p \in Seq(T), p # <<>>
    PROVE  /\ Len(p) \in Nat \ {0} /\ Head(p) = p[1] /\ p[1] \in T
           /\ Tail(p) \in Seq(T) /\ Len(Tail(p)) = Len(p) - 1
           /\ \A i \in 1 .. Len(p) - 1 : Tail(p)[i] = p[i + 1]
<1>1. Len(p) \in Nat \ {0}
  OBVIOUS
<1>2. Head(p) = p[1] /\ p[1] \in T
  BY <1>1
<1>3. Tail(p) \in Seq(T) /\ Len(Tail(p)) = Len(p) - 1
  OBVIOUS
<1>4. \A i \in 1 .. Len(p) - 1 : Tail(p)[i] = p[i + 1]
  BY <1>1, <1>3
<1> QED
  BY <1>1, <1>2, <1>3, <1>4

LEMMA OneMore ==
    ASSUME NEW T, NEW p \in Seq(T), NEW e \in T
    PROVE  /\ Append(p, e) \in Seq(T) /\ Len(Append(p, e)) = Len(p) + 1
           /\ DOMAIN Append(p, e) = 1 .. Len(p) + 1
           /\ Append(p, e)[Len(p) + 1] = e /\ \A i \in 1 .. Len(p) : Append(p, e)[i] = p[i]
OBVIOUS

LEMMA SameRead ==
    ASSUME NEW r, NEW x, x.results = r.results, x.page = r.page
    PROVE  Read(x) = Read(r) /\ ReadIds(x) = ReadIds(r) /\ ResultIds(x) = ResultIds(r)
<1>1. Read(x) = Read(r)
  BY DEF Read
<1> QED
  BY <1>1 DEF ReadIds, ResultIds

\* The thread is over, or has nothing left to hash.
LEMMA EndHolds ==
    ASSUME NEW r, NEW x, NEW ids, NEW named, LoadHolds(r, ids, named),
           x.results = r.results, x.page = r.page, x.last = r.last, x.logged = r.logged,
           x.stage \in {"ended", "cancelled", "dropped", "published"}
    PROVE  LoadHolds(x, ids, named)
<1>1. Read(x) = Read(r) /\ ReadIds(x) = ReadIds(r)
  BY SameRead
<1> QED
  BY <1>1 DEF LoadHolds

\* The record counts are read before anything else: all there is is still ahead.
LEMMA BeginHolds ==
    ASSUME NEW r \in LoadStates, NEW ids, NEW named, ids \subseteq Ids, named \subseteq Ids,
           LoadHolds(r, ids, named), r.stage = "new"
    PROVE  LET x == [r EXCEPT !.stage = "counted",
                       !.began = [events |-> Cardinality(named),
                                  evidence_max |-> Cardinality(ids)]]
           IN  x \in LoadStates /\ LoadHolds(x, ids, named)
<1> DEFINE c == [events |-> Cardinality(named), evidence_max |-> Cardinality(ids)]
           x == [r EXCEPT !.stage = "counted", !.began = c]
<1>1. Cardinality(named) \in Nat /\ Cardinality(ids) \in Nat /\ ids \subseteq Nat
  BY IdsAreFinite
<1>2. c \in Counts /\ c.evidence_max = Cardinality(ids)
  BY <1>1 DEF Counts
<1> HIDE DEF c
<1>3. x \in LoadStates
  BY <1>2 DEF LoadStates, Stages
<1>4. /\ x.results = r.results /\ x.page = r.page /\ x.last = r.last /\ x.logged = r.logged
      /\ x.stage = "counted" /\ x.began = c
  BY DEF LoadStates
<1> HIDE DEF x
<1>5. Read(x) = Read(r) /\ ReadIds(x) = ReadIds(r)
  BY <1>4, SameRead
<1>6. r.last = -1
  BY DEF LoadHolds
<1>7. ids \subseteq Ahead(x, ids) /\ Ahead(x, ids) \subseteq Ids
  <2>1. \A id \in ids : id > -1
    BY <1>1
  <2>2. ReadIds(x) \subseteq ids
    BY <1>5 DEF LoadHolds
  <2> QED
    BY <1>4, <1>6, <2>1, <2>2 DEF Ahead
<1>8. x.began.evidence_max <= Cardinality(Ahead(x, ids))
  BY <1>2, <1>4, <1>7, SmallerSet
<1>9. LoadHolds(x, ids, named)
  BY <1>4, <1>5, <1>8 DEF LoadHolds
<1> QED
  BY <1>3, <1>9 DEF x, c

LEMMA ReadLogHolds ==
    ASSUME NEW r \in LoadStates, NEW ids, NEW named, named \subseteq Ids,
           LoadHolds(r, ids, named), r.stage = "counted"
    PROVE  LET x == [r EXCEPT !.logged = named,
                       !.stage = IF ids = {} THEN "ended" ELSE "reading"]
           IN  x \in LoadStates /\ LoadHolds(x, ids, named)
<1> DEFINE s == IF ids = {} THEN "ended" ELSE "reading"
           x == [r EXCEPT !.logged = named, !.stage = s]
<1>1. s \in {"ended", "reading"}
  OBVIOUS
<1> HIDE DEF s
<1>2. x \in LoadStates
  BY <1>1 DEF LoadStates, Stages
<1>3. /\ x.results = r.results /\ x.page = r.page /\ x.last = r.last /\ x.logged = named
      /\ x.stage = s /\ x.began = r.began
  BY DEF LoadStates
<1> HIDE DEF x
<1>4. Read(x) = Read(r) /\ ReadIds(x) = ReadIds(r)
  BY <1>3, SameRead
<1>5. r.results = <<>> /\ r.page = <<>> /\ r.began.evidence_max <= Cardinality(Ahead(r, ids))
  BY DEF LoadHolds
<1>6. Ahead(x, ids) = Ahead(r, ids)
  BY <1>3, <1>4 DEF Ahead
<1>7. DOMAIN x.results = {}
  BY <1>3, <1>5
<1>8. /\ Rising(Read(x)) /\ ReadIds(x) \subseteq ids
      /\ \A id \in ReadIds(x) : id <= x.last
  BY <1>3, <1>4 DEF LoadHolds
<1>9. LoadHolds(x, ids, named)
  BY <1>1, <1>3, <1>5, <1>6, <1>7, <1>8 DEF LoadHolds
<1> QED
  BY <1>2, <1>9 DEF x, s

\* The next row keeps its place: it moves from the page to the results.
LEMMA HashRowHolds ==
    ASSUME NEW r \in LoadStates, NEW ids, NEW named, NEW verdict,
           verdict \in {"match", "MISMATCH", "not_found"},
           LoadHolds(r, ids, named), r.stage = "hashing"
    PROVE  LET x == [r EXCEPT
                       !.results = Append(@, [id |-> Head(r.page), rehash |-> verdict,
                                              logged |-> Head(r.page) \in r.logged]),
                       !.page = Tail(@),
                       !.stage = IF Len(r.page) = 1 THEN "reading" ELSE "hashing"]
           IN  x \in LoadStates /\ LoadHolds(x, ids, named)
<1> DEFINE row == [id |-> Head(r.page), rehash |-> verdict, logged |-> Head(r.page) \in r.logged]
           s   == IF Len(r.page) = 1 THEN "reading" ELSE "hashing"
           x   == [r EXCEPT !.results = Append(@, row), !.page = Tail(@), !.stage = s]
           n   == Len(r.results)
           m   == Len(r.page)
<1>0. /\ r.results \in Seq(Results) /\ r.page \in Seq(Ids) /\ r.page # <<>>
      /\ DOMAIN r.results = 1 .. Len(r.results) /\ Len(r.results) \in Nat
  BY LoadFields DEF LoadHolds
<1>1. n \in Nat /\ m \in Nat \ {0} /\ DOMAIN r.results = 1 .. n
  BY <1>0, FirstAndRest
<1>2. Head(r.page) = r.page[1] /\ r.page[1] \in Ids
  BY <1>0, FirstAndRest
<1>3. row \in Results /\ row.id = r.page[1] /\ row.logged = (row.id \in r.logged)
  BY <1>2 DEF Results
<1>4. s \in {"reading", "hashing"} /\ (s = "reading" => m = 1) /\ (s = "hashing" => m # 1)
  OBVIOUS
<1> HIDE DEF row, s
<1>5. Append(r.results, row) \in Seq(Results) /\ Tail(r.page) \in Seq(Ids)
  BY <1>0, <1>3, FirstAndRest, OneMore
<1>6. x \in LoadStates
  BY <1>4, <1>5 DEF LoadStates, Stages
<1>7. /\ x.results = Append(r.results, row) /\ x.page = Tail(r.page) /\ x.last = r.last
      /\ x.logged = r.logged /\ x.stage = s /\ x.began = r.began
  BY DEF LoadStates
<1> HIDE DEF x
<1>8. Len(x.results) = n + 1 /\ x.results[n + 1] = row /\ \A i \in 1 .. n : x.results[i] = r.results[i]
  BY <1>0, <1>3, <1>7, OneMore
<1>9. Len(x.page) = m - 1 /\ \A i \in 1 .. m - 1 : x.page[i] = r.page[i + 1]
  BY <1>0, <1>7, FirstAndRest
<1>10. DOMAIN x.results = 1 .. n + 1
  BY <1>0, <1>3, <1>7, OneMore
<1> HIDE DEF n, m
<1>11. Read(x) = Read(r)
  <2>1. Read(r) = [i \in 1 .. n + m |-> IF i <= n THEN r.results[i].id ELSE r.page[i - n]]
    BY DEF Read, n, m
  <2>2. Read(x) = [i \in 1 .. (n + 1) + (m - 1) |->
                     IF i <= n + 1 THEN x.results[i].id ELSE x.page[i - (n + 1)]]
    BY <1>8, <1>9 DEF Read
  <2>3. (n + 1) + (m - 1) = n + m
    BY <1>1
  <2>4. ASSUME NEW i \in 1 .. n + m
        PROVE  (IF i <= n + 1 THEN x.results[i].id ELSE x.page[i - (n + 1)])
                 = (IF i <= n THEN r.results[i].id ELSE r.page[i - n])
    <3>1. CASE i <= n
      <4>1. i \in 1 .. n /\ i <= n + 1
        BY <1>1, <3>1
      <4> QED
        BY <1>8, <3>1, <4>1
    <3>2. CASE i = n + 1
      <4>1. ~(i <= n) /\ i <= n + 1 /\ i - n = 1
        BY <1>1, <3>2
      <4> QED
        BY <1>3, <1>8, <3>2, <4>1
    <3>3. CASE i > n + 1
      <4>1. ~(i <= n) /\ ~(i <= n + 1) /\ i - (n + 1) \in 1 .. m - 1 /\ (i - (n + 1)) + 1 = i - n
        BY <1>1, <3>3
      <4> QED
        BY <1>9, <4>1
    <3> QED
      BY <1>1, <3>1, <3>2, <3>3
  <2> QED
    BY <2>1, <2>2, <2>3, <2>4
<1>12. ReadIds(x) = ReadIds(r) /\ Ahead(x, ids) = Ahead(r, ids)
  BY <1>7, <1>11 DEF ReadIds, Ahead
<1>13. \A i \in DOMAIN x.results : x.results[i].logged = (x.results[i].id \in x.logged)
  <2>1. \A i \in 1 .. n : r.results[i].logged = (r.results[i].id \in r.logged)
    BY <1>1 DEF LoadHolds
  <2>2. \A i \in 1 .. n + 1 : i \in 1 .. n \/ i = n + 1
    BY <1>1
  <2> QED
    BY <1>3, <1>7, <1>8, <1>10, <2>1, <2>2
<1>14. s = "reading" => x.page = <<>>
  <2>1. s = "reading" => Len(x.page) = 0
    BY <1>4, <1>9
  <2>2. x.page \in Seq(Ids)
    BY <1>5, <1>7
  <2> QED
    BY <2>1, <2>2
<1>15. s = "hashing" => x.page # <<>>
  BY <1>1, <1>2, <1>4, <1>9
<1>16. /\ Rising(Read(x)) /\ ReadIds(x) \subseteq ids
       /\ \A id \in ReadIds(x) : id <= x.last
       /\ x.logged \subseteq named
       /\ x.began.evidence_max <= Cardinality(Ahead(x, ids))
  BY <1>7, <1>11, <1>12 DEF LoadHolds
<1>17. LoadHolds(x, ids, named)
  BY <1>4, <1>7, <1>13, <1>14, <1>15, <1>16 DEF LoadHolds
<1> QED
  BY <1>6, <1>17 DEF x, s, row

\* The next page goes on where the load has got to, and leaves out nothing up to its last.
LEMMA ReadPageHolds ==
    ASSUME NEW r \in LoadStates, NEW ids, NEW named, ids \subseteq Ids,
           LoadHolds(r, ids, named), r.stage = "reading"
    PROVE  LET page == Limit({id \in ids : id > r.last}, PageSize)
               x    == IF page = <<>>
                         THEN [r EXCEPT !.stage = "hashed"]
                         ELSE [r EXCEPT !.page = page, !.last = page[Len(page)],
                                        !.stage = "hashing"]
           IN  x \in LoadStates /\ LoadHolds(x, ids, named)
<1> DEFINE S    == {id \in ids : id > r.last}
           page == Limit(S, PageSize)
           n    == Len(r.results)
           k    == Len(page)
<1>1. S \subseteq Ids /\ IsFiniteSet(S) /\ S \subseteq Nat /\ \A id \in S : id \in ids /\ id > r.last
  BY IdsAreFinite
<1>2. r.last \in Int /\ n \in Nat /\ r.began.evidence_max \in Nat /\ r.results \in Seq(Results)
  BY LoadFields DEF Counts
<1>3. /\ Rising(Read(r)) /\ ReadIds(r) \subseteq ids /\ \A id \in ReadIds(r) : id <= r.last
      /\ r.logged \subseteq named /\ r.page = <<>>
      /\ \A i \in DOMAIN r.results : r.results[i].logged = (r.results[i].id \in r.logged)
      /\ r.began.evidence_max <= Cardinality(Ahead(r, ids))
  BY DEF LoadHolds
<1>4. ReadIds(r) = ResultIds(r) /\ Len(Read(r)) = n /\ ReadIds(r) \subseteq Ids
  BY <1>3, NoPage, ReadFields
<1>5. Ahead(r, ids) = ReadIds(r) \cup S
  BY DEF Ahead
<1> HIDE DEF S
<1>6. PageSize \in Nat \ {0}
  BY EvidenceCheckAssumption
<1>7. /\ page \in Seq(S) /\ Rising(page) /\ (page = <<>> => S = {})
      /\ (page # <<>> => \A id \in S : id <= page[k] => \E i \in 1 .. k : page[i] = id)
  <2>1. page \in Seq(S) /\ Rising(page)
    BY <1>1, <1>6, PageProperties
  <2>2. page = <<>> => S = {}
    BY <1>1, <1>6, PageProperties
  <2>3. page # <<>> => \A id \in S : id <= page[k] => \E i \in 1 .. k : page[i] = id
    <3>1. S \subseteq Nat /\ IsFiniteSet(S)
      BY <1>1
    <3>2. PageIsWhole(Limit(S, PageSize), S)
      BY <1>6, <3>1, PageProperties
    <3> HIDE DEF page, k
    <3>3. page = Limit(S, PageSize) /\ k = Len(page)
      BY DEF page, k
    <3> QED
      BY <3>2, <3>3 DEF PageIsWhole
  <2> HIDE DEF page, k
  <2> QED
    BY <2>1, <2>2, <2>3
<1> HIDE DEF page
<1>8. CASE page = <<>>
  <2> DEFINE x == [r EXCEPT !.stage = "hashed"]
  <2>1. x \in LoadStates
    BY DEF LoadStates, Stages
  <2>2. /\ x.results = r.results /\ x.page = r.page /\ x.last = r.last /\ x.logged = r.logged
        /\ x.stage = "hashed" /\ x.began = r.began
    BY DEF LoadStates
  <2> HIDE DEF x
  <2>3. Read(x) = Read(r) /\ ReadIds(x) = ReadIds(r) /\ ResultIds(x) = ResultIds(r)
    BY <2>2, SameRead
  <2>4. Ahead(r, ids) = ResultIds(x)
    BY <1>4, <1>5, <1>7, <1>8, <2>3
  <2>5. LoadHolds(x, ids, named)
    BY <1>3, <2>2, <2>3, <2>4 DEF LoadHolds
  <2> QED
    BY <1>8, <2>1, <2>5 DEF x, page, S
<1>9. CASE page # <<>>
  <2> DEFINE x == [r EXCEPT !.page = page, !.last = page[k], !.stage = "hashing"]
  <2>1. k \in Nat \ {0} /\ k \in 1 .. k /\ \A i \in 1 .. k : page[i] \in S
    BY <1>7, <1>9
  <2>2. page \in Seq(Ids) /\ page[k] \in Int
    <3> HIDE DEF k
    <3>1. page[k] \in S
      BY <2>1
    <3>2. page[k] \in Nat
      BY <1>1, <3>1
    <3>3. page \in Seq(S) /\ S \subseteq Ids
      BY <1>1, <1>7
    <3>4. page \in Seq(Ids)
      BY <3>3, SeqMonotonic
    <3> QED
      BY <3>2, <3>4
  <2>3. x \in LoadStates
    BY <2>2 DEF LoadStates, Stages
  <2>4. /\ x.results = r.results /\ x.page = page /\ x.last = page[k] /\ x.logged = r.logged
        /\ x.stage = "hashing" /\ x.began = r.began
    BY DEF LoadStates
  <2> HIDE DEF x
  <2>5. /\ Len(Read(x)) = n + k /\ DOMAIN Read(x) = 1 .. n + k
        /\ \A i \in 1 .. n : Read(x)[i] = r.results[i].id
        /\ \A i \in 1 .. k : n + i \in 1 .. n + k /\ Read(x)[n + i] = page[i]
        /\ \A i \in 1 .. n + k : i \in 1 .. n \/ i - n \in 1 .. k
        /\ ReadIds(x) \subseteq Ids
    <3>1. Read(x) \in Seq(Ids) /\ Len(Read(x)) = n + k
      BY <2>3, <2>4, ReadFields
    <3>2. DOMAIN Read(x) = 1 .. n + k
      BY <3>1
    <3>3. \A i \in 1 .. n : Read(x)[i] = r.results[i].id
      <4>1. \A i \in 1 .. Len(x.results) : Read(x)[i] = x.results[i].id
        BY <2>3, ReadFields
      <4>2. x.results = r.results
        BY <2>4
      <4> QED
        BY <4>1, <4>2
    <3>4. \A i \in 1 .. k : n + i \in 1 .. n + k /\ Read(x)[n + i] = page[i]
      BY <2>3, <2>4, ReadFields
    <3>5. \A i \in 1 .. n + k : i \in 1 .. n \/ i - n \in 1 .. k
      <4> HIDE DEF n, k
      <4> QED
        BY <1>2, <2>1
    <3>6. ReadIds(x) \subseteq Ids
      BY <2>3, ReadFields
    <3> HIDE DEF n, k
    <3> QED
      BY <3>1, <3>2, <3>3, <3>4, <3>5, <3>6
  <2>6. \A i \in 1 .. n : /\ i \in 1 .. Len(Read(r)) /\ Read(r)[i] = r.results[i].id
                          /\ r.results[i].id \in ReadIds(r)
    <3>1. \A i \in 1 .. n : Read(r)[i] = r.results[i].id
      BY ReadFields
    <3>2. DOMAIN r.results = 1 .. n
      BY <1>2
    <3>3. \A i \in 1 .. n : r.results[i].id \in ResultIds(r)
      BY <3>2 DEF ResultIds
    <3> QED
      BY <1>4, <3>1, <3>3
  <2> HIDE DEF n, k
  <2>7. \A i \in 1 .. n, j \in 1 .. k : r.results[i].id < page[j]
    <3> SUFFICES ASSUME NEW i \in 1 .. n, NEW j \in 1 .. k PROVE r.results[i].id < page[j]
      OBVIOUS
    <3>1. r.results[i].id \in ReadIds(r) /\ page[j] \in S
      BY <2>1, <2>6
    <3>2. r.results[i].id \in Nat /\ r.results[i].id <= r.last
      BY <1>3, <1>4, <3>1, EvidenceCheckAssumption
    <3>3. page[j] \in Nat /\ page[j] > r.last
      BY <1>1, <3>1
    <3> QED
      BY <1>2, <3>2, <3>3
  <2>8. \A i, j \in 1 .. k : i < j => page[i] < page[j]
    BY <1>7 DEF Rising, k
  <2>9. \A i, j \in 1 .. n : i < j => r.results[i].id < r.results[j].id
    BY <1>3, <2>6 DEF Rising
  <2>10. Rising(Read(x))
    <3> SUFFICES ASSUME NEW i \in 1 .. n + k, NEW j \in 1 .. n + k, i < j
                 PROVE  Read(x)[i] < Read(x)[j]
      BY <2>5 DEF Rising
    <3>1. CASE j \in 1 .. n
      <4>1. i \in 1 .. n
        BY <1>2, <3>1
      <4> QED
        BY <2>5, <2>9, <3>1, <4>1
    <3>2. CASE i \in 1 .. n /\ j - n \in 1 .. k
      <4>1. n + (j - n) = j
        BY <1>2
      <4>2. Read(x)[j] = page[j - n]
        BY <2>5, <3>2, <4>1
      <4> QED
        BY <2>5, <2>7, <3>2, <4>2
    <3>3. CASE i - n \in 1 .. k /\ j - n \in 1 .. k
      <4>1. n + (j - n) = j /\ n + (i - n) = i /\ i - n < j - n
        BY <1>2
      <4>2. Read(x)[j] = page[j - n] /\ Read(x)[i] = page[i - n]
        BY <2>5, <3>3, <4>1
      <4> QED
        BY <2>8, <3>3, <4>1, <4>2
    <3> QED
      BY <2>5, <3>1, <3>2, <3>3
  <2>11. \A i \in 1 .. k : page[i] <= page[k]
    <3> SUFFICES ASSUME NEW i \in 1 .. k PROVE page[i] <= page[k]
      OBVIOUS
    <3>1. page[i] \in Nat /\ page[k] \in Nat
      BY <1>1, <2>1
    <3>2. i = k \/ i < k
      BY <2>1
    <3> QED
      BY <2>1, <2>8, <3>1, <3>2
  <2>12. ReadIds(x) = ReadIds(r) \cup {page[i] : i \in 1 .. k}
    <3>1. ReadIds(x) = {Read(x)[i] : i \in 1 .. n + k}
      BY <2>5 DEF ReadIds
    <3>2. ReadIds(r) = {r.results[i].id : i \in 1 .. n}
      BY <1>2, <1>4 DEF ResultIds, n
    <3>3. ASSUME NEW i \in 1 .. n + k PROVE Read(x)[i] \in ReadIds(r) \cup {page[j] : j \in 1 .. k}
      <4>1. CASE i \in 1 .. n
        BY <2>5, <2>6, <4>1
      <4>2. CASE i - n \in 1 .. k
        <5>1. n + (i - n) = i
          BY <1>2
        <5>2. Read(x)[i] = page[i - n]
          BY <2>5, <4>2, <5>1
        <5> QED
          BY <4>2, <5>2
      <4> QED
        BY <2>5, <4>1, <4>2
    <3>4. ASSUME NEW i \in 1 .. n PROVE r.results[i].id \in ReadIds(x)
      <4>1. i \in 1 .. n + k
        BY <1>2, <2>1
      <4> QED
        BY <2>5, <3>1, <4>1
    <3>5. ASSUME NEW i \in 1 .. k PROVE page[i] \in ReadIds(x)
      BY <2>5, <3>1
    <3> QED
      BY <3>1, <3>2, <3>3, <3>4, <3>5
  <2>13. ReadIds(x) \subseteq ids
    BY <1>1, <1>3, <2>1, <2>12
  <2>14. \A id \in ReadIds(x) : id <= x.last
    <3>1. \A id \in ReadIds(r) : id <= page[k]
      <4> SUFFICES ASSUME NEW id \in ReadIds(r) PROVE id <= page[k]
        OBVIOUS
      <4>1. id \in Nat /\ id <= r.last
        BY <1>3, <1>4, EvidenceCheckAssumption
      <4>2. page[k] \in Nat /\ page[k] > r.last
        BY <1>1, <2>1
      <4> QED
        BY <1>2, <4>1, <4>2
    <3> QED
      BY <2>4, <2>11, <2>12, <3>1
  <2>15. Ahead(r, ids) \subseteq Ahead(x, ids) /\ Ahead(x, ids) \subseteq Ids
    <3>1. ASSUME NEW id \in S PROVE id \in Ahead(x, ids)
      <4>1. id \in Nat /\ page[k] \in Nat /\ id \in ids
        BY <1>1, <2>1
      <4>2. CASE id <= page[k]
        <5>1. \E i \in 1 .. k : page[i] = id
          BY <1>7, <1>9, <4>2 DEF k
        <5> QED
          BY <2>12, <5>1 DEF Ahead
      <4>3. CASE id > page[k]
        BY <2>4, <4>1, <4>3 DEF Ahead
      <4> QED
        BY <4>1, <4>2, <4>3
    <3>2. ReadIds(r) \subseteq Ahead(x, ids)
      BY <2>12 DEF Ahead
    <3>3. Ahead(x, ids) \subseteq Ids
      BY <2>5 DEF Ahead
    <3> QED
      BY <1>5, <3>1, <3>2, <3>3
  <2>16. x.began.evidence_max <= Cardinality(Ahead(x, ids))
    <3>1. Cardinality(Ahead(r, ids)) <= Cardinality(Ahead(x, ids))
      BY <2>15, SmallerSet
    <3>2. Ahead(r, ids) \subseteq Ids
      BY <2>15
    <3>3. Cardinality(Ahead(r, ids)) \in Nat /\ Cardinality(Ahead(x, ids)) \in Nat
      BY <2>15, <3>2, IdsAreFinite
    <3> QED
      BY <1>2, <1>3, <2>4, <3>1, <3>3
  <2>17. LoadHolds(x, ids, named)
    BY <1>3, <1>9, <2>4, <2>10, <2>13, <2>14, <2>16 DEF LoadHolds
  <2> QED
    BY <1>9, <2>3, <2>17 DEF x, page, S, k
<1> QED
  BY <1>8, <1>9

-------------------------------------------------------------------------------
(* The steps of a load's thread.                                           *)

\* What every step of load l's thread does.
Moves(l) ==
    /\ load' = [load EXCEPT ![l] = load'[l]]
    /\ load'[l] \in LoadStates /\ load'[l].generation = load[l].generation
    /\ load[l].stage \notin Over /\ load'[l].stage # "new" /\ l <= started
    /\ LoadHolds(load'[l], evidence, logged)
    /\ UNCHANGED <<world, generation, started>>

LEMMA EndMoves ==
    ASSUME Types, LoadsHold, NEW l \in Loads, l <= started, load[l].stage \notin Over,
           NEW s \in {"ended", "dropped", "published"}, NEW f \in BOOLEAN,
           load' = [load EXCEPT ![l] = [load[l] EXCEPT !.stage = s, !.failed = f]],
           UNCHANGED <<world, generation, started>>
    PROVE  Moves(l)
<1> DEFINE r == load[l]
           x == [r EXCEPT !.stage = s, !.failed = f]
<1>1. load \in [Loads -> LoadStates] /\ r \in LoadStates /\ LoadHolds(r, evidence, logged)
  BY DEF Types, LoadsTypeOK, LoadsHold
<1>2. load'[l] = x
  BY <1>1
<1>3. load' = [load EXCEPT ![l] = load'[l]]
  BY <1>2
<1> HIDE DEF r
<1>4. x \in LoadStates
  BY <1>1 DEF LoadStates, Stages
<1>5. /\ x.results = r.results /\ x.page = r.page /\ x.last = r.last
      /\ x.logged = r.logged /\ x.generation = r.generation /\ x.stage = s
  BY <1>1 DEF LoadStates
<1> HIDE DEF x
<1>6. LoadHolds(x, evidence, logged)
  BY <1>1, <1>5, EndHolds
<1>7. x.generation = load[l].generation /\ x.stage # "new"
  BY <1>5 DEF r
<1> QED
  BY <1>2, <1>3, <1>4, <1>6, <1>7 DEF Moves

LEMMA WorkMoves ==
    ASSUME Types, LoadsHold, Generations, NEW l \in Loads, Work(l)
    PROVE  Moves(l)
<1> DEFINE r == load[l]
<1>1. /\ load \in [Loads -> LoadStates] /\ r \in LoadStates
      /\ LoadHolds(r, evidence, logged)
      /\ evidence \subseteq Ids /\ logged \subseteq Ids /\ l \in Nat /\ started \in Nat
  BY DEF Types, LoadsTypeOK, LoadsHold, Loads
<1>2. r.stage # "new" => l <= started
  BY <1>1 DEF Generations
<1>3. ASSUME NEW x, x \in LoadStates, LoadHolds(x, evidence, logged),
             x.generation = r.generation, x.stage # "new",
             load' = [load EXCEPT ![l] = x], r.stage \notin Over, l <= started,
             UNCHANGED <<world, generation, started>>
      PROVE  Moves(l)
  <2>1. load'[l] = x
    BY <1>1, <1>3
  <2>2. load' = [load EXCEPT ![l] = load'[l]]
    BY <1>3, <2>1
  <2> QED
    BY <1>3, <2>1, <2>2 DEF Moves
<1>4. CASE Begin(l)
  <2> DEFINE x == [r EXCEPT !.stage = "counted",
                     !.began = [events |-> Cardinality(logged),
                                evidence_max |-> Cardinality(evidence)]]
  <2>1. r.stage = "new" /\ l <= started /\ load' = [load EXCEPT ![l] = x]
    BY <1>4 DEF Begin, Become
  <2>2. x \in LoadStates /\ LoadHolds(x, evidence, logged)
    BY <1>1, <2>1, BeginHolds
  <2>3. x.generation = r.generation /\ x.stage = "counted"
    BY <1>1 DEF LoadStates
  <2>4. UNCHANGED <<world, generation, started>>
    BY <1>4 DEF Begin, screen
  <2> HIDE DEF x
  <2> QED
    BY <1>3, <2>1, <2>2, <2>3, <2>4 DEF Over
<1>5. CASE ReadLog(l)
  <2> DEFINE x == [r EXCEPT !.logged = logged,
                     !.stage = IF evidence = {} THEN "ended" ELSE "reading"]
  <2>1. r.stage = "counted" /\ load' = [load EXCEPT ![l] = x]
    BY <1>5 DEF ReadLog, Become
  <2>2. x \in LoadStates /\ LoadHolds(x, evidence, logged)
    BY <1>1, <2>1, ReadLogHolds
  <2>3. x.generation = r.generation /\ x.stage # "new"
    BY <1>1 DEF LoadStates
  <2>4. UNCHANGED <<world, generation, started>>
    BY <1>5 DEF ReadLog, screen
  <2> HIDE DEF x
  <2> QED
    BY <1>2, <1>3, <2>1, <2>2, <2>3, <2>4 DEF Over
<1>6. CASE ReadPage(l)
  <2> DEFINE page == Limit({id \in evidence : id > r.last}, PageSize)
             x    == IF page = <<>>
                       THEN [r EXCEPT !.stage = "hashed"]
                       ELSE [r EXCEPT !.page = page, !.last = page[Len(page)],
                                      !.stage = "hashing"]
  <2>1. r.stage = "reading" /\ load' = [load EXCEPT ![l] = x]
    BY <1>6 DEF ReadPage, Become
  <2>2. x \in LoadStates /\ LoadHolds(x, evidence, logged)
    BY <1>1, <2>1, ReadPageHolds
  <2>3. x.generation = r.generation /\ x.stage # "new"
    <3> HIDE DEF page
    <3> QED
      BY <1>1 DEF LoadStates
  <2>4. UNCHANGED <<world, generation, started>>
    BY <1>6 DEF ReadPage, screen
  <2> HIDE DEF x
  <2> QED
    BY <1>2, <1>3, <2>1, <2>2, <2>3, <2>4 DEF Over
<1>7. CASE HashRow(l)
  <2> DEFINE v == Rehash(Head(r.page))
             x == [r EXCEPT
                    !.results = Append(@, [id |-> Head(r.page), rehash |-> v,
                                           logged |-> Head(r.page) \in r.logged]),
                    !.page = Tail(@),
                    !.stage = IF Len(r.page) = 1 THEN "reading" ELSE "hashing"]
  <2>1. r.stage = "hashing" /\ load' = [load EXCEPT ![l] = x]
    BY <1>7 DEF HashRow, Become
  <2>a. v \in {"match", "MISMATCH", "not_found"}
    BY DEF Rehash
  <2> HIDE DEF v
  <2>2. x \in LoadStates /\ LoadHolds(x, evidence, logged)
    BY <1>1, <2>1, <2>a, HashRowHolds
  <2>3. x.generation = r.generation /\ x.stage # "new"
    BY <1>1 DEF LoadStates
  <2>4. UNCHANGED <<world, generation, started>>
    BY <1>7 DEF HashRow, screen
  <2> HIDE DEF x
  <2> QED
    BY <1>2, <1>3, <2>1, <2>2, <2>3, <2>4 DEF Over
<1>8. CASE Cancelled(l)
  <2> DEFINE y == NewLoad(r.generation)
             x == [y EXCEPT !.stage = "cancelled"]
  <2>1. r.stage = "hashing" /\ load' = [load EXCEPT ![l] = x]
    BY <1>8 DEF Cancelled, Become
  <2>2. y \in LoadStates /\ LoadHolds(y, evidence, logged)
    BY <1>1, LoadFields, NewLoadHolds
  <2>a. y.generation = r.generation
    BY DEF NewLoad
  <2> HIDE DEF y
  <2>3. x \in LoadStates
    BY <2>2 DEF LoadStates, Stages
  <2>4. /\ x.results = y.results /\ x.page = y.page /\ x.last = y.last /\ x.logged = y.logged
        /\ x.generation = r.generation /\ x.stage = "cancelled"
    BY <2>2, <2>a DEF LoadStates
  <2>5. UNCHANGED <<world, generation, started>>
    BY <1>8 DEF Cancelled, screen
  <2> HIDE DEF x
  <2>6. LoadHolds(x, evidence, logged)
    BY <2>2, <2>4, EndHolds
  <2> QED
    BY <1>2, <1>3, <2>1, <2>3, <2>4, <2>5, <2>6 DEF Over
<1>9. ASSUME NEW s \in {"ended", "dropped", "published"}, NEW f \in BOOLEAN,
             load' = [load EXCEPT ![l] = [r EXCEPT !.stage = s, !.failed = f]],
             r.stage \notin Over, r.stage # "new",
             UNCHANGED <<world, generation, started>>
      PROVE  Moves(l)
  BY <1>2, <1>9, EndMoves
<1>10. \A s : [r EXCEPT !.stage = s] = [r EXCEPT !.stage = s, !.failed = r.failed]
  BY <1>1 DEF LoadStates
<1>11. r.failed \in BOOLEAN
  BY <1>1 DEF LoadStates
<1>12. CASE Fails(l)
  <2>1. /\ load' = [load EXCEPT ![l] = [r EXCEPT !.stage = "ended", !.failed = TRUE]]
        /\ r.stage = "hashing"
    BY <1>12 DEF Fails, Become
  <2>2. UNCHANGED <<world, generation, started>>
    BY <1>12 DEF Fails, screen
  <2> QED
    BY <1>9, <2>1, <2>2 DEF Over
<1>13. CASE Record(l)
  <2>1. load' = [load EXCEPT ![l] = [r EXCEPT !.stage = "ended"]] /\ r.stage = "hashed"
    BY <1>13 DEF Record, Become
  <2>2. UNCHANGED <<world, generation, started>>
    BY <1>13 DEF Record, screen
  <2>3. load' = [load EXCEPT ![l] = [r EXCEPT !.stage = "ended", !.failed = r.failed]]
    BY <1>10, <2>1
  <2> QED
    BY <1>9, <1>11, <2>1, <2>2, <2>3 DEF Over
<1>14. CASE Publish(l)
  <2>1. load' = [load EXCEPT ![l] = [r EXCEPT !.stage = "published"]] /\ r.stage = "ended"
    BY <1>14 DEF Publish, Become
  <2>2. UNCHANGED <<world, generation, started>>
    BY <1>14 DEF Publish, screen
  <2>3. load' = [load EXCEPT ![l] = [r EXCEPT !.stage = "published", !.failed = r.failed]]
    BY <1>10, <2>1
  <2> QED
    BY <1>9, <1>11, <2>1, <2>2, <2>3 DEF Over
<1>15. CASE Drop(l)
  <2>1. load' = [load EXCEPT ![l] = [r EXCEPT !.stage = "dropped"]] /\ r.stage = "ended"
    BY <1>15 DEF Drop, Become
  <2>2. UNCHANGED <<world, generation, started>>
    BY <1>15 DEF Drop, screen
  <2>3. load' = [load EXCEPT ![l] = [r EXCEPT !.stage = "dropped", !.failed = r.failed]]
    BY <1>10, <2>1
  <2> QED
    BY <1>9, <1>11, <2>1, <2>2, <2>3 DEF Over
<1> QED
  BY <1>4, <1>5, <1>6, <1>7, <1>8, <1>12, <1>13, <1>14, <1>15 DEF Work

LEMMA TypeFields ==
    ASSUME Types
    PROVE  /\ evidence \subseteq Ids /\ logged \subseteq Ids /\ altered \subseteq Ids
           /\ changes \in 0 .. MaxChanges
           /\ generation \in Nat /\ loading \in BOOLEAN
           /\ started \in 0 .. MaxLoads /\ shown \in 0 .. started
           /\ started \in Nat /\ shown \in Nat /\ MaxLoads \in Nat /\ Cardinality(Ids) \in Nat
           /\ load \in [Loads -> LoadStates]
           /\ record \in {NoRecord} \cup Records
<1>1. MaxLoads \in Nat /\ Cardinality(Ids) \in Nat
  BY EvidenceCheckAssumption, IdsAreFinite
<1> QED
  BY <1>1 DEF Types, LoadsTypeOK

LEMMA RecordFields ==
    ASSUME NEW r \in Records
    PROVE  /\ r # NoRecord /\ r.load \in Loads /\ r.load \in Nat \ {0}
           /\ r.evidence_max \in Nat /\ r.events \in Nat
           /\ r.tampered \in BOOLEAN /\ r.not_logged \in BOOLEAN /\ r.unverifiable \in BOOLEAN
<1>1. r.load \in Loads /\ r.load \in Nat \ {0}
  BY DEF Records, Loads
<1>2. r # NoRecord
  BY <1>1 DEF NoRecord
<1> QED
  BY <1>1, <1>2 DEF Records

LEMMA WorkCases ==
    ASSUME NEW l \in Loads, Work(l)
    PROVE  /\ Publish(l) \/ UNCHANGED <<shown, loading>>
           /\ Record(l) \/ UNCHANGED record
<1>1. Publish(l) \/ UNCHANGED <<shown, loading>>
  BY DEF Work, Begin, ReadLog, ReadPage, HashRow, Cancelled, Fails, Record, Drop, screen
<1>2. Record(l) \/ UNCHANGED record
  BY DEF Work, Begin, ReadLog, ReadPage, HashRow, Cancelled, Fails, Publish, Drop
<1> QED
  BY <1>1, <1>2

LEMMA MovedLoad ==
    ASSUME Types, NEW l \in Loads, Moves(l)
    PROVE  \A m \in Loads : m # l => load'[m] = load[m]
<1>1. load \in [Loads -> LoadStates] /\ load' = [load EXCEPT ![l] = load'[l]]
  BY DEF Types, LoadsTypeOK, Moves
<1> QED
  BY <1>1

LEMMA ThreadLoads ==
    ASSUME Types, LoadsHold, NEW l \in Loads, Moves(l)
    PROVE  load' \in [Loads -> LoadStates] /\ LoadsHold'
<1>1. \A m \in Loads : m # l => load'[m] = load[m]
  BY MovedLoad
<1>2. load'[l] \in LoadStates /\ LoadHolds(load'[l], evidence, logged)
      /\ evidence' = evidence /\ logged' = logged
  BY DEF Moves, world
<1>3. load' \in [Loads -> LoadStates]
  <2>1. load \in [Loads -> LoadStates] /\ load' = [load EXCEPT ![l] = load'[l]]
    BY DEF Types, LoadsTypeOK, Moves
  <2> QED
    BY <1>2, <2>1
<1>4. \A m \in Loads : LoadHolds(load'[m], evidence', logged')
  BY <1>1, <1>2 DEF LoadsHold
<1> QED
  BY <1>3, <1>4 DEF LoadsHold

LEMMA ThreadGenerations ==
    ASSUME Types, Generations, NEW l \in Loads, Moves(l), Work(l)
    PROVE  Generations'
<1>1. \A m \in Loads : m # l => load'[m] = load[m]
  BY MovedLoad
<1>2. /\ load'[l].generation = load[l].generation
      /\ load[l].stage \notin Over /\ load'[l].stage # "new" /\ l <= started
      /\ generation' = generation /\ started' = started
  BY DEF Moves
<1>3. \A m \in Loads : load'[m].generation = load[m].generation
  BY <1>1, <1>2
<1>4. \A m \in 1 .. started : m \in Loads
  BY TypeFields DEF Loads
<1>5. l \in 1 .. started /\ started \in Nat
  BY <1>2, TypeFields DEF Loads
<1>6. \A m, k \in 1 .. started' : m # k => load'[m].generation # load'[k].generation
  BY <1>2, <1>3, <1>4 DEF Generations
<1>7. \A m \in 1 .. started' : load'[m].generation <= generation'
  BY <1>2, <1>3, <1>4 DEF Generations
<1>8. \A m \in Loads : m > started' => load'[m].stage = "new"
  <2> SUFFICES ASSUME NEW m \in Loads, m > started PROVE load'[m].stage = "new"
    BY <1>2
  <2>1. m # l
    BY <1>2, <1>5 DEF Loads
  <2> QED
    BY <1>1, <2>1 DEF Generations
<1>9. ASSUME NEW m \in 1 .. started', load'[m].generation = generation',
             load'[m].stage \notin Over
      PROVE  loading'
  <2>1. m \in Loads /\ load[m].generation = generation
    BY <1>2, <1>3, <1>4, <1>9
  <2>2. load[m].stage \notin Over
    BY <1>1, <1>2, <1>9, <2>1
  <2>3. loading
    BY <1>2, <2>1, <2>2 DEF Generations, Superseded
  <2>4. ~Publish(l)
    <3> SUFFICES ASSUME Publish(l) PROVE FALSE
      OBVIOUS
    <3>1. load[l].generation = generation /\ load'[l] = [load[l] EXCEPT !.stage = "published"]
      BY TypeFields DEF Publish, Superseded, Become
    <3>2. load'[l].stage = "published"
      BY <3>1, TypeFields DEF LoadStates
    <3>3. m # l
      BY <1>9, <3>2 DEF Over
    <3> QED
      BY <1>2, <1>5, <2>1, <3>1, <3>3 DEF Generations
  <2> QED
    BY <2>3, <2>4, WorkCases
<1> QED
  BY <1>6, <1>7, <1>8, <1>9 DEF Generations, Superseded

LEMMA ThreadRecord ==
    ASSUME Types, LoadsHold, Generations, RecordHolds, NEW l \in Loads, Moves(l), Work(l)
    PROVE  record' \in {NoRecord} \cup Records /\ RecordHolds'
<1>1. \A m \in Loads : m # l => load'[m] = load[m]
  BY MovedLoad
<1>2. l <= started /\ started' = started /\ load \in [Loads -> LoadStates] /\ load[l] \in LoadStates
  BY TypeFields DEF Moves
<1>3. CASE Record(l)
  <2> DEFINE r == load[l]
  <2>1. /\ record' = [load |-> l, tampered |-> Found(l, "MISMATCH"),
                      not_logged |-> NotLogged(l), unverifiable |-> Found(l, "not_found"),
                      events |-> r.began.events, evidence_max |-> r.began.evidence_max]
        /\ r.stage = "hashed" /\ load' = [load EXCEPT ![l] = [r EXCEPT !.stage = "ended"]]
    BY <1>3 DEF Record, Become
  <2>2. load'[l].results = r.results /\ load'[l].stage = "ended"
    BY <1>2, <2>1 DEF LoadStates
  <2>3. r.began.events \in Nat /\ r.began.evidence_max \in Nat
    BY <1>2, LoadFields DEF Counts
  <2>4. r.began.evidence_max <= Cardinality(ResultIds(r))
    BY <2>1 DEF LoadsHold, LoadHolds
  <2>5. ResultIds(load'[l]) = ResultIds(r)
    BY <2>2 DEF ResultIds
  <2> DEFINE t == Found(l, "MISMATCH")
             u == Found(l, "not_found")
             k == NotLogged(l)
  <2>6. /\ t = (\E i \in DOMAIN r.results : r.results[i].rehash = "MISMATCH")
        /\ u = (\E i \in DOMAIN r.results : r.results[i].rehash = "not_found")
        /\ k = (\E i \in DOMAIN r.results : ~r.results[i].logged)
    BY DEF Found, NotLogged
  <2>7. t \in BOOLEAN /\ u \in BOOLEAN /\ k \in BOOLEAN
    BY DEF Found, NotLogged
  <2> HIDE DEF t, u, k
  <2>8. /\ record'.load = l /\ record'.tampered = t /\ record'.unverifiable = u
        /\ record'.not_logged = k /\ record'.evidence_max = r.began.evidence_max
        /\ record' \in Records
    <3>1. record' = [load |-> l, tampered |-> t, not_logged |-> k, unverifiable |-> u,
                     events |-> r.began.events, evidence_max |-> r.began.evidence_max]
      BY <2>1 DEF t, u, k
    <3> HIDE DEF r
    <3>2. /\ record'.load = l /\ record'.tampered = t /\ record'.unverifiable = u
          /\ record'.not_logged = k /\ record'.evidence_max = r.began.evidence_max
      BY <3>1
    <3>3. record' \in Records
      BY <2>3, <2>7, <3>1 DEF Records
    <3> QED
      BY <3>2, <3>3
  <2>9. \A v : Found(l, v)' = (\E i \in DOMAIN r.results : r.results[i].rehash = v)
    BY <2>2 DEF Found
  <2> QED
    BY <1>2, <2>2, <2>4, <2>5, <2>6, <2>8 DEF RecordHolds, Found, NotLogged
<1>4. CASE UNCHANGED record
  <2> SUFFICES ASSUME record # NoRecord PROVE RecordHolds'
    BY <1>4, TypeFields DEF RecordHolds
  <2> DEFINE m == record.load
  <2>1. m \in Loads /\ record \in Records
    BY TypeFields, RecordFields
  <2>2. /\ load[m].stage \in {"ended", "dropped", "published"} /\ m <= started
        /\ record.tampered = Found(m, "MISMATCH") /\ record.unverifiable = Found(m, "not_found")
        /\ record.not_logged = NotLogged(m)
        /\ record.evidence_max <= Cardinality(ResultIds(load[m]))
    BY DEF RecordHolds
  <2>3. load'[m].results = load[m].results /\ load'[m].stage \in {"ended", "dropped", "published"}
    <3>1. CASE m # l
      BY <1>1, <2>1, <2>2, <3>1
    <3>2. CASE m = l
      <4>1. Publish(l) \/ Drop(l)
        BY <2>2, <3>2 DEF Work, Begin, ReadLog, ReadPage, HashRow, Cancelled, Fails, Record
      <4>2. \E s \in {"dropped", "published"} :
              load' = [load EXCEPT ![l] = [load[l] EXCEPT !.stage = s]]
        BY <4>1 DEF Publish, Drop, Become
      <4> QED
        BY <1>2, <3>2, <4>2 DEF LoadStates
    <3> QED
      BY <3>1, <3>2
  <2>4. ResultIds(load'[m]) = ResultIds(load[m])
    BY <2>3 DEF ResultIds
  <2> QED
    BY <1>2, <1>4, <2>2, <2>3, <2>4 DEF RecordHolds, Found, NotLogged
<1> QED
  BY <1>3, <1>4, WorkCases

LEMMA SameRows ==
    ASSUME UNCHANGED <<shown, category>>, shown # 0 => load'[shown] = load[shown]
    PROVE  RowCount' = RowCount
<1>1. CASE shown = 0
  BY <1>1 DEF RowCount
<1>2. CASE shown # 0
  <2> DEFINE r == load[shown]
             q == load'[shown']
  <2>1. q = r
    BY <1>2
  <2>2. RowCount = (IF r.failed \/ r.results = <<>> THEN 1
                    ELSE LET name == ViewOrder[category]
                         IN  Cardinality({i \in DOMAIN r.results : InCategory(name, r.results[i])})
                               + IF name = "all" THEN 1 ELSE 0)
    BY <1>2 DEF RowCount, Plain
  <2>3. RowCount' = (IF q.failed \/ q.results = <<>> THEN 1
                     ELSE LET name == ViewOrder[category']
                          IN  Cardinality({i \in DOMAIN q.results : InCategory(name, q.results[i])})
                                + IF name = "all" THEN 1 ELSE 0)
    BY <1>2 DEF RowCount, Plain
  <2> HIDE DEF q, r
  <2> QED
    BY <2>1, <2>2, <2>3
<1> QED
  BY <1>1, <1>2

\* The list has no more rows than there are files, and the row of the root.
LEMMA RowsBounded ==
    ASSUME Types, LoadsHold
    PROVE  RowCount \in 0 .. Cardinality(Ids) + 1 /\ (shown = 0 => RowCount = 0)
<1>1. Cardinality(Ids) \in Nat /\ shown \in 0 .. started /\ started \in 0 .. MaxLoads
  BY TypeFields
<1>2. CASE shown = 0
  BY <1>1, <1>2 DEF RowCount
<1>3. CASE shown # 0 /\ Plain(shown)
  BY <1>1, <1>3 DEF RowCount
<1>4. CASE shown # 0 /\ ~Plain(shown)
  <2> DEFINE r    == load[shown]
             name == ViewOrder[category]
             rows == {i \in DOMAIN r.results : InCategory(name, r.results[i])}
             e    == IF name = "all" THEN 1 ELSE 0
  <2>1. RowCount = Cardinality(rows) + e
    BY <1>4 DEF RowCount
  <2>2. shown \in Loads /\ r \in LoadStates /\ LoadHolds(r, evidence, logged)
    <3>1. shown \in Loads
      BY <1>1, <1>4, TypeFields DEF Loads
    <3> QED
      BY <3>1, TypeFields DEF LoadsHold
  <2>3. e \in 0 .. 1
    OBVIOUS
  <2>4. rows \subseteq 1 .. Len(r.results) /\ Len(r.results) \in Nat
    BY <2>2, LoadFields
  <2> HIDE DEF rows, e
  <2>5. IsFiniteSet(1 .. Len(r.results)) /\ Cardinality(1 .. Len(r.results)) = Len(r.results)
    <3> DEFINE n == Len(r.results)
    <3>1. n \in Nat
      BY <2>4
    <3> HIDE DEF n
    <3>2. IsFiniteSet(1 .. n) /\ Cardinality(1 .. n) = n
      BY <3>1, FS_Interval
    <3> QED
      BY <3>2 DEF n
  <2>6. IsFiniteSet(rows) /\ Cardinality(rows) <= Len(r.results)
    BY <2>4, <2>5, FS_Subset
  <2>7. Cardinality(rows) \in Nat
    BY <2>6, FS_CardinalityType
  <2>8. Len(r.results) <= Cardinality(Ids)
    BY <2>2, ResultsRise DEF LoadHolds
  <2>9. Cardinality(rows) <= Cardinality(Ids)
    BY <1>1, <2>4, <2>6, <2>7, <2>8
  <2> QED
    BY <1>1, <1>4, <2>1, <2>3, <2>7, <2>9
<1> QED
  BY <1>2, <1>3, <1>4

LEMMA ThreadShown ==
    ASSUME TabsInv, NEW l \in Loads, Moves(l), Thread(l)
    PROVE  Shown'
<1>1. \A m \in Loads : m # l => load'[m] = load[m]
  BY MovedLoad DEF TabsInv
<1>2. /\ load'[l].generation = load[l].generation /\ load[l].stage \notin Over /\ l <= started
      /\ generation' = generation /\ l \in 1 .. started /\ l # 0
  BY TypeFields DEF Moves, Loads, TabsInv
<1>3. shown # 0 => shown \in Loads /\ load[shown].stage = "published" /\ shown # l
  <2>1. shown # 0 => load[shown].stage = "published"
    BY DEF TabsInv, Shown, NewestShown
  <2>2. shown # 0 => shown \in Loads
    BY TypeFields DEF TabsInv, Loads
  <2> QED
    BY <1>2, <2>1, <2>2 DEF Over
<1>4. /\ UNCHANGED <<restarting, selected, category>>
      /\ overtaken' = (overtaken \/ (restarting /\ shown' # shown))
  BY DEF Thread, keys
<1>5. CASE Publish(l)
  <2>1. /\ load[l].stage = "ended" /\ load[l].generation = generation
        /\ loading' = FALSE /\ shown' = l
        /\ load'[l] = [load[l] EXCEPT !.stage = "published"]
    BY <1>5, TypeFields DEF Publish, Superseded, Become, TabsInv
  <2>2. load'[l].stage = "published"
    BY <2>1, TypeFields DEF LoadStates, TabsInv
  <2>3. loading
    BY <1>2, <2>1 DEF TabsInv, Generations, Superseded
  <2>4. shown' # shown
    BY <1>2, <1>3, <2>1
  <2>5. shown # 0 => overtaken
    BY <2>3 DEF TabsInv, Shown
  <2>6. NewestShown'
    BY <1>2, <2>1, <2>2 DEF NewestShown, Superseded
  <2>7. overtaken' \/ selected' = 0
    BY <1>4, <2>5 DEF TabsInv, Shown
  <2>8. restarting' => overtaken'
    BY <1>4, <2>4
  <2> QED
    BY <1>2, <2>1, <2>6, <2>7, <2>8 DEF Shown, SelectionIsARow
<1>6. CASE UNCHANGED <<shown, loading>>
  <2>1. shown # 0 => load'[shown] = load[shown]
    BY <1>1, <1>3
  <2>2. RowCount' = RowCount
    BY <1>4, <1>6, <2>1, SameRows
  <2>3. overtaken' = overtaken
    BY <1>4, <1>6, TypeFields DEF TabsInv, Types
  <2>4. NewestShown'
    BY <1>2, <1>4, <1>6, <2>1 DEF TabsInv, Shown, NewestShown, Superseded
  <2>5. SelectionIsARow'
    BY <1>4, <1>6, <2>2, <2>3 DEF TabsInv, Shown, SelectionIsARow
  <2> QED
    BY <1>4, <1>6, <2>3, <2>4, <2>5 DEF TabsInv, Shown
<1> QED
  BY <1>5, <1>6, WorkCases DEF Thread

LEMMA ThreadStep ==
    ASSUME TabsInv, NEW l \in Loads, Thread(l)
    PROVE  TabsInv'
<1>1. Work(l) /\ Types /\ LoadsHold /\ Generations /\ RecordHolds
  BY DEF Thread, TabsInv
<1>2. Moves(l)
  BY <1>1, WorkMoves
<1>3. load' \in [Loads -> LoadStates] /\ LoadsHold'
  BY <1>1, <1>2, ThreadLoads
<1>4. Generations'
  BY <1>1, <1>2, ThreadGenerations
<1>5. record' \in {NoRecord} \cup Records /\ RecordHolds'
  BY <1>1, <1>2, ThreadRecord
<1>6. Shown'
  BY <1>2, ThreadShown
<1>7. Types'
  <2>1. UNCHANGED <<evidence, logged, altered, changes, generation, started,
                    tab, opened, restarting, selected, category>>
    BY <1>2 DEF Moves, world, Thread, keys
  <2>2. overtaken' \in BOOLEAN
    BY DEF Thread
  <2>3. loading' \in BOOLEAN /\ shown' \in 0 .. started
    <3>1. CASE Publish(l)
      <4>1. loading' = FALSE /\ shown' = l
        BY <3>1 DEF Publish
      <4>2. l \in 0 .. started
        BY <1>1, <1>2, TypeFields DEF Moves, Loads
      <4> QED
        BY <4>1, <4>2
    <3>2. CASE UNCHANGED <<shown, loading>>
      BY <1>1, <3>2, TypeFields
    <3> QED
      BY <1>1, <3>1, <3>2, WorkCases
  <2>4. record' = NoRecord \/ record'.load \in Loads
    BY <1>5, RecordFields
  <2> QED
    BY <1>1, <1>3, <1>5, <2>1, <2>2, <2>3, <2>4 DEF Types, LoadsTypeOK
<1> QED
  BY <1>3, <1>4, <1>5, <1>6, <1>7 DEF TabsInv

-------------------------------------------------------------------------------
(* The rest of the world, and the keys.                                    *)

LEMMA WorldStep ==
    ASSUME TabsInv, World, UNCHANGED <<keys, overtaken>>
    PROVE  TabsInv'
<1>1. PICK id \in Ids : Register(id) \/ LogEvent(id) \/ FileChanges(id)
  BY DEF World
<1>2. /\ evidence \subseteq evidence' /\ evidence' \subseteq Ids
      /\ logged \subseteq logged' /\ logged' \subseteq Ids /\ altered' \subseteq Ids
      /\ changes' \in 0 .. MaxChanges
      /\ UNCHANGED <<screen, load, record>>
  <2>0. /\ evidence \subseteq Ids /\ logged \subseteq Ids /\ altered \subseteq Ids
        /\ changes \in 0 .. MaxChanges /\ MaxChanges \in Nat
    BY TypeFields, EvidenceCheckAssumption DEF TabsInv
  <2>1. changes' \in 0 .. MaxChanges
    BY <1>1, <2>0 DEF Register, LogEvent, FileChanges, Changes
  <2>2. CASE Register(id)
    BY <2>0, <2>1, <2>2 DEF Register
  <2>3. CASE LogEvent(id)
    BY <2>0, <2>1, <2>3 DEF LogEvent
  <2>4. CASE FileChanges(id)
    BY <2>0, <2>1, <2>4 DEF FileChanges
  <2> QED
    BY <1>1, <2>2, <2>3, <2>4
<1>3. Types'
  BY <1>2 DEF TabsInv, Types, LoadsTypeOK, screen, keys
<1>4. LoadsHold'
  <2> SUFFICES ASSUME NEW l \in Loads PROVE LoadHolds(load[l], evidence', logged')
    BY <1>2 DEF LoadsHold
  <2>1. load[l] \in LoadStates /\ LoadHolds(load[l], evidence, logged)
    BY TypeFields DEF TabsInv, LoadsHold
  <2> QED
    BY <1>2, <2>1, StillHolds
<1>5. Generations'
  BY <1>2 DEF TabsInv, Generations, Superseded, screen
<1>6. RecordHolds'
  BY <1>2 DEF TabsInv, RecordHolds, Found, NotLogged, screen
<1>7. Shown'
  <2>1. RowCount' = RowCount
    BY <1>2, SameRows DEF screen, keys
  <2> QED
    BY <1>2, <2>1 DEF TabsInv, Shown, NewestShown, SelectionIsARow, Superseded, screen, keys
<1> QED
  BY <1>3, <1>4, <1>5, <1>6, <1>7 DEF TabsInv

\* What the keys leave alone, all but the two that start and cancel loads.
LEMMA QuietKeys ==
    ASSUME TabsInv, UNCHANGED <<world, generation, loading, started, load, record>>
    PROVE  LoadsHold' /\ Generations' /\ RecordHolds'
<1>1. LoadsHold'
  BY DEF TabsInv, LoadsHold, world
<1>2. Generations'
  BY DEF TabsInv, Generations, Superseded
<1>3. RecordHolds'
  BY DEF TabsInv, RecordHolds, Found, NotLogged
<1> QED
  BY <1>1, <1>2, <1>3

\* A tab starts to load: its old result is gone before anything else happens.
LEMMA PopStep ==
    ASSUME TabsInv, Pop, ~restarting, UNCHANGED overtaken,
           tab' \in {"evidence", "other"}, opened' \in BOOLEAN, restarting' = TRUE,
           selected' = 0, category' \in DOMAIN ViewOrder
    PROVE  TabsInv'
<1>1. shown' = 0 /\ UNCHANGED <<world, generation, loading, started, load, record>>
  BY DEF Pop
<1>2. LoadsHold' /\ Generations' /\ RecordHolds'
  BY <1>1, QuietKeys
<1>3. Types'
  <2>1. 0 \in 0 .. started /\ 0 \in 0 .. Cardinality(Ids)
    BY TypeFields DEF TabsInv
  <2> QED
    BY <1>1, <2>1 DEF TabsInv, Types, LoadsTypeOK, world
<1>4. Shown'
  BY <1>1 DEF Shown, NewestShown, SelectionIsARow
<1> QED
  BY <1>2, <1>3, <1>4 DEF TabsInv

\* A key that moves the selection or changes the category, and starts nothing.
LEMMA SelectStep ==
    ASSUME TabsInv, UNCHANGED <<checkVars, opened, restarting, overtaken>>,
           tab' \in {"evidence", "other"}, category' \in DOMAIN ViewOrder,
           selected' = 0 \/ (/\ selected' \in 0 .. Cardinality(Ids)
                             /\ category' = category /\ shown # 0
                             /\ ~loading /\ ~overtaken => selected' < RowCount)
    PROVE  TabsInv'
<1>1. UNCHANGED <<shown, world, generation, loading, started, load, record>>
  BY DEF checkVars, screen
<1>2. LoadsHold' /\ Generations' /\ RecordHolds'
  BY <1>1, QuietKeys
<1>3. Cardinality(Ids) \in Nat
  BY TypeFields DEF TabsInv
<1>4. selected' \in 0 .. Cardinality(Ids) /\ (shown = 0 => selected' = 0)
  BY <1>3
<1>5. selected' # 0 => RowCount' = RowCount
  BY <1>1, SameRows
<1>6. Types'
  BY <1>1, <1>4 DEF TabsInv, Types, LoadsTypeOK, world
<1>7. NewestShown'
  BY <1>1 DEF TabsInv, Shown, NewestShown, Superseded
<1>8. Shown'
  BY <1>1, <1>4, <1>5, <1>7 DEF TabsInv, Shown, SelectionIsARow
<1> QED
  BY <1>2, <1>6, <1>8 DEF TabsInv

LEMMA StartLoadStep ==
    ASSUME TabsInv, StartLoad
    PROVE  TabsInv'
<1> DEFINE n == started + 1
<1>1. /\ restarting /\ started < MaxLoads /\ started' = n /\ generation' = generation + 1
      /\ loading' = TRUE /\ restarting' = FALSE
      /\ load' = [load EXCEPT ![n] = NewLoad(generation + 1)]
      /\ UNCHANGED <<world, shown, record, tab, opened, selected, category, overtaken>>
  BY DEF StartLoad, Start
<1>2. n \in Loads /\ started \in Nat /\ generation \in Nat /\ load \in [Loads -> LoadStates]
      /\ shown \in 0 .. started /\ MaxLoads \in Nat
  BY <1>1, TypeFields DEF TabsInv, Loads
<1>3. /\ NewLoad(generation + 1) \in LoadStates
      /\ LoadHolds(NewLoad(generation + 1), evidence, logged)
  BY <1>2, NewLoadHolds
<1>4. load'[n] = NewLoad(generation + 1) /\ \A m \in Loads : m # n => load'[m] = load[m]
  BY <1>1, <1>2
<1>5. load' \in [Loads -> LoadStates]
  BY <1>1, <1>2, <1>3
<1>6. load'[n].generation = generation + 1 /\ load'[n].stage = "new"
  BY <1>4 DEF NewLoad
<1>7. \A m \in 1 .. started : m \in Loads /\ m # n
  BY <1>1, <1>2 DEF Loads
<1>8. \A m \in 1 .. n : m \in 1 .. started \/ m = n
  BY <1>2
<1>9. \A m \in 1 .. started : load'[m] = load[m] /\ load[m].generation \in Nat
                              /\ load[m].generation <= generation
  BY <1>2, <1>4, <1>7, LoadFields DEF TabsInv, Generations
<1>10. LoadsHold'
  BY <1>1, <1>3, <1>4 DEF TabsInv, LoadsHold, world
<1>11. Generations'
  <2> HIDE DEF n
  <2>1. \A l, m \in 1 .. n : l # m => load'[l].generation # load'[m].generation
    <3> SUFFICES ASSUME NEW l \in 1 .. n, NEW m \in 1 .. n, l # m
                 PROVE  load'[l].generation # load'[m].generation
      OBVIOUS
    <3>1. CASE l = n \/ m = n
      BY <1>2, <1>6, <1>8, <1>9, <3>1
    <3>2. CASE l \in 1 .. started /\ m \in 1 .. started
      BY <1>9, <3>2 DEF TabsInv, Generations
    <3> QED
      BY <1>8, <3>1, <3>2
  <2>2. \A l \in 1 .. n : load'[l].generation <= generation + 1
    BY <1>2, <1>6, <1>8, <1>9
  <2>3. \A l \in Loads : l > n => load'[l].stage = "new"
    <3> SUFFICES ASSUME NEW l \in Loads, l > n PROVE load'[l].stage = "new"
      OBVIOUS
    <3>1. l \in Nat /\ l # n /\ l > started
      BY <1>2 DEF n, Loads
    <3> QED
      BY <1>4, <3>1 DEF TabsInv, Generations
  <2> QED
    BY <1>1, <2>1, <2>2, <2>3 DEF Generations, Superseded
<1>12. RecordHolds'
  <2> SUFFICES ASSUME record # NoRecord PROVE RecordHolds'
    BY <1>1 DEF RecordHolds
  <2> DEFINE m == record.load
  <2>1. record \in Records /\ m \in Loads /\ m \in Nat \ {0}
    BY TypeFields, RecordFields DEF TabsInv
  <2>2. m <= started /\ m # n
    BY <1>2, <2>1 DEF TabsInv, RecordHolds
  <2>3. load'[m] = load[m]
    BY <1>4, <2>1, <2>2
  <2>4. m <= n
    BY <1>2, <2>1, <2>2
  <2> QED
    BY <1>1, <2>3, <2>4 DEF TabsInv, RecordHolds, Found, NotLogged
<1>13. Types'
  <2>1. n \in 0 .. MaxLoads /\ shown \in 0 .. n /\ generation + 1 \in Nat
    BY <1>1, <1>2
  <2> HIDE DEF n
  <2> QED
    BY <1>1, <1>5, <2>1 DEF TabsInv, Types, LoadsTypeOK, world
<1>14. Shown'
  <2>1. shown # 0 => shown \in 1 .. started
    BY <1>2
  <2>2. shown # 0 => load'[shown].stage = "published"
    BY <1>9, <2>1 DEF TabsInv, Shown, NewestShown
  <2> QED
    BY <1>1, <2>2 DEF TabsInv, Shown, NewestShown, SelectionIsARow
<1> QED
  BY <1>10, <1>11, <1>12, <1>13, <1>14 DEF TabsInv

LEMMA LeaveStep ==
    ASSUME TabsInv, Leave
    PROVE  TabsInv'
<1>1. /\ ~restarting /\ restarting' = restarting /\ generation' = generation + 1
      /\ loading' = FALSE /\ shown' = 0
      /\ tab' = "other" /\ opened' = FALSE /\ selected' = 0 /\ category' = 1
      /\ overtaken' = FALSE /\ UNCHANGED <<world, started, load, record>>
  BY DEF Leave, CancelAll
<1>2. generation \in Nat /\ started \in Nat /\ load \in [Loads -> LoadStates]
      /\ Cardinality(Ids) \in Nat
  BY TypeFields DEF TabsInv
<1>3. LoadsHold'
  BY <1>1 DEF TabsInv, LoadsHold, world
<1>4. RecordHolds'
  BY <1>1 DEF TabsInv, RecordHolds, Found, NotLogged
<1>5. \A l \in 1 .. started : load[l].generation \in Nat /\ load[l].generation <= generation
  BY <1>2, LoadFields, TypeFields DEF TabsInv, Generations, Loads
<1>6. \A l \in 1 .. started : load[l].generation <= generation + 1
                              /\ load[l].generation # generation + 1
  BY <1>2, <1>5
<1>7. Generations'
  BY <1>1, <1>6 DEF TabsInv, Generations, Superseded
<1>8. 1 \in DOMAIN ViewOrder
  BY ViewAssumption
<1>9. Types'
  <2>1. 0 \in 0 .. started /\ 0 \in 0 .. Cardinality(Ids) /\ generation + 1 \in Nat
    BY <1>2
  <2> QED
    BY <1>1, <1>8, <2>1 DEF TabsInv, Types, LoadsTypeOK, world
<1>10. Shown'
  BY <1>1 DEF TabsInv, Shown, NewestShown, SelectionIsARow
<1> QED
  BY <1>3, <1>4, <1>7, <1>9, <1>10 DEF TabsInv

LEMMA MoveStep ==
    ASSUME TabsInv, Move
    PROVE  TabsInv'
<1>1. UNCHANGED <<checkVars, tab, opened, restarting, category, overtaken>>
  BY DEF Move, Handles
<1>2. /\ RowCount \in 0 .. Cardinality(Ids) + 1 /\ (shown = 0 => RowCount = 0)
      /\ Cardinality(Ids) \in Nat /\ selected \in 0 .. Cardinality(Ids)
      /\ tab \in {"evidence", "other"} /\ category \in DOMAIN ViewOrder
  BY RowsBounded, TypeFields DEF TabsInv, Types
<1>3. ~loading /\ ~overtaken => selected = 0 \/ selected < RowCount
  BY DEF TabsInv, Shown, SelectionIsARow
<1>4. Height \in Nat \ {0}
  BY ViewAssumption
<1>5. selected' = 0 \/ (/\ selected' \in 0 .. Cardinality(Ids) /\ shown # 0
                        /\ ~loading /\ ~overtaken => selected' < RowCount)
  <2>1. ASSUME NEW step \in Nat \ {0}, RowCount > 0, selected' = AtLeast(0, selected - step)
        PROVE  \/ selected' = 0
               \/ /\ selected' \in 0 .. Cardinality(Ids) /\ shown # 0
                  /\ ~loading /\ ~overtaken => selected' < RowCount
    <3>1. CASE 0 > selected - step
      BY <2>1, <3>1 DEF AtLeast
    <3>2. CASE ~(0 > selected - step)
      <4>1. selected' = selected - step
        BY <2>1, <3>2 DEF AtLeast
      <4>2. selected' \in 0 .. Cardinality(Ids) /\ selected' < selected
        BY <1>2, <3>2, <4>1
      <4>3. selected < RowCount => selected' < RowCount
        BY <1>2, <4>2
      <4>4. selected # 0
        BY <1>2, <4>2
      <4> QED
        BY <1>2, <1>3, <2>1, <4>2, <4>3, <4>4
    <3> QED
      BY <3>1, <3>2
  <2>2. ASSUME NEW step \in Nat \ {0}, RowCount > 0,
               selected' = AtMost(RowCount - 1, selected + step)
        PROVE  selected' \in 0 .. Cardinality(Ids) /\ shown # 0 /\ selected' < RowCount
    <3>1. RowCount - 1 \in 0 .. Cardinality(Ids) /\ RowCount - 1 < RowCount
      BY <1>2, <2>2
    <3>2. CASE RowCount - 1 < selected + step
      BY <1>2, <2>2, <3>1, <3>2 DEF AtMost
    <3>3. CASE ~(RowCount - 1 < selected + step)
      <4>1. selected' = selected + step
        BY <2>2, <3>3 DEF AtMost
      <4>2. selected' \in 0 .. Cardinality(Ids) /\ selected' < RowCount
        BY <1>2, <3>1, <3>3, <4>1
      <4> QED
        BY <1>2, <2>2, <4>2
    <3> QED
      BY <3>2, <3>3
  <2>3. RowCount > 0 /\ selected' = RowCount - 1 =>
          selected' \in 0 .. Cardinality(Ids) /\ shown # 0 /\ selected' < RowCount
    BY <1>2
  <2>4. \/ RowCount > 0 /\ \E step \in {1, Height} : selected' = AtLeast(0, selected - step)
        \/ RowCount > 0 /\ \E step \in {1, Height} : selected' = AtMost(RowCount - 1, selected + step)
        \/ selected' = 0
        \/ RowCount > 0 /\ selected' = RowCount - 1
    BY DEF Move
  <2>5. \A step \in {1, Height} : step \in Nat \ {0}
    BY <1>4
  <2> QED
    BY <2>1, <2>2, <2>3, <2>4, <2>5
<1> QED
  BY <1>1, <1>2, <1>5, SelectStep

LEMMA KeysStep ==
    ASSUME TabsInv, Keys
    PROVE  TabsInv'
<1>0. 1 \in DOMAIN ViewOrder
  BY ViewAssumption
<1>a. tab \in {"evidence", "other"} /\ opened \in BOOLEAN /\ category \in DOMAIN ViewOrder
  BY DEF TabsInv, Types
<1>1. ASSUME NEW to \in {"evidence", "other"}, Switch(to) PROVE TabsInv'
  <2>1. ~restarting /\ UNCHANGED <<overtaken, category>> /\ tab' = to /\ selected' = 0
    BY <1>1 DEF Switch, Handles
  <2>2. CASE to = "evidence" /\ ~opened
    <3>1. Pop /\ opened' = TRUE /\ restarting' = TRUE
      BY <1>1, <2>2 DEF Switch
    <3> QED
      BY <1>a, <2>1, <3>1, PopStep
  <2>3. CASE ~(to = "evidence" /\ ~opened)
    <3>1. UNCHANGED <<opened, restarting, checkVars>>
      BY <1>1, <2>3 DEF Switch
    <3> QED
      BY <1>a, <2>1, <3>1, SelectStep
  <2> QED
    BY <2>2, <2>3
<1>2. CASE Refresh
  <2>1. ~restarting /\ UNCHANGED <<overtaken, tab, opened>> /\ selected' = 0 /\ category' = 1
    BY <1>2 DEF Refresh, Handles
  <2>2. CASE tab = "evidence"
    <3>1. Pop /\ restarting' = TRUE
      BY <1>2, <2>2 DEF Refresh
    <3> QED
      BY <1>0, <1>a, <2>1, <3>1, PopStep
  <2>3. CASE tab # "evidence"
    <3>1. UNCHANGED <<restarting, checkVars>>
      BY <1>2, <2>3 DEF Refresh
    <3> QED
      BY <1>0, <1>a, <2>1, <3>1, SelectStep
  <2> QED
    BY <2>2, <2>3
<1>3. CASE StartLoad
  BY <1>3, StartLoadStep
<1>4. CASE Move
  BY <1>4, MoveStep
<1>5. CASE NextView
  <2>1. /\ UNCHANGED <<checkVars, tab, opened, restarting, overtaken>> /\ selected' = 0
        /\ category' = (category % Len(ViewOrder)) + 1
    BY <1>5 DEF NextView, Handles
  <2> DEFINE n == Len(ViewOrder)
  <2>2. n \in Nat \ {0} /\ DOMAIN ViewOrder = 1 .. n
    BY ViewAssumption
  <2>3. category' \in 1 .. n
    <3>1. category \in Nat /\ category' = (category % n) + 1
      BY <1>a, <2>1, <2>2
    <3> HIDE DEF n
    <3>2. category % n \in 0 .. n - 1
      BY <2>2, <3>1
    <3> QED
      BY <2>2, <3>1, <3>2
  <2>4. category' \in DOMAIN ViewOrder
    BY <2>2, <2>3
  <2> QED
    BY <1>a, <2>1, <2>4, SelectStep
<1>6. CASE Leave
  BY <1>6, LeaveStep
<1> QED
  BY <1>1, <1>2, <1>3, <1>4, <1>5, <1>6 DEF Keys

LEMMA InitHolds == Init => TabsInv
<1> SUFFICES ASSUME Init PROVE TabsInv
  OBVIOUS
<1>1. /\ evidence \in SUBSET Ids /\ logged = evidence /\ altered = {} /\ changes = 0
      /\ generation = 0 /\ loading = FALSE /\ shown = 0 /\ started = 0
      /\ load = [l \in Loads |-> NewLoad(0)] /\ record = NoRecord
      /\ tab = "other" /\ opened = FALSE /\ restarting = FALSE
      /\ selected = 0 /\ category = 1 /\ overtaken = FALSE
  BY DEF Init, LoadsInit
<1>2. NewLoad(0) \in LoadStates /\ LoadHolds(NewLoad(0), evidence, logged)
  BY NewLoadHolds
<1>3. \A l \in Loads : load[l] = NewLoad(0)
  BY <1>1
<1>4. load \in [Loads -> LoadStates] /\ LoadsHold
  BY <1>1, <1>2, <1>3 DEF LoadsHold
<1>5. Generations
  <2>1. NewLoad(0).stage = "new"
    BY DEF NewLoad
  <2> QED
    BY <1>1, <1>3, <2>1 DEF Generations
<1>6. RecordHolds /\ Shown
  BY <1>1 DEF RecordHolds, Shown, NewestShown, SelectionIsARow
<1>7. Types
  <2>1. /\ 1 \in DOMAIN ViewOrder /\ MaxLoads \in Nat /\ MaxChanges \in Nat
        /\ Cardinality(Ids) \in Nat
    BY ViewAssumption, EvidenceCheckAssumption, IdsAreFinite
  <2>2. 0 \in 0 .. MaxChanges /\ 0 \in 0 .. MaxLoads /\ 0 \in 0 .. 0 /\ 0 \in 0 .. Cardinality(Ids)
    BY <2>1
  <2>3. evidence \subseteq Ids /\ logged \subseteq Ids /\ altered \subseteq Ids
    BY <1>1
  <2>4. LoadsTypeOK
    BY <1>1, <1>4, <2>2, <2>3 DEF LoadsTypeOK
  <2> QED
    BY <1>1, <2>1, <2>2, <2>4 DEF Types
<1> QED
  BY <1>4, <1>5, <1>6, <1>7 DEF TabsInv

LEMMA NextHolds == TabsInv /\ [Next]_vars => TabsInv'
<1> SUFFICES ASSUME TabsInv, [Next]_vars PROVE TabsInv'
  OBVIOUS
<1>1. CASE World /\ UNCHANGED <<keys, overtaken>>
  BY <1>1, WorldStep
<1>2. CASE Keys
  BY <1>2, KeysStep
<1>3. CASE \E l \in Loads : Thread(l)
  BY <1>3, ThreadStep
<1>4. CASE UNCHANGED vars
  <2>1. UNCHANGED <<checkVars, tab, opened, restarting, selected, category, overtaken>>
    BY <1>4 DEF vars, keys
  <2>2. UNCHANGED <<world, generation, loading, started, load, record, shown>>
    BY <2>1 DEF checkVars, screen
  <2>3. LoadsHold' /\ Generations' /\ RecordHolds'
    BY <2>2, QuietKeys
  <2>4. Types'
    BY <2>1, <2>2 DEF TabsInv, Types, LoadsTypeOK, world
  <2>5. RowCount' = RowCount
    BY <2>1, <2>2, SameRows
  <2>6. Shown'
    BY <2>1, <2>2, <2>5 DEF TabsInv, Shown, NewestShown, SelectionIsARow, Superseded
  <2> QED
    BY <2>3, <2>4, <2>6 DEF TabsInv
<1> QED
  BY <1>1, <1>2, <1>3, <1>4 DEF Next

LEMMA TabsAlways == Spec => []TabsInv
BY InitHolds, NextHolds, PTL DEF Spec

-------------------------------------------------------------------------------
(* The theorems.                                                           *)

\* What the screen shows is the newest load's finished result, and the row selected
\* is one of the rows listed, whatever keys were pressed and whatever load ended when
\* (_BackgroundLoad.run and _run_sidebar_detail_app of verification_screen.py).
THEOREM NewestIsShown == Spec => []ScreenInv
<1>1. TabsInv => ScreenInv
  BY DEF TabsInv, Types, Shown, ScreenInv, TypeOK
<1> QED
  BY <1>1, TabsAlways, PTL

\* "files: ALL GREEN" in the header (status._files_status) is true of the database as
\* it is, however many files were registered and events logged during the check.
THEOREM GreenIsTrue == Spec => []CleanIsTrue
<1>1. TabsInv => CleanIsTrue
  <2> SUFFICES ASSUME TabsInv, FilesStatus = "clean", NEW id \in evidence
               PROVE  /\ id \in logged
                      /\ \E i \in DOMAIN load[record.load].results :
                           load[record.load].results[i] =
                             [id |-> id, rehash |-> "match", logged |-> TRUE]
    BY DEF CleanIsTrue
  <2> DEFINE m == record.load
             r == load[m]
  <2>1. record # NoRecord /\ ~record.tampered /\ ~(New > 0)
        /\ ~record.not_logged /\ ~record.unverifiable
    BY DEF FilesStatus
  <2>2. record \in Records /\ m \in Loads /\ record.evidence_max \in Nat /\ record.events \in Nat
    BY <2>1, TypeFields, RecordFields DEF TabsInv
  <2>3. /\ r \in LoadStates /\ LoadHolds(r, evidence, logged)
        /\ evidence \subseteq Ids /\ logged \subseteq Ids
    BY <2>2, TypeFields DEF TabsInv, LoadsHold
  <2>4. /\ ~Found(m, "MISMATCH") /\ ~Found(m, "not_found") /\ ~NotLogged(m)
        /\ record.evidence_max <= Cardinality(ResultIds(r))
    BY <2>1 DEF TabsInv, RecordHolds
  <2>5. Cardinality(evidence) <= record.evidence_max
    <3> DEFINE e == Cardinality(evidence)
               g == Cardinality(logged)
    <3>1. e \in Nat /\ g \in Nat
      BY <2>3, IdsAreFinite
    <3>2. New = (IF g > record.events THEN g - record.events ELSE 0)
                  + (IF e > record.evidence_max THEN e - record.evidence_max ELSE 0)
      BY DEF New
    <3> HIDE DEF e, g
    <3> QED
      BY <2>1, <2>2, <3>1, <3>2 DEF e
  <2>6. ResultIds(r) \subseteq evidence
    BY <2>3, ReadFields DEF LoadHolds
  <2>7. ResultIds(r) = evidence
    <3>1. /\ Cardinality(evidence) \in Nat /\ Cardinality(ResultIds(r)) \in Nat
          /\ evidence \subseteq Ids
      BY <2>3, <2>6, IdsAreFinite
    <3>2. Cardinality(evidence) <= Cardinality(ResultIds(r))
      BY <2>2, <2>4, <2>5, <3>1
    <3> QED
      BY <2>6, <3>1, <3>2, SmallerSet
  <2>8. PICK i \in DOMAIN r.results : r.results[i].id = id
    BY <2>7 DEF ResultIds
  <2> DEFINE row == r.results[i]
  <2>9. row \in Results /\ row.logged = (row.id \in r.logged)
    BY <2>3, LoadFields DEF LoadHolds
  <2>10. row.rehash # "MISMATCH" /\ row.rehash # "not_found" /\ row.logged
    BY <2>4 DEF Found, NotLogged
  <2>11. row.id = id
    BY <2>8
  <2> HIDE DEF row
  <2>12. id \in logged
    BY <2>3, <2>9, <2>10, <2>11 DEF LoadHolds
  <2>13. row = [id |-> id, rehash |-> "match", logged |-> TRUE]
    BY <2>9, <2>10, <2>11 DEF Results
  <2> QED
    BY <2>12, <2>13 DEF row
<1> QED
  BY <1>1, TabsAlways, PTL

LEMMA BlockOf ==
    ASSUME NEW b \in Nat \ {0}, NEW k \in Nat
    PROVE  LET f == (k \div b) * b IN f \in Nat /\ f <= k /\ k - f < b
<1> DEFINE q == k \div b
<1>1. q \in Nat /\ k = b * q + (k % b) /\ k % b \in 0 .. b - 1
  OBVIOUS
<1>2. b * q = q * b /\ b * q \in Nat
  BY <1>1
<1> HIDE DEF q
<1> QED
  BY <1>1, <1>2 DEF q

\* The verdicts stay beside their files: the block a row is read again with, from the
\* database as it is now, begins at the id saved for it (_EvidenceResults._fetch).
THEOREM VerdictsStayInPlace == Spec => []RowsKeepTheirVerdict
<1>1. TabsInv => RowsKeepTheirVerdict
  <2> SUFFICES ASSUME TabsInv, shown # 0, SeenAll(shown),
                      NEW i \in 1 .. Len(load[shown].results)
               PROVE  Fetched(load[shown].results, i) = load[shown].results[i].id
    BY DEF RowsKeepTheirVerdict
  <2> DEFINE r == load[shown]
             n == Len(r.results)
             f == ((i - 1) \div BlockSize) * BlockSize
             m == n - f
             S == {id \in evidence : id >= r.results[f + 1].id}
             s == [k \in 1 .. m |-> r.results[f + k].id]
  <2>1. r \in LoadStates /\ Rising(Read(r))
    BY TypeFields DEF TabsInv, LoadsHold, LoadHolds, Loads
  <2>2. n \in Nat /\ i \in 1 .. n /\ \A k \in 1 .. n : r.results[k].id \in Nat
    BY <2>1, LoadFields, EvidenceCheckAssumption DEF Results
  <2>3. \A j, k \in 1 .. n : j < k => r.results[j].id < r.results[k].id
    BY <2>1, ResultsRise
  <2>4. evidence = {r.results[k].id : k \in 1 .. n}
    BY DEF SeenAll
  <2>5. BlockSize \in Nat \ {0} /\ i - 1 \in Nat
    BY <2>2, EvidenceCheckAssumption
  <2>6. f \in Nat /\ f <= i - 1 /\ (i - 1) - f < BlockSize
    BY <2>5, BlockOf
  <2>7. Fetched(r.results, i) = Limit(S, BlockSize)[i - (f + 1) + 1]
    BY DEF Fetched
  <2> HIDE DEF f, n, r
  <2>8. m \in Nat /\ i - (f + 1) + 1 = i - f /\ i - f \in 1 .. m /\ i - f \in 1 .. BlockSize
        /\ f + 1 \in 1 .. n /\ f + (i - f) = i
    BY <2>2, <2>5, <2>6
  <2>9. \A k \in 1 .. m : f + k \in 1 .. n
    BY <2>2, <2>6, <2>8
  <2> HIDE DEF m
  <2>10. s \in [1 .. m -> Nat] /\ \A j, k \in 1 .. m : j < k => s[j] < s[k]
    <3>1. s \in [1 .. m -> Nat]
      BY <2>2, <2>9
    <3>2. ASSUME NEW j \in 1 .. m, NEW k \in 1 .. m, j < k PROVE s[j] < s[k]
      <4>1. f + j < f + k
        BY <2>6, <2>8, <3>2
      <4> QED
        BY <2>3, <2>9, <4>1
    <3> QED
      BY <3>1, <3>2
  <2>11. S = {s[k] : k \in 1 .. m}
    <3>1. ASSUME NEW k \in 1 .. m PROVE s[k] \in S
      <4>a. f + 1 \in 1 .. n /\ f + k \in 1 .. n
        BY <2>8, <2>9
      <4>b. f + 1 = f + k \/ f + 1 < f + k
        BY <2>6, <2>8
      <4>1. f + 1 \in 1 .. n /\ f + k \in 1 .. n /\ (f + 1 = f + k \/ f + 1 < f + k)
        BY <4>a, <4>b
      <4>2. r.results[f + k].id \in evidence /\ r.results[f + k].id >= r.results[f + 1].id
        <5>1. r.results[f + k].id \in Nat /\ r.results[f + 1].id \in Nat
          BY <2>2, <4>1
        <5>2. f + 1 < f + k => r.results[f + 1].id < r.results[f + k].id
          BY <2>3, <4>1
        <5> QED
          BY <2>4, <4>1, <5>1, <5>2
      <4> QED
        BY <4>2
    <3>2. ASSUME NEW x \in S PROVE \E k \in 1 .. m : x = s[k]
      <4>1. PICK j \in 1 .. n : x = r.results[j].id
        BY <2>4
      <4>2. r.results[j].id >= r.results[f + 1].id
        BY <4>1
      <4>3. r.results[j].id \in Nat /\ r.results[f + 1].id \in Nat
        BY <2>2, <2>8
      <4>4. ~(j < f + 1)
        <5>1. j < f + 1 => r.results[j].id < r.results[f + 1].id
          BY <2>3, <2>8
        <5> QED
          BY <4>2, <4>3, <5>1
      <4>5. j - f \in 1 .. m /\ f + (j - f) = j
        BY <2>2, <2>6, <4>4 DEF m
      <4> QED
        BY <4>1, <4>5
    <3> HIDE DEF S, s
    <3> QED
      BY <3>1, <3>2
  <2> DEFINE T == {s[k] : k \in 1 .. m}
  <2>12. IsFiniteSet(T) /\ Cardinality(T) = m /\ T \subseteq Nat
    <3> HIDE DEF s
    <3> QED
      BY <2>8, <2>10, RisingCount
  <2>13. InOrder(T)[i - f] = s[i - f]
    <3> HIDE DEF s
    <3> QED
      BY <2>8, <2>10, RisingIsTheOrder
  <2>14. Limit(T, BlockSize)[i - f] = InOrder(T)[i - f]
    <3> HIDE DEF T
    <3> DEFINE p == Limit(T, BlockSize)
    <3>1. \A k \in 1 .. Len(p) : p[k] = InOrder(T)[k]
      BY <2>5, <2>12, PageProperties
    <3>2. \A k \in 1 .. BlockSize : k <= Cardinality(T) => k <= Len(p)
      BY <2>5, <2>12, PageProperties
    <3>3. i - f <= Cardinality(T) /\ i - f \in Nat
      BY <2>8, <2>12
    <3>4. p \in Seq(T)
      BY <2>5, <2>12, PageProperties
    <3> HIDE DEF p
    <3>5. i - f \in 1 .. Len(p)
      BY <2>8, <3>2, <3>3, <3>4
    <3> QED
      BY <3>1, <3>5 DEF p
  <2>15. s[i - f] = r.results[i].id
    BY <2>8
  <2> HIDE DEF S, s
  <2> QED
    BY <2>7, <2>8, <2>11, <2>13, <2>14, <2>15 DEF r
<1> QED
  BY <1>1, TabsAlways, PTL
===============================================================================
