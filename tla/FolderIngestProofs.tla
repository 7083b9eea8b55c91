-------------------------- MODULE FolderIngestProofs --------------------------
(***************************************************************************)
(* Proofs about FolderIngest, for any files, any number of workers and any *)
(* cut of the files into batches.                                          *)
(*                                                                         *)
(* The argument: the units looked ahead at, the results still to be        *)
(* yielded and the place of the generator are one contiguous stretch of    *)
(* the walk (PoolInv).  So the unit that is taken starts where the last    *)
(* one ended, the result that is yielded is of the file the walk is at     *)
(* (InStep), and each step of the ingest is a step of SerialIngest.        *)
(***************************************************************************)
EXTENDS FolderIngest, SequenceTheorems, TLAPS

-------------------------------------------------------------------------------
(* The look-ahead.                                                         *)

LEMMA WindowTypes ==
    ASSUME PoolTypeOK
    PROVE  /\ N \in Nat /\ Jobs \in Nat
           /\ pos \in Nat /\ out.first \in Nat /\ out.last \in Nat
           /\ out.first \in 1..(N + 1) /\ out.last \in 0..N
           /\ Len(window) \in Nat
           /\ DOMAIN window = 1..Len(window)
           /\ \A k \in 1..Len(window) :
                window[k] \in Unit /\ window[k].first \in Files /\ window[k].last \in Files
<1>1. window \in Seq(Unit) /\ out \in Span
  BY DEF PoolTypeOK
<1>2. \A k \in 1..Len(window) : window[k] \in Unit
  BY <1>1, ElementOfSeq
<1>3. Len(window) \in Nat /\ DOMAIN window = 1..Len(window)
  BY <1>1, LenProperties
<1>4. N \in Nat /\ N > 0 /\ Jobs \in Nat
  BY PoolAssumption
<1>5. out.first \in 1..(N + 1) /\ out.last \in 0..N
  BY <1>1 DEF Span
<1>6. \A k \in 1..Len(window) : window[k].first \in Files /\ window[k].last \in Files
  BY <1>2 DEF Unit
<1>7. pos \in 1..(N + 1)
  BY DEF PoolTypeOK
<1>8. pos \in Nat /\ out.first \in Nat /\ out.last \in Nat
  BY <1>4, <1>5, <1>7
<1> QED
  BY <1>2, <1>3, <1>4, <1>5, <1>6, <1>8

LEMMA HeadOfWindow ==
    ASSUME PoolTypeOK, window # <<>>
    PROVE  1 \in DOMAIN window /\ Head(window) = window[1] /\ Len(window) > 0
<1>1. window \in Seq(Unit)
  BY DEF PoolTypeOK
<1>2. Len(window) \in Nat \ {0}
  BY <1>1, EmptySeq
<1>3. DOMAIN window = 1..Len(window)
  BY <1>1, LenProperties
<1> QED
  BY <1>1, <1>2, <1>3

\* Everything the look-ahead invariant reads stays as it was.
LEMMA PoolStutter ==
    ASSUME PoolTypeOK, PoolInv, UNCHANGED poolVars
    PROVE  PoolTypeOK' /\ PoolInv'
BY DEF poolVars, PoolTypeOK, PoolInv, Contiguous, Ordered, Bounded, Held, Big

LEMMA PoolStart == PoolInit => PoolTypeOK /\ PoolInv
<1> SUFFICES ASSUME PoolInit PROVE PoolTypeOK /\ PoolInv
  OBVIOUS
<1>1. N \in Nat \ {0} /\ Jobs \in Nat
  BY PoolAssumption
<1>2. PoolTypeOK
  <2>1. window \in Seq(Unit)
    BY EmptySeq DEF PoolInit
  <2>2. out \in Span /\ pos \in 1..(N + 1)
    BY <1>1 DEF PoolInit, Span
  <2>3. /\ task \in [Files -> TaskStates]
        /\ result \in [Files -> {"none", "digest", "error"}]
    BY DEF PoolInit, TaskStates
  <2> QED
    BY <2>1, <2>2, <2>3 DEF PoolInit, PoolTypeOK
<1>3. window = <<>> /\ DOMAIN window = {} /\ Len(window) = 0
  BY DEF PoolInit
<1>4. Contiguous /\ Ordered
  BY <1>3 DEF PoolInit, Contiguous, Ordered
<1>5. Bounded
  BY <1>1, <1>3 DEF PoolInit, Bounded, Files
<1> QED
  BY <1>2, <1>4, <1>5 DEF PoolInv

LEMMA FillInv ==
    ASSUME PoolTypeOK, PoolInv, Fill
    PROVE  PoolTypeOK' /\ PoolInv'
<1>1. PICK q \in pos..N :
        /\ IsUnit(pos, q)
        /\ window' = Append(window, [first |-> pos, last |-> q])
        /\ pos' = q + 1
  BY DEF Fill
<1> DEFINE unit == [first |-> pos, last |-> q]
           n == Len(window)
<1>2. /\ size' = size /\ out' = out /\ result' = result /\ broken' = broken
      /\ task' = IF Big(pos) THEN task ELSE [task EXCEPT ![pos] = "queued"]
      /\ out.first > out.last
  BY DEF Fill, Yielded
<1>3. /\ pos <= N /\ pos \in Files /\ q \in Files /\ pos <= q /\ n < 2 * Jobs
  BY <1>1, WindowTypes DEF Fill, CanLookAhead, PoolTypeOK, Files
<1>4. Big(pos) => q = pos
  BY <1>1 DEF IsUnit
<1>5. window \in Seq(Unit) /\ unit \in Unit
  BY <1>3 DEF PoolTypeOK, Unit
<1>6. /\ window' \in Seq(Unit) /\ Len(window') = n + 1 /\ window' # <<>>
      /\ \A k \in 1..n : window'[k] = window[k]
      /\ window'[n + 1] = unit
      /\ n \in Nat
  BY <1>1, <1>5, AppendProperties, LenProperties
<1>7. DOMAIN window' = 1..(n + 1) /\ Head(window') = window'[1]
  BY <1>6, LenProperties
<1>8. PoolTypeOK'
  <2>1. pos' \in 1..(N + 1)
    BY <1>1, <1>3, WindowTypes DEF Files
  <2>2. task' \in [Files -> TaskStates]
    BY <1>2 DEF PoolTypeOK, TaskStates
  <2> QED
    BY <2>1, <2>2, <1>2, <1>6 DEF PoolTypeOK
<1>0. /\ n \in Nat /\ N \in Nat /\ pos \in Nat /\ q \in Nat /\ out.first \in Nat /\ out.last \in Nat
      /\ \A k \in 1..n : window[k].first \in Nat /\ window[k].last \in Nat
      /\ DOMAIN window = 1..n
      /\ out.last < pos
  <2>1. \A k \in 1..n : window[k].first \in Nat /\ window[k].last \in Nat
    BY WindowTypes DEF Files
  <2>2. out.last < pos
    <3>1. CASE window = <<>>
      <4>1. pos = out.last + 1
        BY <3>1 DEF PoolInv, Contiguous
      <4>2. out.last \in Nat
        BY WindowTypes
      <4> QED
        BY <4>1, <4>2
    <3>2. CASE window # <<>>
      <4>1. 1 \in DOMAIN window
        BY <3>2, HeadOfWindow
      <4>2. /\ out.last < window[1].first /\ window[1].first <= window[1].last
            /\ window[1].last < pos
        BY <4>1 DEF PoolInv, Contiguous, Ordered
      <4>3. /\ out.last \in Nat /\ pos \in Nat
            /\ window[1].first \in Nat /\ window[1].last \in Nat
        BY <2>1, <4>1, WindowTypes
      <4> QED
        BY <4>2, <4>3
    <3> QED
      BY <3>1, <3>2
  <2> QED
    BY <2>1, <2>2, <1>3, WindowTypes DEF Files
<1>15. n \in Nat
  BY <1>0
<1>13. \A k \in 1..n :
        /\ window[k].first <= window[k].last
        /\ k < n => window[k + 1].first = window[k].last + 1
        /\ k = n => window[k].last + 1 = pos
  BY <1>0 DEF PoolInv, Contiguous
<1>14. \A k \in 1..n :
        /\ out.last < window[k].first
        /\ \A j \in 1..(k - 1) : window[j].last < window[k].first
        /\ window[k].last < pos
        /\ Big(window[k].first) => window[k].last = window[k].first
  BY <1>0 DEF PoolInv, Ordered
<1>9. Contiguous'
  <2>1. window'[1].first = out.last + 1
    <3>1. CASE window = <<>>
      BY <3>1, <1>0, <1>6 DEF PoolInv, Contiguous
    <3>2. CASE window # <<>>
      BY <3>2, <1>0, <1>6, HeadOfWindow DEF PoolInv, Contiguous
    <3> QED
      BY <3>1, <3>2
  <2>2. ASSUME NEW k \in 1..(n + 1)
        PROVE  window'[k].first <= window'[k].last
    <3>1. CASE k \in 1..n
      BY <3>1, <1>6, <1>13
    <3>2. CASE k = n + 1
      BY <3>2, <1>3, <1>6
    <3> QED
      BY <3>1, <3>2, <1>15
  <2>3. ASSUME NEW k \in 1..n
        PROVE  window'[k + 1].first = window'[k].last + 1
    <3>1. CASE k < n
      <4>1. k + 1 \in 1..n
        BY <3>1, <1>0
      <4> QED
        BY <3>1, <4>1, <1>6, <1>13
    <3>2. CASE k = n
      BY <3>2, <1>6, <1>13
    <3> QED
      BY <3>1, <3>2, <1>15
  <2>4. window'[n + 1].last + 1 = pos'
    BY <1>1, <1>6
  <2>5. \A k \in DOMAIN window' :
          /\ window'[k].first <= window'[k].last
          /\ k < Len(window') => window'[k + 1].first = window'[k].last + 1
          /\ k = Len(window') => window'[k].last + 1 = pos'
    <3>1. DOMAIN window' = 1..(n + 1) /\ Len(window') = n + 1
      BY <1>6, <1>7
    <3> QED
      BY <2>2, <2>3, <2>4, <3>1, <1>15
  <2> QED
    BY <2>1, <2>5, <1>0, <1>2, <1>6, <1>7 DEF PoolInv, Contiguous
<1>10. \A f \in Files : Big(f)' <=> Big(f)
  BY <1>2 DEF Big
<1>11. Ordered'
  <2>1. ASSUME NEW k \in 1..(n + 1)
        PROVE  /\ out.last < window'[k].first
               /\ \A j \in 1..(k - 1) : window'[j].last < window'[k].first
               /\ window'[k].last < q + 1
               /\ Big(window'[k].first) => window'[k].last = window'[k].first
    <3>1. CASE k \in 1..n
      <4>1. window'[k] = window[k] /\ \A j \in 1..(k - 1) : window'[j] = window[j]
        BY <3>1, <1>0, <1>6
      <4> QED
        BY <3>1, <4>1, <1>0, <1>3, <1>14
    <3>2. CASE k = n + 1
      <4>1. window'[k] = unit /\ \A j \in 1..(k - 1) : j \in 1..n /\ window'[j] = window[j]
        BY <3>2, <1>0, <1>6
      <4> QED
        BY <3>2, <4>1, <1>0, <1>3, <1>4, <1>14
    <3> QED
      BY <3>1, <3>2, <1>15
  <2> QED
    BY <2>1, <1>1, <1>2, <1>7 DEF Ordered, Big
<1>12. Bounded'
  <2>1. Len(window') <= 2 * Jobs
    BY <1>3, <1>6, WindowTypes
  <2>2. ASSUME NEW f \in Files, task'[f] \in {"queued", "running"} PROVE Held(f)'
    <3>1. CASE f = pos
      BY <3>1, <1>6, <1>7 DEF Held
    <3>2. CASE f # pos
      <4>1. task[f] \in {"queued", "running"}
        BY <2>2, <3>2, <1>2, <1>3 DEF PoolTypeOK
      <4>2. PICK k \in DOMAIN window : window[k].first = f
        BY <4>1 DEF PoolInv, Bounded, Held
      <4> QED
        BY <4>2, <1>6, <1>7, WindowTypes DEF Held
    <3> QED
      BY <3>1, <3>2
  <2>3. ASSUME NEW f \in Files, Big(f)' PROVE task'[f] = "none"
    BY <2>3, <1>2, <1>3, <1>10 DEF PoolInv, Bounded, PoolTypeOK
  <2>4. \A f \in Files : f \in out'.first..out'.last => result'[f] # "none"
    BY <1>2 DEF PoolInv, Bounded
  <2>5. ASSUME NEW k \in DOMAIN window', task'[window'[k].first] = "done"
        PROVE  \A f \in window'[k].first..window'[k].last : result'[f] # "none"
    <3>1. k \in 1..n
      BY <2>5, <1>2, <1>3, <1>6, <1>7 DEF PoolInv, Bounded, PoolTypeOK
    <3>2. task[window[k].first] = "done"
      BY <2>5, <3>1, <1>2, <1>3, <1>6, WindowTypes DEF PoolInv, Ordered, PoolTypeOK
    <3> QED
      BY <3>1, <3>2, <1>2, <1>6, WindowTypes DEF PoolInv, Bounded
  <2> QED
    BY <2>1, <2>2, <2>3, <2>4, <2>5 DEF Bounded
<1> QED
  BY <1>8, <1>9, <1>11, <1>12 DEF PoolInv

\* The oldest unit leaves the window: its results are yielded next, or none are.
LEMMA TakeInv ==
    ASSUME PoolTypeOK, PoolInv, window # <<>>,
           window' = Tail(window),
           out' \in Span, out'.last = Head(window).last,
           out'.first \in {Head(window).first, Head(window).last + 1},
           task[Head(window).first] \notin {"queued", "running"},
           out'.first <= out'.last => task[Head(window).first] = "done",
           UNCHANGED <<size, pos, task, result, broken>>
    PROVE  PoolTypeOK' /\ PoolInv'
<1> DEFINE n == Len(window)
<1>1. window \in Seq(Unit)
  BY DEF PoolTypeOK
<1>2. /\ n \in Nat /\ n > 0 /\ DOMAIN window = 1..n /\ Head(window) = window[1]
      /\ \A k \in 1..n : window[k].first \in Nat /\ window[k].last \in Nat /\ window[k].first \in Files
      /\ pos \in Nat /\ out.last \in Nat /\ N \in Nat /\ Jobs \in Nat
  BY WindowTypes, HeadOfWindow DEF Files
<1>3. /\ window' \in Seq(Unit) /\ Len(window') = n - 1
      /\ \A k \in 1..(n - 1) : window'[k] = window[k + 1]
  BY <1>1, HeadTailProperties
<1>4. DOMAIN window' = 1..(n - 1)
  BY <1>3, LenProperties
<1>5. window' # <<>> => n > 1 /\ Head(window') = window'[1]
  <2> SUFFICES ASSUME window' # <<>> PROVE n > 1 /\ Head(window') = window'[1]
    OBVIOUS
  <2>1. Len(window') \in Nat \ {0}
    BY <1>3, EmptySeq
  <2>2. n > 1
    BY <2>1, <1>2, <1>3
  <2>3. Head(window') = window'[1]
    BY <1>3
  <2> QED
    BY <2>2, <2>3
<1>6. window' = <<>> => n = 1
  <2>1. window' = <<>> => Len(window') = 0
    OBVIOUS
  <2> QED
    BY <2>1, <1>2, <1>3
<1>7. \A k \in 1..n :
        /\ window[k].first <= window[k].last
        /\ k < n => window[k + 1].first = window[k].last + 1
        /\ k = n => window[k].last + 1 = pos
  BY <1>2 DEF PoolInv, Contiguous
<1>8. \A k \in 1..n :
        /\ \A j \in 1..(k - 1) : window[j].last < window[k].first
        /\ window[k].last < pos
        /\ Big(window[k].first) => window[k].last = window[k].first
  BY <1>2 DEF PoolInv, Ordered
<1>9. PoolTypeOK'
  BY <1>3 DEF PoolTypeOK
<1>10. \A k \in 1..(n - 1) : k \in 1..n /\ k + 1 \in 1..n
  BY <1>2
<1>15. /\ window[1].first <= window[1].last
       /\ 1 < n => window[2].first = window[1].last + 1
       /\ 1 = n => window[1].last + 1 = pos
       /\ window[1].first \in Nat /\ window[1].last \in Nat
       /\ out'.last = window[1].last
       /\ out'.first = window[1].first \/ out'.first = window[1].last + 1
  <2>1. 1 \in 1..n /\ 1 + 1 = 2
    BY <1>2
  <2> QED
    BY <2>1, <1>2, <1>7
<1>11. Contiguous'
  <2>1. window' # <<>> => window'[1].first = out'.last + 1
    <3>1. n > 1 => 1 \in 1..(n - 1) /\ 1 + 1 = 2 /\ 1 < n
      BY <1>2
    <3> QED
      BY <3>1, <1>3, <1>5, <1>15
  <2>2. ASSUME NEW k \in 1..(n - 1)
        PROVE  /\ window'[k].first <= window'[k].last
               /\ k < n - 1 => window'[k + 1].first = window'[k].last + 1
               /\ k = n - 1 => window'[k].last + 1 = pos
    <3>1. k + 1 \in 1..n /\ window'[k] = window[k + 1]
      BY <1>3, <1>10
    <3>2. window'[k].first <= window'[k].last
      BY <3>1, <1>7
    <3>3. ASSUME k < n - 1 PROVE window'[k + 1].first = window'[k].last + 1
      <4>1. k + 1 \in 1..(n - 1) /\ k + 1 < n
        BY <3>3, <1>2
      <4> QED
        BY <4>1, <3>1, <1>3, <1>7
    <3>4. ASSUME k = n - 1 PROVE window'[k].last + 1 = pos
      <4>1. k + 1 = n
        BY <3>4, <1>2
      <4> QED
        BY <4>1, <3>1, <1>7
    <3> QED
      BY <3>2, <3>3, <3>4
  <2>3. window' = <<>> => pos = out'.last + 1
    BY <1>6, <1>15
  <2>4. out'.first <= out'.last + 1
    BY <1>15
  <2> QED
    BY <2>1, <2>2, <2>3, <2>4, <1>3, <1>4, <1>5 DEF Contiguous
<1>12. Ordered'
  <2>1. ASSUME NEW k \in 1..(n - 1)
        PROVE  /\ out'.last < window'[k].first
               /\ \A j \in 1..(k - 1) : window'[j].last < window'[k].first
               /\ window'[k].last < pos
               /\ Big(window'[k].first) => window'[k].last = window'[k].first
    <3>1. k + 1 \in 1..n /\ window'[k] = window[k + 1]
      BY <1>3, <1>10
    <3>2. \A j \in 1..(k - 1) : j + 1 \in 1..((k + 1) - 1) /\ window'[j] = window[j + 1]
      BY <1>2, <1>3
    <3>3. 1 \in 1..((k + 1) - 1)
      BY <1>2
    <3> QED
      BY <3>1, <3>2, <3>3, <1>2, <1>8
  <2> QED
    BY <2>1, <1>4 DEF Ordered, Big
<1>13. Bounded'
  <2>1. Len(window') <= 2 * Jobs
    BY <1>2, <1>3 DEF PoolInv, Bounded
  <2>2. ASSUME NEW f \in Files, task[f] \in {"queued", "running"} PROVE Held(f)'
    <3>1. PICK k \in 1..n : window[k].first = f
      BY <2>2, <1>2 DEF PoolInv, Bounded, Held
    <3>2. k # 1
      BY <3>1, <2>2, <1>2
    <3>3. k - 1 \in 1..(n - 1) /\ (k - 1) + 1 = k
      BY <3>2, <1>2
    <3>4. window'[k - 1] = window[k]
      BY <3>3, <1>3
    <3> QED
      BY <3>1, <3>3, <3>4, <1>4 DEF Held
  <2>3. \A f \in Files : Big(f)' => task'[f] = "none"
    BY DEF PoolInv, Bounded, Big
  <2>4. ASSUME NEW f \in Files, f \in out'.first..out'.last PROVE result[f] # "none"
    <3>1. out'.first <= out'.last /\ out'.first = window[1].first
      BY <2>4, <1>2 DEF Files
    <3>2. task[window[1].first] = "done" /\ f \in window[1].first..window[1].last
      BY <3>1, <2>4, <1>2
    <3> QED
      BY <3>2, <1>2 DEF PoolInv, Bounded
  <2>5. ASSUME NEW k \in 1..(n - 1), task[window'[k].first] = "done"
        PROVE  \A f \in window'[k].first..window'[k].last : result[f] # "none"
    <3>1. k + 1 \in 1..n /\ window'[k] = window[k + 1]
      BY <1>3, <1>10
    <3> QED
      BY <3>1, <2>5, <1>2 DEF PoolInv, Bounded
  <2> QED
    BY <2>1, <2>2, <2>3, <2>4, <2>5, <1>4 DEF Bounded
<1> QED
  BY <1>9, <1>11, <1>12, <1>13 DEF PoolInv

LEMMA PopBatchInv ==
    ASSUME PoolTypeOK, PoolInv, PopBatch
    PROVE  /\ PoolTypeOK' /\ PoolInv'
           /\ out'.first = out.last + 1
<1>1. /\ window # <<>> /\ task[Head(window).first] = "done"
      /\ out' = Head(window) /\ window' = Tail(window)
      /\ UNCHANGED <<size, pos, task, result, broken>>
  BY DEF PopBatch, Leads
<1>2. Head(window) \in Unit
  BY <1>1, WindowTypes, HeadOfWindow
<1>3. out' \in Span
  BY <1>1, <1>2, PoolAssumption DEF Unit, Span, Files
<1>4. out'.first = out.last + 1
  BY <1>1 DEF PoolInv, Contiguous
<1> QED
  BY <1>1, <1>3, <1>4, TakeInv

LEMMA PopBigInv ==
    ASSUME PoolTypeOK, PoolInv, PopBig
    PROVE  /\ PoolTypeOK' /\ PoolInv'
           /\ out'.first = out.last + 2 /\ out'.last = out.last + 1
<1>1. /\ window # <<>> /\ Big(Head(window).first)
      /\ out' = [first |-> Head(window).last + 1, last |-> Head(window).last]
      /\ window' = Tail(window)
      /\ UNCHANGED <<size, pos, task, result, broken>>
  BY DEF PopBig
<1>2. /\ Head(window) = window[1] /\ 1 \in DOMAIN window
      /\ Head(window).first \in Files /\ Head(window).last \in Files
  BY <1>1, WindowTypes, HeadOfWindow
<1>3. out'.first = Head(window).last + 1 /\ out'.last = Head(window).last
  BY <1>1
<1>4. out' \in Span
  BY <1>1, <1>2, PoolAssumption DEF Span, Files
<1>5. Head(window).first = out.last + 1 /\ Head(window).last = Head(window).first
  BY <1>1, <1>2 DEF PoolInv, Contiguous, Ordered
<1>6. task[Head(window).first] = "none"
  BY <1>1, <1>2 DEF PoolInv, Bounded
<1>7. ~(out'.first <= out'.last)
  BY <1>2, <1>3 DEF Files
<1>8. PoolTypeOK' /\ PoolInv'
  BY <1>1, <1>3, <1>4, <1>6, <1>7, TakeInv
<1> QED
  BY <1>3, <1>5, <1>8, WindowTypes

LEMMA YieldInv ==
    ASSUME PoolTypeOK, PoolInv, YieldResult
    PROVE  /\ PoolTypeOK' /\ PoolInv'
           /\ out'.first = out.first + 1 /\ out.first \in Files
<1>1. /\ out.first <= out.last
      /\ out' = [out EXCEPT !.first = @ + 1]
      /\ result' = [result EXCEPT ![out.first] = "none"]
      /\ UNCHANGED <<size, pos, window, task, broken>>
  BY WindowTypes DEF YieldResult, Yielded
<1>2. /\ out'.first = out.first + 1 /\ out'.last = out.last
      /\ out' \in Span /\ out.first \in Files
  <2>1. /\ out \in [first : 1..(N + 1), last : 0..N]
        /\ out'.first = out.first + 1 /\ out'.last = out.last
        /\ out' = [first |-> out.first + 1, last |-> out.last]
    BY <1>1 DEF PoolTypeOK, Span
  <2>2. out.first \in 1..N /\ out.first + 1 \in 1..(N + 1) /\ out.last \in 0..N
    BY <1>1, WindowTypes
  <2> QED
    BY <2>1, <2>2 DEF Span, Files
<1>3. PoolTypeOK'
  BY <1>1, <1>2 DEF PoolTypeOK
<1>4. Contiguous' /\ Ordered'
  BY <1>1, <1>2, WindowTypes DEF PoolInv, Contiguous, Ordered, Big
<1>5. \A f \in Files : f # out.first => result'[f] = result[f]
  BY <1>1 DEF PoolTypeOK
<1>6. Bounded'
  <2>1. \A f \in Files : f \in out'.first..out'.last => result'[f] # "none"
    <3>1. \A f \in Files : f \in out'.first..out'.last =>
            f \in out.first..out.last /\ f # out.first
      BY <1>2, WindowTypes DEF Files
    <3> QED
      BY <3>1, <1>5 DEF PoolInv, Bounded
  <2>2. ASSUME NEW k \in DOMAIN window, task[window[k].first] = "done"
        PROVE  \A f \in window[k].first..window[k].last : result'[f] # "none"
    <3>1. /\ \A f \in window[k].first..window[k].last : result[f] # "none"
          /\ out.last < window[k].first
      BY <2>2 DEF PoolInv, Bounded, Ordered
    <3>2. window[k].first \in Files /\ window[k].last \in Files
      BY WindowTypes
    <3>3. out.first <= out.last /\ out.first \in Nat /\ out.last \in Nat /\ N \in Nat
      BY <1>1, WindowTypes
    <3>4. \A f \in window[k].first..window[k].last : f \in Files /\ f # out.first
      BY <3>1, <3>2, <3>3 DEF Files
    <3> QED
      BY <3>1, <3>4, <1>5
  <2> QED
    BY <2>1, <2>2, <1>1 DEF PoolInv, Bounded, Held, Big
<1> QED
  BY <1>2, <1>3, <1>4, <1>6 DEF PoolInv

-------------------------------------------------------------------------------
(* The pool.                                                               *)

\* What the workers and the shutdown may change: no batch comes into being,
\* and one is done only with the answers for its files.
LEMMA TasksInv ==
    ASSUME PoolTypeOK, PoolInv,
           UNCHANGED <<size, pos, window, out>>,
           task' \in [Files -> TaskStates],
           result' \in [Files -> {"none", "digest", "error"}],
           broken' \in BOOLEAN,
           \A f \in Files :
               /\ task'[f] \in {"queued", "running"} => task[f] \in {"queued", "running"}
               /\ task[f] = "none" => task'[f] = "none"
               /\ result[f] # "none" => result'[f] # "none",
           \A k \in DOMAIN window :
               task'[window[k].first] = "done" /\ task[window[k].first] # "done" =>
                   \A f \in window[k].first..window[k].last : result'[f] # "none"
    PROVE  PoolTypeOK' /\ PoolInv'
<1>1. PoolTypeOK'
  BY DEF PoolTypeOK
<1>2. Contiguous' /\ Ordered'
  BY DEF PoolInv, Contiguous, Ordered, Big
<1>3. Bounded'
  <2>1. ASSUME NEW f \in Files
        PROVE  /\ task'[f] \in {"queued", "running"} => Held(f)'
               /\ Big(f)' => task'[f] = "none"
               /\ f \in out'.first..out'.last => result'[f] # "none"
    BY DEF PoolInv, Bounded, Held, Big
  <2>2. ASSUME NEW k \in DOMAIN window, task'[window[k].first] = "done"
        PROVE  \A f \in window[k].first..window[k].last : result'[f] # "none"
    <3>1. CASE task[window[k].first] # "done"
      BY <2>2, <3>1
    <3>2. CASE task[window[k].first] = "done"
      <4>1. \A f \in window[k].first..window[k].last : f \in Files /\ result[f] # "none"
        BY <3>2, WindowTypes DEF PoolInv, Bounded, Files
      <4> QED
        BY <4>1
    <3> QED
      BY <3>1, <3>2
  <2> QED
    BY <2>1, <2>2 DEF PoolInv, Bounded
<1> QED
  BY <1>1, <1>2, <1>3 DEF PoolInv

LEMMA PoolStepInv ==
    ASSUME PoolTypeOK, PoolInv, Pool
    PROVE  PoolTypeOK' /\ PoolInv'
<1>1. CASE \E u \in Files : HandOver(u)
  <2>1. PICK u \in Files :
          /\ task[u] = "queued"
          /\ task' = [task EXCEPT ![u] = "running"]
          /\ UNCHANGED <<size, pos, window, out, result, broken>>
    BY <1>1 DEF HandOver
  <2> QED
    BY <2>1, TasksInv DEF PoolTypeOK, TaskStates
<1>2. CASE \E k \in DOMAIN window : HashBatch(window[k])
  <2>1. PICK k \in DOMAIN window : HashBatch(window[k])
    BY <1>2
  <2> DEFINE u == window[k]
  <2>2. PICK unread \in SUBSET (u.first..u.last) :
          result' = [f \in Files |-> IF f \notin u.first..u.last THEN result[f]
                                     ELSE IF f \in unread THEN "error" ELSE "digest"]
    BY <2>1 DEF HashBatch
  <2>3. /\ task[u.first] = "running"
        /\ task' = [task EXCEPT ![u.first] = "done"]
        /\ UNCHANGED <<size, pos, window, out, broken>>
    BY <2>1 DEF HashBatch
  <2>4. /\ u.first \in Files /\ u.last \in Files
        /\ \A f \in u.first..u.last : f \in Files /\ result'[f] # "none"
    BY <2>2, WindowTypes DEF Files
  <2>5. ASSUME NEW j \in DOMAIN window,
               task'[window[j].first] = "done", task[window[j].first] # "done"
        PROVE  window[j].last = u.last /\ window[j].first = u.first
    <3>1. window[j].first = u.first
      BY <2>5, <2>3, <2>4, WindowTypes DEF PoolTypeOK
    <3>2. \A x, y \in DOMAIN window : x < y => window[x].first < window[y].first
      <4> SUFFICES ASSUME NEW x \in DOMAIN window, NEW y \in DOMAIN window, x < y
                   PROVE  window[x].first < window[y].first
        OBVIOUS
      <4>1. x \in 1..(y - 1)
        BY WindowTypes
      <4>2. window[x].last < window[y].first /\ window[x].first <= window[x].last
        BY <4>1 DEF PoolInv, Ordered, Contiguous
      <4> QED
        BY <4>2, WindowTypes DEF Files
    <3>3. j = k
      BY <3>1, <3>2, WindowTypes DEF Files
    <3> QED
      BY <3>3
  <2>6. result' \in [Files -> {"none", "digest", "error"}]
    BY <2>2 DEF PoolTypeOK
  <2>7. \A f \in Files : result[f] # "none" => result'[f] # "none"
    BY <2>2
  <2>8. /\ task' \in [Files -> TaskStates]
        /\ \A f \in Files :
             /\ task'[f] \in {"queued", "running"} => task[f] \in {"queued", "running"}
             /\ task[f] = "none" => task'[f] = "none"
    BY <2>3 DEF PoolTypeOK, TaskStates
  <2>9. \A j \in DOMAIN window :
          task'[window[j].first] = "done" /\ task[window[j].first] # "done" =>
              \A f \in window[j].first..window[j].last : result'[f] # "none"
    BY <2>4, <2>5
  <2> QED
    BY <2>3, <2>6, <2>7, <2>8, <2>9, TasksInv DEF PoolTypeOK
<1>3. CASE WorkerDies
  <2>1. /\ task' = [f \in Files |-> IF task[f] \in {"queued", "running"} THEN "lost" ELSE task[f]]
        /\ broken' = TRUE
        /\ UNCHANGED <<size, pos, window, out, result>>
    BY <1>3 DEF WorkerDies
  <2>2. /\ task' \in [Files -> TaskStates]
        /\ \A f \in Files :
             /\ task'[f] \in {"queued", "running"} => task[f] \in {"queued", "running"}
             /\ task[f] = "none" => task'[f] = "none"
             /\ task'[f] = "done" => task[f] = "done"
    BY <2>1 DEF PoolTypeOK, TaskStates
  <2> QED
    BY <2>1, <2>2, WindowTypes, TasksInv DEF PoolTypeOK
<1> QED
  BY <1>1, <1>2, <1>3 DEF Pool

LEMMA CancelInv ==
    ASSUME PoolTypeOK, PoolInv, CancelQueued
    PROVE  PoolTypeOK' /\ PoolInv'
<1>1. /\ task' = [f \in Files |-> IF task[f] = "queued" THEN "cancelled" ELSE task[f]]
      /\ UNCHANGED <<size, pos, window, out, result, broken>>
  BY DEF CancelQueued
<1>2. /\ task' \in [Files -> TaskStates]
      /\ \A f \in Files :
           /\ task'[f] \in {"queued", "running"} => task[f] \in {"queued", "running"}
           /\ task[f] = "none" => task'[f] = "none"
           /\ task'[f] = "done" => task[f] = "done"
  BY <1>1 DEF PoolTypeOK, TaskStates
<1> QED
  BY <1>1, <1>2, WindowTypes, TasksInv DEF PoolTypeOK

-------------------------------------------------------------------------------
(* The ingest.                                                             *)

LEMMA IngestStart == Init => IngestInv
<1> SUFFICES ASSUME Init PROVE IngestInv
  OBVIOUS
<1>1. PoolTypeOK /\ PoolInv /\ N \in Nat \ {0}
  BY PoolStart, PoolAssumption DEF Init
<1>2. TypeOK
  <2>1. 1 \in 1..(N + 1)
    BY <1>1
  <2> QED
    BY <1>1, <2>1 DEF Init, TypeOK, Phases, Outcomes, Messages
<1>3. InStep
  BY <1>1 DEF Init, PoolInit, InStep
<1>4. Quiet /\ Whole
  BY DEF Init, Quiet, Whole
<1> QED
  BY <1>1, <1>2, <1>3, <1>4 DEF IngestInv

LEMMA WalkTypes ==
    ASSUME IngestInv
    PROVE  /\ PoolTypeOK /\ PoolInv
           /\ N \in Nat /\ i \in Nat /\ i \in 1..(N + 1)
           /\ pc \in {"next", "hash"} => i \in Files /\ outcome = "running"
           /\ pc = "next" => pooled /\ out.first = i
           /\ pooled /\ pc = "hash" => out.first = i + 1
BY PoolAssumption DEF IngestInv, TypeOK, InStep, Whole, Files

\* An exception ends the command with nothing stored.
LEMMA RaiseInv ==
    ASSUME IngestInv, outcome = "running",
           NEW how \in {"cancelled", "failed"}, Raise(how),
           UNCHANGED poolVars, UNCHANGED screenVars
    PROVE  IngestInv'
<1>1. /\ outcome' = how /\ open' = FALSE /\ pc' = "close"
      /\ UNCHANGED <<pooled, signs, i, rows, stored, logged, screen, cancelled, shown>>
  BY DEF Raise, screenVars
<1>2. PoolTypeOK' /\ PoolInv'
  BY WalkTypes, PoolStutter
<1>3. TypeOK'
  BY <1>1, <1>2 DEF IngestInv, TypeOK, Phases, Outcomes
<1>4. InStep' /\ Quiet' /\ Whole'
  BY <1>1 DEF IngestInv, InStep, Quiet, Whole
<1> QED
  BY <1>2, <1>3, <1>4 DEF IngestInv

\* A file is done with: hashed and kept, or skipped.
LEMMA FileDoneInv ==
    ASSUME IngestInv, pc \in {"next", "hash"},
           Keep(i) \/ SkipFile,
           PoolTypeOK', PoolInv',
           pooled => out'.first = i + 1,
           ~pooled => UNCHANGED poolVars,
           UNCHANGED screenVars
    PROVE  IngestInv'
<1>1. /\ i' = i + 1 /\ pc' \in {"file", "flush"}
      /\ rows' = rows \/ rows' = rows \cup {<<i, i>>}
      /\ UNCHANGED <<pooled, signs, open, stored, outcome, logged, screen, cancelled, shown>>
  <2>1. CASE Keep(i)
    BY <2>1 DEF Keep, screenVars
  <2>2. CASE SkipFile
    BY <2>2 DEF SkipFile, screenVars
  <2> QED
    BY <2>1, <2>2
<1>2. i \in Files /\ i + 1 \in 1..(N + 1) /\ outcome = "running"
  BY WalkTypes DEF Files
<1>3. TypeOK'
  BY <1>1, <1>2 DEF IngestInv, TypeOK, Phases
<1>4. InStep'
  <2>1. CASE pooled
    BY <2>1, <1>1 DEF InStep
  <2>2. CASE ~pooled
    BY <2>2, <1>1, <1>2 DEF InStep, IngestInv, poolVars
  <2> QED
    BY <2>1, <2>2
<1>5. Quiet' /\ Whole'
  BY <1>1, <1>2 DEF IngestInv, Quiet, Whole
<1> QED
  BY <1>3, <1>4, <1>5 DEF IngestInv

LEMMA NextResultInv ==
    ASSUME IngestInv, NextResult, UNCHANGED screenVars
    PROVE  IngestInv'
<1>0. /\ pc = "next" /\ pooled /\ out.first = i /\ outcome = "running"
      /\ PoolTypeOK /\ PoolInv
  BY WalkTypes DEF NextResult
<1>1. CASE (Fill \/ PopBatch) /\ UNCHANGED ingestVars
  <2>1. PoolTypeOK' /\ PoolInv' /\ out'.first = out.first
    <3>1. CASE Fill
      BY <1>0, <3>1, FillInv DEF Fill
    <3>2. CASE PopBatch
      <4>1. out.first = out.last + 1
        BY <1>0, <3>2, WindowTypes DEF PopBatch, Leads, Yielded, PoolInv, Contiguous
      <4> QED
        BY <4>1, <1>0, <3>2, PopBatchInv
    <3> QED
      BY <1>1, <3>1, <3>2
  <2>2. TypeOK'
    BY <2>1, <1>1 DEF IngestInv, TypeOK, ingestVars, screenVars
  <2>3. InStep' /\ Quiet' /\ Whole'
    BY <2>1, <1>0, <1>1 DEF IngestInv, InStep, Quiet, Whole, ingestVars, screenVars
  <2> QED
    BY <2>1, <2>2, <2>3 DEF IngestInv
<1>2. CASE /\ PopBig
           /\ pc' = "hash"
           /\ UNCHANGED <<pooled, signs, i, rows, open, stored, outcome, logged>>
  <2>1. PoolTypeOK' /\ PoolInv' /\ out'.first = i + 1
    <3>1. out.first = out.last + 1
      BY <1>0, <1>2, WindowTypes DEF PopBig, Yielded, PoolInv, Contiguous
    <3> QED
      BY <3>1, <1>0, <1>2, PopBigInv, WindowTypes
  <2>2. TypeOK'
    BY <2>1, <1>2 DEF IngestInv, TypeOK, Phases, screenVars
  <2>3. InStep' /\ Quiet' /\ Whole'
    BY <2>1, <1>0, <1>2 DEF IngestInv, InStep, Quiet, Whole, screenVars
  <2> QED
    BY <2>1, <2>2, <2>3 DEF IngestInv
<1>3. CASE /\ YieldResult
           /\ IF result[out.first] = "digest" THEN Keep(out.first) ELSE SkipFile
  <2>1. PoolTypeOK' /\ PoolInv' /\ out'.first = i + 1
    BY <1>0, <1>3, YieldInv
  <2> QED
    BY <2>1, <1>0, <1>3, FileDoneInv
<1>4. CASE Raise("failed") /\ UNCHANGED poolVars
  BY <1>0, <1>4, RaiseInv
<1> QED
  BY <1>1, <1>2, <1>3, <1>4 DEF NextResult

LEMMA HashOwnInv ==
    ASSUME IngestInv, HashOwn, UNCHANGED screenVars
    PROVE  IngestInv'
<1>0. /\ pc = "hash" /\ UNCHANGED poolVars /\ outcome = "running"
      /\ PoolTypeOK' /\ PoolInv'
      /\ pooled => out'.first = i + 1
  BY WalkTypes, PoolStutter DEF HashOwn, poolVars
<1>1. CASE Keep(i) \/ SkipFile
  BY <1>0, <1>1, FileDoneInv
<1>2. CASE HookRaises
  BY <1>0, <1>2, RaiseInv DEF HookRaises
<1> QED
  BY <1>1, <1>2 DEF HashOwn

\* The steps between two files, and those that end the command.
LEMMA CommandInv ==
    ASSUME IngestInv, UNCHANGED poolVars, UNCHANGED screenVars,
           \/ StartFile
           \/ pc = "file" /\ i <= N /\ HookRaises
           \/ Flush
           \/ Finish
           \/ Join
           \/ BatchRegister
    PROVE  IngestInv'
<1>0. PoolTypeOK' /\ PoolInv'
  BY WalkTypes, PoolStutter
<1>1. UNCHANGED <<pos, window, out, task, screen, cancelled, shown>>
  BY DEF poolVars, screenVars
<1>2. pc \in {"file", "flush"} => outcome = "running"
  BY DEF IngestInv, TypeOK, Phases, Whole
<1>3. CASE StartFile
  <2>1. TypeOK'
    BY <1>0, <1>1, <1>3 DEF StartFile, IngestInv, TypeOK, Phases
  <2>2. InStep' /\ Quiet' /\ Whole'
    BY <1>1, <1>3 DEF StartFile, IngestInv, InStep, Quiet, Whole
  <2> QED
    BY <1>0, <2>1, <2>2 DEF IngestInv
<1>4. CASE pc = "file" /\ i <= N /\ HookRaises
  BY <1>2, <1>4, RaiseInv DEF HookRaises
<1>5. CASE Flush
  <2>1. CASE Locked
    BY <1>2, <1>5, <2>1, RaiseInv DEF Flush, Locked
  <2>2. CASE /\ open' = TRUE
             /\ pc' = "file"
             /\ UNCHANGED <<pooled, signs, i, rows, stored, outcome, logged>>
    <3>1. TypeOK'
      BY <1>0, <1>1, <2>2 DEF IngestInv, TypeOK, Phases
    <3>2. InStep' /\ Quiet' /\ Whole'
      BY <1>1, <1>2, <1>5, <2>2 DEF Flush, IngestInv, InStep, Quiet, Whole
    <3> QED
      BY <1>0, <3>1, <3>2 DEF IngestInv
  <2> QED
    BY <1>5, <2>1, <2>2 DEF Flush
<1>6. CASE Finish
  <2>1. CASE Locked
    BY <1>2, <1>6, <2>1, RaiseInv DEF Finish, Locked
  <2>2. CASE Raise("failed")
    BY <1>2, <1>6, <2>2, RaiseInv DEF Finish
  <2>3. CASE /\ rows # {}
             /\ stored' = rows
             /\ outcome' = "registered"
             /\ open' = FALSE
             /\ pc' = "close"
             /\ UNCHANGED <<pooled, signs, i, rows, logged>>
    <3>1. TypeOK'
      BY <1>0, <1>1, <2>3 DEF IngestInv, TypeOK, Phases, Outcomes
    <3>2. InStep' /\ Quiet' /\ Whole'
      BY <1>1, <1>2, <1>6, <2>3 DEF Finish, IngestInv, InStep, Quiet, Whole
    <3> QED
      BY <1>0, <3>1, <3>2 DEF IngestInv
  <2> QED
    BY <1>6, <2>1, <2>2, <2>3 DEF Finish
<1>7. CASE Join
  <2>1. TypeOK'
    BY <1>0, <1>1, <1>7 DEF Join, IngestInv, TypeOK, Phases
  <2>2. Quiet'
    BY <1>1, <1>7 DEF Join, Quiet, Idle
  <2>3. InStep' /\ Whole'
    BY <1>1, <1>7 DEF Join, IngestInv, TypeOK, InStep, Whole
  <2> QED
    BY <1>0, <2>1, <2>2, <2>3 DEF IngestInv
<1>8. CASE BatchRegister
  <2>1. TypeOK'
    BY <1>0, <1>1, <1>8 DEF BatchRegister, IngestInv, TypeOK, Phases
  <2>2. Quiet'
    BY <1>1, <1>8 DEF BatchRegister, IngestInv, Quiet, Idle
  <2>3. InStep' /\ Whole'
    BY <1>1, <1>8 DEF BatchRegister, IngestInv, TypeOK, InStep, Whole
  <2> QED
    BY <1>0, <2>1, <2>2, <2>3 DEF IngestInv
<1> QED
  BY <1>3, <1>4, <1>5, <1>6, <1>7, <1>8

LEMMA CloseInv ==
    ASSUME IngestInv, Close, UNCHANGED screenVars
    PROVE  IngestInv'
<1>1. PoolTypeOK' /\ PoolInv'
  BY WalkTypes, CancelInv DEF Close
<1>2. /\ pc = "close" /\ pc' = "join"
      /\ UNCHANGED <<pooled, signs, i, rows, open, stored, outcome, logged, screen, cancelled, shown>>
      /\ UNCHANGED <<pos, window, out>>
  BY DEF Close, CancelQueued, screenVars
<1>3. TypeOK'
  BY <1>1, <1>2 DEF IngestInv, TypeOK, Phases
<1>4. InStep' /\ Quiet' /\ Whole'
  BY <1>2 DEF IngestInv, InStep, Quiet, Whole
<1> QED
  BY <1>1, <1>3, <1>4 DEF IngestInv

\* The workers reach nothing but their batches, and none is left when the
\* command is over.
LEMMA WorkersInv ==
    ASSUME IngestInv, Pool, UNCHANGED <<ingestVars, screenVars>>
    PROVE  IngestInv'
<1>1. PoolTypeOK /\ PoolInv /\ PoolTypeOK' /\ PoolInv'
  BY WalkTypes, PoolStepInv
<1>2. UNCHANGED <<pos, window, out, pooled, signs, pc, i, rows, open, stored, outcome,
                  logged, screen, cancelled, shown>>
  BY DEF Pool, HandOver, HashBatch, WorkerDies, ingestVars, screenVars
<1>3. TypeOK'
  BY <1>1, <1>2 DEF IngestInv, TypeOK
<1>4. InStep' /\ Whole'
  BY <1>2 DEF IngestInv, InStep, Whole
<1>5. ~Idle
  <2>1. \A k \in DOMAIN window : window[k].first \in Files
    BY <1>1, WindowTypes
  <2> QED
    BY <2>1 DEF Pool, HandOver, HashBatch, WorkerDies, Idle
<1>6. Quiet'
  BY <1>2, <1>5 DEF IngestInv, Quiet
<1> QED
  BY <1>1, <1>3, <1>4, <1>6 DEF IngestInv

LEMMA ScreenStepInv ==
    ASSUME IngestInv, Screen \/ UNCHANGED screenVars, UNCHANGED <<poolVars, ingestVars>>
    PROVE  IngestInv'
<1>1. PoolTypeOK' /\ PoolInv'
  BY WalkTypes, PoolStutter
<1>2. UNCHANGED <<pos, window, out, task, pooled, signs, pc, i, rows, open, stored, outcome, logged>>
  BY DEF poolVars, ingestVars
<1>3. /\ screen' \in {"up", "left", "gone"} /\ cancelled' \in BOOLEAN
      /\ shown' \in Messages
      /\ shown' # "none" => pc = "returned"
  BY DEF Screen, Esc, Interrupt, Show, Message, Messages, screenVars, IngestInv, TypeOK, Whole
<1>4. TypeOK'
  BY <1>1, <1>2, <1>3 DEF IngestInv, TypeOK
<1>5. InStep' /\ Quiet' /\ Whole'
  BY <1>2, <1>3 DEF IngestInv, InStep, Quiet, Whole, Idle
<1> QED
  BY <1>1, <1>4, <1>5 DEF IngestInv

LEMMA IngestStep == IngestInv /\ [Next]_vars => IngestInv'
<1> SUFFICES ASSUME IngestInv, [Next]_vars PROVE IngestInv'
  OBVIOUS
<1>1. CASE Ingest /\ UNCHANGED screenVars
  BY <1>1, NextResultInv, HashOwnInv, CommandInv, CloseInv DEF Ingest, Join, BatchRegister
<1>2. CASE Pool /\ UNCHANGED <<ingestVars, screenVars>>
  BY <1>2, WorkersInv
<1>3. CASE Screen /\ UNCHANGED <<poolVars, ingestVars>>
  BY <1>3, ScreenStepInv
<1>4. CASE UNCHANGED vars
  BY <1>4, ScreenStepInv DEF vars
<1> QED
  BY <1>1, <1>2, <1>3, <1>4 DEF Next, Done

\* Whatever the workers do, results stay beside their files, the window keeps
\* its bound, no worker outlives the command, and a folder is stored whole or
\* not at all: for any number of files and workers and any cut into batches.
THEOREM IngestInvariant == Spec => []IngestInv
<1> QED
  BY IngestStart, IngestStep, PTL DEF Spec

\* The types and the invariant of the look-ahead, as the state of the pool alone.
THEOREM LookAheadKept == Spec => [](TypeOK /\ PoolInv)
<1>1. IngestInv => TypeOK /\ PoolInv
  BY DEF IngestInv
<1> QED
  BY <1>1, IngestInvariant, PTL

-------------------------------------------------------------------------------
(* The ingest implements the serial one.                                   *)

LEMMA FileDoneIsSerial ==
    ASSUME IngestInv, pc \in {"next", "hash"}, Keep(i) \/ SkipFile
    PROVE  Serial!Next
<1>1. i \in Files /\ outcome = "running"
  BY WalkTypes
<1>2. CASE Keep(i)
  BY <1>1, <1>2 DEF Keep, Serial!Next, Serial!Hash, Files
<1>3. CASE SkipFile
  BY <1>1, <1>3 DEF SkipFile, Serial!Next, Serial!Skip, Files
<1> QED
  BY <1>2, <1>3

LEMMA RaiseIsSerial ==
    ASSUME outcome = "running", NEW how \in {"cancelled", "failed"}, Raise(how)
    PROVE  Serial!Next
BY DEF Raise, Serial!Next, Serial!Stop

LEMMA StepIsSerial ==
    ASSUME IngestInv, Ingest
    PROVE  Serial!Next \/ UNCHANGED Serial!vars
<1>0. pc \in {"file", "flush", "next", "hash"} => outcome = "running"
  BY DEF IngestInv, TypeOK, Phases, Whole
<1>1. CASE StartFile \/ Close \/ Join \/ BatchRegister
  BY <1>1 DEF StartFile, Close, Join, BatchRegister, Serial!vars
<1>2. CASE pc = "file" /\ i <= N /\ HookRaises
  BY <1>0, <1>2, RaiseIsSerial DEF HookRaises
<1>3. CASE NextResult
  <2>1. pc = "next" /\ out.first = i
    BY <1>3, WalkTypes DEF NextResult
  <2>2. CASE UNCHANGED <<i, rows, stored, outcome>>
    BY <2>2 DEF Serial!vars
  <2>3. CASE Keep(out.first) \/ SkipFile
    BY <2>1, <2>3, FileDoneIsSerial
  <2>4. CASE Raise("failed")
    BY <1>0, <2>1, <2>4, RaiseIsSerial
  <2> QED
    BY <1>3, <2>2, <2>3, <2>4 DEF NextResult, ingestVars
<1>4. CASE HashOwn
  <2>1. pc = "hash"
    BY <1>4 DEF HashOwn
  <2>2. CASE Keep(i) \/ SkipFile
    BY <2>1, <2>2, FileDoneIsSerial
  <2>3. CASE HookRaises
    BY <1>0, <2>1, <2>3, RaiseIsSerial DEF HookRaises
  <2> QED
    BY <1>4, <2>2, <2>3 DEF HashOwn
<1>5. CASE Flush
  <2>1. CASE Locked
    BY <1>0, <1>5, <2>1, RaiseIsSerial DEF Flush, Locked
  <2>2. CASE UNCHANGED <<i, rows, stored, outcome>>
    BY <2>2 DEF Serial!vars
  <2> QED
    BY <1>5, <2>1, <2>2 DEF Flush
<1>6. CASE Finish
  <2>1. pc = "file" /\ i > N /\ outcome = "running"
    BY <1>0, <1>6 DEF Finish
  <2>2. CASE Locked \/ Raise("failed")
    BY <2>1, <2>2, RaiseIsSerial DEF Locked
  <2>3. CASE /\ rows # {} /\ stored' = rows /\ outcome' = "registered"
             /\ UNCHANGED <<i, rows>>
    BY <2>1, <2>3 DEF Serial!Next, Serial!Record
  <2> QED
    BY <1>6, <2>2, <2>3 DEF Finish
<1> QED
  BY <1>1, <1>2, <1>3, <1>4, <1>5, <1>6 DEF Ingest

\* Hashing through the pool, or alone, is hashing file after file: each file is
\* recorded under its own digest, in the order of the walk, and the folder is
\* stored once, with all of them (hash_files: "IN INPUT ORDER").
THEOREM Refinement == Spec => ImplementsSerial
<1>1. Init => Serial!Init
  BY DEF Init, Serial!Init
<1>2. IngestInv /\ [Next]_vars => [Serial!Next]_Serial!vars
  <2> SUFFICES ASSUME IngestInv, [Next]_vars
               PROVE  Serial!Next \/ UNCHANGED Serial!vars
    OBVIOUS
  <2>1. CASE Ingest
    BY <2>1, StepIsSerial
  <2>2. CASE UNCHANGED ingestVars
    BY <2>2 DEF ingestVars, Serial!vars
  <2> QED
    BY <2>1, <2>2 DEF Next, Done, vars
<1> QED
  BY <1>1, <1>2, IngestInvariant, PTL DEF Spec, ImplementsSerial, Serial!Spec

-------------------------------------------------------------------------------
(* Esc.                                                                    *)

\* What an Esc in time makes of the rest of the command.
Hopeless ==
    /\ cancelled
    /\ stored = {}
    /\ outcome # "registered"
    /\ outcome = "running" => FilesToStart

LEMMA HopelessStays == IngestInv /\ IngestInv' /\ Hopeless /\ [Next]_vars => Hopeless'
<1> SUFFICES ASSUME IngestInv, IngestInv', Hopeless, [Next]_vars
             PROVE  Hopeless'
  OBVIOUS
<1>0. /\ N \in Nat /\ i \in Nat
      /\ cancelled' = TRUE
      /\ outcome' # "registered" => stored' = {}
  <2>1. cancelled'
    BY DEF Hopeless, Next, Screen, Esc, Interrupt, Show, Done, vars, screenVars
  <2>2. cancelled' \in BOOLEAN
    BY DEF IngestInv, TypeOK
  <2> QED
    BY <2>1, <2>2, WalkTypes DEF IngestInv, Whole
<1>1. CASE UNCHANGED ingestVars
  BY <1>0, <1>1 DEF Hopeless, FilesToStart, ingestVars
<1>2. CASE Ingest
  <2>1. CASE outcome # "running"
    <3>1. pc \in {"close", "join", "event", "returned"}
      BY <2>1 DEF IngestInv, Whole
    <3>2. outcome' = outcome
      BY <1>2, <3>1 DEF Ingest, StartFile, NextResult, HashOwn, Flush, Finish, Close, Join, BatchRegister
    <3> QED
      BY <1>0, <2>1, <3>2 DEF Hopeless
  <2>2. CASE outcome = "running"
    <3>1. i < N \/ (i = N /\ pc \in {"file", "flush"})
      BY <2>2 DEF Hopeless, FilesToStart
    <3>2. pc \in {"file", "next", "hash", "flush"}
      BY <2>2 DEF IngestInv, TypeOK, Whole, Phases
    <3>3. CASE StartFile
      BY <3>3 DEF StartFile, Hopeless
    <3>4. CASE HookRaises \/ Raise("failed")
      BY <1>0, <3>4 DEF Hopeless, HookRaises, Raise
    <3>5. CASE UNCHANGED <<i, outcome, pc>>
      BY <1>0, <2>2, <3>1, <3>5 DEF Hopeless, FilesToStart
    <3>6. CASE pc \in {"next", "hash"} /\ ((\E f : Keep(f)) \/ SkipFile)
      <4>1. i < N
        BY <3>1, <3>6
      <4>2. i' = i + 1 /\ outcome' = outcome /\ pc' \in {"file", "flush"}
        BY <3>6 DEF Keep, SkipFile
      <4> QED
        BY <1>0, <2>2, <4>1, <4>2 DEF Hopeless, FilesToStart
    <3>7. CASE NextResult
      <4>1. CASE UNCHANGED ingestVars
        BY <3>5, <4>1 DEF ingestVars
      <4>2. CASE pc' = "hash" /\ pc = "next" /\ UNCHANGED <<i, outcome>>
        BY <1>0, <2>2, <3>1, <4>2 DEF Hopeless, FilesToStart
      <4> QED
        BY <3>4, <3>6, <3>7, <4>1, <4>2 DEF NextResult
    <3>8. CASE HashOwn
      BY <3>4, <3>6, <3>8 DEF HashOwn
    <3>9. CASE Flush
      <4>1. CASE pc = "flush" /\ pc' = "file" /\ UNCHANGED <<i, outcome>>
        BY <1>0, <2>2, <3>1, <4>1 DEF Hopeless, FilesToStart
      <4> QED
        BY <3>4, <3>9, <4>1 DEF Flush, Locked
    <3>10. ~Finish
      BY <1>0, <3>1 DEF Finish
    <3>11. ~Close /\ ~Join /\ ~BatchRegister
      BY <3>2 DEF Close, Join, BatchRegister
    <3> QED
      BY <1>2, <3>3, <3>4, <3>7, <3>8, <3>9, <3>10, <3>11 DEF Ingest
  <2> QED
    BY <2>1, <2>2 DEF IngestInv, TypeOK, Outcomes
<1> QED
  BY <1>1, <1>2 DEF Next, Done, vars

\* An Esc pressed while a file is still to be started keeps the folder out of
\* the database for good, whatever the pool and the walk do (IngestCancelled).
THEOREM EscAlwaysHeard == Spec => EscIsHeard
<1>1. IngestInv /\ cancelled /\ FilesToStart => Hopeless
  BY DEF Hopeless, FilesToStart, IngestInv, Whole
<1>2. Hopeless => stored = {}
  BY DEF Hopeless
<1> QED
  BY <1>1, <1>2, HopelessStays, IngestInvariant, PTL DEF Spec, EscIsHeard
===============================================================================
