-------------------------- MODULE FakeListsProofs ---------------------------
(***************************************************************************)
(* The reference provider's lists are values though their slices share     *)
(* arrays: FakeLists implements ListSpec, for every number of arrays,      *)
(* readers and writes, all payloads and every capacity append leaves.      *)
(***************************************************************************)
EXTENDS FakeLists, SequenceTheorems, TLAPS

Addresses == Arrays \cup {Nil}

(* What an array holds (the literals are spelt out for the provers, which  *)
(* do not know that they are strings).                                     *)
Literals == {"enhancement", "c-1", "failure", "success", "pending", "blank"}
Elements == STRING \cup BOOLEAN \cup Literals

(* A slice within its array, in memory h.                                  *)
Valid(h, s) == s \in Slices /\ s.len <= Len(h[s.arr])

(* What slice s shows in memory h.                                         *)
Shows(h, s) == SubSeq(h[s.arr], 1, s.len)

MemoryInv == heap \in [Addresses -> Seq(Elements)] /\ heap[Nil] = <<>>

(* The two lists changed in place keep their array and their length.       *)
ListsInv ==
  /\ lists = [l \in Lists |-> lists[l]]
  /\ \A l \in Lists : Valid(heap, lists[l])
  /\ lists["checks"] = Slice(3, 2) /\ lists["resolved"] = Slice(4, 1)

HeldInv ==
  /\ held = [p \in Readers |-> held[p]]
  /\ \A p \in Readers : held[p] # None => \A k \in DOMAIN held[p] : Valid(heap, held[p][k])

IInv == MemoryInv /\ ListsInv /\ HeldInv /\ SharedArraysAreSafe

----------------------------------------------------------------------------
(* Sequences.                                                              *)

(* Arrays that agree up to n show the same there.                          *)
LEMMA SamePrefix ==
  ASSUME NEW a \in Seq(Elements), NEW b \in Seq(Elements), NEW n \in Nat,
         n <= Len(a), n <= Len(b), \A i \in 1..n : a[i] = b[i]
  PROVE  SubSeq(a, 1, n) = SubSeq(b, 1, n)
<1>1. /\ \A i \in 1..n : a[i] \in Elements
      /\ \A i \in 1..n : b[i] \in Elements
  OBVIOUS
<1>2. /\ SubSeq(a, 1, n) \in Seq(Elements) /\ Len(SubSeq(a, 1, n)) = n
      /\ SubSeq(b, 1, n) \in Seq(Elements) /\ Len(SubSeq(b, 1, n)) = n
      /\ \A i \in 1..n : SubSeq(a, 1, n)[i] = a[i] /\ SubSeq(b, 1, n)[i] = b[i]
  BY <1>1, SubSeqProperties
<1> QED
  BY <1>2, SeqEqual

(* A slice shows as many elements as it is long.                           *)
LEMMA ShownPrefix ==
  ASSUME NEW a \in Seq(Elements), NEW n \in Nat, n <= Len(a)
  PROVE  /\ SubSeq(a, 1, n) \in Seq(Elements) /\ Len(SubSeq(a, 1, n)) = n
         /\ \A i \in 1..n : SubSeq(a, 1, n)[i] = a[i]
<1>1. \A i \in 1..n : a[i] \in Elements
  OBVIOUS
<1> QED
  BY <1>1, SubSeqProperties

(* A new array shows what was put into it, whatever it has to spare.       *)
LEMMA AllocatedShows ==
  ASSUME NEW c \in Seq(Elements), NEW spare \in Nat
  PROVE  /\ Allocated(c, spare) \in Seq(Elements)
         /\ Len(c) <= Len(Allocated(c, spare))
         /\ SubSeq(Allocated(c, spare), 1, Len(c)) = c
<1> DEFINE blanks == [i \in 1..spare |-> "blank"]
           d == c \o blanks
<1>1. blanks \in Seq(Elements) /\ Len(blanks) = spare
  <2>1. "blank" \in Elements
    BY DEF Elements, Literals
  <2>2. blanks \in [1..spare -> Elements]
    BY <2>1
  <2> HIDE DEF blanks
  <2> QED
    BY <2>2
<1> HIDE DEF blanks
<1>2. /\ d \in Seq(Elements) /\ Len(d) = Len(c) + spare
      /\ \A i \in 1..Len(c) : d[i] = c[i]
  <2>1. /\ d \in Seq(Elements) /\ Len(d) = Len(c) + Len(blanks)
        /\ \A i \in 1..(Len(c) + Len(blanks)) :
             d[i] = IF i <= Len(c) THEN c[i] ELSE blanks[i - Len(c)]
    BY <1>1, ConcatProperties
  <2> HIDE DEF d
  <2> QED
    BY <1>1, <2>1
<1> HIDE DEF d
<1>3. Len(c) \in Nat /\ Len(c) <= Len(d)
  BY <1>2
<1>4. SubSeq(d, 1, Len(c)) = SubSeq(c, 1, Len(c))
  BY <1>2, <1>3, SamePrefix
<1>5. SubSeq(c, 1, Len(c)) = c
  BY SubSeqFull
<1> QED
  BY <1>2, <1>3, <1>4, <1>5 DEF Allocated, d, blanks

(* append into spare capacity leaves what the slice showed, and adds vals. *)
LEMMA OverwrittenShows ==
  ASSUME NEW a, heap[a] \in Seq(Elements), NEW n \in Nat, NEW vals \in Seq(Elements),
         n + Len(vals) <= Len(heap[a])
  PROVE  LET o == Overwritten(a, n, vals)
         IN  /\ o \in Seq(Elements) /\ Len(o) = Len(heap[a])
             /\ \A i \in 1..n : o[i] = heap[a][i]
             /\ SubSeq(o, 1, n + Len(vals)) = SubSeq(heap[a], 1, n) \o vals
<1> DEFINE o == Overwritten(a, n, vals)
           before == SubSeq(heap[a], 1, n)
           m == n + Len(vals)
<1>1. DOMAIN heap[a] = 1..Len(heap[a]) /\ Len(heap[a]) \in Nat /\ Len(vals) \in Nat
  OBVIOUS
<1>2. o = [i \in 1..Len(heap[a]) |->
             IF i \in (n + 1)..(n + Len(vals)) THEN vals[i - n] ELSE heap[a][i]]
  BY <1>1 DEF Overwritten
<1>3. \A i \in 1..Len(heap[a]) : i \in (n + 1)..(n + Len(vals)) => i - n \in 1..Len(vals)
  BY <1>1
<1>4. \A i \in 1..Len(heap[a]) : o[i] \in Elements
  BY <1>2, <1>3
<1>5. o \in Seq(Elements) /\ Len(o) = Len(heap[a])
  <2>1. o \in [1..Len(heap[a]) -> Elements]
    BY <1>2, <1>4
  <2> QED
    BY <1>1, <2>1
<1>6. \A i \in 1..n : o[i] = heap[a][i]
  BY <1>1, <1>2
<1>7. \A i \in (n + 1)..m : o[i] = vals[i - n]
  BY <1>1, <1>2
<1>8. /\ before \in Seq(Elements) /\ Len(before) = n
      /\ \A i \in 1..n : before[i] = heap[a][i]
  <2>1. n <= Len(heap[a])
    BY <1>1
  <2> QED
    BY <2>1, ShownPrefix
<1> HIDE DEF o, before
<1>9. /\ before \o vals \in Seq(Elements) /\ Len(before \o vals) = m
      /\ \A i \in 1..m : (before \o vals)[i] = IF i <= n THEN before[i] ELSE vals[i - n]
  BY <1>8, ConcatProperties
<1>10. /\ SubSeq(o, 1, m) \in Seq(Elements) /\ Len(SubSeq(o, 1, m)) = m
       /\ \A i \in 1..m : SubSeq(o, 1, m)[i] = o[i]
  BY <1>1, <1>5, ShownPrefix
<1>11. ASSUME NEW i \in 1..m
       PROVE  SubSeq(o, 1, m)[i] = (before \o vals)[i]
  <2>1. SubSeq(o, 1, m)[i] = o[i]
    BY <1>10
  <2>2. CASE i <= n
    <3>1. i \in 1..n
      BY <2>2, <1>1
    <3> QED
      BY <2>1, <2>2, <3>1, <1>6, <1>8, <1>9
  <2>3. CASE i > n
    <3>1. i \in (n + 1)..m /\ ~(i <= n)
      BY <2>3, <1>1
    <3> QED
      BY <2>1, <3>1, <1>7, <1>9
  <2>4. i \in Int
    BY <1>1
  <2>5. i <= n \/ i > n
    BY <2>4
  <2> QED
    BY <2>2, <2>3, <2>5
<1>12. SubSeq(o, 1, m) = before \o vals
  BY <1>9, <1>10, <1>11, SeqEqual
<1> QED
  BY <1>5, <1>6, <1>12 DEF o, before

----------------------------------------------------------------------------
(* Memory.                                                                 *)

(* What a kept list or an answer refers to is in use.                      *)
LEMMA UsedArrays ==
  /\ \A l \in Lists : lists[l].arr \in InUse
  /\ \A p \in Readers : held[p] # None => \A k \in DOMAIN held[p] : held[p][k].arr \in InUse
<1>1. \A l \in Lists : lists[l].arr \in InUse
  BY Zenon DEF InUse
<1>2. ASSUME NEW p \in Readers, held[p] # None, NEW k \in DOMAIN held[p]
      PROVE  held[p][k].arr \in InUse
  <2> DEFINE answered == {q \in Readers : held[q] # None}
             arrays(q) == {held[q][l].arr : l \in DOMAIN held[q]}
  <2>1. p \in answered
    BY <1>2
  <2>2. held[p][k].arr \in arrays(p)
    BY Zenon
  <2>3. InUse = {lists[l].arr : l \in Lists} \cup UNION {arrays(q) : q \in answered}
    BY Zenon DEF InUse
  <2> HIDE DEF answered, arrays
  <2>4. held[p][k].arr \in UNION {arrays(q) : q \in answered}
    BY <2>1, <2>2, Zenon
  <2> QED
    BY <2>3, <2>4
<1> QED
  BY <1>1, <1>2

(* The same after a step, when unused arrays are collected.                *)
LEMMA UsedArraysAfter ==
  /\ \A l \in Lists : lists'[l].arr \in InUse'
  /\ \A p \in Readers :
       held'[p] # None => \A k \in DOMAIN held'[p] : held'[p][k].arr \in InUse'
<1>1. \A l \in Lists : lists'[l].arr \in InUse'
  BY Zenon DEF InUse
<1>2. ASSUME NEW p \in Readers, held'[p] # None, NEW k \in DOMAIN held'[p]
      PROVE  held'[p][k].arr \in InUse'
  <2> DEFINE answered == {q \in Readers : held'[q] # None}
             arrays(q) == {held'[q][l].arr : l \in DOMAIN held'[q]}
  <2>1. p \in answered
    BY <1>2
  <2>2. held'[p][k].arr \in arrays(p)
    BY Zenon
  <2>3. InUse' = {lists'[l].arr : l \in Lists} \cup UNION {arrays(q) : q \in answered}
    BY Zenon DEF InUse
  <2> HIDE DEF answered, arrays
  <2>4. held'[p][k].arr \in UNION {arrays(q) : q \in answered}
    BY <2>1, <2>2, Zenon
  <2> QED
    BY <2>3, <2>4
<1> QED
  BY <1>1, <1>2

(* A new array is in no list and no answer, and a second one is another.   *)
LEMMA FreshArrays ==
  ASSUME Room
  PROVE  /\ New \in Arrays /\ New \notin InUse
         /\ New2 \in Arrays /\ New2 \notin InUse /\ New2 # New
<1>1. PICK a \in Arrays \ InUse, b \in Arrays \ InUse : a # b
  BY DEF Room
<1>2. New \in Arrays /\ New \notin InUse
  <2>1. \E c \in Arrays : c \notin InUse
    BY <1>1
  <2> QED
    BY <2>1, Zenon DEF New
<1>3. New2 \in Arrays /\ New2 \notin InUse \cup {New}
  <2>1. \E c \in Arrays : c \notin InUse \cup {New}
    BY <1>1
  <2> QED
    BY <2>1, Zenon DEF New2
<1> QED
  BY <1>2, <1>3

(* Arrays are no nil slice's.                                              *)
LEMMA NilIsNoArray == Nil \notin Arrays /\ Nil \in Addresses /\ Arrays \subseteq Addresses
  BY BoundsAssumption DEF Nil, Arrays, Addresses

(* Collecting what nothing refers to leaves the arrays in use as they are. *)
LEMMA Collected ==
  ASSUME NEW h \in [Addresses -> Seq(Elements)], h[Nil] = <<>>, Memory(h)
  PROVE  /\ MemoryInv'
         /\ \A a \in Addresses : a \in InUse' => heap'[a] = h[a]
<1>1. heap' = [a \in Addresses |-> IF a \in InUse' THEN h[a] ELSE <<>>]
  BY DEF Memory
<1>2. \A a \in Addresses : heap'[a] \in Seq(Elements)
  BY <1>1
<1> QED
  BY <1>1, <1>2, NilIsNoArray DEF MemoryInv

(* Slice t is as it was, within its array.                                 *)
Kept(t) == Valid(heap', t) /\ Shows(heap', t) = Shows(heap, t)

(* Kept lists other than those of ls, and answers, are as they were.       *)
OthersKept(ls) ==
  /\ \A k \in Lists \ ls : Kept(lists[k])
  /\ \A p \in Readers : held[p] # None => \A k \in DOMAIN held[p] : Kept(held[p][k])

(* Slice t is kept by a write that leaves what t can see of its array.     *)
LEMMA KeptBySight ==
  ASSUME MemoryInv, MemoryInv', NEW t, Valid(heap, t),
         Len(heap'[t.arr]) >= t.len, \A i \in 1..t.len : heap'[t.arr][i] = heap[t.arr][i]
  PROVE  Kept(t)
<1>1. t.arr \in Addresses /\ t.len \in Nat /\ t.len <= Len(heap[t.arr]) /\ t \in Slices
  BY DEF Valid, Slices, Addresses
<1>2. heap[t.arr] \in Seq(Elements) /\ heap'[t.arr] \in Seq(Elements)
  BY <1>1 DEF MemoryInv
<1>3. SubSeq(heap'[t.arr], 1, t.len) = SubSeq(heap[t.arr], 1, t.len)
  BY <1>1, <1>2, SamePrefix
<1> QED
  BY <1>1, <1>3 DEF Kept, Valid, Shows

(* In particular, by one that leaves its whole array.                      *)
LEMMA KeptByArray ==
  ASSUME MemoryInv, MemoryInv', NEW t, Valid(heap, t), heap'[t.arr] = heap[t.arr]
  PROVE  Kept(t)
  BY KeptBySight DEF Valid, Slices

----------------------------------------------------------------------------
(* The refinement mapping.                                                 *)

KeptValues == [l \in Lists |-> Content(lists[l])]
AnswerValues == [p \in Readers |-> IF held[p] = None THEN None
                                   ELSE [l \in DOMAIN held[p] |-> Content(held[p][l])]]

(* Answers that are as they were show what they showed.                    *)
LEMMA SameAnswers ==
  ASSUME NEW ls, OthersKept(ls), held' = held
  PROVE  UNCHANGED AnswerValues
<1>1. ASSUME NEW p \in Readers, held[p] # None
      PROVE  [k \in DOMAIN held[p] |-> Content(held[p][k])']
               = [k \in DOMAIN held[p] |-> Content(held[p][k])]
  <2>1. \A k \in DOMAIN held[p] : Content(held[p][k])' = Content(held[p][k])
    BY <1>1 DEF OthersKept, Kept, Content, Shows
  <2> QED
    BY <2>1
<1> QED
  BY <1>1 DEF AnswerValues

----------------------------------------------------------------------------
(* Steps.                                                                  *)

(* A write to list l that leaves all other slices as they were is the      *)
(* change of one value.                                                    *)
LEMMA WriteStep ==
  ASSUME IInv, MemoryInv', NEW l \in Lists, NEW s, OthersKept({l}),
         lists' = [lists EXCEPT ![l] = s], held' = held, Valid(heap', s),
         l = "checks" => s = Slice(3, 2), l = "resolved" => s = Slice(4, 1),
         \A k \in Lists \ {l} : lists[k].arr = s.arr => s.arr = Nil,
         \A p \in Readers : held[p] # None =>
           \A k \in DOMAIN held[p] :
             held[p][k].arr = s.arr => held[p][k].len <= s.len /\ l \notin {"checks", "resolved"}
  PROVE  /\ IInv'
         /\ UNCHANGED AnswerValues
         /\ Values!Becomes(l, Shows(heap', s))
<1> USE DEF IInv
<1>1. lists'[l] = s /\ \A k \in Lists \ {l} : lists'[k] = lists[k]
  BY DEF ListsInv
<1>2. lists' = [k \in Lists |-> lists'[k]]
  BY DEF ListsInv
<1>3. ListsInv'
  <2>1. \A k \in Lists : Valid(heap', lists'[k])
    BY <1>1 DEF OthersKept, Kept
  <2>2. "checks" \in Lists /\ "resolved" \in Lists
    BY DEF Lists
  <2>3. lists'["checks"] = Slice(3, 2) /\ lists'["resolved"] = Slice(4, 1)
    BY <1>1, <2>2 DEF ListsInv
  <2> QED
    BY <1>2, <2>1, <2>3 DEF ListsInv
<1>4. HeldInv'
  BY DEF HeldInv, OthersKept, Kept
<1>5. SharedArraysAreSafe'
  <2>1. ASSUME NEW j \in Lists, NEW k \in Lists, j # k, lists'[j].arr = lists'[k].arr
        PROVE  lists'[j].arr = Nil
    BY <1>1, <2>1 DEF SharedArraysAreSafe
  <2>2. ASSUME NEW p \in Readers, held[p] # None, NEW k \in DOMAIN held[p], NEW j \in Lists,
               held[p][k].arr = lists'[j].arr
        PROVE  held[p][k].len <= lists'[j].len /\ j \notin {"checks", "resolved"}
    BY <1>1, <2>2 DEF SharedArraysAreSafe
  <2> QED
    BY <2>1, <2>2 DEF SharedArraysAreSafe
<1>6. Values!Becomes(l, Shows(heap', s))
  <2>1. \A k \in Lists \ {l} : Content(lists[k])' = Content(lists[k])
    BY <1>1 DEF OthersKept, Kept, Content, Shows
  <2>2. Content(lists[l])' = Shows(heap', s)
    BY <1>1 DEF Content, Shows
  <2>3. KeptValues'[l] = Shows(heap', s)
    BY <2>2 DEF KeptValues
  <2>4. KeptValues' = [KeptValues EXCEPT ![l] = Shows(heap', s)]
    BY <2>1, <2>2 DEF KeptValues
  <2> QED
    BY <2>3, <2>4 DEF Values!Becomes, KeptValues
<1> QED
  BY <1>3, <1>4, <1>5, <1>6, SameAnswers

(* An answer that shows what the lists hold is the reading of values.      *)
LEMMA ReadStep ==
  ASSUME IInv, MemoryInv', NEW p \in Readers, NEW f, f # None, NEW ls, ls \subseteq Lists,
         OthersKept({}), held[p] = None, lists' = lists, held' = [held EXCEPT ![p] = f],
         f = [k \in ls |-> f[k]],
         \A k \in ls : Valid(heap', f[k]) /\ Shows(heap', f[k]) = Content(lists[k]),
         \A k \in ls, l \in Lists : f[k].arr = lists[l].arr =>
           f[k].len <= lists[l].len /\ l \notin {"checks", "resolved"}
  PROVE  IInv' /\ Values!Reads(p, ls)
<1> USE DEF IInv
<1>1. /\ held'[p] = f /\ DOMAIN f = ls
      /\ \A q \in Readers \ {p} : held'[q] = held[q]
      /\ held' = [q \in Readers |-> held'[q]]
  BY DEF HeldInv
<1>2. ListsInv'
  BY DEF ListsInv, OthersKept, Kept
<1>3. HeldInv'
  <2>1. ASSUME NEW q \in Readers, held'[q] # None, NEW k \in DOMAIN held'[q]
        PROVE  Valid(heap', held'[q][k])
    BY <1>1, <2>1 DEF OthersKept, Kept
  <2> QED
    BY <1>1, <2>1 DEF HeldInv
<1>4. SharedArraysAreSafe'
  <2>1. ASSUME NEW q \in Readers, held'[q] # None, NEW k \in DOMAIN held'[q], NEW l \in Lists,
               held'[q][k].arr = lists[l].arr
        PROVE  held'[q][k].len <= lists[l].len /\ l \notin {"checks", "resolved"}
    BY <1>1, <2>1 DEF SharedArraysAreSafe
  <2> QED
    BY <2>1 DEF SharedArraysAreSafe
<1>5. Values!Reads(p, ls)
  <2>1. KeptValues' = KeptValues
    <3>1. \A k \in Lists : Content(lists[k])' = Content(lists[k])
      BY DEF OthersKept, Kept, Content, Shows
    <3> QED
      BY <3>1 DEF KeptValues
  <2>2. AnswerValues' = [AnswerValues EXCEPT ![p] = [k \in ls |-> KeptValues[k]]]
    <3>1. ASSUME NEW q \in Readers \ {p}
          PROVE  AnswerValues'[q] = AnswerValues[q]
      <4>1. CASE held[q] = None
        BY <4>1, <1>1 DEF AnswerValues, Content, Shows
      <4>2. CASE held[q] # None
        <5>1. \A k \in DOMAIN held[q] : Shows(heap', held'[q][k]) = Content(held[q][k])
          BY <4>2, <1>1, ZenonT(60) DEF OthersKept, Kept, Content, Shows
        <5>2. AnswerValues[q] = [k \in DOMAIN held[q] |-> Shows(heap, held[q][k])]
          BY <4>2 DEF AnswerValues, Content, Shows
        <5>3. AnswerValues'[q] = [k \in DOMAIN held[q] |-> Shows(heap', held'[q][k])]
          BY <4>2, <1>1 DEF AnswerValues, Content, Shows
        <5>4. \A k \in DOMAIN held[q] : Shows(heap', held'[q][k]) = Shows(heap, held[q][k])
          BY <5>1 DEF Content, Shows
        <5> QED
          BY <5>2, <5>3, <5>4
      <4>3. 0 <= 0 /\ 1 <= 1 /\ 2 <= 2
        OBVIOUS
      <4> QED
        BY <4>1, <4>2, <4>3, Zenon
    <3>2. AnswerValues'[p] = [k \in ls |-> KeptValues[k]]
      <4>1. \A k \in ls : Shows(heap', held'[p][k]) = KeptValues[k]
        BY <1>1 DEF Content, Shows, KeptValues
      <4> QED
        BY <4>1, <1>1, ZenonT(60) DEF AnswerValues, Content, Shows
    <3>3. AnswerValues' = [q \in Readers |-> AnswerValues'[q]]
      BY DEF AnswerValues
    <3>4. AnswerValues = [q \in Readers |-> AnswerValues[q]]
      BY DEF AnswerValues
    <3> QED
      BY <3>1, <3>2, <3>3, <3>4
  <2> QED
    BY <2>1, <2>2 DEF Values!Reads, KeptValues, AnswerValues
<1> QED
  BY <1>2, <1>3, <1>4, <1>5

----------------------------------------------------------------------------
(* Writes.                                                                 *)

Changed == {"checks", "resolved"}

(* A sequence over a set is one over a larger set.                         *)
LEMMA SeqMonotone ==
  ASSUME NEW S, NEW T, S \subseteq T, NEW v \in Seq(S)
  PROVE  v \in Seq(T) /\ Len(v) \in Nat
<1>1. Len(v) \in Nat /\ \A i \in 1..Len(v) : v[i] \in T
  OBVIOUS
<1>2. v \in [1..Len(v) -> T]
  BY <1>1
<1> QED
  BY <1>1, <1>2

(* A function on 1..n is a sequence of length n.                           *)
LEMMA FunctionIsSeq ==
  ASSUME NEW n \in Nat, NEW f \in [1..n -> Elements]
  PROVE  f \in Seq(Elements) /\ Len(f) = n
  OBVIOUS

(* A request's list can be put into an array.                              *)
LEMMA PayloadElements == \A vals \in Payloads : vals \in Seq(Elements) /\ Len(vals) \in Nat
<1>1. STRING \subseteq Elements
  BY DEF Elements
<1> QED
  BY <1>1, SeqMonotone, PayloadsAssumption, Zenon

(* What IInv says of one list: its slice, its array and what it shows.     *)
LEMMA ListFacts ==
  ASSUME IInv, NEW l \in Lists
  PROVE  /\ Valid(heap, lists[l]) /\ lists[l] \in Slices
         /\ lists[l].arr \in Addresses /\ lists[l].len \in Nat
         /\ heap[lists[l].arr] \in Seq(Elements)
         /\ lists[l].len <= Len(heap[lists[l].arr])
         /\ lists[l].arr = Nil => lists[l].len = 0
         /\ Content(lists[l]) \in Seq(Elements) /\ Len(Content(lists[l])) = lists[l].len
<1>1. Valid(heap, lists[l]) /\ lists[l] \in Slices /\ lists[l].len <= Len(heap[lists[l].arr])
  BY DEF IInv, ListsInv, Valid
<1>2. lists[l].arr \in Addresses /\ lists[l].len \in Nat
  BY <1>1 DEF Slices, Addresses
<1>3. heap[lists[l].arr] \in Seq(Elements) /\ heap[Nil] = <<>>
  BY <1>2 DEF IInv, MemoryInv
<1>4. Content(lists[l]) \in Seq(Elements) /\ Len(Content(lists[l])) = lists[l].len
  BY <1>1, <1>2, <1>3, ShownPrefix DEF Content
<1> QED
  BY <1>1, <1>2, <1>3, <1>4

(* vals in a new array become the list, and nothing else changes (append   *)
(* beyond the capacity, SetAssignees).                                     *)
LEMMA NewArray ==
  ASSUME IInv, Room, NEW l \in Lists \ Changed, NEW c \in Seq(Elements), NEW spare \in Nat,
         lists' = [lists EXCEPT ![l] = Slice(New, Len(c))], held' = held,
         Memory([heap EXCEPT ![New] = Allocated(c, spare)])
  PROVE  IInv' /\ UNCHANGED AnswerValues /\ Values!Becomes(l, c)
<1> DEFINE arr == Allocated(c, spare)
           h == [heap EXCEPT ![New] = arr]
           s == Slice(New, Len(c))
<1>1. New \in Arrays /\ New \in Addresses /\ New \notin InUse /\ New # Nil
  BY FreshArrays, NilIsNoArray
<1>2. arr \in Seq(Elements) /\ Len(c) <= Len(arr) /\ SubSeq(arr, 1, Len(c)) = c
  BY AllocatedShows
<1> HIDE DEF arr
<1>3. /\ h \in [Addresses -> Seq(Elements)] /\ h[Nil] = <<>> /\ h[New] = arr
      /\ \A a \in Addresses : a # New => h[a] = heap[a]
  BY <1>1, <1>2 DEF IInv, MemoryInv
<1>4. Memory(h)
  BY DEF arr
<1> HIDE DEF h
<1>5. MemoryInv' /\ \A a \in Addresses : a \in InUse' => heap'[a] = h[a]
  BY <1>3, <1>4, Collected
<1>6. s.arr = New /\ s.len = Len(c) /\ s \in Slices /\ lists'[l] = s
      /\ \A k \in Lists \ {l} : lists'[k] = lists[k]
  BY <1>1 DEF Slice, Slices, IInv, ListsInv
<1> HIDE DEF s
<1>7. heap'[New] = arr
  <2>1. New \in InUse'
    BY <1>6, UsedArraysAfter
  <2> QED
    BY <1>1, <1>3, <1>5, <2>1
<1>8. Valid(heap', s) /\ Shows(heap', s) = c
  BY <1>2, <1>6, <1>7 DEF Valid, Shows
<1>9. ASSUME NEW t, Valid(heap, t), t.arr \in InUse, t.arr \in InUse'
      PROVE  Kept(t)
  <2>1. t.arr \in Addresses /\ t.arr # New
    BY <1>1, <1>9 DEF Valid, Slices, Addresses
  <2>2. heap'[t.arr] = heap[t.arr]
    BY <1>3, <1>5, <1>9, <2>1
  <2> QED
    BY <1>5, <1>9, <2>2, KeptByArray DEF IInv
<1>10. OthersKept({l})
  <2>1. ASSUME NEW k \in Lists \ {l}
        PROVE  Kept(lists[k])
    <3>1. Valid(heap, lists[k]) /\ lists[k].arr \in InUse /\ lists[k].arr \in InUse'
      BY <1>6, UsedArrays, UsedArraysAfter DEF IInv, ListsInv
    <3> QED
      BY <3>1, <1>9
  <2>2. ASSUME NEW p \in Readers, held[p] # None, NEW k \in DOMAIN held[p]
        PROVE  Kept(held[p][k])
    <3>1. Valid(heap, held[p][k]) /\ held[p][k].arr \in InUse /\ held[p][k].arr \in InUse'
      BY <2>2, UsedArrays, UsedArraysAfter DEF IInv, HeldInv
    <3> QED
      BY <3>1, <1>9
  <2> QED
    BY <2>1, <2>2 DEF OthersKept
<1>11. lists' = [lists EXCEPT ![l] = s]
  BY DEF s
<1>12. /\ \A k \in Lists : lists[k].arr # s.arr
       /\ \A p \in Readers : held[p] # None => \A k \in DOMAIN held[p] : held[p][k].arr # s.arr
  BY <1>1, <1>6, UsedArrays
<1>13. l # "checks" /\ l # "resolved" /\ l \in Lists
  BY DEF Changed
<1> QED
  BY <1>5, <1>8, <1>10, <1>11, <1>12, <1>13, WriteStep

(* In place, array a becomes arr.  Slices of other arrays see nothing of   *)
(* it.                                                                     *)
LEMMA InPlace ==
  ASSUME IInv, NEW a \in Addresses, NEW arr \in Seq(Elements), a = Nil => arr = <<>>,
         heap' = [heap EXCEPT ![a] = arr]
  PROVE  /\ MemoryInv' /\ heap'[a] = arr
         /\ \A t : Valid(heap, t) /\ t.arr # a => Kept(t)
<1>1. /\ heap' \in [Addresses -> Seq(Elements)] /\ heap'[a] = arr
      /\ \A b \in Addresses : b # a => heap'[b] = heap[b]
  BY DEF IInv, MemoryInv
<1>2. MemoryInv'
  BY <1>1, NilIsNoArray DEF IInv, MemoryInv
<1>3. ASSUME NEW t, Valid(heap, t), t.arr # a
      PROVE  Kept(t)
  <2>1. heap'[t.arr] = heap[t.arr]
    BY <1>1, <1>3 DEF Valid, Slices, Addresses
  <2> QED
    BY <1>2, <1>3, <2>1, KeptByArray DEF IInv
<1> QED
  BY <1>1, <1>2, <1>3

(* append adds vals to the list and changes nothing else, whether it       *)
(* writes behind the elements or into a new array.                         *)
LEMMA AppendedStep ==
  ASSUME IInv, NEW l \in Growing, NEW vals \in Payloads, Appended(l, vals)
  PROVE  IInv' /\ Values!Adds(l, vals)
<1> DEFINE s == lists[l]
           n == s.len + Len(vals)
<1>1. l \in Lists /\ l \notin Changed
  BY DEF Growing, Lists, Changed
<1>2. /\ Valid(heap, s) /\ s.arr \in Addresses /\ s.len \in Nat
      /\ heap[s.arr] \in Seq(Elements) /\ s.len <= Len(heap[s.arr])
      /\ Content(s) \in Seq(Elements) /\ Len(Content(s)) = s.len
  BY <1>1, ListFacts
<1>3. vals \in Seq(Elements) /\ Len(vals) \in Nat
  BY PayloadElements
<1>4. KeptValues[l] = Content(s)
  BY <1>1 DEF KeptValues
<1>5. SUFFICES IInv' /\ UNCHANGED AnswerValues /\ Values!Becomes(l, Content(s) \o vals)
  BY <1>4 DEF Values!Adds, KeptValues, AnswerValues
<1>6. CASE /\ n <= Len(heap[s.arr])
           /\ heap' = [heap EXCEPT ![s.arr] = Overwritten(s.arr, s.len, vals)]
           /\ lists' = [lists EXCEPT ![l] = Slice(s.arr, n)]
           /\ UNCHANGED held
  <2> DEFINE arr == Overwritten(s.arr, s.len, vals)
             t == Slice(s.arr, n)
  <2>1. /\ arr \in Seq(Elements) /\ Len(arr) = Len(heap[s.arr])
        /\ \A i \in 1..s.len : arr[i] = heap[s.arr][i]
        /\ SubSeq(arr, 1, n) = Content(s) \o vals
    BY <1>2, <1>3, <1>6, OverwrittenShows DEF Content
  <2>2. s.arr = Nil => arr = <<>>
    <3>1. heap[Nil] = <<>>
      BY DEF IInv, MemoryInv
    <3> HIDE DEF arr
    <3> QED
      BY <2>1, <3>1
  <2> HIDE DEF arr
  <2>3. /\ MemoryInv' /\ heap'[s.arr] = arr
        /\ \A u : Valid(heap, u) /\ u.arr # s.arr => Kept(u)
    <3>1. heap' = [heap EXCEPT ![s.arr] = arr]
      BY <1>6 DEF arr
    <3> QED
      BY <1>2, <2>1, <2>2, <3>1, InPlace
  <2>4. ASSUME NEW u, Valid(heap, u), u.arr = s.arr, u.len <= s.len
        PROVE  Kept(u)
    <3>1. u.len \in Nat
      BY <2>4 DEF Valid, Slices
    <3>2. Len(heap'[u.arr]) >= u.len /\ \A i \in 1..u.len : heap'[u.arr][i] = heap[u.arr][i]
      BY <1>2, <2>1, <2>3, <2>4, <3>1
    <3> QED
      BY <2>3, <2>4, <3>2, KeptBySight DEF IInv
  <2>5. t.arr = s.arr /\ t.len = n /\ t \in Slices /\ s.len <= n
    BY <1>2, <1>3 DEF Slice, Slices, Addresses
  <2> HIDE DEF t
  <2>6. Valid(heap', t) /\ Shows(heap', t) = Content(s) \o vals
    BY <1>6, <2>1, <2>3, <2>5 DEF Valid, Shows
  <2>7. OthersKept({l})
    <3>1. ASSUME NEW k \in Lists \ {l}
          PROVE  Kept(lists[k])
      <4>1. Valid(heap, lists[k]) /\ (lists[k].arr = Nil => lists[k].len = 0)
        BY ListFacts
      <4>2. lists[k].arr = s.arr => lists[k].len <= s.len
        BY <1>1, <1>2, <4>1 DEF IInv, SharedArraysAreSafe
      <4> QED
        BY <2>3, <2>4, <4>1, <4>2
    <3>2. ASSUME NEW p \in Readers, held[p] # None, NEW k \in DOMAIN held[p]
          PROVE  Kept(held[p][k])
      <4>1. Valid(heap, held[p][k])
        BY <3>2 DEF IInv, HeldInv
      <4>2. held[p][k].arr = s.arr => held[p][k].len <= s.len
        BY <1>1, <3>2 DEF IInv, SharedArraysAreSafe
      <4> QED
        BY <2>3, <2>4, <4>1, <4>2
    <3> QED
      BY <3>1, <3>2 DEF OthersKept
  <2>8. \A k \in Lists \ {l} : lists[k].arr = t.arr => t.arr = Nil
    BY <1>1, <2>5 DEF IInv, SharedArraysAreSafe
  <2>9. ASSUME NEW p \in Readers, held[p] # None, NEW k \in DOMAIN held[p],
               held[p][k].arr = t.arr
        PROVE  held[p][k].len <= t.len /\ l \notin {"checks", "resolved"}
    <3>1. held[p][k].len <= s.len /\ held[p][k].len \in Nat
      BY <1>1, <2>5, <2>9 DEF IInv, SharedArraysAreSafe, HeldInv, Valid, Slices
    <3> QED
      BY <1>1, <1>2, <1>3, <2>5, <3>1 DEF Changed
  <2>10. lists' = [lists EXCEPT ![l] = t] /\ held' = held
    BY <1>6 DEF t
  <2>11. IInv' /\ UNCHANGED AnswerValues /\ Values!Becomes(l, Shows(heap', t))
    BY <1>1, <2>3, <2>6, <2>7, <2>8, <2>9, <2>10, WriteStep DEF Changed
  <2> QED
    BY <2>6, <2>11
<1>7. CASE /\ n > Len(heap[s.arr]) /\ Room
           /\ lists' = [lists EXCEPT ![l] = Slice(New, n)]
           /\ UNCHANGED held
           /\ \E spare \in 0..MaxSpare :
                Memory([heap EXCEPT ![New] = Allocated(Content(s) \o vals, spare)])
  <2>1. PICK spare \in 0..MaxSpare :
          Memory([heap EXCEPT ![New] = Allocated(Content(s) \o vals, spare)])
    BY <1>7
  <2>2. spare \in Nat
    BY BoundsAssumption
  <2>3. Content(s) \o vals \in Seq(Elements) /\ Len(Content(s) \o vals) = n
    <3>1. PICK c : c = Content(s)
      OBVIOUS
    <3>2. c \in Seq(Elements) /\ Len(c) = s.len
      BY <1>2, <3>1
    <3>3. c \o vals \in Seq(Elements) /\ Len(c \o vals) = Len(c) + Len(vals)
      BY <1>3, <3>2, ConcatProperties
    <3> QED
      BY <3>1, <3>2, <3>3
  <2>4. lists' = [lists EXCEPT ![l] = Slice(New, Len(Content(s) \o vals))]
    BY <1>7, <2>3
  <2> QED
    BY <1>1, <1>7, <2>1, <2>2, <2>3, <2>4, NewArray
<1> QED
  BY <1>6, <1>7 DEF Appended

(* SetAssignees replaces the list by the request's.                        *)
LEMMA SetAssigneesStep ==
  ASSUME IInv, NEW vals \in Payloads, SetAssignees(vals)
  PROVE  IInv' /\ Values!Assigns(vals)
<1>1. "assignees" \in Lists \ Changed
  BY DEF Lists, Changed
<1>2. vals \in Seq(Elements)
  BY PayloadElements
<1>3. PICK spare \in 0..MaxSpare : Memory([heap EXCEPT ![New] = Allocated(vals, spare)])
  BY DEF SetAssignees
<1>4. spare \in Nat
  BY BoundsAssumption
<1>5. /\ Room /\ held' = held
      /\ lists' = [lists EXCEPT !["assignees"] = Slice(New, Len(vals))]
  BY DEF SetAssignees
<1>6. IInv' /\ UNCHANGED AnswerValues /\ Values!Becomes("assignees", vals)
  BY <1>1, <1>2, <1>3, <1>4, <1>5, NewArray
<1> QED
  BY <1>6 DEF Values!Assigns, AnswerValues

(* A change in place of a list no answer shares (the resolved mark, the    *)
(* checks) changes that list and nothing else.                             *)
LEMMA ChangedInPlace ==
  ASSUME IInv, NEW l \in Changed, NEW arr \in Seq(Elements),
         lists[l].len <= Len(arr), heap' = [heap EXCEPT ![lists[l].arr] = arr],
         lists' = lists, held' = held
  PROVE  /\ IInv' /\ UNCHANGED AnswerValues
         /\ Values!Becomes(l, SubSeq(arr, 1, lists[l].len))
<1> DEFINE s == lists[l]
<1>1. l \in Lists
  BY DEF Changed, Lists
<1>2. s.arr \in Addresses /\ s.arr # Nil /\ s \in Slices
  BY <1>1, ListFacts DEF IInv, ListsInv, Slice, Changed, Nil
<1>3. /\ MemoryInv' /\ heap'[s.arr] = arr
      /\ \A t : Valid(heap, t) /\ t.arr # s.arr => Kept(t)
  BY <1>2, InPlace
<1>4. /\ \A k \in Lists \ {l} : lists[k].arr # s.arr
      /\ \A p \in Readers : held[p] # None => \A k \in DOMAIN held[p] : held[p][k].arr # s.arr
  BY <1>1, <1>2 DEF IInv, SharedArraysAreSafe, Changed
<1>5. OthersKept({l})
  BY <1>3, <1>4 DEF OthersKept, IInv, ListsInv, HeldInv
<1>6. Valid(heap', s) /\ Shows(heap', s) = SubSeq(arr, 1, s.len)
  BY <1>2, <1>3 DEF Valid, Shows
<1>7. /\ lists' = [lists EXCEPT ![l] = s]
      /\ l = "checks" => s = Slice(3, 2)
      /\ l = "resolved" => s = Slice(4, 1)
  BY <1>1 DEF IInv, ListsInv
<1>8. IInv' /\ UNCHANGED AnswerValues /\ Values!Becomes(l, Shows(heap', s))
  BY <1>1, <1>3, <1>4, <1>5, <1>6, <1>7, WriteStep
<1> QED
  BY <1>6, <1>8

(* ResolveThread sets the mark of the kept thread.                         *)
LEMMA ResolveThreadStep ==
  ASSUME IInv, NEW b \in BOOLEAN, ResolveThread(b)
  PROVE  IInv' /\ Values!Resolves(b)
<1>1. "resolved" \in Changed /\ lists["resolved"].len = 1
  BY DEF Changed, IInv, ListsInv, Slice
<1>2. b \in Elements
  BY Zenon DEF Elements
<1> DEFINE mark == <<b>>
<1>3. mark \in Seq(Elements) /\ Len(mark) = 1
  BY <1>2
<1>4. heap' = [heap EXCEPT ![lists["resolved"].arr] = mark] /\ lists' = lists /\ held' = held
  BY DEF ResolveThread
<1> HIDE DEF mark
<1>5. SubSeq(mark, 1, 1) = mark
  BY <1>3, SubSeqFull
<1>6. lists["resolved"].len <= Len(mark)
  BY <1>1, <1>3
<1>7. /\ IInv' /\ UNCHANGED AnswerValues
      /\ Values!Becomes("resolved", SubSeq(mark, 1, lists["resolved"].len))
  BY <1>1, <1>3, <1>4, <1>6, ChangedInPlace, Zenon
<1> QED
  BY <1>1, <1>5, <1>7 DEF Values!Resolves, AnswerValues, mark

(* RerunChecks makes the failed checks among those asked for pending.      *)
LEMMA RerunChecksStep ==
  ASSUME IInv, NEW which \in SUBSET {1, 2}, RerunChecks(which)
  PROVE  IInv' /\ Values!Reruns(which)
<1> DEFINE s == lists["checks"]
           old == heap[s.arr]
           arr == [i \in DOMAIN old |->
                     IF i \in which \cap 1..s.len /\ old[i] = "failure" THEN "pending" ELSE old[i]]
           shown == Content(s)
<1>1. "checks" \in Changed /\ "checks" \in Lists /\ s.len = 2 /\ s.arr = 3
  BY DEF Changed, Lists, IInv, ListsInv, Slice
<1>2. old \in Seq(Elements) /\ 2 <= Len(old) /\ s.arr \in Addresses
  BY <1>1, ListFacts
<1>3. DOMAIN old = 1..Len(old) /\ Len(old) \in Nat /\ \A i \in 1..Len(old) : old[i] \in Elements
  BY <1>2
<1>4. heap' = [heap EXCEPT ![s.arr] = arr] /\ lists' = lists /\ held' = held
  BY <1>2 DEF RerunChecks, IInv, MemoryInv
<1>5. shown \in Seq(Elements) /\ Len(shown) = 2 /\ \A i \in 1..2 : shown[i] = old[i]
  BY <1>1, <1>2, ShownPrefix DEF Content
<1> HIDE DEF old, shown
<1>6. arr \in Seq(Elements) /\ Len(arr) = Len(old)
  <2>1. "pending" \in Elements
    BY DEF Elements, Literals
  <2>2. arr \in [1..Len(old) -> Elements]
    BY <1>3, <2>1
  <2> HIDE DEF arr
  <2> QED
    BY <1>3, <2>2
<1>7. \A i \in 1..2 : arr[i] = IF i \in which /\ old[i] = "failure" THEN "pending" ELSE old[i]
  BY <1>1, <1>2, <1>3
<1> HIDE DEF arr
<1>8. /\ SubSeq(arr, 1, 2) \in Seq(Elements) /\ Len(SubSeq(arr, 1, 2)) = 2
      /\ \A i \in 1..2 : SubSeq(arr, 1, 2)[i] = arr[i]
  BY <1>2, <1>6, ShownPrefix
<1> DEFINE rerun == [i \in DOMAIN shown |->
                       IF i \in which /\ shown[i] = "failure" THEN "pending" ELSE shown[i]]
<1>9. SubSeq(arr, 1, 2) = rerun
  <2>1. rerun \in Seq(Elements) /\ Len(rerun) = 2
    <3>1. DOMAIN shown = 1..2 /\ \A i \in 1..2 : shown[i] \in Elements
      BY <1>5
    <3>2. "pending" \in Elements
      BY DEF Elements, Literals
    <3>3. rerun \in [1..2 -> Elements]
      BY <3>1, <3>2
    <3> HIDE DEF rerun
    <3> QED
      BY <3>3, FunctionIsSeq
  <2>2. \A i \in 1..2 : rerun[i] = IF i \in which /\ shown[i] = "failure" THEN "pending" ELSE shown[i]
    BY <1>5
  <2> HIDE DEF rerun
  <2>3. \A i \in 1..2 : SubSeq(arr, 1, 2)[i] = rerun[i]
    BY <1>5, <1>7, <1>8, <2>2
  <2> QED
    BY <1>8, <2>1, <2>3, SeqEqual
<1>10. /\ IInv' /\ UNCHANGED AnswerValues
       /\ Values!Becomes("checks", SubSeq(arr, 1, 2))
  BY <1>1, <1>2, <1>4, <1>6, ChangedInPlace
<1>11. KeptValues["checks"] = shown
  BY <1>1 DEF KeptValues, shown
<1> QED
  BY <1>9, <1>10, <1>11, ZenonT(60) DEF Values!Reruns, AnswerValues, KeptValues

----------------------------------------------------------------------------
(* Reads.                                                                  *)

(* An answer is not None.                                                  *)
LEMMA SomeAnswer ==
  ASSUME NEW ls, ls \subseteq Lists, NEW f \in [ls -> Slices]
  PROVE  f # None
  BY NoneAssumption

(* The slice of a list not changed in place can be shown: it sees no more  *)
(* of an array than the list that has it.                                  *)
LEMMA KeptSliceIsSafe ==
  ASSUME IInv, NEW k \in Lists \ Changed, NEW l \in Lists, lists[k].arr = lists[l].arr
  PROVE  lists[k].len <= lists[l].len /\ l \notin {"checks", "resolved"}
<1>1. CASE k = l
  BY <1>1, ListFacts DEF Changed
<1>2. CASE k # l
  <2>1. lists[k].arr = Nil /\ lists[l].arr = Nil
    BY <1>2 DEF IInv, SharedArraysAreSafe
  <2>2. lists[k].len = 0 /\ lists[l].len = 0
    BY <2>1, ListFacts
  <2>3. l \notin {"checks", "resolved"}
    BY <2>1 DEF IInv, ListsInv, Slice, Nil
  <2> QED
    BY <2>2, <2>3
<1> QED
  BY <1>1, <1>2

(* Answers that show kept slices show their values: nothing is written     *)
(* into what they see.                                                     *)
LEMMA AnswersWithStep ==
  ASSUME IInv, NEW p \in Readers, NEW ls, ls \subseteq Lists \ Changed, AnswersWith(p, ls)
  PROVE  IInv' /\ Values!Reads(p, ls)
<1> DEFINE f == [l \in ls |-> lists[l]]
<1>1. /\ held[p] = None /\ held' = [held EXCEPT ![p] = f] /\ lists' = lists /\ heap' = heap
  BY DEF AnswersWith
<1>2. /\ ls \subseteq Lists /\ f = [k \in ls |-> f[k]] /\ \A k \in ls : f[k] = lists[k]
  OBVIOUS
<1>3. f # None
  <2>1. \A k \in ls : lists[k] \in Slices
    BY <1>2, ListFacts
  <2>2. f \in [ls -> Slices]
    BY <1>2, <2>1
  <2> HIDE DEF f
  <2> QED
    BY <1>2, <2>2, SomeAnswer
<1> HIDE DEF f
<1>4. OthersKept({})
  BY <1>1 DEF OthersKept, Kept, IInv, ListsInv, HeldInv
<1>5. MemoryInv'
  BY <1>1 DEF IInv, MemoryInv
<1>6. \A k \in ls : Valid(heap', f[k]) /\ Shows(heap', f[k]) = Content(lists[k])
  BY <1>1, <1>2, ListFacts DEF Shows, Content
<1>7. \A k \in ls, l \in Lists : f[k].arr = lists[l].arr =>
        f[k].len <= lists[l].len /\ l \notin {"checks", "resolved"}
  BY <1>2, KeptSliceIsSafe
<1> QED
  BY <1>1, <1>2, <1>3, <1>4, <1>5, <1>6, <1>7, ReadStep

(* An answer with a copy of one list and perhaps the slices of others      *)
(* shows their values (ListComments, GetChecks, ListThreads).              *)
LEMMA CopyStep ==
  ASSUME IInv, Room, NEW p \in Readers, NEW c \in Lists, NEW ls, ls \subseteq Lists, c \in ls,
         ls \ {c} \subseteq Lists \ Changed, NEW f, f = [k \in ls |-> f[k]],
         f[c] = Slice(New, lists[c].len), \A k \in ls \ {c} : f[k] = lists[k],
         held[p] = None, held' = [held EXCEPT ![p] = f], lists' = lists,
         heap' = [heap EXCEPT ![New] = Content(lists[c])]
  PROVE  IInv' /\ Values!Reads(p, ls)
<1> DEFINE s == lists[c]
           arr == Content(s)
<1>1. New \in Arrays /\ New \in Addresses /\ New \notin InUse /\ New # Nil
  BY FreshArrays, NilIsNoArray
<1>2. arr \in Seq(Elements) /\ Len(arr) = s.len /\ s.len \in Nat
  BY ListFacts
<1>3. heap' = [heap EXCEPT ![New] = arr]
  OBVIOUS
<1> HIDE DEF arr
<1>4. /\ MemoryInv' /\ heap'[New] = arr
      /\ \A t : Valid(heap, t) /\ t.arr # New => Kept(t)
  BY <1>1, <1>2, <1>3, InPlace
<1>5. /\ \A k \in Lists : lists[k].arr # New
      /\ \A q \in Readers : held[q] # None => \A k \in DOMAIN held[q] : held[q][k].arr # New
  BY <1>1, UsedArrays
<1>6. OthersKept({})
  BY <1>4, <1>5 DEF OthersKept, IInv, ListsInv, HeldInv
<1>7. f[c] \in Slices /\ f[c].arr = New /\ f[c].len = s.len
  BY <1>1, <1>2 DEF Slice, Slices
<1>8. f # None
  <2>1. \A k \in ls : f[k] \in Slices
    BY <1>7, ListFacts
  <2>2. f \in [ls -> Slices]
    BY <2>1
  <2> QED
    BY <2>2, SomeAnswer
<1>9. ASSUME NEW k \in ls
      PROVE  Valid(heap', f[k]) /\ Shows(heap', f[k]) = Content(lists[k])
  <2>1. CASE k = c
    <3>1. SubSeq(arr, 1, s.len) = arr
      BY <1>2, SubSeqFull
    <3> QED
      BY <1>2, <1>4, <1>7, <2>1, <3>1 DEF Valid, Shows, arr
  <2>2. CASE k # c
    BY <2>2, <1>6 DEF OthersKept, Kept, Shows, Content
  <2> QED
    BY <2>1, <2>2
<1>10. ASSUME NEW k \in ls, NEW l \in Lists, f[k].arr = lists[l].arr
       PROVE  f[k].len <= lists[l].len /\ l \notin {"checks", "resolved"}
  <2>1. k # c
    BY <1>5, <1>7, <1>10
  <2> QED
    BY <1>10, <2>1, KeptSliceIsSafe
<1> QED
  BY <1>4, <1>6, <1>8, <1>9, <1>10, ReadStep

(* So do the answers that copy one list.                                   *)
LEMMA AnswersWithCopyStep ==
  ASSUME IInv, NEW p \in Readers, NEW c \in Lists, AnswersWithCopy(p, c)
  PROVE  IInv' /\ Values!Reads(p, {c})
<1> DEFINE f == [k \in {c} |-> Slice(New, lists[c].len)]
<1>1. /\ f = [k \in {c} |-> f[k]] /\ f[c] = Slice(New, lists[c].len)
      /\ {c} \subseteq Lists /\ c \in {c} /\ {c} \ {c} = {}
  OBVIOUS
<1>2. /\ Room /\ held[p] = None /\ held' = [held EXCEPT ![p] = f] /\ lists' = lists
      /\ heap' = [heap EXCEPT ![New] = Content(lists[c])]
  BY DEF AnswersWithCopy
<1> HIDE DEF f
<1> QED
  BY <1>1, <1>2, CopyStep

(* ListThreads copies the thread with its mark, and shares its comments.   *)
LEMMA ListThreadsStep ==
  ASSUME IInv, NEW p \in Readers, ListThreads(p)
  PROVE  IInv' /\ Values!Reads(p, {"replies", "resolved"})
<1> DEFINE ls == {"replies", "resolved"}
           f == [l \in ls |-> IF l = "replies" THEN lists[l] ELSE Slice(New, 1)]
<1>1. lists["resolved"].len = 1
  BY DEF IInv, ListsInv, Slice
<1>2. /\ f = [k \in ls |-> f[k]] /\ f["resolved"] = Slice(New, lists["resolved"].len)
      /\ \A k \in ls \ {"resolved"} : f[k] = lists[k]
  BY <1>1
<1>3. /\ ls \subseteq Lists /\ "resolved" \in ls /\ "resolved" \in Lists
      /\ ls \ {"resolved"} \subseteq Lists \ Changed
  BY DEF Lists, Growing, Changed
<1>4. /\ Room /\ held[p] = None /\ held' = [held EXCEPT ![p] = f] /\ lists' = lists
      /\ heap' = [heap EXCEPT ![New] = Content(lists["resolved"])]
  BY DEF ListThreads
<1> HIDE DEF f, ls
<1>5. IInv' /\ Values!Reads(p, ls)
  BY <1>2, <1>3, <1>4, CopyStep
<1> QED
  BY <1>5 DEF ls

(* Once the answer is encoded, its arrays may go, and no other's.          *)
LEMMA EncodeStep ==
  ASSUME IInv, NEW p \in Readers, Encode(p)
  PROVE  IInv' /\ Values!Encoded(p)
<1>1. /\ lists' = lists /\ held'[p] = None /\ held' = [q \in Readers |-> held'[q]]
      /\ \A q \in Readers \ {p} : held'[q] = held[q]
  BY DEF Encode, IInv, HeldInv
<1>2. MemoryInv' /\ \A a \in Addresses : a \in InUse' => heap'[a] = heap[a]
  BY Collected DEF Encode, IInv, MemoryInv
<1>3. ASSUME NEW t, Valid(heap, t), t.arr \in InUse'
      PROVE  Kept(t)
  BY <1>2, <1>3, KeptByArray DEF IInv, Valid, Slices, Addresses
<1>4. \A k \in Lists : Kept(lists[k])
  BY <1>1, <1>3, UsedArraysAfter DEF IInv, ListsInv
<1>5. ASSUME NEW q \in Readers, held'[q] # None, NEW k \in DOMAIN held'[q]
      PROVE  q # p /\ held'[q] = held[q] /\ Kept(held[q][k])
  <2>1. q # p /\ held'[q] = held[q]
    BY <1>1, <1>5
  <2>2. Valid(heap, held[q][k])
    BY <1>5, <2>1 DEF IInv, HeldInv
  <2>3. held[q][k].arr \in InUse'
    BY <1>5, <2>1, UsedArraysAfter
  <2> QED
    BY <1>3, <2>1, <2>2, <2>3
<1>6. ListsInv'
  BY <1>1, <1>4 DEF IInv, ListsInv, Kept
<1>7. HeldInv'
  <2>1. ASSUME NEW q \in Readers, held'[q] # None, NEW k \in DOMAIN held'[q]
        PROVE  Valid(heap', held'[q][k])
    BY <1>5, <2>1 DEF Kept
  <2> QED
    BY <1>1, <2>1 DEF HeldInv
<1>8. SharedArraysAreSafe'
  <2>1. ASSUME NEW q \in Readers, held'[q] # None, NEW k \in DOMAIN held'[q], NEW l \in Lists,
               held'[q][k].arr = lists'[l].arr
        PROVE  held'[q][k].len <= lists'[l].len /\ l \notin {"checks", "resolved"}
    BY <1>1, <2>1 DEF IInv, SharedArraysAreSafe
  <2> QED
    BY <1>1, <2>1 DEF IInv, SharedArraysAreSafe
<1>9. KeptValues' = KeptValues
  <2>1. \A k \in Lists : Content(lists[k])' = Content(lists[k])
    BY <1>1, <1>4 DEF Kept, Content, Shows
  <2> QED
    BY <2>1 DEF KeptValues
<1>10. AnswerValues' = [AnswerValues EXCEPT ![p] = None]
  <2>1. ASSUME NEW q \in Readers \ {p}
        PROVE  AnswerValues'[q] = AnswerValues[q]
    <3>1. CASE held[q] = None
      BY <3>1, <1>1 DEF AnswerValues
    <3>2. CASE held[q] # None
      <4>1. \A k \in DOMAIN held[q] : Shows(heap', held'[q][k]) = Shows(heap, held[q][k])
        BY <3>2, <1>1, <1>5 DEF Kept
      <4>2. AnswerValues[q] = [k \in DOMAIN held[q] |-> Shows(heap, held[q][k])]
        BY <3>2 DEF AnswerValues, Content, Shows
      <4>3. AnswerValues'[q] = [k \in DOMAIN held[q] |-> Shows(heap', held'[q][k])]
        BY <3>2, <1>1 DEF AnswerValues, Content, Shows
      <4> QED
        BY <4>1, <4>2, <4>3
    <3> QED
      BY <3>1, <3>2
  <2>2. AnswerValues'[p] = None
    BY <1>1 DEF AnswerValues
  <2>3. AnswerValues' = [q \in Readers |-> AnswerValues'[q]]
    BY DEF AnswerValues
  <2>4. AnswerValues = [q \in Readers |-> AnswerValues[q]]
    BY DEF AnswerValues
  <2> QED
    BY <2>1, <2>2, <2>3, <2>4
<1>11. Values!Encoded(p)
  BY <1>9, <1>10 DEF Values!Encoded, KeptValues, AnswerValues
<1> QED
  BY <1>2, <1>6, <1>7, <1>8, <1>11 DEF IInv

Opening == {"labels2", "reviewers2"}

(* OpenChangeRequest keeps the request's two lists and answers with the    *)
(* same slices.                                                            *)
LEMMA OpenChangeRequestStep ==
  ASSUME IInv, NEW p \in Readers, NEW labels \in Payloads, NEW reviewers \in Payloads,
         OpenChangeRequest(p, labels, reviewers)
  PROVE  IInv' /\ Values!Opens(p, labels, reviewers)
<1>1. PICK spare \in 0..MaxSpare :
        Memory([heap EXCEPT ![New] = Allocated(labels, spare), ![New2] = Allocated(reviewers, spare)])
  BY DEF OpenChangeRequest
<1> DEFINE a1 == Allocated(labels, spare)
           a2 == Allocated(reviewers, spare)
           s1 == Slice(New, Len(labels))
           s2 == Slice(New2, Len(reviewers))
           h == [heap EXCEPT ![New] = a1, ![New2] = a2]
           f == [l \in Opening |-> lists'[l]]
<1>2. /\ New \in Arrays /\ New \in Addresses /\ New \notin InUse /\ New # Nil
      /\ New2 \in Arrays /\ New2 \in Addresses /\ New2 \notin InUse /\ New2 # Nil /\ New2 # New
  BY FreshArrays, NilIsNoArray DEF OpenChangeRequest
<1>3. /\ labels \in Seq(Elements) /\ Len(labels) \in Nat
      /\ reviewers \in Seq(Elements) /\ Len(reviewers) \in Nat /\ spare \in Nat
  BY PayloadElements, BoundsAssumption
<1>4. /\ a1 \in Seq(Elements) /\ Len(labels) <= Len(a1) /\ SubSeq(a1, 1, Len(labels)) = labels
      /\ a2 \in Seq(Elements) /\ Len(reviewers) <= Len(a2)
      /\ SubSeq(a2, 1, Len(reviewers)) = reviewers
  BY <1>3, AllocatedShows
<1>5. Memory(h)
  BY <1>1
<1> HIDE DEF a1, a2
<1>6. /\ h \in [Addresses -> Seq(Elements)] /\ h[Nil] = <<>> /\ h[New] = a1 /\ h[New2] = a2
      /\ \A a \in Addresses : a \notin {New, New2} => h[a] = heap[a]
  <2>1. heap \in [Addresses -> Seq(Elements)] /\ heap[Nil] = <<>>
    BY DEF IInv, MemoryInv
  <2>2. \A a \in Addresses : h[a] = IF a = New2 THEN a2 ELSE IF a = New THEN a1 ELSE heap[a]
    BY <1>2, <2>1
  <2>3. h = [a \in Addresses |-> h[a]]
    BY <2>1
  <2> HIDE DEF h
  <2>4. \A a \in Addresses : h[a] \in Seq(Elements)
    BY <1>4, <2>1, <2>2
  <2> QED
    BY <1>2, <2>1, <2>2, <2>3, <2>4, NilIsNoArray
<1> HIDE DEF h
<1>7. MemoryInv' /\ \A a \in Addresses : a \in InUse' => heap'[a] = h[a]
  BY <1>5, <1>6, Collected
<1>8. "labels2" \in Lists /\ "reviewers2" \in Lists
  BY DEF Lists, Growing
<1>9. /\ lists'["labels2"] = s1 /\ lists'["reviewers2"] = s2
      /\ \A k \in Lists \ Opening : lists'[k] = lists[k]
      /\ lists' = [k \in Lists |-> lists'[k]]
  <2>1. lists' = [lists EXCEPT !["labels2"] = s1, !["reviewers2"] = s2]
    BY DEF OpenChangeRequest
  <2> HIDE DEF s1, s2
  <2> QED
    BY <1>8, <2>1 DEF Opening, IInv, ListsInv
<1>10. /\ s1 \in Slices /\ s1.arr = New /\ s1.len = Len(labels)
       /\ s2 \in Slices /\ s2.arr = New2 /\ s2.len = Len(reviewers)
  BY <1>2, <1>3 DEF Slice, Slices
<1> HIDE DEF s1, s2
<1>11. f # None /\ DOMAIN f = Opening /\ \A k \in Opening : f[k] = lists'[k]
  <2>1. Opening \subseteq Lists
    BY <1>8 DEF Opening
  <2>2. f \in [Opening -> Slices]
    BY <1>9, <1>10 DEF Opening
  <2> HIDE DEF f
  <2>3. f # None
    BY <2>1, <2>2, SomeAnswer
  <2> QED
    BY <2>2, <2>3 DEF f
<1>12. /\ held[p] = None /\ held'[p] = f /\ \A q \in Readers \ {p} : held'[q] = held[q]
       /\ held' = [q \in Readers |-> held'[q]]
  BY DEF OpenChangeRequest, Opening, IInv, HeldInv
<1> HIDE DEF f
<1>13. /\ Valid(heap', s1) /\ Shows(heap', s1) = labels
       /\ Valid(heap', s2) /\ Shows(heap', s2) = reviewers
  <2>1. New \in InUse' /\ New2 \in InUse'
    BY <1>8, <1>9, <1>10, UsedArraysAfter
  <2>2. heap'[New] = a1 /\ heap'[New2] = a2
    BY <1>2, <1>6, <1>7, <2>1
  <2> QED
    BY <1>4, <1>10, <2>2 DEF Valid, Shows
<1>14. ASSUME NEW t, Valid(heap, t), t.arr \in InUse, t.arr \in InUse'
       PROVE  Kept(t)
  <2>1. t.arr \in Addresses /\ t.arr \notin {New, New2}
    BY <1>2, <1>14 DEF Valid, Slices, Addresses
  <2>2. heap'[t.arr] = heap[t.arr]
    BY <1>6, <1>7, <1>14, <2>1
  <2> QED
    BY <1>7, <1>14, <2>2, KeptByArray DEF IInv
<1>15. ASSUME NEW k \in Lists \ Opening
       PROVE  Kept(lists[k]) /\ lists[k].arr \notin {New, New2}
  <2>1. Valid(heap, lists[k]) /\ lists[k].arr \in InUse /\ lists[k].arr \in InUse'
    BY <1>9, UsedArrays, UsedArraysAfter DEF IInv, ListsInv
  <2> QED
    BY <1>2, <1>14, <2>1
<1>16. ASSUME NEW q \in Readers \ {p}, held[q] # None, NEW k \in DOMAIN held[q]
       PROVE  Kept(held[q][k]) /\ held[q][k].arr \notin {New, New2}
  <2>1. Valid(heap, held[q][k]) /\ held[q][k].arr \in InUse /\ held[q][k].arr \in InUse'
    BY <1>12, <1>16, UsedArrays, UsedArraysAfter DEF IInv, HeldInv
  <2> QED
    BY <1>2, <1>14, <2>1
<1>17. ListsInv'
  <2>1. \A k \in Lists : Valid(heap', lists'[k])
    BY <1>9, <1>13, <1>15 DEF Kept, Opening
  <2>2. lists'["checks"] = Slice(3, 2) /\ lists'["resolved"] = Slice(4, 1)
    BY <1>9 DEF IInv, ListsInv, Lists, Opening
  <2> QED
    BY <1>9, <2>1, <2>2 DEF ListsInv
<1>18. HeldInv'
  <2>1. ASSUME NEW q \in Readers, held'[q] # None, NEW k \in DOMAIN held'[q]
        PROVE  Valid(heap', held'[q][k])
    <3>1. CASE q = p
      BY <1>9, <1>11, <1>12, <1>13, <2>1, <3>1 DEF Opening
    <3>2. CASE q # p
      BY <1>12, <1>16, <2>1, <3>2 DEF Kept
    <3> QED
      BY <3>1, <3>2
  <2> QED
    BY <1>12, <2>1 DEF HeldInv
<1>19. SharedArraysAreSafe'
  <2>1. ASSUME NEW j \in Lists, NEW k \in Lists, j # k, lists'[j].arr = lists'[k].arr
        PROVE  lists'[j].arr = Nil /\ j \notin Opening /\ k \notin Opening
    BY <1>2, <1>9, <1>10, <1>15, <2>1 DEF IInv, SharedArraysAreSafe, Opening
  <2>2. ASSUME NEW q \in Readers, held'[q] # None, NEW k \in DOMAIN held'[q], NEW l \in Lists,
               held'[q][k].arr = lists'[l].arr
        PROVE  held'[q][k].len <= lists'[l].len /\ l \notin {"checks", "resolved"}
    <3>1. CASE q = p
      <4>1. k \in Opening /\ k \in Lists /\ held'[q][k] = lists'[k]
        BY <1>8, <1>11, <1>12, <2>2, <3>1 DEF Opening
      <4>2. k = l
        BY <2>1, <2>2, <4>1
      <4>3. lists'[k].len \in Nat
        BY <1>3, <1>9, <1>10, <4>1 DEF Opening
      <4> QED
        BY <4>1, <4>2, <4>3 DEF Opening
    <3>2. CASE q # p
      <4>1. held[q] # None /\ k \in DOMAIN held[q] /\ held'[q] = held[q]
        BY <1>12, <2>2, <3>2
      <4>2. l \notin Opening
        BY <1>9, <1>10, <1>16, <2>2, <3>2, <4>1 DEF Opening
      <4> QED
        BY <1>9, <2>2, <4>1, <4>2 DEF IInv, SharedArraysAreSafe
    <3> QED
      BY <3>1, <3>2
  <2> QED
    BY <2>1, <2>2 DEF SharedArraysAreSafe
<1>20. KeptValues' = [KeptValues EXCEPT !["labels2"] = labels, !["reviewers2"] = reviewers]
  <2>1. \A k \in Lists \ Opening : Content(lists[k])' = Content(lists[k])
    BY <1>9, <1>15 DEF Kept, Content, Shows
  <2>2. Content(lists["labels2"])' = labels /\ Content(lists["reviewers2"])' = reviewers
    BY <1>9, <1>13 DEF Content, Shows
  <2> QED
    BY <1>8, <2>1, <2>2 DEF KeptValues, Opening
<1>21. AnswerValues' = [AnswerValues EXCEPT ![p] = [l \in Opening |-> KeptValues'[l]]]
  <2>1. ASSUME NEW q \in Readers \ {p}
        PROVE  AnswerValues'[q] = AnswerValues[q]
    <3>1. CASE held[q] = None
      BY <3>1, <1>12 DEF AnswerValues
    <3>2. CASE held[q] # None
      <4>1. \A k \in DOMAIN held[q] : Shows(heap', held'[q][k]) = Shows(heap, held[q][k])
        BY <3>2, <1>12, <1>16 DEF Kept
      <4>2. AnswerValues[q] = [k \in DOMAIN held[q] |-> Shows(heap, held[q][k])]
        BY <3>2 DEF AnswerValues, Content, Shows
      <4>3. AnswerValues'[q] = [k \in DOMAIN held[q] |-> Shows(heap', held'[q][k])]
        BY <3>2, <1>12 DEF AnswerValues, Content, Shows
      <4> QED
        BY <4>1, <4>2, <4>3
    <3> QED
      BY <3>1, <3>2
  <2>2. AnswerValues'[p] = [l \in Opening |-> KeptValues'[l]]
    <3>1. \A k \in Opening : Shows(heap', held'[p][k]) = KeptValues'[k]
      BY <1>8, <1>11, <1>12 DEF KeptValues, Content, Shows, Opening
    <3>2. AnswerValues'[p] = [k \in Opening |-> Shows(heap', held'[p][k])]
      BY <1>11, <1>12 DEF AnswerValues, Content, Shows
    <3> QED
      BY <3>1, <3>2
  <2>3. AnswerValues' = [q \in Readers |-> AnswerValues'[q]]
    BY DEF AnswerValues
  <2>4. AnswerValues = [q \in Readers |-> AnswerValues[q]]
    BY DEF AnswerValues
  <2> QED
    BY <2>1, <2>2, <2>3, <2>4
<1>22. Values!Opens(p, labels, reviewers)
  BY <1>20, <1>21 DEF Values!Opens, KeptValues, AnswerValues, Opening
<1> QED
  BY <1>7, <1>17, <1>18, <1>19, <1>22 DEF IInv

----------------------------------------------------------------------------
(* The specification.                                                      *)

(* Lists of none, one and two elements, and what they show.                *)
LEMMA ShortLists ==
  /\ <<>> \in Seq(Elements) /\ Len(<<>>) = 0 /\ SubSeq(<<>>, 1, 0) = <<>>
  /\ \A x \in Elements : <<x>> \in Seq(Elements) /\ Len(<<x>>) = 1 /\ SubSeq(<<x>>, 1, 1) = <<x>>
  /\ \A x, y \in Elements :
       <<x, y>> \in Seq(Elements) /\ Len(<<x, y>>) = 2 /\ SubSeq(<<x, y>>, 1, 2) = <<x, y>>
<1>1. \A s \in Seq(Elements) : SubSeq(s, 1, Len(s)) = s
  BY SubSeqFull
<1>2. <<>> \in Seq(Elements) /\ Len(<<>>) = 0
  OBVIOUS
<1>3. \A x \in Elements : <<x>> \in Seq(Elements) /\ Len(<<x>>) = 1
  OBVIOUS
<1>4. \A x, y \in Elements : <<x, y>> \in Seq(Elements) /\ Len(<<x, y>>) = 2
  OBVIOUS
<1>5. SubSeq(<<>>, 1, 0) = <<>>
  BY <1>1, <1>2, Zenon
<1>6. \A x \in Elements : SubSeq(<<x>>, 1, 1) = <<x>>
  BY <1>1, <1>3, Zenon
<1>7. \A x, y \in Elements : SubSeq(<<x, y>>, 1, 2) = <<x, y>>
  BY <1>1, <1>4, Zenon
<1> QED
  BY <1>2, <1>3, <1>4, <1>5, <1>6, <1>7

(* A seeded repository's lists share nothing and nothing is answered yet.  *)
LEMMA InitStep == Init => IInv /\ Values!Init
<1> SUFFICES ASSUME Init
             PROVE  IInv /\ Values!Init
  OBVIOUS
<1>1. /\ Nil \in Addresses /\ 1 \in Addresses /\ 2 \in Addresses /\ 3 \in Addresses /\ 4 \in Addresses
      /\ Nil # 1 /\ Nil # 2 /\ Nil # 3 /\ Nil # 4 /\ 1 # 2 /\ 1 # 3 /\ 1 # 4 /\ 2 # 3 /\ 2 # 4 /\ 3 # 4
  BY BoundsAssumption DEF Addresses, Arrays, Nil
<1>2. /\ heap = [a \in Addresses |-> heap[a]]
      /\ heap[Nil] = <<>> /\ heap[1] = <<"enhancement">> /\ heap[2] = <<"c-1">>
      /\ heap[3] = <<"failure", "success">> /\ heap[4] = <<FALSE>>
      /\ \A a \in Addresses \ {1, 2, 3, 4} : heap[a] = <<>>
  BY <1>1, Zenon DEF Init, Addresses
<1>3. /\ lists = [l \in Lists |-> lists[l]]
      /\ lists["labels"] = Slice(1, 1) /\ lists["replies"] = Slice(2, 1)
      /\ lists["checks"] = Slice(3, 2) /\ lists["resolved"] = Slice(4, 1)
      /\ \A l \in Lists \ {"labels", "replies", "checks", "resolved"} : lists[l] = Slice(Nil, 0)
  <2>1. /\ "labels" \in Lists /\ "replies" \in Lists /\ "checks" \in Lists /\ "resolved" \in Lists
        /\ "labels" # "replies" /\ "labels" # "checks" /\ "labels" # "resolved"
        /\ "replies" # "checks" /\ "replies" # "resolved" /\ "checks" # "resolved"
    BY DEF Lists, Growing
  <2> QED
    BY <2>1, Zenon DEF Init
<1>4. held = [p \in Readers |-> None]
  BY DEF Init
<1>5. /\ heap[Nil] \in Seq(Elements) /\ Len(heap[Nil]) = 0 /\ SubSeq(heap[Nil], 1, 0) = <<>>
      /\ heap[1] \in Seq(Elements) /\ Len(heap[1]) = 1
      /\ SubSeq(heap[1], 1, 1) = <<"enhancement">>
      /\ heap[2] \in Seq(Elements) /\ Len(heap[2]) = 1 /\ SubSeq(heap[2], 1, 1) = <<"c-1">>
      /\ heap[3] \in Seq(Elements) /\ Len(heap[3]) = 2
      /\ SubSeq(heap[3], 1, 2) = <<"failure", "success">>
      /\ heap[4] \in Seq(Elements) /\ Len(heap[4]) = 1 /\ SubSeq(heap[4], 1, 1) = <<FALSE>>
  <2>1. /\ "enhancement" \in Elements /\ "c-1" \in Elements
        /\ "failure" \in Elements /\ "success" \in Elements
    BY DEF Elements, Literals
  <2>2. FALSE \in BOOLEAN
    OBVIOUS
  <2>3. FALSE \in Elements
    BY <2>2, Zenon DEF Elements
  <2> QED
    BY <1>2, <2>1, <2>3, ShortLists, ZenonT(60)
<1>6. MemoryInv /\ ListsInv
  <2>1. \A a \in Addresses : heap[a] \in Seq(Elements)
    <3>1. \A a \in Addresses \ {1, 2, 3, 4} : heap[a] \in Seq(Elements)
      BY <1>2, ShortLists, Zenon
    <3> QED
      BY <1>5, <3>1
  <2>2. ASSUME NEW l \in Lists
        PROVE  Valid(heap, lists[l])
    <3> DEFINE Seeded(a, n) == \/ a = 1 /\ n = 1
                               \/ a = 2 /\ n = 1
                               \/ a = 3 /\ n = 2
                               \/ a = 4 /\ n = 1
                               \/ a = Nil /\ n = 0
    <3>1. PICK a \in Addresses, n \in Nat : lists[l] = Slice(a, n) /\ Seeded(a, n)
      <4>1. 0 \in Nat /\ 1 \in Nat /\ 2 \in Nat
        OBVIOUS
      <4>2. CASE l = "labels"
        BY <1>1, <1>3, <4>1, <4>2, Zenon
      <4>3. CASE l = "replies"
        BY <1>1, <1>3, <4>1, <4>3, Zenon
      <4>4. CASE l = "checks"
        BY <1>1, <1>3, <4>1, <4>4, Zenon
      <4>5. CASE l = "resolved"
        BY <1>1, <1>3, <4>1, <4>5, Zenon
      <4>6. CASE l \notin {"labels", "replies", "checks", "resolved"}
        BY <1>1, <1>3, <4>1, <4>6, Zenon
      <4> QED
        BY <4>2, <4>3, <4>4, <4>5, <4>6
    <3>2. lists[l] \in Slices /\ lists[l].arr = a /\ lists[l].len = n
      BY <3>1 DEF Slice, Slices, Addresses
    <3>3. n <= Len(heap[a])
      <4>1. /\ Len(heap[Nil]) = 0 /\ Len(heap[1]) = 1 /\ Len(heap[2]) = 1
            /\ Len(heap[3]) = 2 /\ Len(heap[4]) = 1
        BY <1>5, Zenon
      <4>2. Seeded(a, n)
        BY <3>1
      <4>3. 0 <= 0 /\ 1 <= 1 /\ 2 <= 2
        OBVIOUS
      <4> QED
        BY <4>1, <4>2, <4>3, Zenon
    <3> QED
      BY <3>2, <3>3 DEF Valid
  <2> QED
    BY <1>2, <1>3, <2>1, <2>2 DEF MemoryInv, ListsInv
<1>7. HeldInv
  BY <1>4 DEF HeldInv
<1>8. SharedArraysAreSafe
  BY <1>3, <1>4, <1>1 DEF SharedArraysAreSafe, Slice
<1>9. Values!Init
  <2>1. AnswerValues = [p \in Readers |-> None]
    BY <1>4 DEF AnswerValues
  <2>3. /\ Content(lists["labels"]) = <<"enhancement">> /\ Content(lists["replies"]) = <<"c-1">>
        /\ Content(lists["checks"]) = <<"failure", "success">>
        /\ Content(lists["resolved"]) = <<FALSE>>
        /\ \A l \in Lists \ {"labels", "replies", "checks", "resolved"} : Content(lists[l]) = <<>>
    <3>1. \A a, n : Slice(a, n).arr = a /\ Slice(a, n).len = n
      BY DEF Slice
    <3>2. ASSUME NEW l \in Lists, NEW a, NEW n, lists[l] = Slice(a, n)
          PROVE  Content(lists[l]) = SubSeq(heap[a], 1, n)
      BY <3>1, <3>2 DEF Content
    <3>3. /\ "labels" \in Lists /\ "replies" \in Lists /\ "checks" \in Lists /\ "resolved" \in Lists
      BY DEF Lists, Growing
    <3>4. /\ Content(lists["labels"]) = SubSeq(heap[1], 1, 1)
          /\ Content(lists["replies"]) = SubSeq(heap[2], 1, 1)
          /\ Content(lists["checks"]) = SubSeq(heap[3], 1, 2)
          /\ Content(lists["resolved"]) = SubSeq(heap[4], 1, 1)
      <4>1. Content(lists["labels"]) = SubSeq(heap[1], 1, 1)
        <5>1. lists["labels"] = Slice(1, 1)
          BY <1>3
        <5> QED
          BY <3>2, <3>3, <5>1, Zenon
      <4>2. Content(lists["replies"]) = SubSeq(heap[2], 1, 1)
        <5>1. lists["replies"] = Slice(2, 1)
          BY <1>3
        <5> QED
          BY <3>2, <3>3, <5>1, Zenon
      <4>3. Content(lists["checks"]) = SubSeq(heap[3], 1, 2)
        <5>1. lists["checks"] = Slice(3, 2)
          BY <1>3
        <5> QED
          BY <3>2, <3>3, <5>1, Zenon
      <4>4. Content(lists["resolved"]) = SubSeq(heap[4], 1, 1)
        <5>1. lists["resolved"] = Slice(4, 1)
          BY <1>3
        <5> QED
          BY <3>2, <3>3, <5>1, Zenon
      <4> QED
        BY <4>1, <4>2, <4>3, <4>4
    <3>5. ASSUME NEW l \in Lists \ {"labels", "replies", "checks", "resolved"}
          PROVE  Content(lists[l]) = <<>>
      BY <1>3, <1>5, <3>2, ZenonT(60)
    <3> QED
      BY <1>5, <3>4, <3>5
  <2>4. KeptValues = [l \in Lists |-> CASE l = "labels" -> <<"enhancement">>
                                         [] l = "replies" -> <<"c-1">>
                                         [] l = "checks" -> <<"failure", "success">>
                                         [] l = "resolved" -> <<FALSE>>
                                         [] OTHER -> <<>>]
    BY <2>3, Zenon DEF KeptValues
  <2> QED
    BY <2>1, <2>4, Zenon DEF Values!Init, KeptValues, AnswerValues, Lists, Growing, Values!Lists, Values!Growing
<1> QED
  BY <1>6, <1>7, <1>8, <1>9 DEF IInv

(* Every call changes one list, answers with values or encodes an answer.  *)
LEMMA NextStep == IInv /\ Next => IInv' /\ Values!Next
<1> SUFFICES ASSUME IInv, Next
             PROVE  IInv' /\ Values!Next
  OBVIOUS
<1>1. ASSUME NEW l \in Growing, NEW vals \in Payloads, Appended(l, vals)
      PROVE  IInv' /\ Values!Next
  BY <1>1, AppendedStep DEF Values!Next, Growing, Values!Growing
<1>2. ASSUME NEW p \in Readers, NEW ls \in Values!Answered, Values!Reads(p, ls), IInv'
      PROVE  IInv' /\ Values!Next
  BY <1>2 DEF Values!Next
<1>3. ASSUME NEW p \in Readers, NEW ls \in Values!Answered, ls \subseteq Lists \ Changed, AnswersWith(p, ls)
      PROVE  IInv' /\ Values!Next
  BY <1>2, <1>3, AnswersWithStep
<1>4. ASSUME NEW p \in Readers, NEW l \in Lists, {l} \in Values!Answered, AnswersWithCopy(p, l)
      PROVE  IInv' /\ Values!Next
  BY <1>2, <1>4, AnswersWithCopyStep
<1>5. ASSUME NEW vals \in Payloads,
             \/ \E l \in Growing : AddLabels(l, vals) \/ RequestReviewers(l, vals)
             \/ Comment(vals) \/ ReplyThread(vals) \/ React(vals)
      PROVE  IInv' /\ Values!Next
  <2>1. PICK l \in Growing : Appended(l, vals)
    BY <1>5 DEF AddLabels, RequestReviewers, Comment, ReplyThread, React, Growing
  <2> QED
    BY <1>1, <2>1
<1>6. ASSUME NEW vals \in Payloads, SetAssignees(vals)
      PROVE  IInv' /\ Values!Next
  BY <1>6, SetAssigneesStep DEF Values!Next
<1>7. ASSUME NEW p \in Readers, NEW labels \in Payloads, NEW reviewers \in Payloads,
             OpenChangeRequest(p, labels, reviewers)
      PROVE  IInv' /\ Values!Next
  BY <1>7, OpenChangeRequestStep DEF Values!Next
<1>8. ASSUME NEW b \in BOOLEAN, ResolveThread(b)
      PROVE  IInv' /\ Values!Next
  BY <1>8, ResolveThreadStep DEF Values!Next
<1>9. ASSUME NEW which \in {{1}, {2}, {1, 2}}, RerunChecks(which)
      PROVE  IInv' /\ Values!Next
  BY <1>9, RerunChecksStep DEF Values!Next
<1>10. ASSUME NEW p \in Readers, GetChangeRequest(p) \/ GetIssue(p)
       PROVE  IInv' /\ Values!Next
  <2>1. PICK ls \in {{"labels", "reviewers"}, {"labels2", "reviewers2"}, {"issueLabels", "assignees"}} :
          AnswersWith(p, ls)
    BY <1>10 DEF GetChangeRequest, GetIssue
  <2>2. ls \in Values!Answered /\ ls \subseteq Lists \ Changed
    BY DEF Values!Answered, Lists, Growing, Changed
  <2> QED
    BY <1>3, <2>1, <2>2
<1>11. ASSUME NEW p \in Readers, ListComments(p) \/ GetChecks(p)
       PROVE  IInv' /\ Values!Next
  <2>1. /\ "comments" \in Lists /\ {"comments"} \in Values!Answered
        /\ "checks" \in Lists /\ {"checks"} \in Values!Answered
    BY DEF Values!Answered, Lists, Growing
  <2> QED
    BY <1>4, <1>11, <2>1 DEF ListComments, GetChecks
<1>12. ASSUME NEW p \in Readers, ListThreads(p)
       PROVE  IInv' /\ Values!Next
  <2>1. {"replies", "resolved"} \in Values!Answered
    BY DEF Values!Answered
  <2> QED
    BY <1>2, <1>12, <2>1, ListThreadsStep
<1>13. ASSUME NEW p \in Readers, Encode(p)
       PROVE  IInv' /\ Values!Next
  BY <1>13, EncodeStep DEF Values!Next
<1> QED
  BY <1>5, <1>6, <1>7, <1>8, <1>9, <1>10, <1>11, <1>12, <1>13 DEF Next

(* A step that changes nothing changes no value.                           *)
LEMMA StutterStep == IInv /\ UNCHANGED vars => IInv' /\ UNCHANGED Values!vars
<1> SUFFICES ASSUME IInv, UNCHANGED vars
             PROVE  IInv' /\ UNCHANGED Values!vars
  OBVIOUS
<1>1. heap' = heap /\ lists' = lists /\ held' = held
  BY DEF vars
<1> QED
  BY <1>1 DEF IInv, MemoryInv, ListsInv, HeldInv, SharedArraysAreSafe, Values!vars, Content

(* IInv holds throughout.                                                  *)
LEMMA Invariance == Spec => []IInv
<1>1. IInv /\ [Next]_vars => IInv'
  BY NextStep, StutterStep
<1> QED
  BY <1>1, InitStep, PTL DEF Spec

(* No two lists share an array, an answer shows no more of a list's array  *)
(* than the list has written, and what is changed in place is never shared *)
(* (append, GetChecks and ListThreads in fake.go and variants.go), for     *)
(* every capacity append leaves.                                           *)
THEOREM SharingIsSafe == Spec => []SharedArraysAreSafe
<1>1. IInv => SharedArraysAreSafe
  BY DEF IInv
<1> QED
  BY <1>1, Invariance, PTL

(* The provider's lists implement values: each write changes the list it   *)
(* names by what the request says, and no answer moves while it is being   *)
(* encoded.                                                                *)
THEOREM SlicesImplementValues == Spec => ListsAreValues
<1>1. Init => Values!Init
  BY InitStep
<1>2. IInv /\ [Next]_vars => [Values!Next]_(Values!vars)
  BY NextStep, StutterStep
<1> QED
  BY <1>1, <1>2, Invariance, PTL DEF Spec, ListsAreValues, Values!Spec
=============================================================================
