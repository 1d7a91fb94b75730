----------------------------- MODULE FakeLists ------------------------------
(***************************************************************************)
(* The lists of the reference git provider as the Go slices they are: a    *)
(* slice is a length and the address of an array that other slices may     *)
(* share.  Core.mu covers a method from its first check to its return, but *)
(* the answer is encoded after that (gitprovider.Dispatch), while other    *)
(* methods write: it must not move under the encoder.  append writes into  *)
(* the array while there is room and into a new one otherwise, depending   *)
(* on capacities nobody chose.                                             *)
(*                                                                         *)
(* Requests arrive over the wire, so that each brings arrays of its own.   *)
(* A refused request (an unknown repository, subject, thread or reference, *)
(* an unsupported emoji, reviewers of an issue) changes nothing, and so do *)
(* assignees of a change request; these are left out.  The change request  *)
(* opened last stands for all opened ones.                                 *)
(***************************************************************************)
EXTENDS Integers, Sequences

CONSTANTS
  NumArrays,     \* bound: arrays in memory at a time
  Payloads,      \* the lists a request may carry
  Readers, None, \* requests whose answer may be being encoded; no answer
  MaxSpare,      \* bound: unused capacity of a new array
  MaxWrites      \* bound: writes made

ASSUME PayloadsAssumption == \A vals \in Payloads : vals \in Seq(STRING)
ASSUME BoundsAssumption ==
  NumArrays \in Nat /\ NumArrays >= 4 /\ MaxSpare \in Nat /\ MaxWrites \in Nat

VARIABLES
  heap,    \* address -> the elements of the array, as many as its capacity
  lists,   \* list -> the slice kept for it
  held,    \* reader -> the answer being encoded: list -> slice
  writes   \* writes made

vars == <<heap, lists, held, writes>>

Nil == 0
Arrays == 1..NumArrays

(* A slice of array a, and what it shows.                                  *)
Slice(a, n) == [arr |-> a, len |-> n]
Content(s) == SubSeq(heap[s.arr], 1, s.len)

Growing == {"labels", "reviewers", "labels2", "reviewers2", "issueLabels",
            "comments", "replies", "reactions"}
Lists == Growing \cup {"assignees", "checks", "resolved"}

Slices == [arr : Arrays \cup {Nil}, len : Nat]
ASSUME NoneAssumption == \A ls \in SUBSET Lists : None \notin [ls -> Slices]

(* What a seeded repository holds; the resolved mark of its thread is a    *)
(* list of one, for it lies in memory that a pointer may share.            *)
Init ==
  /\ heap = [a \in Arrays \cup {Nil} |->
               CASE a = 1 -> <<"enhancement">> [] a = 2 -> <<"c-1">>
                 [] a = 3 -> <<"failure", "success">> [] a = 4 -> <<FALSE>>
                 [] OTHER -> <<>>]
  /\ lists = [l \in Lists |->
               CASE l = "labels" -> Slice(1, 1) [] l = "replies" -> Slice(2, 1)
                 [] l = "checks" -> Slice(3, 2) [] l = "resolved" -> Slice(4, 1)
                 [] OTHER -> Slice(Nil, 0)]
  /\ held = [p \in Readers |-> None]
  /\ writes = 0

Counts == writes < MaxWrites /\ writes' = writes + 1

----------------------------------------------------------------------------
(* Memory.                                                                 *)

InUse == {lists[l].arr : l \in Lists}
         \cup UNION {{held[p][l].arr : l \in DOMAIN held[p]} : p \in {q \in Readers : held[q] # None}}

(* Memory becomes h, without the arrays nothing refers to any more.        *)
Memory(h) == heap' = [a \in DOMAIN h |-> IF a \in InUse' THEN h[a] ELSE <<>>]

(* A new array, and another one.                                           *)
New == CHOOSE a \in Arrays : a \notin InUse
New2 == CHOOSE a \in Arrays : a \notin InUse \cup {New}
Room == \E a, b \in Arrays \ InUse : a # b

(* vals in a new array, with some capacity to spare.                       *)
Allocated(vals, spare) == vals \o [i \in 1..spare |-> "blank"]

(* Array a with vals written from position n + 1 on.                       *)
Overwritten(a, n, vals) ==
  [i \in DOMAIN heap[a] |-> IF i \in (n + 1)..(n + Len(vals)) THEN vals[i - n] ELSE heap[a][i]]

(* list = append(list, vals...).                                           *)
Appended(l, vals) ==
  LET s == lists[l]
      n == s.len + Len(vals)
  IN  \/ /\ n <= Len(heap[s.arr])
         /\ heap' = [heap EXCEPT ![s.arr] = Overwritten(s.arr, s.len, vals)]
         /\ lists' = [lists EXCEPT ![l] = Slice(s.arr, n)]
         /\ UNCHANGED held
      \/ /\ n > Len(heap[s.arr]) /\ Room
         /\ lists' = [lists EXCEPT ![l] = Slice(New, n)]
         /\ UNCHANGED held
         /\ \E spare \in 0..MaxSpare :
              Memory([heap EXCEPT ![New] = Allocated(Content(s) \o vals, spare)])

(* The answer to p shows the slices themselves.                            *)
AnswersWith(p, ls) ==
  /\ held[p] = None
  /\ held' = [held EXCEPT ![p] = [l \in ls |-> lists[l]]]
  /\ UNCHANGED <<heap, lists, writes>>

(* The answer to p shows a copy of the list.                               *)
AnswersWithCopy(p, l) ==
  /\ held[p] = None /\ Room
  /\ heap' = [heap EXCEPT ![New] = Content(lists[l])]
  /\ held' = [held EXCEPT ![p] = [k \in {l} |-> Slice(New, lists[l].len)]]
  /\ UNCHANGED <<lists, writes>>

----------------------------------------------------------------------------
(* Writes.                                                                 *)

AddLabels(l, vals) ==
  Counts /\ l \in {"labels", "labels2", "issueLabels"} /\ Appended(l, vals)

RequestReviewers(l, vals) ==
  Counts /\ l \in {"reviewers", "reviewers2"} /\ Appended(l, vals)

Comment(vals) == Counts /\ Len(vals) = 1 /\ Appended("comments", vals)

ReplyThread(vals) == Counts /\ Len(vals) = 1 /\ Appended("replies", vals)

React(vals) == Counts /\ Len(vals) = 1 /\ Appended("reactions", vals)

(* The request's own slice is kept.                                        *)
SetAssignees(vals) ==
  /\ Counts /\ Room
  /\ lists' = [lists EXCEPT !["assignees"] = Slice(New, Len(vals))]
  /\ UNCHANGED held
  /\ \E spare \in 0..MaxSpare : Memory([heap EXCEPT ![New] = Allocated(vals, spare)])

(* So are labels and reviewers of a change request, and the answer shows   *)
(* the same slices.                                                        *)
OpenChangeRequest(p, labels, reviewers) ==
  /\ Counts /\ Room /\ held[p] = None
  /\ lists' = [lists EXCEPT !["labels2"] = Slice(New, Len(labels)),
                            !["reviewers2"] = Slice(New2, Len(reviewers))]
  /\ held' = [held EXCEPT ![p] = [l \in {"labels2", "reviewers2"} |-> lists'[l]]]
  /\ \E spare \in 0..MaxSpare :
       Memory([heap EXCEPT ![New] = Allocated(labels, spare), ![New2] = Allocated(reviewers, spare)])

(* In place: t.Resolved of the thread a pointer is kept to.                *)
ResolveThread(b) ==
  /\ Counts
  /\ heap' = [heap EXCEPT ![lists["resolved"].arr] = <<b>>]
  /\ UNCHANGED <<lists, held>>

(* In place: the failed ones of the checks asked for, or of all.           *)
RerunChecks(which) ==
  LET s == lists["checks"]
  IN  /\ Counts
      /\ heap' = [heap EXCEPT ![s.arr] =
           [i \in DOMAIN @ |->
              IF i \in which \cap 1..s.len /\ @[i] = "failure" THEN "pending" ELSE @[i]]]
      /\ UNCHANGED <<lists, held>>

----------------------------------------------------------------------------
(* Reads.                                                                  *)

(* The struct is copied, with the slices in it.                            *)
GetChangeRequest(p) ==
  \/ AnswersWith(p, {"labels", "reviewers"})
  \/ AnswersWith(p, {"labels2", "reviewers2"})

GetIssue(p) == AnswersWith(p, {"issueLabels", "assignees"})

ListComments(p) == AnswersWithCopy(p, "comments")

(* Mutation: the page shows the thread the provider keeps.                 *)
ThreadShared(p) == AnswersWith(p, {"replies", "resolved"})

(* The thread is copied, its mark with it, but not its comments.           *)
ListThreads(p) ==
  /\ held[p] = None /\ Room
  /\ heap' = [heap EXCEPT ![New] = Content(lists["resolved"])]
  /\ held' = [held EXCEPT ![p] = [l \in {"replies", "resolved"} |->
                IF l = "replies" THEN lists[l] ELSE Slice(New, 1)]]
  /\ UNCHANGED <<lists, writes>>

(* Mutation: the kept slice is the answer.                                 *)
ChecksShared(p) == AnswersWith(p, {"checks"})

GetChecks(p) == AnswersWithCopy(p, "checks")

(* Dispatch has encoded the answer.                                        *)
Encode(p) ==
  /\ held[p] # None
  /\ held' = [held EXCEPT ![p] = None]
  /\ UNCHANGED <<lists, writes>>
  /\ Memory(heap)

Next ==
  \/ \E vals \in Payloads :
       \/ \E l \in Growing : AddLabels(l, vals) \/ RequestReviewers(l, vals)
       \/ Comment(vals) \/ ReplyThread(vals) \/ React(vals) \/ SetAssignees(vals)
  \/ \E p \in Readers, labels \in Payloads, reviewers \in Payloads :
       OpenChangeRequest(p, labels, reviewers)
  \/ \E b \in BOOLEAN : ResolveThread(b)
  \/ \E which \in {{1}, {2}, {1, 2}} : RerunChecks(which)
  \/ \E p \in Readers :
       \/ GetChangeRequest(p) \/ GetIssue(p) \/ ListComments(p) \/ ListThreads(p) \/ GetChecks(p)
       \/ Encode(p)

Spec == Init /\ [][Next]_vars
----------------------------------------------------------------------------
Values == INSTANCE ListSpec WITH
  kept <- [l \in Lists |-> Content(lists[l])],
  answers <- [p \in Readers |-> IF held[p] = None THEN None
                                ELSE [l \in DOMAIN held[p] |-> Content(held[p][l])]]

(* Kept lists and answers behave as values (fake.go, variants.go): no      *)
(* append, replacement or change in place reaches an answer that is being  *)
(* encoded or another list, though they share arrays, and nothing that was *)
(* added is lost.                                                          *)
ListsAreValues == Values!Spec

(* Why that is so: no two lists share an array; an answer that shares a    *)
(* list's array shows no more of it than the list has written, so that     *)
(* append writes behind it; and what is changed in place is never shared.  *)
SharedArraysAreSafe ==
  /\ \A l, k \in Lists : l # k /\ lists[l].arr = lists[k].arr => lists[l].arr = Nil
  /\ \A p \in Readers : held[p] # None =>
       \A k \in DOMAIN held[p], l \in Lists :
         held[p][k].arr = lists[l].arr =>
           held[p][k].len <= lists[l].len /\ l \notin {"checks", "resolved"}
=============================================================================
