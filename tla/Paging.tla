------------------------------- MODULE Paging -------------------------------
(***************************************************************************)
(* Lists that come in pages: the conformance kit's three walks over a      *)
(* provider's pages (conformance.go: repositories, changed files, issues), *)
(* and the pages of the reference provider (fakeprovider).  ConformanceKit *)
(* runs the walks, also against a provider that answers anything.          *)
(*                                                                         *)
(* The list is 1..length in its sorted order.  A cursor is an offset, and  *)
(* 0 is the empty cursor: in a request the first page, in an answer the    *)
(* end.                                                                    *)
(***************************************************************************)
EXTENDS Integers, SequencesExt

CONSTANTS
  MaxItems,    \* bound: the length of a list
  MaxPages     \* the kit's limit on the pages of one walk, 100 in the code

ASSUME PagingAssumption == MaxItems \in Nat \ {0} /\ MaxPages \in Nat \ {0}

VARIABLES
  walk,       \* "repositories", "files" or "issues"; "none" between walks
  length,     \* the length of the list
  cursor,     \* the cursor of the next request
  pages,      \* pages asked for; the loop over issues does not count
  visited,    \* the items seen so far, in order
  cursors     \* the cursors an issue walk was given

paging == <<walk, length, cursor, pages, visited, cursors>>

(* The values of the variables between walks.                              *)
NoWalk(w, l, c, p, v, cs) ==
  w = "none" /\ l = 0 /\ c = 0 /\ p = 0 /\ v = <<>> /\ cs = {}

PagingInit == NoWalk(walk, length, cursor, pages, visited, cursors)

StartWalk(w) ==
  /\ walk = "none" /\ walk' = w
  /\ length' \in 1..MaxItems
  /\ UNCHANGED <<cursor, pages, visited, cursors>>

----------------------------------------------------------------------------
(* Repositories are asked for one by one; the other pages hold two.        *)
Size == IF walk = "repositories" THEN 1 ELSE 2

NextCursor(start) == IF start + Size < length THEN start + Size ELSE 0

(* Mutation: the last page is one item short.                              *)
DropsTheLast(start) ==
  [i \in 1..(IF start + Size < length THEN Size ELSE length - start - 1) |-> start + i]

(* items[start:end]; every start a walk hands back is inside the list.     *)
Items(start) == [i \in 1..(IF start + Size < length THEN Size ELSE length - start) |-> start + i]

----------------------------------------------------------------------------
(* The fixture issue every issue list must show.                           *)
FixtureIssue == 1

(* What the kit compares when a walk is over.                              *)
Complete(seen) ==
  IF walk = "issues" THEN FixtureIssue \in ToSet(seen)
  ELSE Len(seen) = length /\ ToSet(seen) = 1..length

(* t.Errorf on an item listed twice; repositories are only compared.       *)
Repeats(page) == walk # "repositories" /\ ~IsInjective(visited \o page)

(* t.Fatalf: a page too long, a cursor seen before, or too many cursors.   *)
Fatal(page, next) ==
  \/ walk = "repositories" /\ Len(page) > 1
  \/ walk = "issues" /\ next # 0 /\ (next \in cursors \/ Cardinality(cursors) >= MaxPages)

(* Mutation: the limit on the pages is dropped.                            *)
OnlyAtTheEnd(next) == next = 0

(* The walk is over: at the empty cursor or, but for issues, at the limit  *)
(* of the for loop.                                                        *)
Over(next) == next = 0 \/ (walk # "issues" /\ pages + 1 = MaxPages)

(* The walk reads one more page.                                           *)
Visit(page, next) ==
  /\ walk # "none"
  /\ IF Fatal(page, next) \/ Over(next)
     THEN NoWalk(walk', length', cursor', pages', visited', cursors')
     ELSE /\ visited' = visited \o page
          /\ pages' = (IF walk = "issues" \/ pages = MaxPages THEN pages ELSE pages + 1)
          /\ cursor' = next
          /\ cursors' = IF walk = "issues" THEN cursors \cup {next} ELSE cursors
          /\ UNCHANGED <<walk, length>>
=============================================================================
