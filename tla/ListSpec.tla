------------------------------ MODULE ListSpec ------------------------------
(***************************************************************************)
(* What the reference provider promises about the lists it keeps (labels,  *)
(* reviewers, assignees, comments, replies, reactions, checks and the      *)
(* resolved mark of a thread): they are values.  A write changes the list  *)
(* it names, by what the request says and nothing else, and an answer,     *)
(* once given, stays what it was while it is encoded, whatever is written  *)
(* meanwhile.                                                              *)
(***************************************************************************)
EXTENDS Integers, Sequences

CONSTANTS
  Payloads,      \* the lists a request may carry
  Readers, None  \* requests whose answer may be being encoded; no answer

VARIABLES
  kept,     \* list -> its elements
  answers   \* reader -> what it was answered: list -> elements

vars == <<kept, answers>>

Growing == {"labels", "reviewers", "labels2", "reviewers2", "issueLabels",
            "comments", "replies", "reactions"}
Lists == Growing \cup {"assignees", "checks", "resolved"}

(* The lists a read answers with.                                          *)
Answered == {{"labels", "reviewers"}, {"labels2", "reviewers2"}, {"issueLabels", "assignees"},
             {"comments"}, {"replies", "resolved"}, {"checks"}}

Init ==
  /\ kept = [l \in Lists |-> CASE l = "labels" -> <<"enhancement">>
                               [] l = "replies" -> <<"c-1">>
                               [] l = "checks" -> <<"failure", "success">>
                               [] l = "resolved" -> <<FALSE>>
                               [] OTHER -> <<>>]
  /\ answers = [p \in Readers |-> None]

(* List l, and no other, becomes vals (its own value first: most steps     *)
(* fail there).                                                            *)
Becomes(l, vals) == kept'[l] = vals /\ kept' = [kept EXCEPT ![l] = vals]

Adds(l, vals) == UNCHANGED answers /\ Becomes(l, kept[l] \o vals)

Assigns(vals) == UNCHANGED answers /\ Becomes("assignees", vals)

Resolves(b) == UNCHANGED answers /\ Becomes("resolved", <<b>>)

(* The failed checks among these are pending again.                        *)
Reruns(which) ==
  /\ UNCHANGED answers
  /\ Becomes("checks", [i \in DOMAIN kept["checks"] |->
       IF i \in which /\ kept["checks"][i] = "failure" THEN "pending" ELSE kept["checks"][i]])

Reads(p, ls) ==
  /\ answers' = [answers EXCEPT ![p] = [l \in ls |-> kept[l]]]
  /\ UNCHANGED kept

(* A change request is opened, and the answer shows it.                    *)
Opens(p, labels, reviewers) ==
  /\ kept' = [kept EXCEPT !["labels2"] = labels, !["reviewers2"] = reviewers]
  /\ answers' = [answers EXCEPT ![p] = [l \in {"labels2", "reviewers2"} |-> kept'[l]]]

Encoded(p) == answers' = [answers EXCEPT ![p] = None] /\ UNCHANGED kept

Next ==
  \/ \E l \in Growing, vals \in Payloads : Adds(l, vals)
  \/ \E vals \in Payloads : Assigns(vals)
  \/ \E b \in BOOLEAN : Resolves(b)
  \/ \E which \in SUBSET {1, 2} : Reruns(which)
  \/ \E p \in Readers : Encoded(p) \/ \E ls \in Answered : Reads(p, ls)
  \/ \E p \in Readers, labels \in Payloads, reviewers \in Payloads : Opens(p, labels, reviewers)

Spec == Init /\ [][Next]_vars
=============================================================================
