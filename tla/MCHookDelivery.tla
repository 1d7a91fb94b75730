--------------------------- MODULE MCHookDelivery ---------------------------
(* Model-checking instance of HookDelivery.                                *)
EXTENDS HookDelivery, TLC

Hook(type) == [fakeHook EXCEPT !.type = type, !.action = "created", !.actor = "octocat"]

Place(before, after) == [before |-> before, after |-> after]

(* A mention, a review request with an e-mail address in its text, a type  *)
(* without a kind, a repository that is not visible, a malformed delivery. *)
MCHappenings ==
  {[hook |-> [Hook("comment") EXCEPT !.text = {Place("start", "space")}],
    malformed |-> FALSE, addresses |-> {"mention"}],
   [hook |-> [Hook("review_request") EXCEPT !.requested = IdentityHandle, !.text = {Place("word", "dot")}],
    malformed |-> FALSE, addresses |-> {"review_request"}],
   [hook |-> Hook("star"), malformed |-> FALSE, addresses |-> {}],
   [hook |-> [Hook("comment") EXCEPT !.repo = "elsewhere"], malformed |-> FALSE, addresses |-> {}],
   [hook |-> Hook("comment"), malformed |-> TRUE, addresses |-> {}]}

MCPermissions == [login \in {"octocat"} |-> "write"]

(* What the full and the minimal provider declare.                         *)
MCTriggers == {{"mention", "label", "review_request", "assignment"}, {"mention"}}

MCSymmetry == Permutations(Repos) \cup Permutations(URLs)
=============================================================================
