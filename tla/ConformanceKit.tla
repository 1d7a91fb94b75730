--------------------------- MODULE ConformanceKit ---------------------------
(***************************************************************************)
(* The conformance kit (conformance/conformance.go) run against the        *)
(* reference provider and against the defective providers the repository   *)
(* keeps to test the kit (fakeprovider/mutants_test.go).                   *)
(*                                                                         *)
(* A subtest is a script of calls, each with what the kit requires of the  *)
(* answer; every subtest gets a fresh provider.  The subtests "wire" and   *)
(* "unsupported", which go through Dispatch, are WireDispatch's.           *)
(* "webhook-management" does not run: Full delivers app-level webhooks and *)
(* Minimal does not manage them.                                           *)
(***************************************************************************)
EXTENDS FakeProvider, Paging

CONSTANTS
  Repo,         \* Fixtures.Repo
  Texts,        \* what diffs, logs and files may say
  \* the kit's limits, in bytes: 20, 10, 5 and 4 in the code
  LongDiff, DiffBytes, TailBytes, FileBytes

ASSUME KitAssumption ==
  /\ Repo \in Repos /\ KnownRepos = Repos
  /\ LongDiff \in Nat /\ DiffBytes \in 1..LongDiff /\ TailBytes \in Nat \ {0} /\ FileBytes \in Nat \ {0}
ASSUME TextsAssumption == \A s \in Texts : ValidText(s)

(* mutants_test.go: each wraps Full and changes one method.                *)
Mutants ==
  {"noVerify", "leaky", "unclassified", "dishonest", "noIssueList", "emptyIssueList", "noExpiry",
   "silentTrunc", "unstableIDs", "secretInEvent", "anonymous", "mergeNoGuard", "replayableGrant",
   "reusableGrant", "branchOverwrite", "branchIgnoresFrom"}

VARIABLES
  defect,   \* "none", a mutant, or "anyPages": a provider whose pages are arbitrary
  test,     \* the running subtest, an index of Tests
  pos,      \* the next call of its script
  log,      \* the answers the script refers to, by name
  failed    \* the subtests that reported an error

kit == <<defect, test, pos, log, failed>>
vars == <<kit, provider, answer, reads, handed, paging>>

----------------------------------------------------------------------------
(* The optional capabilities; Full implements the interface of each.       *)
Optional ==
  {"issue_list", "resolve_threads", "file_read", "code_search", "labels", "reviewer_requests",
   "assignees", "merge", "rerun_checks", "reactions", "webhook_management", "identity_deletion",
   "identity_description", "branches", "access_grants"}

Declared(cap) ==
  /\ full
  /\ ~(defect = "dishonest" /\ cap = "merge")
  /\ ~(defect = "noIssueList" /\ cap = "issue_list")

(* What a mutant does to a request before Full sees it.                    *)
Altered(q) ==
  CASE defect = "noVerify" /\ q.op = "webhook" -> [q EXCEPT !.arg.signed = TRUE]
    [] defect = "silentTrunc" /\ q.op = "get_diff" -> [q EXCEPT !.arg[3] = 0]
    [] defect = "mergeNoGuard" /\ q.op = "merge" -> [q EXCEPT !.arg[2] = crs[q.repo][q.arg[1]].sha]
    [] defect = "branchIgnoresFrom" /\ q.op = "branch" -> [q EXCEPT !.arg[2] = NoBranch]
    [] OTHER -> q

(* What a mutant makes of Full's answer a to the request q.                *)
Spoilt(q, a) ==
  LET Says(code, result, secret) == [code |-> code, result |-> result, secret |-> secret]
      ok == a.code = "ok"
  IN  CASE defect = "leaky" /\ q.op = "get_change_request" /\ ~ok -> Says("not_found", 0, TRUE)
        [] defect = "unclassified" /\ q.op = "get_issue" /\ ~ok -> Says("unclassified", 0, FALSE)
        [] defect = "emptyIssueList" /\ q.op = "list_issues" -> Says("ok", "no issues", FALSE)
        [] defect = "noExpiry" /\ q.op = "mint" /\ ok -> Says("ok", "static", FALSE)
        [] defect = "silentTrunc" /\ q.op = "get_diff" /\ ok /\ TooLong(a.result.text, q.arg[3]) ->
             Says("ok", Whole(SubSeq(a.result.text, 1, q.arg[3])), FALSE)
        [] defect = "unstableIDs" /\ q.op = "webhook" /\ ok ->
             Says("ok", [i \in DOMAIN a.result |-> [a.result[i] EXCEPT !.id = <<@, pos>>]], FALSE)
        [] defect = "secretInEvent" /\ q.op = "webhook" -> Says(a.code, a.result, a.result # <<>>)
        [] defect = "anonymous" /\ q.op = "describe_identity" -> Says(a.code, q.arg[2], FALSE)
        [] defect = "replayableGrant" /\ q.op = "complete_grant" -> Says("ok", "granted", FALSE)
        [] defect = "reusableGrant" /\ q.op = "complete_grant" /\ ~ok /\ q.arg[1] \in DOMAIN grants ->
             Says("ok", "granted", FALSE)
        [] defect = "branchOverwrite" /\ q.op = "branch" /\ a.code = "conflict" ->
             Says(GetBranch(q.repo, q.arg[1]).code, GetBranch(q.repo, q.arg[1]).result, FALSE)
        [] OTHER -> Says(a.code, a.result, FALSE)

----------------------------------------------------------------------------
(* A call and what the kit requires of its answer: one of the codes, a     *)
(* check on the result, and (looks) no secret.  What is in fatal ends the  *)
(* subtest (t.Fatalf), or skips that many calls of it; the rest is only    *)
(* reported (t.Errorf).                                                    *)
Call(op, arg) == [op |-> op, repo |-> Repo, arg |-> arg, key |-> NoKey]
Elsewhere(op, arg) == [Call(op, arg) EXCEPT !.repo = "secret/hidden"]
Keyed(op, arg, key) == [Call(op, arg) EXCEPT !.key = key]

All == 1000
Step(q, codes, check, fatal, looks) ==
  [q |-> q, codes |-> codes, check |-> check, fatal |-> fatal, looks |-> looks, skip |-> All, as |-> ""]

Anything == <<"anything">>
Is(value) == <<"is", value>>
Same(name) == <<"same", name>>
Shows(field, value) == <<"shows", field, value>>

(* Mutation: the message of an expected error is not looked at.            *)
CodeAlone(q, codes) == Step(q, codes, Anything, {"code"}, FALSE)

mustCode(q, codes) == Step(q, codes, Anything, {"code", "secret"}, TRUE)

Needs(q, check) == Step(q, {"ok"}, check, {"code"}, FALSE)            \* only an error is fatal
NeedsAll(q, check) == Step(q, {"ok"}, check, {"code", "value"}, FALSE)
Wants(q, check) == Step(q, {"ok"}, check, {}, FALSE)
noLeak(step) == [step EXCEPT !.looks = TRUE, !.fatal = @ \cup {"secret"}]
As(name, step) == [step EXCEPT !.as = name]
Walk(list) == Step(Call("walk", list), {"ok"}, Anything, {}, FALSE)
If(condition, steps) == IF condition THEN steps ELSE <<>>

(* What an earlier call of the subtest was answered.                       *)
Said(name) == IF name \in DOMAIN log THEN log[name].result ELSE ""
SaidText(name) == IF name \in DOMAIN log /\ log[name].code = "ok" THEN log[name].result.text ELSE <<>>

----------------------------------------------------------------------------
(* An event core can use; what it is addressed by is declared.             *)
checkEventInvariants(ev) ==
  /\ ev.kind \in EventKinds /\ ev.action # "" /\ ev.repo # "" /\ ev.actor # ""
  /\ ev.actor_kind \in {"user", "bot"} /\ ev.permission \in {"", "none", "read", "write", "admin"}
  /\ ev.subject \in {"none", "issue", "change_request"} /\ (ev.subject # "none" => ev.number # "")
  /\ ev.kind = "check" => ev.check \notin {"none", ""}
  /\ ev.kind = "push" => ev.push \notin {"none", ""}
  /\ ev.addressed \subseteq Triggers

(* The fields a fixture w has, and how the identity was addressed.         *)
checkWant(ev, w) ==
  /\ \A field \in DOMAIN w \ {"addressed"} : ev[field] = w[field]
  /\ ev.addressed = w.addressed \cap Triggers

(* The check of a step on a result v.                                      *)
Holds(check, v) ==
  LET kind == check[1]
  IN  CASE kind = "anything" -> TRUE
        [] kind = "honest" -> \A cap \in Optional : Declared(cap) <=> full
        [] kind = "is" -> v = check[2]
        [] kind = "same" -> v = Said(check[2])
        [] kind = "shows" -> v[check[2]] = check[3]
        [] kind = "text" -> v.text # <<>>
        [] kind = "part" -> v.text # <<>> /\ Len(v.text) <= Len(SaidText("full"))
        [] kind = "head" -> Len(v.text) <= DiffBytes /\ v.truncated /\ ValidString(v.text)
        [] kind = "tail" -> /\ Len(v.text) <= TailBytes /\ ValidString(v.text)
                            /\ Len(SaidText("logs")) > TailBytes => v.truncated
        [] kind = "bytes" -> Len(v.text) <= FileBytes /\ v.truncated
        [] kind = "events" -> /\ Len(v) = Len(check[2])
                              /\ \A i \in DOMAIN v : checkEventInvariants(v[i]) /\ checkWant(v[i], check[2][i])
        [] kind = "ids" -> [i \in DOMAIN v |-> v[i].id] = [i \in DOMAIN Said("first") |-> Said("first")[i].id]

(* What is wrong with the answer a.                                        *)
Wrong(step, a) ==
  IF a.code \notin step.codes THEN {"code"}
  ELSE {w \in {"secret", "value"} : \/ w = "secret" /\ step.looks /\ a.secret
                                    \/ w = "value" /\ ~Holds(step.check, a.result)}

----------------------------------------------------------------------------
(* Fixtures (fakeprovider/harness.go): a delivery and the events it must   *)
(* give.                                                                   *)
Delivery(h) == [signed |-> TRUE, malformed |-> FALSE, hook |-> h]
Hook(delivery, type, action, more) ==
  more @@ [fakeHook EXCEPT !.delivery = delivery, !.type = type, !.action = action, !.repo = Repo]
At(before, after) == {[before |-> before, after |-> after]}

WebhookCases ==
  LET by == [actor |-> "octocat", number |-> "1"]
      bug == [subject |-> "issue", number |-> "7"]
      told == [actor |-> "octocat", addressed |-> {}]
  IN <<[hook |-> Hook("d1", "comment", "created", [text |-> At("start", "space"), subject |-> "change_request"] @@ by),
        want |-> <<[kind |-> "comment", action |-> "created", repo |-> Repo, subject |-> "change_request",
                    number |-> "1", actor_kind |-> "user", addressed |-> {"mention"}] @@ told>>],
       [hook |-> Hook("d2", "comment", "created", [actor |-> "reader"] @@ bug),
        want |-> <<[kind |-> "comment", actor |-> "reader", actor_kind |-> "user", addressed |-> {}] @@ bug>>],
       [hook |-> Hook("d3", "comment", "created", [text |-> At("word", "dot")] @@ by),
        want |-> <<[kind |-> "comment"] @@ told>>],
       [hook |-> Hook("d4", "comment", "created", [actor |-> "dependabot", actor_kind |-> "bot"] @@ by),
        want |-> <<[kind |-> "comment", actor |-> "dependabot", actor_kind |-> "bot", addressed |-> {}]>>],
       [hook |-> Hook("d5", "review_request", "requested", [requested |-> IdentityHandle] @@ by),
        want |-> <<[kind |-> "review_request", action |-> "requested", addressed |-> {"review_request"}] @@ told>>],
       [hook |-> Hook("d6", "assignment", "assigned", [assignee |-> IdentityHandle, actor |-> "octocat"] @@ bug),
        want |-> <<[kind |-> "assignment", subject |-> "issue", addressed |-> {"assignment"}]>>],
       [hook |-> Hook("d7", "check", "completed", [actor |-> "ci", actor_kind |-> "bot", conclusion |-> "failure"] @@ by),
        want |-> <<[kind |-> "check", action |-> "completed", actor_kind |-> "bot", check |-> "failure", addressed |-> {}]>>],
       [hook |-> Hook("d10", "push", "created", [actor |-> "octocat", head_ref |-> "feat/PACA-12-x"]),
        want |-> <<[kind |-> "push", action |-> "created"] @@ told>>],
       [hook |-> Hook("d8", "star", "", [actor |-> "octocat"]), want |-> <<>>],
       [hook |-> Hook("d9", "comment", "created", [repo |-> "nobody/knows", text |-> At("start", "end")] @@ by),
        want |-> <<>>]>>

BadDelivery == [Delivery(Hook("d-bad", "comment", "", [actor |-> "octocat", number |-> "1"])) EXCEPT !.signed = FALSE]

(* A fixture is parsed twice; the rest of a fixture is all an error skips. *)
Parsed(fixture) ==
  LET q == Call("webhook", Delivery(fixture.hook))
  IN  <<[As("first", noLeak(Needs(q, <<"events", fixture.want>>))) EXCEPT !.skip = 1],
        [Needs(q, <<"ids">>) EXCEPT !.skip = 0]>>

----------------------------------------------------------------------------
MissingCR == 999
Stale == 998
Nobody == "no-such-identity"

testDescribe == <<Wants(Call("describe", <<>>), <<"honest">>)>>

testSetup ==
  <<As("step", Needs(Call("begin_setup", <<"shared", "fake">>), Anything)),
    mustCode(Call("begin_setup", <<"shared", "unknown">>), {"validation"})>>
  \o If(~full, <<mustCode(Call("begin_setup", <<"agent", "fake">>), {"unsupported"})>>)
  \o <<noLeak(Needs(Call("complete_setup", <<Said("step"), "token">>), Is(Identity))),
       mustCode(Call("complete_setup", <<"", "">>), {"validation", "invalid_signature", "forbidden"})>>

testRepositories ==
  <<Needs(Call("list_repositories", <<Identity>>), Anything),
    Walk("repositories"),
    mustCode(Call("list_repositories", <<Nobody>>), {"forbidden", "not_found"}),
    Needs(Call("resolve_repository", <<{Identity}>>), Is(Repo)),
    mustCode(Call("resolve_repository", <<{}>>), {"forbidden", "not_found"}),
    mustCode(Elsewhere("resolve_repository", <<{Identity}>>), {"forbidden", "not_found"})>>

testWebhooks ==
  <<mustCode(Call("webhook", BadDelivery), {"invalid_signature"})>>
  \o FlattenSeq([i \in DOMAIN WebhookCases |-> Parsed(WebhookCases[i])])

(* Only ephemeral credentials have to expire.                              *)
testCredentials ==
  LET minted == IF full THEN Is("expires") ELSE Anything
  IN  <<Needs(Call("mint", <<"read">>), minted), Needs(Call("mint", <<"write">>), minted),
        mustCode(Call("mint", <<"admin">>), {"validation"}),
        mustCode(Elsewhere("mint", <<"read">>), {"not_found", "forbidden"})>>

testPolicyInputs ==
  <<Needs(Call("get_actor_permission", <<"octocat">>), Is("write")),
    Needs(Call("get_actor_permission", <<"reader">>), Is("read")),
    Needs(Call("get_actor_permission", <<"owner">>), Is("admin")),
    Wants(Call("get_actor_permission", <<"nobody">>), Is("none")),
    Wants(Call("get_branch_protection", <<BaseBranch>>), Anything)>>

testReads ==
  LET some == CHOOSE f \in Files : TRUE
      Diff(path, max) == Call("get_diff", <<SeedNumber, path, max>>)
      Logs(check, max) == Call("get_check_logs", <<check, max>>)
      File(path, max) == Call("get_file", <<path, max>>)
  IN  <<Needs(Call("get_change_request", <<SeedNumber>>), Anything),
        mustCode(Call("get_change_request", <<MissingCR>>), {"not_found"}),
        Walk("files"),
        As("full", NeedsAll(Diff(AllFiles, 0), <<"text">>)),
        Wants(Diff(some, 0), <<"part">>),
        mustCode(Diff("no file", 0), {"not_found"})>>
      \o If(Len(SaidText("full")) > LongDiff, <<Needs(Diff(AllFiles, DiffBytes), <<"head">>)>>)
      \o <<Needs(Call("list_threads", <<SeedNumber>>), Anything),
           Wants(Call("get_issue", <<Issue>>), Anything),
           mustCode(Call("get_issue", <<MissingCR>>), {"not_found"}),
           Wants(Call("list_comments", <<SeedNumber>>), Anything),
           Needs(Call("get_checks", <<SeedSHA>>), Anything),
           As("logs", Wants(Logs(Check, 0), <<"text">>)),
           Wants(Logs(Check, TailBytes), <<"tail">>),
           mustCode(Logs("no check", 0), {"not_found"}),
           mustCode(Elsewhere("get_change_request", <<SeedNumber>>), {"not_found", "forbidden"})>>
      \o If(Declared("issue_list"),
            <<Walk("issues"), mustCode(Elsewhere("list_issues", <<>>), {"not_found", "forbidden"})>>)
      \o If(Declared("file_read"),
            <<As("file", Wants(File(some, 0), <<"text">>)), mustCode(File("no file", 0), {"not_found"})>>
            \o If(Len(SaidText("file")) > FileBytes, <<Wants(File(some, FileBytes), <<"bytes">>)>>))
      \o If(Declared("code_search"), <<Wants(Call("search_code", <<"package main">>), Anything)>>)

testDescribeIdentity ==
  If(Declared("identity_description"),
     <<As("id", noLeak(Needs(Call("describe_identity", <<Identity, "">>), Is(IdentityHandle)))),
       Wants(Call("describe_identity", <<Identity, Said("id")>>), Same("id")),
       mustCode(Call("describe_identity", <<Nobody, "">>), {"not_found", "forbidden", "validation"})>>)

testAccessGrants ==
  LET complete(state) == Call("complete_grant", <<state>>)
  IN  If(Declared("access_grants"),
         <<As("state", noLeak(Needs(Call("begin_grant", <<Identity>>), Anything))),
           mustCode(Call("begin_grant", <<Nobody>>), {"not_found", "forbidden", "validation"}),
           mustCode(complete(0), {"validation", "forbidden"}),
           mustCode(complete(MissingCR), {"forbidden", "not_found", "validation"}),
           noLeak(Needs(complete(Said("state")), Anything)),
           mustCode(complete(Said("state")), {"forbidden", "not_found", "validation"})>>)

(* A missing title is a missing head.                                      *)
testOpen ==
  LET twice == Keyed("open", <<"idem-branch", FALSE>>, "k1")
  IN  <<As("cr", Needs(Call("open", <<"feat/new", FALSE>>), Anything)),
        mustCode(Call("open", <<"feat/new", FALSE>>), {"conflict", "validation"}),
        mustCode(Call("open", <<NoBranch, FALSE>>), {"validation"})>>
      \o If(full, <<Wants(Call("open", <<"draft-branch", TRUE>>), Anything),
                    As("a", Wants(twice, Anything)), Wants(twice, Same("a"))>>)
      \o <<Wants(Call("update", <<Said("cr"), "leave", "leave">>), Same("cr")),
           mustCode(Call("update", <<Said("cr"), "leave", "merged">>), {"validation"})>>

testComments ==
  LET twice == Keyed("comment", <<SeedNumber, FALSE>>, "c1")
  IN  <<NeedsAll(Call("comment", <<SeedNumber, FALSE>>), Anything),
        mustCode(Call("comment", <<SeedNumber, TRUE>>), {"validation"}),
        mustCode(Call("comment", <<MissingCR, FALSE>>), {"not_found"})>>
      \o If(full, <<As("a", Wants(twice, Anything)), Wants(twice, Same("a"))>>)
      \o <<Wants(Call("reply", <<SeedNumber, Thread>>), Anything),
           mustCode(Call("reply", <<SeedNumber, "no thread">>), {"not_found"})>>

testReview ==
  <<Needs(Call("review", <<SeedNumber, "inline">>), Anything),
    mustCode(Call("review", <<SeedNumber, "unknown">>), {"validation"}),
    mustCode(Call("review", <<SeedNumber, "offDiff">>), {"validation"}),
    mustCode(Call("review", <<MissingCR, "summary">>), {"not_found"})>>

testStatus ==
  <<As("ref", NeedsAll(Call("set_status", <<0, "queued">>), Anything)),
    Wants(Call("set_status", <<Said("ref"), "success">>), Anything)>>

testResolveThread ==
  <<Needs(Call("resolve_thread", <<SeedNumber, Thread>>), Anything),
    Needs(Call("list_threads", <<SeedNumber>>), Is(TRUE)),
    mustCode(Call("resolve_thread", <<SeedNumber, "no thread">>), {"not_found"})>>

(* Of the four bad names one is enough: validBranchName is BadBranch.      *)
testBranches ==
  LET create(name, from) == Call("branch", <<name, from>>)
      twice == Keyed("branch", <<"idem-branch", NoBranch>>, "b1")
  IN  <<As("base", NeedsAll(Call("get_branch", <<BaseBranch>>), Anything)),
        mustCode(Call("get_branch", <<"no branch">>), {"not_found"}),
        mustCode(Call("get_branch", <<NoBranch>>), {"validation"}),
        As("made", NeedsAll(create("paca", NoBranch), Same("base"))),
        Wants(Call("get_branch", <<"paca">>), Same("made")),
        mustCode(create("paca", NoBranch), {"conflict"}),
        mustCode(create("from-missing", "no branch"), {"not_found"}),
        mustCode(create(BadBranch, NoBranch), {"validation"})>>
      \o If(full, <<As("a", Wants(twice, Anything)), Wants(twice, Same("a"))>>)

testLabels ==
  <<Wants(Call("add_labels", <<SeedNumber>>), Anything),
    Wants(Call("get_change_request", <<SeedNumber>>), Shows("labelled", TRUE))>>

testMerge ==
  LET merge(sha) == Call("merge", <<SeedNumber, sha>>)
      sha == IF "cr" \in DOMAIN log THEN Said("cr").sha ELSE NoSHA
  IN  <<As("cr", Needs(Call("get_change_request", <<SeedNumber>>), Anything)),
        mustCode(merge(NoSHA), {"validation"}),
        mustCode(merge(Stale), {"conflict"}),
        Needs(merge(sha), Anything),
        Wants(Call("get_change_request", <<SeedNumber>>), Shows("state", "merged"))>>

testReact ==
  <<Wants(Call("react", <<"eyes">>), Anything), mustCode(Call("react", <<"no emoji">>), {"validation"})>>

----------------------------------------------------------------------------
(* Run: the subtests in order.                                             *)
Tests ==
  <<"describe", "setup", "repositories", "webhooks", "credentials", "policy-inputs", "reads",
    "access-grants", "describe-identity", "open-change-request", "comments", "review", "status",
    "resolve-thread", "branches", "labels", "reviewers", "assignees", "merge", "rerun-checks",
    "react", "delete-identity">>

Ended == test > Len(Tests)

Script ==
  LET name == Tests[test]
  IN  CASE name = "describe" -> testDescribe
        [] name = "setup" -> testSetup
        [] name = "repositories" -> testRepositories
        [] name = "webhooks" -> testWebhooks
        [] name = "credentials" -> testCredentials
        [] name = "policy-inputs" -> testPolicyInputs
        [] name = "reads" -> testReads
        [] name = "access-grants" -> testAccessGrants
        [] name = "describe-identity" -> testDescribeIdentity
        [] name = "open-change-request" -> testOpen
        [] name = "comments" -> testComments
        [] name = "review" -> testReview
        [] name = "status" -> testStatus
        [] name = "resolve-thread" -> If(Declared("resolve_threads"), testResolveThread)
        [] name = "branches" -> If(Declared("branches"), testBranches)
        [] name = "labels" -> If(Declared("labels"), testLabels)
        [] name = "reviewers" -> If(Declared("reviewer_requests"),
                                    <<Wants(Call("request_reviewers", <<SeedNumber>>), Anything)>>)
        [] name = "assignees" -> If(Declared("assignees"), <<Wants(Call("set_assignees", <<Issue>>), Anything)>>)
        [] name = "merge" -> If(Declared("merge"), testMerge)
        [] name = "rerun-checks" -> If(Declared("rerun_checks"), <<Wants(Call("rerun_checks", <<SeedSHA>>), Anything)>>)
        [] name = "react" -> If(Declared("reactions"), testReact)
        [] name = "delete-identity" -> If(Declared("identity_deletion"), <<Wants(Call("delete_identity", <<>>), Anything)>>)

Init ==
  /\ defect \in {"none", "anyPages"} \cup Mutants
  /\ test = 1 /\ pos = 1 /\ log = <<>> /\ failed = {}
  /\ ProviderSeeded /\ PagingInit
  /\ text \in Texts
  /\ defect # "none" => full

Report(wrong) == failed' = IF wrong THEN failed \cup {Tests[test]} ELSE failed

(* The kit makes the next call and looks at the answer.                    *)
Ask ==
  /\ ~Ended /\ pos <= Len(Script) /\ Script[pos].q.op # "walk"
  /\ LET step == Script[pos]
         a == Spoilt(step.q, answer')
         wrong == Wrong(step, a)
     IN  /\ Serve(Altered(step.q))
         /\ log' = IF step.as = "" THEN log ELSE (step.as :> a) @@ log
         /\ Report(wrong # {})
         /\ pos' = pos + 1 + IF wrong \cap step.fatal # {} THEN step.skip ELSE 0
  /\ UNCHANGED <<defect, test, paging>>

BeginWalk ==
  /\ ~Ended /\ pos <= Len(Script) /\ Script[pos].q.op = "walk"
  /\ StartWalk(Script[pos].q.arg)
  /\ UNCHANGED <<kit, provider, answer, reads, handed>>

(* The kit reads a page of the walk.                                       *)
Page(page, next) ==
  /\ Visit(page, next)
  /\ Report(Fatal(page, next) \/ Repeats(page) \/ (Over(next) /\ ~Complete(visited \o page)))
  /\ pos' = pos + IF Fatal(page, next) THEN All ELSE IF Over(next) THEN 1 ELSE 0
  /\ UNCHANGED <<defect, test, log, provider, answer, reads, handed>>

(* Pages at will list one item over and over, up to MaxItems times.        *)
TurnPage ==
  \/ defect = "anyPages" /\ \E next \in 0..(MaxPages + 1) :
       Page(<<>>, next) \/ (Len(visited) < MaxItems /\ Page(<<1>>, next))
  \/ defect = "emptyIssueList" /\ walk = "issues" /\ Page(<<>>, 0)
  \/ /\ defect # "anyPages" /\ ~(defect = "emptyIssueList" /\ walk = "issues")
     /\ Page(Items(cursor), NextCursor(cursor))

NextTest ==
  /\ ~Ended /\ pos > Len(Script) /\ walk = "none"
  /\ test' = test + 1 /\ pos' = 1 /\ log' = <<>>
  /\ Fresh(text)
  /\ UNCHANGED <<defect, failed, full, paging>>

Next == Ask \/ BeginWalk \/ TurnPage \/ NextTest

(* The suite is one sequential program: it runs on.                        *)
Spec == Init /\ [][Next]_vars /\ WF_vars(Next)
----------------------------------------------------------------------------
(* The reference provider, Full and Minimal, passes every subtest, with    *)
(* any text in its diffs and any number of items in its lists              *)
(* (TestFull_Conformance and TestMinimal_Conformance, on one seed).        *)
ReferencePasses == defect = "none" => failed = {}

(* The diff is long enough for the kit to ask for a part of it.            *)
DiffIsCut == Len(Patch(AllFiles)) > LongDiff

(* "confirm every TestMutant_* reports FAIL": the kit fails each defective *)
(* provider, but that it misses silent truncation with a short diff.       *)
DefectsAreCaught ==
  Ended /\ defect \in Mutants => failed # {} \/ (defect = "silentTrunc" /\ ~DiffIsCut)

(* The suite ends with every provider, whatever its pages say (the bound   *)
(* of the for loops and the cursors an issue walk remembers).              *)
SuiteEnds == <>Ended
=============================================================================
