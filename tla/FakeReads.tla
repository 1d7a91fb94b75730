----------------------------- MODULE FakeReads ------------------------------
(***************************************************************************)
(* What the reference git provider (fakeprovider/fake.go, variants.go)     *)
(* answers when it is read, after the writes of FakeWrites: its single     *)
(* objects, and the texts it cuts to a size; and the optional writes that  *)
(* only mark what is already there.  Paging has its lists in pages,        *)
(* FakeLists the lists it copies.                                          *)
(*                                                                         *)
(* A text is the sequence of its bytes; a byte is its place in its rune    *)
(* and the length of that rune.  Diff, log and file content are one text:  *)
(* no decision depends on what they say.                                   *)
(***************************************************************************)
EXTENDS FakeWrites, Webhooks, SequencesExt

CONSTANTS Files      \* the files of the seed data

VARIABLES
  text,         \* the patch of each file, the log of a check, a file's content
  marks         \* "resolved", "labelled": what the seeded change request shows

reads == <<text, marks>>

Identity == "paca"
Check == "chk-1"

----------------------------------------------------------------------------
(* utf8.RuneStart, and utf8.ValidString of a part of a valid text.         *)
RuneStart(byte) == byte.nth = 1
ValidString(s) == s = <<>> \/ (RuneStart(s[1]) /\ Last(s).nth = Last(s).of)

(* A text of whole runes.                                                  *)
ValidText(s) ==
  /\ s \in Seq([nth : Nat, of : Nat]) /\ ValidString(s)
  /\ \A i \in DOMAIN s : s[i].nth \in 1..s[i].of
  /\ \A i \in 1..(Len(s) - 1) : s[i + 1].nth = IF s[i].nth = s[i].of THEN 1 ELSE s[i].nth + 1

(* Mutation: the text is cut where the bytes end.                          *)
CutsRunes(s, n) == SubSeq(s, 1, n)

(* n goes back to where a rune starts.                                     *)
cutHead(s, n) ==
  LET back[k \in 0..Len(s)] == IF k > 0 /\ k < Len(s) /\ ~RuneStart(s[k + 1]) THEN back[k - 1] ELSE k
  IN  SubSeq(s, 1, back[n])

(* The start of what is kept goes on to where a rune starts.               *)
cutTail(s, n) ==
  LET on[i \in 0..Len(s)] == IF i < Len(s) /\ ~RuneStart(s[i + 1]) THEN on[i + 1] ELSE i
  IN  SubSeq(s, on[Len(s) - n] + 1, Len(s))

Whole(s) == [text |-> s, truncated |-> FALSE]
Cut(s) == [text |-> s, truncated |-> TRUE]
TooLong(s, max) == max > 0 /\ Len(s) > max

(* The patches of all files, or of the one asked for.                      *)
AllFiles == "all"
Patch(path) == IF path = AllFiles THEN text \o text ELSE text

----------------------------------------------------------------------------
Found(result) == [code |-> "ok", result |-> result]
Failed(code) == [code |-> code, result |-> 0]

GetChangeRequest(r, n) ==
  IF n \notin DOMAIN crs[r] THEN Failed("not_found")
  ELSE Found([state |-> crs[r][n].state, sha |-> crs[r][n].sha, labelled |-> "labelled" \in marks])

GetDiff(r, n, path, max) ==
  IF n \notin DOMAIN crs[r] \/ path \notin Files \cup {AllFiles} THEN Failed("not_found")
  ELSE IF TooLong(Patch(path), max) THEN Found(Cut(cutHead(Patch(path), max)))
  ELSE Found(Whole(Patch(path)))

GetCheckLogs(check, max) ==
  IF check # Check THEN Failed("not_found")
  ELSE IF TooLong(text, max) THEN Found(Cut(cutTail(text, max))) ELSE Found(Whole(text))

(* Content is bytes: it is cut anywhere.                                   *)
GetFile(path, max) ==
  IF path \notin Files THEN Failed("not_found")
  ELSE IF TooLong(text, max) THEN Found(Cut(SubSeq(text, 1, max))) ELSE Found(Whole(text))

GetBranch(r, name) ==
  IF name = NoBranch THEN Failed("validation")
  ELSE IF name \notin DOMAIN branches[r] THEN Failed("not_found") ELSE Found(branches[r][name])

GetActorPermission(login) == Found(IF login \in DOMAIN Permissions THEN Permissions[login] ELSE "none")

(* seedIdentity, whether or not the request carries the handle.            *)
DescribeIdentity(id) == IF id # Identity THEN Failed("not_found") ELSE Found(IdentityHandle)

(* The state of a setup step is not kept: any one completes.               *)
BeginIdentitySetup(scope, host) ==
  IF host # "fake" THEN Failed("validation")
  ELSE IF scope = "agent" /\ ~full THEN Failed("unsupported") ELSE Found(scope)

CompleteIdentitySetup(state, token) ==
  IF state = "" \/ token = "" THEN Failed("validation") ELSE Found(Identity)

ListRepositories(id) == IF id # Identity THEN Failed("forbidden") ELSE Found("repositories")

ResolveRepository(r, candidates) ==
  IF r \notin Repos THEN Failed("not_found")
  ELSE IF Identity \notin candidates THEN Failed("forbidden") ELSE Found(r)

(* Core.repo: everything else is about a repository the identity can see.  *)
NoTarget == {"describe_identity", "begin_setup", "complete_setup", "list_repositories",
             "resolve_repository"}

Read(q) ==
  IF q.op \notin NoTarget /\ q.repo \notin Repos THEN Failed("not_found") ELSE
  CASE q.op = "get_change_request" -> GetChangeRequest(q.repo, q.arg[1])
    [] q.op = "get_diff" -> GetDiff(q.repo, q.arg[1], q.arg[2], q.arg[3])
    [] q.op = "list_threads" ->
         IF q.arg[1] \in DOMAIN crs[q.repo] THEN Found("resolved" \in marks) ELSE Failed("not_found")
    [] q.op = "get_issue" -> IF q.arg[1] = Issue THEN Found("issue") ELSE Failed("not_found")
    [] q.op = "get_check_logs" -> GetCheckLogs(q.arg[1], q.arg[2])
    [] q.op = "get_file" -> GetFile(q.arg[1], q.arg[2])
    [] q.op = "get_branch" -> GetBranch(q.repo, q.arg[1])
    [] q.op = "get_actor_permission" -> GetActorPermission(q.arg[1])
    [] q.op = "describe_identity" -> DescribeIdentity(q.arg[1])
    [] q.op = "begin_setup" -> BeginIdentitySetup(q.arg[1], q.arg[2])
    [] q.op = "complete_setup" -> CompleteIdentitySetup(q.arg[1], q.arg[2])
    [] q.op = "list_repositories" -> ListRepositories(q.arg[1])
    [] q.op = "resolve_repository" -> ResolveRepository(q.repo, q.arg[1])
    [] OTHER -> Found(q.op)  \* ListComments, ListIssues, GetChecks, SearchCode, GetBranchProtection

(* The optional writes that mark a change request, an issue or a check;    *)
(* only the marks are read again.  ResolveThread is asked to resolve.      *)
Marked(q) ==
  LET n == q.arg[1]
      subject == n \in DOMAIN crs[q.repo] \cup {Issue}
  IN  CASE q.op = "resolve_thread" -> IF n = SeedNumber /\ q.arg[2] = Thread THEN Found("resolved") ELSE Failed("not_found")
        [] q.op = "rerun_checks" -> IF n = SeedSHA THEN Found("rerun") ELSE Failed("not_found")
        [] q.op = "react" -> IF n = "eyes" THEN Found("reacted") ELSE Failed("validation")
        [] OTHER ->
             IF ~subject THEN Failed("not_found")
             ELSE IF q.op = "request_reviewers" /\ n = Issue THEN Failed("validation")
             ELSE IF q.op = "add_labels" /\ n = SeedNumber THEN Found("labelled") ELSE Found(q.op)

MarkOps == {"resolve_thread", "add_labels", "react", "request_reviewers", "set_assignees", "rerun_checks"}

PerformMark(q) ==
  /\ marks' = IF Marked(q).code = "ok" THEN marks \cup {Marked(q).result} ELSE marks
  /\ Answer(q.op, q.repo, q.arg, q.key, Marked(q).code, Marked(q).result)
  /\ UNCHANGED <<provider, text>>
----------------------------------------------------------------------------
(* A cut text is the longest beginning (of a diff) or end (of a log) that  *)
(* fits and splits no rune, and says that it was cut exactly when it was:  *)
(* at every place of a rune around the limit (cutHead, cutTail, GetDiff,   *)
(* GetCheckLogs; the seed data, ASCII all of it, reaches none of this).    *)
CutsKeepWhatFits ==
  LET OfDiff(s, k) == SubSeq(s, 1, k)
      OfLog(s, k) == SubSeq(s, Len(s) - k + 1, Len(s))
      Longest(s, max, Part(_, _)) ==
        IF TooLong(s, max)
        THEN \E k \in 0..max : /\ answer.result = Cut(Part(s, k)) /\ ValidString(Part(s, k))
                               /\ \A j \in (k + 1)..max : ~ValidString(Part(s, j))
        ELSE answer.result = Whole(s)
  IN  answer.code = "ok" =>
        /\ answer.op = "get_diff" => Longest(Patch(answer.arg[2]), answer.arg[3], OfDiff)
        /\ answer.op = "get_check_logs" => Longest(text, answer.arg[2], OfLog)
=============================================================================
