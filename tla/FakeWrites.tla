----------------------------- MODULE FakeWrites -----------------------------
(***************************************************************************)
(* The write operations of the reference git provider (fakeprovider/       *)
(* fake.go and variants.go): change requests, comments, replies, reviews   *)
(* and branches.  Every method holds Core.mu from its first check to its   *)
(* answer, so a call is one step; RetriedWrites composes the operations    *)
(* with callers that time out and repeat them.                             *)
(*                                                                         *)
(* Titles, bodies, labels and reviewers are left out: no decision depends  *)
(* on them beyond the request being complete.  Unknown repositories and    *)
(* identities are refused before anything else and are left out too.       *)
(***************************************************************************)
EXTENDS Integers, Sequences, Functions, GoMaps

CONSTANTS
  Repos,                \* Core.repos
  SeedHead, BaseBranch, \* the two branches every repository starts with
  NewBranches,          \* further branch names a caller may use
  BadBranch, NoBranch,  \* a name git refuses; an empty one
  Keys, NoKey           \* idempotency keys; NoKey is the empty one

ASSUME BranchesAssumption ==
  /\ SeedHead # BaseBranch /\ BadBranch # NoBranch
  /\ {SeedHead, BaseBranch} \cap NewBranches = {}
  /\ {BadBranch, NoBranch} \cap ({SeedHead, BaseBranch} \cup NewBranches) = {}
ASSUME KeysAssumption == NoKey \notin Keys

Branches == {SeedHead, BaseBranch} \cup NewBranches
States == {"open", "closed", "merged"}
Ops == {"open", "comment", "reply", "review", "branch"}  \* those that take a key

VARIABLES
  full,      \* the provider is a Full, with every capability, not a Minimal
  crs,       \* repository -> number -> change request
  nextID,    \* repository -> change requests opened
  posts,     \* comments, thread replies and reviews, as they were posted
  branches,  \* repository -> branch -> sha
  seq,       \* Core.seq
  idem,      \* Core.idem: idempotency key -> the result kept for it
  answer,    \* what this step answered
  done       \* history, for the properties only: operation and key -> the
             \* requests with them that took effect, in order

provider == <<full, crs, nextID, posts, branches, seq, idem, done>>

(* The capabilities New and NewMinimal declare.                            *)
IdempotentWrites == full
DraftChangeRequests == full

(* The head commit of a change request and the shas of the seeded branches *)
(* are numbered after the change request; nothing moves a head.            *)
SeedNumber == 1
SeedSHA == SeedNumber
BaseSHA == 0

SeedCR == [head |-> SeedHead, state |-> "open", draft |-> FALSE, own |-> FALSE, sha |-> SeedSHA]

NoAnswer == [op |-> "none", repo |-> "none", arg |-> <<>>, key |-> NoKey,
             code |-> "none", result |-> 0]

(* The seed data in the variables of that order.                           *)
Seeded(c, n, p, b, q, i, a, d) ==
  /\ c = [r \in Repos |-> [number \in {SeedNumber} |-> SeedCR]]
  /\ n = [r \in Repos |-> 0]
  /\ p = <<>>
  /\ b = [r \in Repos |-> [branch \in {BaseBranch, SeedHead} |->
                        IF branch = BaseBranch THEN BaseSHA ELSE SeedSHA]]
  /\ q = 0
  /\ i = <<>> /\ a = NoAnswer
  /\ d = [ok \in Ops \X Keys |-> <<>>]

ProviderInit ==
  /\ full \in BOOLEAN
  /\ Seeded(crs, nextID, posts, branches, seq, idem, answer, done)

----------------------------------------------------------------------------
(* Mutation: the operation is not part of the key.                         *)
BareKey(op, key) == <<"any", key>>

(* idemKey: results are kept per operation and key.                        *)
idemKey(op, key) == <<op, key>>

(* Mutation: a kept result is not looked up.                               *)
NeverKept(op, key) == FALSE

(* Whether once answers from idem instead of running the operation.        *)
Kept(op, key) ==
  IdempotentWrites /\ key # NoKey /\ idemKey(op, key) \in DOMAIN idem

Answer(op, r, arg, key, code, result) ==
  answer' = [op |-> op, repo |-> r, arg |-> arg, key |-> key, code |-> code, result |-> result]

(* Mutation: a conflict waits for what it collides with to go away.        *)
HoldsConflicts(op, r, arg, key, code) ==
  /\ code # "conflict"
  /\ Answer(op, r, arg, key, code, 0)
  /\ UNCHANGED provider

(* An error changes nothing, and once does not keep it.                    *)
Refuse(op, r, arg, key, code) ==
  /\ Answer(op, r, arg, key, code, 0)
  /\ UNCHANGED provider

(* once finds the key: the operation does not run.                         *)
Replay(op, r, arg, key) ==
  /\ Kept(op, key)
  /\ Answer(op, r, arg, key, "ok", idem[idemKey(op, key)])
  /\ UNCHANGED provider

(* once has run the operation, and keeps its result.                       *)
Keep(op, r, arg, key, result) ==
  /\ ~Kept(op, key)
  /\ Answer(op, r, arg, key, "ok", result)
  /\ idem' = IF key # NoKey /\ IdempotentWrites
               THEN MapSet(idem, idemKey(op, key), result) ELSE idem
  /\ done' = IF key = NoKey THEN done
             ELSE [done EXCEPT ![<<op, key>>] =
                     Append(@, [repo |-> r, arg |-> arg, result |-> result])]

(* Core.next: a fresh id for what is posted in repository r.               *)
Post(op, r) ==
  /\ seq' = seq + 1
  /\ posts' = Append(posts, [op |-> op, repo |-> r, id |-> seq + 1])
  /\ UNCHANGED <<full, crs, nextID, branches>>

----------------------------------------------------------------------------
OpenOn(r, head) == {n \in DOMAIN crs[r] : crs[r][n].head = head /\ crs[r][n].state = "open"}

(* Numbers start at 101 in each repository.                                *)
NewNumber(r) == 101 + nextID[r]

(* The change request an open adds.                                        *)
Opened(r, head, draft) ==
  [head |-> head, state |-> "open", draft |-> draft, own |-> TRUE, sha |-> NewNumber(r)]

DoOpen(r, head, draft) ==
  /\ nextID' = [nextID EXCEPT ![r] = @ + 1]
  /\ crs' = [crs EXCEPT ![r] = MapSet(@, NewNumber(r), Opened(r, head, draft))]
  /\ UNCHANGED <<full, posts, branches, seq>>

(* Checked before once; the title counts with the head.                    *)
Malformed(head, draft) == head = NoBranch \/ (draft /\ ~DraftChangeRequests)

(* Mutation: the conflict is looked for before the key.                    *)
ConflictFirst(r, head, draft, key) ==
  LET arg == <<head, draft>>
  IN  \/ Malformed(head, draft) /\ Refuse("open", r, arg, key, "validation")
      \/ /\ ~Malformed(head, draft)
         /\ \/ OpenOn(r, head) # {} /\ Refuse("open", r, arg, key, "conflict")
            \/ OpenOn(r, head) = {} /\ Replay("open", r, arg, key)
            \/ /\ OpenOn(r, head) = {}
               /\ DoOpen(r, head, draft)
               /\ Keep("open", r, arg, key, NewNumber(r))

OpenChangeRequest(r, head, draft, key) ==
  LET arg == <<head, draft>>
  IN  \/ Malformed(head, draft) /\ Refuse("open", r, arg, key, "validation")
      \/ /\ ~Malformed(head, draft)
         /\ \/ Replay("open", r, arg, key)
            \/ /\ ~Kept("open", key) /\ OpenOn(r, head) # {}
               /\ Refuse("open", r, arg, key, "conflict")
            \/ /\ OpenOn(r, head) = {}
               /\ DoOpen(r, head, draft)
               /\ Keep("open", r, arg, key, NewNumber(r))

(* Draft is set before State is checked, so that a refused state still     *)
(* changes it.  "leave" is a nil field.                                    *)
UpdateChangeRequest(r, n, draft, state) ==
  LET arg == <<n, draft, state>>
  IN  \/ n \notin DOMAIN crs[r] /\ Refuse("update", r, arg, NoKey, "not_found")
      \/ /\ n \in DOMAIN crs[r]
         /\ crs' = [crs EXCEPT
              ![r][n].draft = IF draft = "leave" THEN @ ELSE draft = "draft",
              ![r][n].state = IF state \in {"open", "closed"} THEN state ELSE @]
         /\ Answer("update", r, arg, NoKey,
                   IF state \in {"leave", "open", "closed"} THEN "ok" ELSE "validation", n)
         /\ UNCHANGED <<full, nextID, posts, branches, seq, idem, done>>

NoSHA == -1

(* Why a merge is refused.                                                 *)
MergeRefused(r, n, expected) ==
  IF n \notin DOMAIN crs[r] THEN "not_found" ELSE IF expected = NoSHA THEN "validation"
  ELSE IF crs[r][n].sha # expected \/ crs[r][n].state # "open" THEN "conflict" ELSE "no"

MergeChangeRequest(r, n, expected) ==
  LET refused == MergeRefused(r, n, expected)
  IN  \/ full /\ refused # "no" /\ Refuse("merge", r, <<n, expected>>, NoKey, refused)
      \/ /\ full /\ refused = "no"
         /\ crs' = [crs EXCEPT ![r][n].state = "merged"]
         /\ Answer("merge", r, <<n, expected>>, NoKey, "ok", n)
         /\ UNCHANGED <<full, nextID, posts, branches, seq, idem, done>>

(* An operation that posts something: refused, replayed or done.           *)
Posting(op, r, arg, key, refused) ==
  \/ refused # "no" /\ Refuse(op, r, arg, key, refused)
  \/ refused = "no" /\ Replay(op, r, arg, key)
  \/ refused = "no" /\ Post(op, r) /\ Keep(op, r, arg, key, seq + 1)

(* The subject is a change request or, as 7, the seeded issue.             *)
Issue == 7
Comment(r, n, blank, key) ==
  Posting("comment", r, <<n, blank>>, key,
    IF blank THEN "validation" ELSE IF n \notin DOMAIN crs[r] \cup {Issue} THEN "not_found" ELSE "no")

(* Only the seeded change request has a thread.                            *)
Thread == "thr-1"
ReplyThread(r, n, thread, key) ==
  Posting("reply", r, <<n, thread>>, key,
    IF n # SeedNumber \/ thread # Thread THEN "not_found" ELSE "no")

(* A review approves, requests changes and says nothing, has inline        *)
(* comments on the diff or off it, has only a summary, or has a verdict    *)
(* nobody knows; a change request opened here has no diff.                 *)
SubmitReview(r, n, kind, key) ==
  Posting("review", r, <<n, kind>>, key,
    IF n \notin DOMAIN crs[r] THEN "not_found"
    ELSE IF kind = "approve" /\ crs[r][n].own THEN "conflict"
    ELSE IF kind \in {"unknown", "mute", "offDiff"} \/ (kind = "inline" /\ crs[r][n].own)
      THEN "validation" ELSE "no")

(* Why creating a branch is refused, once the key is not kept.             *)
BranchRefused(r, name, from) ==
  IF from \notin DOMAIN branches[r] \cup {NoBranch} THEN "not_found"
  ELSE IF name \in DOMAIN branches[r] THEN "conflict" ELSE "no"

CreateBranch(r, name, from, key) ==
  LET arg == <<name, from>>
      refused == BranchRefused(r, name, from)
      sha == branches[r][IF from = NoBranch THEN BaseBranch ELSE from]
  IN  \/ full /\ name = BadBranch /\ Refuse("branch", r, arg, key, "validation")
      \/ full /\ name # BadBranch /\ Replay("branch", r, arg, key)
      \/ /\ full /\ name # BadBranch /\ ~Kept("branch", key) /\ refused # "no"
         /\ Refuse("branch", r, arg, key, refused)
      \/ /\ full /\ name # BadBranch /\ refused = "no"
         /\ branches' = [branches EXCEPT ![r] = MapSet(@, name, sha)]
         /\ UNCHANGED <<full, crs, nextID, posts, seq>>
         /\ Keep("branch", r, arg, key, sha)

(* The provider runs request q; what it does not implement is unsupported. *)
Perform(q) ==
  \/ q.op = "open" /\ OpenChangeRequest(q.repo, q.arg[1], q.arg[2], q.key)
  \/ q.op = "update" /\ UpdateChangeRequest(q.repo, q.arg[1], q.arg[2], q.arg[3])
  \/ q.op = "merge" /\ MergeChangeRequest(q.repo, q.arg[1], q.arg[2])
  \/ q.op = "comment" /\ Comment(q.repo, q.arg[1], q.arg[2], q.key)
  \/ q.op = "reply" /\ ReplyThread(q.repo, q.arg[1], q.arg[2], q.key)
  \/ q.op = "review" /\ SubmitReview(q.repo, q.arg[1], q.arg[2], q.key)
  \/ q.op = "branch" /\ CreateBranch(q.repo, q.arg[1], q.arg[2], q.key)
  \/ q.op \in {"branch", "merge"} /\ ~full /\ Refuse(q.op, q.repo, q.arg, q.key, "unsupported")
=============================================================================
