------------------------- MODULE FakeProviderProofs -------------------------
(***************************************************************************)
(* The reference provider.  A retried write takes effect once, a retry of  *)
(* one that succeeded is answered with the original result, and what a     *)
(* success names is there and is what was asked for: for any number of     *)
(* callers, repositories, keys, attempts and writes of others, and every   *)
(* schedule of late attempts.  And a diff or a log cut to a size is the    *)
(* longest part that fits, for any text, any size and any requests before. *)
(***************************************************************************)
EXTENDS RetriedWrites, FakeProvider, SequenceTheorems, WellFoundedInduction, TLAPS

Posted == {"comment", "reply", "review"}

(* What a request with or without a key looks like where it is decided.    *)
Fits(q) ==
  /\ q.op \in Ops /\ q.repo \in Repos
  /\ q.op = "comment" => q.arg[2] = FALSE
  /\ q.op = "reply" => q.arg[2] = Thread
  /\ q.op = "review" => q.arg[2] \in {"approve", "inline", "summary"}
  /\ q.op = "branch" => q.arg[1] # BadBranch

(* q gets past the checks that come before the key is looked up.           *)
Passes(q) ==
  /\ q.op = "open" => ~Malformed(q.arg[1], q.arg[2])
  /\ q.op = "comment" => q.arg[1] \in DOMAIN crs[q.repo] \cup {Issue}
  /\ q.op = "reply" => q.arg[1] = SeedNumber
  /\ q.op = "review" =>
       /\ q.arg[1] \in DOMAIN crs[q.repo]
       /\ q.arg[2] \in {"approve", "inline"} => ~crs[q.repo][q.arg[1]].own
  /\ q.op = "branch" => full

(* What result res of q names is there and is what q asked for.            *)
Names(q, res) ==
  /\ q.op = "open" => /\ res \in DOMAIN crs[q.repo] \ {SeedNumber}
                      /\ crs[q.repo][res].head = q.arg[1]
  /\ q.op = "branch" => /\ q.arg[1] \in DOMAIN branches[q.repo]
                        /\ branches[q.repo][q.arg[1]] = res
  /\ q.op \in Posted => [op |-> q.op, repo |-> q.repo, id |-> res] \in Range(posts)

----------------------------------------------------------------------------
(* The inductive invariant.                                                *)

CRFields == {"head", "state", "draft", "own", "sha"}

(* Numbers are given out in order, so that a new one is nobody's.          *)
StoreInv ==
  /\ crs = [r \in Repos |-> crs[r]] /\ branches = [r \in Repos |-> branches[r]]
  /\ nextID \in [Repos -> Nat]
  /\ \A r \in Repos :
       /\ DOMAIN crs[r] \subseteq {SeedNumber} \cup 101..(100 + nextID[r])
       /\ \A n \in DOMAIN crs[r] : DOMAIN crs[r][n] = CRFields
  /\ posts \in Seq([op : Posted, repo : Repos, id : Int]) /\ seq \in Int

(* The answer of a call that took effect is kept, if answers are.          *)
KeyInv ==
  \A op \in Ops, k \in Keys :
    /\ done[<<op, k>>] # <<>> => Len(done[<<op, k>>]) = 1
    /\ full => (<<op, k>> \in DOMAIN idem <=> done[<<op, k>>] # <<>>)
    /\ full /\ done[<<op, k>>] # <<>> => idem[<<op, k>>] = done[<<op, k>>][1].result

(* A call that took effect would pass the checks again, and what it did is *)
(* there; one that cannot be repeated takes effect when it is run.         *)
CallOk(c) ==
  LET q == call[c]
      d == done[<<q.op, q.key>>]
  IN  /\ d # <<>> => Passes(q) /\ Names(q, d[1].result)
      /\ reply[c].code = "ok" => Names(q, reply[c].result)
      /\ ~full => late[c] = 0 /\ (phase[c] \in {"idle", "sent"} => d = <<>>)
CallInv == \A c \in Callers : CallOk(c)

ShapeInv ==
  /\ call \in Calls
  /\ phase = [c \in Callers |-> phase[c]] /\ late = [c \in Callers |-> late[c]]
  /\ reply = [c \in Callers |-> reply[c]]
  /\ done = [ok \in Ops \X Keys |-> done[ok]]

IInv == StoreInv /\ ShapeInv /\ KeyInv /\ CallInv /\ RetryReturnsTheOriginal

----------------------------------------------------------------------------
(* Requests.                                                               *)

(* A caller's request fits and has a key.                                  *)
LEMMA RequestFits ==
  ASSUME NEW q \in Requests
  PROVE  Fits(q) /\ q.key \in Keys /\ q.key # NoKey
<1>1. q.key \in Keys /\ q.repo \in Repos /\ q.op \in Ops
  BY DEF Requests, Of, Ops
<1>2. /\ q.op = "comment" => q.arg[2] = FALSE
      /\ q.op = "reply" => q.arg[2] = Thread
      /\ q.op = "review" => q.arg[2] \in {"approve", "inline", "summary"}
      /\ q.op = "branch" => q.arg[1] \in NewBranches
  BY DEF Requests, Of
<1> QED
  BY <1>1, <1>2, KeysAssumption, BranchesAssumption DEF Fits

(* A request without a key fits, or is an update or a merge.               *)
LEMMA UnkeyedFits ==
  ASSUME NEW q \in Unkeyed
  PROVE  q.key = NoKey /\ q.repo \in Repos /\ (Fits(q) \/ q.op \in {"update", "merge"})
<1> DEFINE updates == (Numbers \X {"leave"} \X {"open", "closed"})
                        \cup (Numbers \X {"draft"} \X {"merged"})
           merges == {<<n, n>> : n \in Numbers}
<1>1. Unkeyed = Of("open", (Branches \ {BaseBranch}) \X {FALSE}, {NoKey})
                \cup Of("update", updates, {NoKey}) \cup Of("merge", merges, {NoKey})
                \cup Of("comment", {Issue} \X {FALSE}, {NoKey})
                \cup Of("branch", NewBranches \X Branches, {NoKey})
  BY Zenon DEF Unkeyed
<1> HIDE DEF updates, merges
<1>2. q.key = NoKey /\ q.repo \in Repos /\ q.op \in {"open", "update", "merge", "comment", "branch"}
  BY <1>1 DEF Of
<1>3. /\ q.op = "comment" => q.arg[2] = FALSE
      /\ q.op = "branch" => q.arg[1] \in NewBranches
  BY <1>1 DEF Of
<1> QED
  BY <1>2, <1>3, BranchesAssumption DEF Fits, Ops

(* Two callers' operations and keys differ.                                *)
LEMMA CallsDiffer ==
  ASSUME call \in Calls
  PROVE  /\ \A c \in Callers : call[c] \in Requests
         /\ \A c, d \in Callers : c # d => <<call[c].op, call[c].key>> # <<call[d].op, call[d].key>>
<1>1. /\ call \in [Callers -> Requests]
      /\ \A c, d \in Callers : c # d /\ call[c].key = call[d].key => call[c].op # call[d].op
  BY CallsAssumption
<1> QED
  BY <1>1

----------------------------------------------------------------------------
(* What a write does to what is stored.                                    *)

(* Nothing that a result names or a check asks for goes away or changes.   *)
Grows ==
  /\ full' = full
  /\ \A r \in Repos : \A n \in DOMAIN crs[r] :
       n \in DOMAIN crs'[r] /\ crs'[r][n].head = crs[r][n].head /\ crs'[r][n].own = crs[r][n].own
  /\ \A r \in Repos : \A b \in DOMAIN branches[r] :
       b \in DOMAIN branches'[r] /\ branches'[r][b] = branches[r][b]
  /\ Range(posts) \subseteq Range(posts')

(* So what passed passes, and what was named is named.                     *)
LEMMA GrowthKeeps ==
  ASSUME Grows, NEW q, Fits(q)
  PROVE  /\ Passes(q) => Passes(q)'
         /\ \A res : Names(q, res) => Names(q, res)'
<1>1. q.repo \in Repos
  BY DEF Fits
<1>2. Passes(q) => Passes(q)'
  BY <1>1 DEF Grows, Passes, Malformed, DraftChangeRequests
<1>3. \A res : Names(q, res) => Names(q, res)'
  BY <1>1 DEF Grows, Names
<1> QED
  BY <1>2, <1>3

(* What a request for q can come to: refused, before the key is looked up  *)
(* or because it is not kept; answered with the result kept; or done.      *)
Outcome(q) ==
  \/ \E arg : \E code \in {"validation", "not_found", "conflict", "unsupported"} :
       Refuse(q.op, q.repo, arg, q.key, code) /\ ~(Passes(q) /\ Kept(q.op, q.key))
  \/ \E arg : Replay(q.op, q.repo, arg, q.key)
  \/ \E arg, res : Keep(q.op, q.repo, arg, q.key, res) /\ Passes(q) /\ Names(q, res)'

(* A refusal and a replay leave everything as it is.                       *)
LEMMA SameStore ==
  ASSUME StoreInv, UNCHANGED provider
  PROVE  StoreInv' /\ Grows
  BY DEF StoreInv, provider, Grows

(* Opening a change request.                                               *)
LEMMA OpenOutcome ==
  ASSUME StoreInv, NEW q, Fits(q), q.op = "open",
         OpenChangeRequest(q.repo, q.arg[1], q.arg[2], q.key)
  PROVE  Outcome(q) /\ StoreInv' /\ Grows
<1> DEFINE r == q.repo
           head == q.arg[1]
           draft == q.arg[2]
           arg == <<head, draft>>
           cr == Opened(r, head, draft)
<1>0. PICK n : n = NewNumber(r)
  OBVIOUS
<1>1. r \in Repos /\ (Passes(q) <=> ~Malformed(head, draft))
  BY DEF Fits, Passes
<1>2. CASE Malformed(head, draft) /\ Refuse("open", r, arg, q.key, "validation")
  BY <1>1, <1>2, SameStore DEF Outcome, Refuse
<1>3. CASE Replay("open", r, arg, q.key)
  BY <1>3, SameStore DEF Outcome, Replay
<1>4. CASE ~Kept("open", q.key) /\ Refuse("open", r, arg, q.key, "conflict")
  BY <1>4, SameStore DEF Outcome, Refuse
<1>5. CASE /\ ~Malformed(head, draft) /\ DoOpen(r, head, draft)
           /\ Keep("open", r, arg, q.key, n)
  <2>1. /\ crs' = [crs EXCEPT ![r] = MapSet(crs[r], n, cr)]
        /\ nextID' = [nextID EXCEPT ![r] = nextID[r] + 1]
        /\ full' = full /\ posts' = posts /\ branches' = branches /\ seq' = seq
    BY <1>0, <1>5 DEF DoOpen
  <2>2. /\ DOMAIN cr = CRFields /\ cr.head = head
        /\ nextID[r] \in Nat /\ n = 101 + nextID[r]
    BY <1>0, <1>1 DEF Opened, CRFields, NewNumber, StoreInv
  <2> HIDE DEF cr
  <2>3. n \notin DOMAIN crs[r] /\ n # SeedNumber
    BY <1>1, <2>2 DEF StoreInv, SeedNumber
  <2>4. /\ \A s \in Repos : s # r => crs'[s] = crs[s]
        /\ DOMAIN crs'[r] = DOMAIN crs[r] \cup {n} /\ crs'[r][n] = cr
        /\ \A m \in DOMAIN crs[r] : crs'[r][m] = crs[r][m]
        /\ crs' = [s \in Repos |-> crs'[s]]
    BY <1>1, <2>1, <2>3 DEF StoreInv, MapSet
  <2>5. StoreInv'
    <3>1. nextID' \in [Repos -> Nat] /\ nextID'[r] = nextID[r] + 1 /\ \A s \in Repos : s # r => nextID'[s] = nextID[s]
      BY <1>1, <2>1, <2>2 DEF StoreInv
    <3>2. ASSUME NEW s \in Repos
          PROVE  /\ DOMAIN crs'[s] \subseteq {SeedNumber} \cup 101..(100 + nextID'[s])
                 /\ \A m \in DOMAIN crs'[s] : DOMAIN crs'[s][m] = CRFields
      <4>1. CASE s = r
        <5>1. /\ \A m \in DOMAIN crs[r] : m = SeedNumber \/ m \in 101..(100 + nextID[r])
              /\ \A m \in DOMAIN crs[r] : DOMAIN crs[r][m] = CRFields
          BY <1>1 DEF StoreInv
        <5>2. nextID'[r] = nextID[r] + 1
          BY <3>1
        <5>3. \A m \in DOMAIN crs'[r] : m = SeedNumber \/ m \in 101..(100 + nextID'[r])
          BY <2>2, <2>4, <5>1, <5>2
        <5>4. \A m \in DOMAIN crs'[r] : DOMAIN crs'[r][m] = CRFields
          BY <2>2, <2>4, <5>1
        <5> QED
          BY <4>1, <5>3, <5>4
      <4>2. CASE s # r
        BY <2>4, <3>1, <4>2 DEF StoreInv
      <4> QED
        BY <4>1, <4>2
    <3> QED
      BY <2>1, <2>4, <3>1, <3>2 DEF StoreInv
  <2>6. Grows
    BY <2>1, <2>4 DEF Grows
  <2>7. Names(q, n)'
    BY <2>2, <2>3, <2>4 DEF Names, Posted
  <2> QED
    BY <1>1, <1>5, <2>5, <2>6, <2>7 DEF Outcome
<1> QED
  BY <1>0, <1>2, <1>3, <1>4, <1>5 DEF OpenChangeRequest

(* Posting a comment, a reply or a review.                                 *)
LEMMA PostingOutcome ==
  ASSUME StoreInv, NEW q, Fits(q), q.op \in Posted, NEW arg,
         NEW refused \in {"no", "validation", "not_found", "conflict"}, Passes(q) => refused = "no",
         refused = "no" => Passes(q), Posting(q.op, q.repo, arg, q.key, refused)
  PROVE  Outcome(q) /\ StoreInv' /\ Grows
<1>1. CASE refused # "no" /\ Refuse(q.op, q.repo, arg, q.key, refused)
  <2>1. refused \in {"validation", "not_found", "conflict", "unsupported"} /\ ~Passes(q)
    BY <1>1
  <2> QED
    BY <1>1, <2>1, SameStore DEF Outcome, Refuse
<1>2. CASE Replay(q.op, q.repo, arg, q.key)
  BY <1>2, SameStore DEF Outcome, Replay
<1>3. CASE refused = "no" /\ Post(q.op, q.repo) /\ Keep(q.op, q.repo, arg, q.key, seq + 1)
  <2>1. PICK res : res = seq + 1
    OBVIOUS
  <2> DEFINE new == [op |-> q.op, repo |-> q.repo, id |-> res]
             S == [op : Posted, repo : Repos, id : Int]
  <2>2. /\ posts' = Append(posts, new) /\ seq' = res /\ res \in Int
        /\ UNCHANGED <<full, crs, nextID, branches>>
    BY <1>3, <2>1 DEF Post, StoreInv
  <2>3. new \in S /\ posts \in Seq(S)
    BY <2>2 DEF Fits, StoreInv
  <2> HIDE DEF new, S
  <2>4. /\ posts' \in Seq(S) /\ Len(posts') = Len(posts) + 1 /\ posts'[Len(posts) + 1] = new
        /\ \A i \in 1..Len(posts) : posts'[i] = posts[i]
    BY <2>2, <2>3, AppendProperties
  <2>5. /\ DOMAIN posts = 1..Len(posts) /\ DOMAIN posts' = 1..(Len(posts) + 1) /\ Len(posts) \in Nat
    BY <2>3, <2>4
  <2>6. Range(posts) \subseteq Range(posts') /\ new \in Range(posts')
    BY <2>4, <2>5 DEF Range
  <2>7. StoreInv' /\ Grows
    BY <2>2, <2>4, <2>6 DEF StoreInv, Grows, S
  <2>8. Names(q, res)'
    BY <2>6 DEF Names, Posted, new
  <2> QED
    BY <1>3, <2>1, <2>7, <2>8 DEF Outcome
<1> QED
  BY <1>1, <1>2, <1>3 DEF Posting

(* Commenting, replying and reviewing.                                     *)
LEMMA PostedOutcome ==
  ASSUME StoreInv, NEW q, Fits(q),
         \/ q.op = "comment" /\ Comment(q.repo, q.arg[1], q.arg[2], q.key)
         \/ q.op = "reply" /\ ReplyThread(q.repo, q.arg[1], q.arg[2], q.key)
         \/ q.op = "review" /\ SubmitReview(q.repo, q.arg[1], q.arg[2], q.key)
  PROVE  Outcome(q) /\ StoreInv' /\ Grows
<1> DEFINE r == q.repo
           n == q.arg[1]
           codes == {"no", "validation", "not_found", "conflict"}
<1>1. CASE q.op = "comment" /\ Comment(r, n, q.arg[2], q.key)
  <2>1. PICK refused : refused = IF n \notin DOMAIN crs[r] \cup {Issue} THEN "not_found" ELSE "no"
    OBVIOUS
  <2>2. Posting(q.op, r, <<n, q.arg[2]>>, q.key, refused)
    BY <1>1, <2>1 DEF Comment, Fits
  <2>3. refused \in codes /\ (Passes(q) <=> refused = "no") /\ q.op \in Posted
    BY <1>1, <2>1 DEF Passes, Posted
  <2> QED
    BY <2>2, <2>3, PostingOutcome
<1>2. CASE q.op = "reply" /\ ReplyThread(r, n, q.arg[2], q.key)
  <2>1. PICK refused : refused = IF n # SeedNumber THEN "not_found" ELSE "no"
    OBVIOUS
  <2>2. Posting(q.op, r, <<n, q.arg[2]>>, q.key, refused)
    BY <1>2, <2>1 DEF ReplyThread, Fits
  <2>3. refused \in codes /\ (Passes(q) <=> refused = "no") /\ q.op \in Posted
    BY <1>2, <2>1 DEF Passes, Posted
  <2> QED
    BY <2>2, <2>3, PostingOutcome
<1>3. CASE q.op = "review" /\ SubmitReview(r, n, q.arg[2], q.key)
  <2> DEFINE kind == q.arg[2]
             own == crs[r][n].own
  <2>1. PICK refused :
          refused = IF n \notin DOMAIN crs[r] THEN "not_found"
                    ELSE IF kind = "approve" /\ own THEN "conflict"
                    ELSE IF kind \in {"unknown", "mute", "offDiff"} \/ (kind = "inline" /\ own)
                      THEN "validation" ELSE "no"
    OBVIOUS
  <2>2. Posting(q.op, r, <<n, q.arg[2]>>, q.key, refused)
    BY <1>3, <2>1 DEF SubmitReview
  <2>3. refused \in codes /\ q.op \in Posted /\ kind \in {"approve", "inline", "summary"}
    BY <1>3, <2>1 DEF Fits, Posted
  <2>4. Passes(q) <=> n \in DOMAIN crs[r] /\ (kind \in {"approve", "inline"} => ~own)
    BY <1>3 DEF Passes
  <2>5. Passes(q) <=> refused = "no"
    BY <2>1, <2>3, <2>4
  <2> QED
    BY <2>2, <2>3, <2>5, PostingOutcome
<1> QED
  BY <1>1, <1>2, <1>3

(* Creating a branch.                                                      *)
LEMMA BranchOutcome ==
  ASSUME StoreInv, NEW q, Fits(q), q.op = "branch",
         CreateBranch(q.repo, q.arg[1], q.arg[2], q.key)
  PROVE  Outcome(q) /\ StoreInv' /\ Grows
<1> DEFINE r == q.repo
           name == q.arg[1]
           from == q.arg[2]
           arg == <<name, from>>
<1>1. PICK refused : refused = BranchRefused(r, name, from)
  OBVIOUS
<1>2. PICK sha : sha = branches[r][IF from = NoBranch THEN BaseBranch ELSE from]
  OBVIOUS
<1>3. r \in Repos /\ name # BadBranch /\ full /\ Passes(q)
  BY DEF Fits, Passes, CreateBranch
<1>4. CASE Replay("branch", r, arg, q.key)
  BY <1>4, SameStore DEF Outcome, Replay
<1>5. CASE ~Kept("branch", q.key) /\ refused # "no" /\ Refuse("branch", r, arg, q.key, refused)
  <2>1. refused \in {"validation", "not_found", "conflict", "unsupported"}
    BY <1>1, <1>5 DEF BranchRefused
  <2> QED
    BY <1>5, <2>1, SameStore DEF Outcome, Refuse
<1>6. CASE /\ refused = "no"
           /\ branches' = [branches EXCEPT ![r] = MapSet(branches[r], name, sha)]
           /\ UNCHANGED <<full, crs, nextID, posts, seq>>
           /\ Keep("branch", r, arg, q.key, sha)
  <2>1. name \notin DOMAIN branches[r]
    BY <1>1, <1>6 DEF BranchRefused
  <2>2. /\ \A s \in Repos : s # r => branches'[s] = branches[s]
        /\ name \in DOMAIN branches'[r] /\ branches'[r][name] = sha
        /\ \A b \in DOMAIN branches[r] : b \in DOMAIN branches'[r] /\ branches'[r][b] = branches[r][b]
        /\ branches' = [s \in Repos |-> branches'[s]]
    BY <1>3, <1>6, <2>1 DEF StoreInv, MapSet
  <2>3. StoreInv'
    BY <1>6, <2>2 DEF StoreInv
  <2>4. Grows
    BY <1>6, <2>2 DEF Grows
  <2>5. Names(q, sha)'
    BY <2>2 DEF Names, Posted
  <2> QED
    BY <1>3, <1>6, <2>3, <2>4, <2>5 DEF Outcome
<1> QED
  BY <1>1, <1>2, <1>3, <1>4, <1>5, <1>6 DEF CreateBranch

(* Any operation that takes a key.                                         *)
LEMMA PerformOutcome ==
  ASSUME StoreInv, NEW q, Fits(q), Perform(q)
  PROVE  Outcome(q) /\ StoreInv' /\ Grows
<1>1. q.op \in Ops
  BY DEF Fits
<1>2. CASE q.op = "open"
  BY <1>2, OpenOutcome DEF Perform
<1>3. CASE q.op \in Posted
  BY <1>3, PostedOutcome DEF Perform, Posted
<1>4. CASE q.op = "branch"
  <2>1. CASE CreateBranch(q.repo, q.arg[1], q.arg[2], q.key)
    BY <1>4, <2>1, BranchOutcome
  <2>2. CASE ~full /\ Refuse(q.op, q.repo, q.arg, q.key, "unsupported")
    BY <1>4, <2>2, SameStore DEF Outcome, Refuse, Passes
  <2> QED
    BY <1>4, <2>1, <2>2 DEF Perform
<1> QED
  BY <1>1, <1>2, <1>3, <1>4 DEF Ops, Posted

(* A change request's draft mark and state are nobody's result.            *)
LEMMA MarkedCR ==
  ASSUME StoreInv, NEW r \in Repos, NEW n \in DOMAIN crs[r], NEW cr,
         DOMAIN cr = CRFields, cr.head = crs[r][n].head, cr.own = crs[r][n].own,
         crs' = [crs EXCEPT ![r] = [crs[r] EXCEPT ![n] = cr]],
         UNCHANGED <<full, nextID, posts, branches, seq>>
  PROVE  StoreInv' /\ Grows
<1>1. /\ \A s \in Repos : s # r => crs'[s] = crs[s]
      /\ DOMAIN crs'[r] = DOMAIN crs[r] /\ crs'[r][n] = cr
      /\ \A m \in DOMAIN crs[r] : m # n => crs'[r][m] = crs[r][m]
      /\ crs' = [s \in Repos |-> crs'[s]]
  BY DEF StoreInv
<1>2. \A s \in Repos : DOMAIN crs'[s] = DOMAIN crs[s]
  BY <1>1
<1>3. \A s \in Repos : \A m \in DOMAIN crs[s] :
        /\ DOMAIN crs'[s][m] = CRFields
        /\ crs'[s][m].head = crs[s][m].head /\ crs'[s][m].own = crs[s][m].own
  BY <1>1 DEF StoreInv
<1> QED
  BY <1>1, <1>2, <1>3 DEF StoreInv, Grows

(* Updating and merging a change request, which take no key.               *)
LEMMA PerformOther ==
  ASSUME StoreInv, NEW q, q.repo \in Repos, q.op \in {"update", "merge"}, q.key = NoKey, Perform(q)
  PROVE  StoreInv' /\ Grows /\ answer'.key = NoKey /\ done' = done /\ idem' = idem
<1> DEFINE r == q.repo
           n == q.arg[1]
<1>1. ASSUME NEW arg, NEW code, Refuse(q.op, r, arg, NoKey, code)
      PROVE  StoreInv' /\ Grows /\ answer'.key = NoKey /\ done' = done /\ idem' = idem
  BY <1>1, SameStore DEF Refuse, Answer, provider
<1>2. CASE q.op = "update"
  <2>1. UpdateChangeRequest(r, n, q.arg[2], q.arg[3])
    BY <1>2 DEF Perform
  <2> DEFINE state == q.arg[3]
             drafted == IF q.arg[2] = "leave" THEN crs[r][n].draft ELSE q.arg[2] = "draft"
             stated == IF state \in {"open", "closed"} THEN state ELSE crs[r][n].state
             cr == [[crs[r][n] EXCEPT !.draft = drafted] EXCEPT !.state = stated]
  <2>2. CASE n \notin DOMAIN crs[r]
    BY <1>1, <1>2, <2>1, <2>2 DEF UpdateChangeRequest
  <2>3. CASE n \in DOMAIN crs[r]
    <3>1. /\ crs' = [crs EXCEPT ![r] = [crs[r] EXCEPT ![n] = cr]]
          /\ UNCHANGED <<full, nextID, posts, branches, seq, idem, done>>
          /\ answer'.key = NoKey
      <4>1. /\ crs' = [crs EXCEPT ![r][n].draft = drafted,
                                  ![r][n].state = IF state \in {"open", "closed"} THEN state ELSE @]
            /\ UNCHANGED <<full, nextID, posts, branches, seq, idem, done>>
            /\ answer'.key = NoKey
        <5>1. /\ crs' = [crs EXCEPT
                           ![r][n].draft = IF q.arg[2] = "leave" THEN @ ELSE q.arg[2] = "draft",
                           ![r][n].state = IF state \in {"open", "closed"} THEN state ELSE @]
              /\ UNCHANGED <<full, nextID, posts, branches, seq, idem, done>>
              /\ \E code : Answer("update", r, <<n, q.arg[2], state>>, NoKey, code, n)
          BY <2>1, <2>3, Zenon DEF UpdateChangeRequest
        <5>2. answer'.key = NoKey
          BY <5>1, SMTT(30) DEF Answer
        <5> QED
          BY <5>1, <5>2, SMTT(30)
      <4> HIDE DEF drafted
      <4>2. DOMAIN crs[r][n] = CRFields /\ crs = [s \in Repos |-> crs[s]]
        BY <2>3 DEF StoreInv
      <4>3. crs' = [crs EXCEPT ![r] = [crs[r] EXCEPT ![n] = cr]]
        BY <2>3, <4>1, <4>2 DEF CRFields
      <4> QED
        BY <4>1, <4>3
    <3>2. DOMAIN crs[r][n] = CRFields
      BY <2>3 DEF StoreInv
    <3> HIDE DEF drafted, stated
    <3>3. DOMAIN cr = CRFields /\ cr.head = crs[r][n].head /\ cr.own = crs[r][n].own
      BY <3>2 DEF CRFields
    <3> HIDE DEF cr
    <3> QED
      BY <2>3, <3>1, <3>3, MarkedCR
  <2> QED
    BY <2>2, <2>3
<1>3. CASE q.op = "merge"
  <2>1. \/ \E arg, code : Refuse("merge", r, arg, NoKey, code)
        \/ MergeChangeRequest(r, n, q.arg[2])
    BY <1>3 DEF Perform
  <2> DEFINE cr == [crs[r][n] EXCEPT !.state = "merged"]
  <2>2. CASE \E arg, code : Refuse("merge", r, arg, NoKey, code)
    BY <1>1, <1>3, <2>2
  <2>3. CASE /\ MergeRefused(r, n, q.arg[2]) = "no"
             /\ crs' = [crs EXCEPT ![r][n].state = "merged"]
             /\ Answer("merge", r, <<n, q.arg[2]>>, NoKey, "ok", n)
             /\ UNCHANGED <<full, nextID, posts, branches, seq, idem, done>>
    <3>1. n \in DOMAIN crs[r]
      BY <2>3 DEF MergeRefused
    <3>2. DOMAIN crs[r][n] = CRFields
      BY <3>1 DEF StoreInv
    <3>3. DOMAIN cr = CRFields /\ cr.head = crs[r][n].head /\ cr.own = crs[r][n].own
      BY <3>2 DEF CRFields
    <3>4. crs' = [crs EXCEPT ![r] = [crs[r] EXCEPT ![n] = cr]]
      BY <2>3, <3>1 DEF StoreInv
    <3>5. answer'.key = NoKey
      BY <2>3 DEF Answer
    <3> HIDE DEF cr
    <3> QED
      BY <2>3, <3>1, <3>3, <3>4, <3>5, MarkedCR
  <2> QED
    BY <2>1, <2>2, <2>3 DEF MergeChangeRequest
<1> QED
  BY <1>2, <1>3

----------------------------------------------------------------------------
(* Steps.                                                                  *)

(* A call whose entry and answer stay, or whose answer is forgotten, is as *)
(* it was.                                                                 *)
LEMMA CallKept ==
  ASSUME IInv, Grows, call' = call, NEW c \in Callers,
         done'[<<call[c].op, call[c].key>>] = done[<<call[c].op, call[c].key>>],
         reply'[c] = reply[c] \/ reply'[c].code # "ok",
         ~full => /\ late'[c] = 0
                  /\ phase'[c] \in {"idle", "sent"} => phase[c] \in {"idle", "sent"}
  PROVE  CallOk(c)'
<1>1. PICK q : q = call[c]
  OBVIOUS
<1>2. call'[c] = q /\ Fits(q)
  BY <1>1, CallsDiffer, RequestFits DEF IInv, ShapeInv
<1>3. CallOk(c)
  BY DEF IInv, CallInv
<1>4. PICK d : d = done[<<q.op, q.key>>]
  OBVIOUS
<1>5. PICK old : old = d[1].result
  OBVIOUS
<1>6. PICK res : res = reply[c].result
  OBVIOUS
<1>7. d # <<>> => Passes(q)' /\ Names(q, old)'
  BY <1>1, <1>2, <1>3, <1>4, <1>5, GrowthKeeps DEF CallOk
<1>8. reply[c].code = "ok" => Names(q, res)'
  BY <1>1, <1>2, <1>3, <1>6, GrowthKeeps DEF CallOk
<1>9. done'[<<q.op, q.key>>] = d /\ (~full => (phase[c] \in {"idle", "sent"} => d = <<>>)) /\ full' = full
  BY <1>1, <1>3, <1>4 DEF CallOk, Grows
<1> QED
  BY <1>1, <1>2, <1>5, <1>6, <1>7, <1>8, <1>9 DEF CallOk

(* A call reaches the provider: once, or answered as it was.               *)
LEMMA CallRuns ==
  ASSUME IInv, call' = call, NEW c \in Callers, NEW q, q = call[c], Perform(q),
         ~full => done[<<q.op, q.key>>] = <<>>
  PROVE  /\ StoreInv' /\ Grows /\ KeyInv' /\ RetryReturnsTheOriginal'
         /\ done' = [ok \in Ops \X Keys |-> done'[ok]]
         /\ \A c2 \in Callers \ {c} :
              done'[<<call[c2].op, call[c2].key>>] = done[<<call[c2].op, call[c2].key>>]
         /\ done'[<<q.op, q.key>>] # <<>> =>
              Passes(q)' /\ \A res : res = done'[<<q.op, q.key>>][1].result => Names(q, res)'
         /\ answer'.code = "ok" => \A res : res = answer'.result => Names(q, res)'
<1>1. Fits(q) /\ q.op \in Ops /\ q.key \in Keys /\ q.key # NoKey
  BY CallsDiffer, RequestFits DEF IInv, ShapeInv, Fits
<1>2. StoreInv' /\ Grows /\ Outcome(q)
  BY <1>1, PerformOutcome DEF IInv
<1>3. /\ done[<<q.op, q.key>>] # <<>> => Len(done[<<q.op, q.key>>]) = 1
      /\ full => (<<q.op, q.key>> \in DOMAIN idem <=> done[<<q.op, q.key>>] # <<>>)
      /\ full /\ done[<<q.op, q.key>>] # <<>> =>
           idem[<<q.op, q.key>>] = done[<<q.op, q.key>>][1].result
  BY <1>1 DEF IInv, KeyInv
<1>4. done[<<q.op, q.key>>] # <<>> =>
        Passes(q) /\ \A res : res = done[<<q.op, q.key>>][1].result => Names(q, res)
  BY DEF IInv, CallInv, CallOk
<1>5. Kept(q.op, q.key) <=> full /\ <<q.op, q.key>> \in DOMAIN idem
  BY <1>1 DEF Kept, IdempotentWrites, idemKey
<1>6. CASE \E arg : \E code \in {"validation", "not_found", "conflict", "unsupported"} :
             Refuse(q.op, q.repo, arg, q.key, code) /\ ~(Passes(q) /\ Kept(q.op, q.key))
  <2>1. /\ UNCHANGED provider /\ answer'.code # "ok"
        /\ answer'.op = q.op /\ answer'.key = q.key
    BY <1>6 DEF Refuse, Answer
  <2>2. done[<<q.op, q.key>>] = <<>>
    BY <1>3, <1>4, <1>5, <1>6
  <2>3. done' = done /\ idem' = idem /\ full' = full
    BY <2>1 DEF provider
  <2> QED
    BY <1>2, <2>1, <2>2, <2>3 DEF IInv, ShapeInv, KeyInv, RetryReturnsTheOriginal
<1>7. CASE \E arg : Replay(q.op, q.repo, arg, q.key)
  <2>1. /\ UNCHANGED provider /\ Kept(q.op, q.key) /\ answer'.code = "ok"
        /\ answer'.result = idem[<<q.op, q.key>>] /\ answer'.op = q.op /\ answer'.key = q.key
    BY <1>7 DEF Replay, Answer, idemKey
  <2>2. done' = done /\ idem' = idem /\ full' = full
    BY <2>1 DEF provider
  <2>3. done[<<q.op, q.key>>] # <<>> /\ answer'.result = done[<<q.op, q.key>>][1].result
    BY <1>3, <1>5, <2>1
  <2>4. Passes(q)' /\ \A res : res = done[<<q.op, q.key>>][1].result => Names(q, res)'
    BY <1>1, <1>2, <1>4, <2>3, GrowthKeeps
  <2> QED
    BY <1>2, <2>1, <2>2, <2>3, <2>4 DEF IInv, ShapeInv, KeyInv, RetryReturnsTheOriginal
<1>8. CASE \E arg, res : Keep(q.op, q.repo, arg, q.key, res) /\ Passes(q) /\ Names(q, res)'
  <2>1. PICK arg, res : Keep(q.op, q.repo, arg, q.key, res) /\ Passes(q) /\ Names(q, res)'
    BY <1>8
  <2> DEFINE new == [repo |-> q.repo, arg |-> arg, result |-> res]
  <2>2. /\ ~Kept(q.op, q.key) /\ answer'.code = "ok" /\ answer'.result = res
        /\ answer'.op = q.op /\ answer'.key = q.key
        /\ full => idem' = MapSet(idem, <<q.op, q.key>>, res)
        /\ done' = [done EXCEPT ![<<q.op, q.key>>] = Append(done[<<q.op, q.key>>], new)]
    BY <1>1, <2>1 DEF Keep, Answer, IdempotentWrites, idemKey
  <2>3. done[<<q.op, q.key>>] = <<>>
    BY <1>3, <1>5, <2>2
  <2>4. /\ Append(<<>>, new) = <<new>> /\ Len(<<new>>) = 1 /\ <<new>>[1] = new /\ <<new>> # <<>>
        /\ new.result = res
    OBVIOUS
  <2> HIDE DEF new
  <2>5. /\ done' = [ok \in Ops \X Keys |-> done'[ok]] /\ done'[<<q.op, q.key>>] = <<new>>
        /\ \A op \in Ops, k \in Keys :
             <<op, k>> # <<q.op, q.key>> => done'[<<op, k>>] = done[<<op, k>>]
    BY <1>1, <2>2, <2>3, <2>4 DEF IInv, ShapeInv
  <2>6. full => /\ idem'[<<q.op, q.key>>] = res
                /\ \A op \in Ops, k \in Keys :
                     /\ <<op, k>> \in DOMAIN idem'
                          <=> <<op, k>> = <<q.op, q.key>> \/ <<op, k>> \in DOMAIN idem
                     /\ <<op, k>> # <<q.op, q.key>> /\ <<op, k>> \in DOMAIN idem =>
                          idem'[<<op, k>>] = idem[<<op, k>>]
    BY <2>2 DEF MapSet
  <2>7. KeyInv'
    <3>1. full' = full
      BY <1>2 DEF Grows
    <3>2. ASSUME NEW op \in Ops, NEW k \in Keys
          PROVE  /\ done'[<<op, k>>] # <<>> => Len(done'[<<op, k>>]) = 1
                 /\ full => (<<op, k>> \in DOMAIN idem' <=> done'[<<op, k>>] # <<>>)
                 /\ full /\ done'[<<op, k>>] # <<>> => idem'[<<op, k>>] = done'[<<op, k>>][1].result
      <4>1. CASE <<op, k>> = <<q.op, q.key>>
        BY <2>4, <2>5, <2>6, <4>1, ZenonT(60)
      <4>2. CASE <<op, k>> # <<q.op, q.key>>
        BY <2>5, <2>6, <4>2 DEF IInv, KeyInv
      <4> QED
        BY <4>1, <4>2
    <3> QED
      BY <3>1, <3>2 DEF KeyInv
  <2>8. RetryReturnsTheOriginal'
    <3>1. done'[<<answer'.op, answer'.key>>] = <<new>>
      BY <2>2, <2>5
    <3>2. answer'.code = "ok" /\ answer'.result = <<new>>[1].result
      BY <2>2, <2>4
    <3> QED
      BY <3>1, <3>2 DEF RetryReturnsTheOriginal
  <2>9. \A c2 \in Callers \ {c} :
          /\ call[c2].op \in Ops /\ call[c2].key \in Keys
          /\ <<call[c2].op, call[c2].key>> # <<q.op, q.key>>
    BY CallsDiffer, RequestFits DEF IInv, ShapeInv, Fits
  <2>10. Passes(q)'
    BY <1>1, <1>2, <2>1, GrowthKeeps
  <2>11. done'[<<q.op, q.key>>][1].result = res /\ Names(q, res)'
    BY <2>1, <2>4, <2>5
  <2>12. /\ \A x : x = done'[<<q.op, q.key>>][1].result => Names(q, x)'
         /\ \A x : x = answer'.result => Names(q, x)'
    BY <2>2, <2>11
  <2>13. \A c2 \in Callers \ {c} :
           done'[<<call[c2].op, call[c2].key>>] = done[<<call[c2].op, call[c2].key>>]
    BY <2>5, <2>9
  <2> QED
    BY <1>2, <2>5, <2>7, <2>8, <2>10, <2>12, <2>13
<1> QED
  BY <1>2, <1>6, <1>7, <1>8 DEF Outcome

(* A step that does not reach the provider changes nothing there.          *)
LEMMA QuietStep ==
  ASSUME IInv, Quiet
  PROVE  /\ StoreInv' /\ Grows /\ KeyInv' /\ RetryReturnsTheOriginal'
         /\ done' = done /\ full' = full
<1>1. UNCHANGED provider /\ answer' = NoAnswer
  BY DEF Quiet
<1>2. answer'.key = NoKey
  BY <1>1 DEF NoAnswer
<1>3. done' = done /\ idem' = idem /\ full' = full
  BY <1>1 DEF provider
<1> QED
  BY <1>1, <1>2, <1>3, SameStore DEF IInv, KeyInv, RetryReturnsTheOriginal

(* Sending, hearing of the outcome and giving up.                          *)
LEMMA CallerSteps ==
  ASSUME IInv, NEW c \in Callers, Send(c) \/ Deliver(c) \/ TimeoutAndRetry(c)
  PROVE  IInv'
<1>1. Quiet /\ call' = call
  BY DEF Send, Deliver, TimeoutAndRetry
<1>2. /\ StoreInv' /\ Grows /\ KeyInv' /\ RetryReturnsTheOriginal'
      /\ done' = done /\ full' = full
  BY <1>1, QuietStep
<1>3. ShapeInv'
  BY <1>1, <1>2 DEF IInv, ShapeInv, Send, Deliver, TimeoutAndRetry
<1>4. ASSUME NEW d \in Callers
      PROVE  CallOk(d)'
  <2>1. /\ phase = [x \in Callers |-> phase[x]] /\ reply = [x \in Callers |-> reply[x]]
        /\ late = [x \in Callers |-> late[x]]
    BY DEF IInv, ShapeInv
  <2>2. ~full => late[d] = 0
    BY DEF IInv, CallInv, CallOk
  <2>3. CASE Send(c)
    <3>1. reply' = reply /\ late' = late /\ phase[c] = "idle" /\ phase' = [phase EXCEPT ![c] = "sent"]
      BY <2>3 DEF Send
    <3> QED
      BY <1>1, <1>2, <2>1, <2>2, <3>1, CallKept
  <2>4. CASE Deliver(c)
    <3>1. reply' = reply /\ late' = late /\ phase' = [phase EXCEPT ![c] = "told"]
      BY <2>4 DEF Deliver
    <3> QED
      BY <1>1, <1>2, <2>1, <2>2, <3>1, CallKept
  <2>5. CASE TimeoutAndRetry(c)
    <3>1. full /\ reply' = [reply EXCEPT ![c] = NoAnswer] /\ NoAnswer.code # "ok"
      BY <2>5 DEF TimeoutAndRetry, IdempotentWrites, NoAnswer
    <3>2. reply'[d] = reply[d] \/ reply'[d].code # "ok"
      BY <2>1, <3>1
    <3> QED
      BY <1>1, <1>2, <3>1, <3>2, CallKept
  <2> QED
    BY <2>3, <2>4, <2>5
<1> QED
  BY <1>2, <1>3, <1>4 DEF IInv, CallInv

(* An attempt that arrives, in time or late.                               *)
LEMMA ArrivalSteps ==
  ASSUME IInv, NEW c \in Callers, Run(c) \/ RunLate(c)
  PROVE  IInv'
<1>1. PICK q : q = call[c]
  OBVIOUS
<1>2. Perform(q) /\ call' = call
  BY <1>1 DEF Run, RunLate
<1>3. /\ phase = [x \in Callers |-> phase[x]] /\ reply = [x \in Callers |-> reply[x]]
      /\ late = [x \in Callers |-> late[x]]
  BY DEF IInv, ShapeInv
<1>4. \A d \in Callers : ~full => late[d] = 0 /\ (phase[d] \in {"idle", "sent"} =>
        done[<<call[d].op, call[d].key>>] = <<>>)
  BY DEF IInv, CallInv, CallOk
<1>5. ~full => Run(c) /\ done[<<q.op, q.key>>] = <<>>
  BY <1>1, <1>4 DEF Run, RunLate
<1>6. /\ StoreInv' /\ Grows /\ KeyInv' /\ RetryReturnsTheOriginal'
      /\ done' = [ok \in Ops \X Keys |-> done'[ok]]
      /\ \A d \in Callers \ {c} :
           done'[<<call[d].op, call[d].key>>] = done[<<call[d].op, call[d].key>>]
      /\ done'[<<q.op, q.key>>] # <<>> =>
           Passes(q)' /\ \A res : res = done'[<<q.op, q.key>>][1].result => Names(q, res)'
      /\ answer'.code = "ok" => \A res : res = answer'.result => Names(q, res)'
  BY <1>1, <1>2, <1>5, CallRuns
<1>7. ShapeInv'
  BY <1>2, <1>3, <1>6 DEF IInv, ShapeInv, Run, RunLate
<1>8. /\ \A d \in Callers \ {c} : reply'[d] = reply[d] /\ phase'[d] = phase[d] /\ late'[d] = late[d]
      /\ reply'[c] = reply[c] \/ reply'[c] = answer'
      /\ ~full => phase'[c] = "answered" /\ late'[c] = late[c]
  BY <1>3, <1>5 DEF Run, RunLate
<1>9. full' = full
  BY <1>6 DEF Grows
<1>10. ASSUME NEW d \in Callers, d # c
       PROVE  CallOk(d)'
  BY <1>2, <1>4, <1>6, <1>8, <1>10, CallKept
<1>11. CallOk(c)'
  <2>1. call'[c] = q
    BY <1>1, <1>2
  <2>2. PICK was : was = done'[<<q.op, q.key>>][1].result
    OBVIOUS
  <2>3. PICK res : res = reply'[c].result
    OBVIOUS
  <2>4. done'[<<q.op, q.key>>] # <<>> => Passes(q)' /\ Names(q, was)'
    BY <1>6, <2>2
  <2>5. reply'[c].code = "ok" => Names(q, res)'
    <3>1. CASE reply'[c] = answer'
      BY <1>6, <2>3, <3>1
    <3>2. CASE reply'[c] = reply[c]
      <4>1. Fits(q)
        BY <1>1, CallsDiffer, RequestFits DEF IInv, ShapeInv
      <4>2. reply[c].code = "ok" => Names(q, res)
        BY <1>1, <2>3, <3>2 DEF IInv, CallInv, CallOk
      <4> QED
        BY <1>6, <3>2, <4>1, <4>2, GrowthKeeps
    <3> QED
      BY <1>8, <3>1, <3>2
  <2>6. ~full' => late'[c] = 0 /\ ~(phase'[c] \in {"idle", "sent"})
    BY <1>4, <1>8, <1>9
  <2> QED
    BY <2>1, <2>2, <2>3, <2>4, <2>5, <2>6 DEF CallOk
<1> QED
  BY <1>6, <1>7, <1>10, <1>11 DEF IInv, CallInv

(* A write without a key by somebody else.                                 *)
LEMMA OtherStep ==
  ASSUME IInv, Other
  PROVE  IInv'
<1>1. PICK q \in Unkeyed : Perform(q)
  BY DEF Other
<1>2. q.key = NoKey /\ q.repo \in Repos /\ (Fits(q) \/ q.op \in {"update", "merge"})
  BY UnkeyedFits
<1>3. StoreInv' /\ Grows /\ answer'.key = NoKey /\ done' = done /\ idem' = idem
  <2>1. CASE Fits(q)
    <3>1. StoreInv' /\ Grows /\ Outcome(q)
      BY <1>1, <2>1, PerformOutcome DEF IInv
    <3>2. answer'.key = NoKey /\ done' = done /\ idem' = idem
      BY <1>2, <3>1 DEF Outcome, Refuse, Replay, Keep, Answer, provider
    <3> QED
      BY <3>1, <3>2
  <2>2. CASE q.op \in {"update", "merge"}
    BY <1>1, <1>2, <2>2, PerformOther DEF IInv
  <2> QED
    BY <1>2, <2>1, <2>2
<1>4. full' = full /\ UNCHANGED <<call, phase, late, reply>>
  BY <1>3 DEF Other, Grows, network
<1>5. KeyInv' /\ RetryReturnsTheOriginal'
  BY <1>3, <1>4 DEF IInv, KeyInv, RetryReturnsTheOriginal
<1>6. ShapeInv'
  BY <1>3, <1>4 DEF IInv, ShapeInv
<1>7. ASSUME NEW d \in Callers
      PROVE  CallOk(d)'
  <2>1. ~full => late[d] = 0
    BY DEF IInv, CallInv, CallOk
  <2> QED
    BY <1>3, <1>4, <2>1, CallKept
<1> QED
  BY <1>3, <1>5, <1>6, <1>7 DEF IInv, CallInv

----------------------------------------------------------------------------
(* The specification.                                                      *)

(* Nothing has been asked for.                                             *)
LEMMA InitStep == Init => IInv
<1> SUFFICES ASSUME Init
             PROVE  IInv
  OBVIOUS
<1>1. /\ crs = [r \in Repos |-> [number \in {SeedNumber} |-> SeedCR]]
      /\ nextID = [r \in Repos |-> 0] /\ posts = <<>> /\ seq = 0
      /\ branches = [r \in Repos |-> [branch \in {BaseBranch, SeedHead} |->
                        IF branch = BaseBranch THEN BaseSHA ELSE SeedSHA]]
      /\ idem = <<>> /\ answer = NoAnswer
      /\ done = [ok \in Ops \X Keys |-> <<>>]
  BY DEF Init, ProviderInit, Seeded
<1>2. StoreInv
  BY <1>1 DEF StoreInv, SeedCR, CRFields
<1>3. /\ call \in Calls /\ phase = [c \in Callers |-> "idle"]
      /\ late = [c \in Callers |-> 0] /\ reply = [c \in Callers |-> NoAnswer]
  BY DEF Init
<1>4. ShapeInv
  BY <1>1, <1>3 DEF ShapeInv
<1>5. \A op \in Ops, k \in Keys : done[<<op, k>>] = <<>>
  BY <1>1
<1>6. KeyInv
  <2>1. \A x \in DOMAIN idem : FALSE
    BY <1>1
  <2> QED
    BY <1>5, <2>1 DEF KeyInv
<1>7. CallInv
  <2>1. \A c \in Callers : call[c].op \in Ops /\ call[c].key \in Keys
    BY <1>3, CallsDiffer, RequestFits DEF Fits
  <2>2. \A c \in Callers : done[<<call[c].op, call[c].key>>] = <<>> /\ late[c] = 0 /\ reply[c].code # "ok"
    BY <1>3, <1>5, <2>1 DEF NoAnswer
  <2> QED
    BY <2>2 DEF CallInv, CallOk
<1>8. RetryReturnsTheOriginal
  BY <1>1 DEF RetryReturnsTheOriginal, NoAnswer
<1> QED
  BY <1>2, <1>4, <1>6, <1>7, <1>8 DEF IInv

(* IInv is kept by every step.                                             *)
LEMMA NextStep == IInv /\ [Next]_vars => IInv'
<1> SUFFICES ASSUME IInv, [Next]_vars
             PROVE  IInv'
  OBVIOUS
<1>1. CASE \E c \in Callers : Send(c) \/ Run(c) \/ Deliver(c) \/ TimeoutAndRetry(c) \/ RunLate(c)
  BY <1>1, CallerSteps, ArrivalSteps
<1>2. CASE Other
  BY <1>2, OtherStep
<1>3. CASE UNCHANGED vars
  <2>1. UNCHANGED <<provider, answer, call, phase, late, reply>>
    BY <1>3 DEF vars, network
  <2>2. StoreInv' /\ Grows
    BY <2>1, SameStore DEF IInv
  <2>3. UNCHANGED <<done, idem, full>>
    BY <2>1 DEF provider
  <2>4. ShapeInv' /\ KeyInv' /\ RetryReturnsTheOriginal'
    BY <2>1, <2>3 DEF IInv, ShapeInv, KeyInv, RetryReturnsTheOriginal
  <2>5. ASSUME NEW d \in Callers
        PROVE  CallOk(d)'
    <3>1. ~full => late[d] = 0
      BY DEF IInv, CallInv, CallOk
    <3> QED
      BY <2>1, <2>2, <2>3, <3>1, CallKept
  <2> QED
    BY <2>2, <2>4, <2>5 DEF IInv, CallInv
<1> QED
  BY <1>1, <1>2, <1>3 DEF Next, Finished

(* IInv holds throughout.                                                  *)
LEMMA Invariance == Spec => []IInv
  BY InitStep, NextStep, PTL DEF Spec

(* once runs an operation at most once per key (fake.go, variants.go):     *)
(* however attempts, late ones included, and other operations with the     *)
(* same key interleave, a call takes effect once.                          *)
THEOREM EffectsHappenOnce == Spec => []OneEffectPerKey
<1>1. IInv => OneEffectPerKey
  <2> SUFFICES ASSUME IInv, NEW ok \in Ops \X Keys
               PROVE  Len(done[ok]) <= 1
    BY DEF OneEffectPerKey
  <2>1. PICK op \in Ops, k \in Keys : ok = <<op, k>>
    OBVIOUS
  <2>2. Len(<<>>) = 0
    OBVIOUS
  <2>3. done[ok] = <<>> \/ Len(done[ok]) = 1
    BY <2>1 DEF IInv, KeyInv
  <2>4. Len(done[ok]) = 0 \/ Len(done[ok]) = 1
    BY <2>2, <2>3, Zenon
  <2>5. 0 <= 1 /\ 1 <= 1
    OBVIOUS
  <2> QED
    BY <2>4, <2>5, Zenon
<1> QED
  BY <1>1, Invariance, PTL

(* A retry of a call that succeeded returns the original result (once, and *)
(* the checks before it), whatever happened to the branch, the change      *)
(* request or other calls with the key in between.                         *)
THEOREM RetriesAreAnsweredAlike == Spec => []RetryReturnsTheOriginal
<1>1. IInv => RetryReturnsTheOriginal
  BY DEF IInv
<1> QED
  BY <1>1, Invariance, PTL

(* What a successful answer names exists in the repository asked for and   *)
(* is what was asked for (idemKey keeps operations apart).                 *)
THEOREM SuccessIsReal == Spec => []SuccessNamesItsEffect
<1>1. IInv => SuccessNamesItsEffect
  <2> SUFFICES ASSUME IInv
               PROVE  SuccessNamesItsEffect
    OBVIOUS
  <2>1. ASSUME NEW c \in Callers, reply[c].code = "ok"
        PROVE  Names(call[c], reply[c].result) /\ call[c].op \in Ops
    BY <2>1, CallsDiffer, RequestFits DEF IInv, ShapeInv, CallInv, CallOk, Fits
  <2>2. /\ "open" # "branch" /\ \A op \in Ops : op # "open" /\ op # "branch" => op \in Posted
    BY DEF Ops, Posted
  <2> QED
    BY <2>1, <2>2, Zenon DEF SuccessNamesItsEffect, Names
<1> QED
  BY <1>1, Invariance, PTL

----------------------------------------------------------------------------
(* What is cut to a size.                                                  *)

(* Induction over the natural numbers, of membership in a set.             *)
LEMMA NatSetInduction ==
  ASSUME NEW S, 0 \in S, \A n \in Nat : n \in S => n + 1 \in S
  PROVE  \A n \in Nat : n \in S
<1> DEFINE R == OpToRel(<, Nat)
           T == {n \in Nat : n \notin S}
<1>1. SUFFICES ASSUME T # {} PROVE FALSE
  OBVIOUS
<1>2. IsWellFoundedOn(R, Nat)
  BY NatLessThanWellFounded
<1>3. \A y \in Nat, x \in Nat : <<y, x>> \in R <=> y < x
  BY DEF OpToRel
<1> HIDE DEF R
<1>4. PICK x \in T : \A y \in T : ~ (<<y, x>> \in R)
  <2>1. T \subseteq Nat
    OBVIOUS
  <2> HIDE DEF T
  <2> QED
    BY <1>1, <1>2, <2>1, WFMin
<1>5. x \in Nat /\ x \notin S /\ x # 0
  OBVIOUS
<1>6. x - 1 \in Nat /\ (x - 1) + 1 = x
  BY <1>5
<1>7. x - 1 \in S
  <2>1. SUFFICES ASSUME x - 1 \notin S PROVE FALSE
    OBVIOUS
  <2>2. x - 1 \in T
    BY <1>6, <2>1
  <2>3. <<x - 1, x>> \in R
    BY <1>3, <1>5, <1>6
  <2> QED
    BY <1>4, <2>2, <2>3
<1> QED
  BY <1>5, <1>6, <1>7

(* Where a cut may be made: at either end, and before a rune.              *)
Stop(s, k) == k = 0 \/ k = Len(s) \/ RuneStart(s[k + 1])

(* The last place to cut at, up to k; the first, from k on.                *)
LastStop(s, k, b) == b \in 0..k /\ Stop(s, b) /\ \A j \in (b + 1)..k : ~Stop(s, j)
FirstStop(s, k, b) == b \in k..Len(s) /\ (b = Len(s) \/ RuneStart(s[b + 1]))
                      /\ \A j \in k..(b - 1) : ~RuneStart(s[j + 1])

(* The loop of cutHead, as a function of where it begins.                  *)
Back(s, f) ==
  f = [k \in 0..Len(s) |-> IF k > 0 /\ k < Len(s) /\ ~RuneStart(s[k + 1]) THEN f[k - 1] ELSE k]

(* The recursive definition in cutHead has a solution.                     *)
LEMMA BackExists ==
  ASSUME NEW s, Len(s) \in Nat
  PROVE  \E f : Back(s, f)
<1> DEFINE E == {k \in Nat : k <= Len(s) => \E b : LastStop(s, k, b)}
<1>1. 0 \in E
  BY DEF LastStop, Stop
<1>2. ASSUME NEW k \in Nat, k \in E PROVE k + 1 \in E
  <2>1. SUFFICES ASSUME k + 1 <= Len(s) PROVE \E b : LastStop(s, k + 1, b)
    OBVIOUS
  <2>2. PICK b : LastStop(s, k, b)
    BY <1>2, <2>1
  <2>3. CASE Stop(s, k + 1)
    <3>1. LastStop(s, k + 1, k + 1)
      BY <2>3 DEF LastStop
    <3> QED
      BY <3>1
  <2>4. CASE ~Stop(s, k + 1)
    <3>1. \A j \in (b + 1)..(k + 1) : j = k + 1 \/ j \in (b + 1)..k
      BY <2>2 DEF LastStop
    <3>2. LastStop(s, k + 1, b)
      BY <2>2, <2>4, <3>1 DEF LastStop
    <3> QED
      BY <3>2
  <2> QED
    BY <2>3, <2>4
<1>3. \A k \in 0..Len(s) : \E b : LastStop(s, k, b)
  <2> TAKE k \in 0..Len(s)
  <2>1. k \in E
    <3> HIDE DEF E
    <3> QED
      BY <1>1, <1>2, NatSetInduction
  <2> QED
    BY <2>1
<1> DEFINE f == [k \in 0..Len(s) |-> CHOOSE b : LastStop(s, k, b)]
<1>4. ASSUME NEW k \in 0..Len(s), NEW b, NEW c, LastStop(s, k, b), LastStop(s, k, c) PROVE b = c
  BY <1>4 DEF LastStop
<1>5. \A k \in 0..Len(s) : LastStop(s, k, f[k])
  BY <1>3, Zenon
<1> HIDE DEF f
<1>6. ASSUME NEW k \in 0..Len(s)
      PROVE  f[k] = IF k > 0 /\ k < Len(s) /\ ~RuneStart(s[k + 1]) THEN f[k - 1] ELSE k
  <2>1. CASE Stop(s, k)
    <3>1. LastStop(s, k, k)
      BY <2>1 DEF LastStop
    <3>2. f[k] = k
      BY <1>4, <1>5, <3>1
    <3> QED
      BY <2>1, <3>2 DEF Stop
  <2>2. CASE ~Stop(s, k)
    <3>1. k > 0 /\ k < Len(s) /\ ~RuneStart(s[k + 1]) /\ k - 1 \in 0..Len(s)
      BY <2>2 DEF Stop
    <3>2. LastStop(s, k - 1, f[k - 1])
      BY <1>5, <3>1
    <3>3. LastStop(s, k, f[k - 1])
      <4>1. \A j \in (f[k - 1] + 1)..k : j = k \/ j \in (f[k - 1] + 1)..(k - 1)
        BY <3>2 DEF LastStop
      <4> QED
        BY <2>2, <3>1, <3>2, <4>1 DEF LastStop
    <3>4. f[k] = f[k - 1]
      BY <1>4, <1>5, <3>3
    <3> QED
      BY <3>1, <3>4
  <2> QED
    BY <2>1, <2>2
<1>7. Back(s, f)
  <2>1. f = [k \in 0..Len(s) |-> f[k]]
    BY DEF f
  <2> QED
    BY <1>6, <2>1 DEF Back
<1> QED
  BY <1>7

(* Going back from n ends at the last place to cut at.                     *)
LEMMA BackIs ==
  ASSUME NEW s, Len(s) \in Nat, NEW n \in 0..Len(s), NEW f, Back(s, f)
  PROVE  LastStop(s, n, f[n])
<1> DEFINE E == {k \in Nat : k <= Len(s) => LastStop(s, k, f[k])}
<1>0. \A k \in 0..Len(s) :
        f[k] = IF k > 0 /\ k < Len(s) /\ ~RuneStart(s[k + 1]) THEN f[k - 1] ELSE k
  BY DEF Back
<1>1. 0 \in E
  BY <1>0 DEF LastStop, Stop
<1>2. ASSUME NEW k \in Nat, k \in E PROVE k + 1 \in E
  <2>1. SUFFICES ASSUME k + 1 <= Len(s) PROVE LastStop(s, k + 1, f[k + 1])
    OBVIOUS
  <2>2. LastStop(s, k, f[k]) /\ (k + 1) - 1 = k
    BY <1>2, <2>1
  <2>3. CASE Stop(s, k + 1)
    <3>1. f[k + 1] = k + 1
      BY <1>0, <2>1, <2>3 DEF Stop
    <3> QED
      BY <2>3, <3>1 DEF LastStop
  <2>4. CASE ~Stop(s, k + 1)
    <3>1. f[k + 1] = f[k]
      BY <1>0, <2>1, <2>2, <2>4 DEF Stop
    <3>2. \A j \in (f[k] + 1)..(k + 1) : j = k + 1 \/ j \in (f[k] + 1)..k
      BY <2>2 DEF LastStop
    <3> QED
      BY <2>2, <2>4, <3>1, <3>2 DEF LastStop
  <2> QED
    BY <2>3, <2>4
<1>3. n \in E
  <2> HIDE DEF E
  <2> QED
    BY <1>1, <1>2, NatSetInduction
<1> QED
  BY <1>3

(* cutHead keeps the text up to the last place to cut at.                  *)
LEMMA cutHeadIs ==
  ASSUME NEW s, Len(s) \in Nat, NEW n \in 0..Len(s)
  PROVE  \E b : LastStop(s, n, b) /\ cutHead(s, n) = SubSeq(s, 1, b)
<1> DEFINE back == CHOOSE f : Back(s, f)
<1>1. Back(s, back)
  BY BackExists
<1>2. cutHead(s, n) = SubSeq(s, 1, back[n])
  BY DEF cutHead, Back
<1> HIDE DEF back
<1>3. LastStop(s, n, back[n])
  BY <1>1, BackIs
<1> QED
  BY <1>2, <1>3

(* The loop of cutTail, as a function of where it begins.                  *)
On(s, f) == f = [i \in 0..Len(s) |-> IF i < Len(s) /\ ~RuneStart(s[i + 1]) THEN f[i + 1] ELSE i]

(* The recursive definition in cutTail has a solution.                     *)
LEMMA OnExists ==
  ASSUME NEW s, Len(s) \in Nat
  PROVE  \E f : On(s, f)
<1> DEFINE E == {d \in Nat : d <= Len(s) => \E b : FirstStop(s, Len(s) - d, b)}
<1>1. 0 \in E
  <2>1. FirstStop(s, Len(s), Len(s))
    BY DEF FirstStop
  <2> QED
    BY <2>1
<1>2. ASSUME NEW d \in Nat, d \in E PROVE d + 1 \in E
  <2>1. SUFFICES ASSUME d + 1 <= Len(s) PROVE \E b : FirstStop(s, Len(s) - (d + 1), b)
    OBVIOUS
  <2> DEFINE i == Len(s) - (d + 1)
  <2>2. i \in Nat /\ i < Len(s) /\ Len(s) - d = i + 1
    BY <2>1
  <2>3. PICK b : FirstStop(s, i + 1, b)
    BY <1>2, <2>1, <2>2
  <2> HIDE DEF i
  <2>4. CASE RuneStart(s[i + 1])
    <3>1. FirstStop(s, i, i)
      BY <2>2, <2>4 DEF FirstStop
    <3> QED
      BY <3>1 DEF i
  <2>5. CASE ~RuneStart(s[i + 1])
    <3>1. \A j \in i..(b - 1) : j = i \/ j \in (i + 1)..(b - 1)
      BY <2>2, <2>3 DEF FirstStop
    <3>2. FirstStop(s, i, b)
      BY <2>2, <2>3, <2>5, <3>1 DEF FirstStop
    <3> QED
      BY <3>2 DEF i
  <2> QED
    BY <2>4, <2>5
<1>3. \A i \in 0..Len(s) : \E b : FirstStop(s, i, b)
  <2> TAKE i \in 0..Len(s)
  <2>1. Len(s) - i \in E
    <3>1. Len(s) - i \in Nat
      OBVIOUS
    <3> HIDE DEF E
    <3> QED
      BY <1>1, <1>2, <3>1, NatSetInduction
  <2>2. Len(s) - (Len(s) - i) = i
    OBVIOUS
  <2> QED
    BY <2>1, <2>2
<1> DEFINE f == [i \in 0..Len(s) |-> CHOOSE b : FirstStop(s, i, b)]
<1>4. ASSUME NEW i \in 0..Len(s), NEW b, NEW c, FirstStop(s, i, b), FirstStop(s, i, c) PROVE b = c
  BY <1>4 DEF FirstStop
<1>5. \A i \in 0..Len(s) : FirstStop(s, i, f[i])
  BY <1>3, Zenon
<1> HIDE DEF f
<1>6. ASSUME NEW i \in 0..Len(s)
      PROVE  f[i] = IF i < Len(s) /\ ~RuneStart(s[i + 1]) THEN f[i + 1] ELSE i
  <2>1. CASE ~(i < Len(s) /\ ~RuneStart(s[i + 1]))
    <3>1. FirstStop(s, i, i)
      BY <2>1 DEF FirstStop
    <3>2. f[i] = i
      BY <1>4, <1>5, <3>1
    <3> QED
      BY <2>1, <3>2
  <2>2. CASE i < Len(s) /\ ~RuneStart(s[i + 1])
    <3>1. i + 1 \in 0..Len(s)
      BY <2>2
    <3>2. FirstStop(s, i + 1, f[i + 1])
      BY <1>5, <3>1
    <3>3. FirstStop(s, i, f[i + 1])
      <4>1. \A j \in i..(f[i + 1] - 1) : j = i \/ j \in (i + 1)..(f[i + 1] - 1)
        BY <3>2 DEF FirstStop
      <4> QED
        BY <2>2, <3>2, <4>1 DEF FirstStop
    <3>4. f[i] = f[i + 1]
      BY <1>4, <1>5, <3>3
    <3> QED
      BY <2>2, <3>4
  <2> QED
    BY <2>1, <2>2
<1>7. On(s, f)
  <2>1. f = [i \in 0..Len(s) |-> f[i]]
    BY DEF f
  <2> QED
    BY <1>6, <2>1 DEF On
<1> QED
  BY <1>7

(* Going on from n ends at the first place to cut at.                      *)
LEMMA OnIs ==
  ASSUME NEW s, Len(s) \in Nat, NEW n \in 0..Len(s), NEW f, On(s, f)
  PROVE  FirstStop(s, n, f[n])
<1> DEFINE E == {d \in Nat : d <= Len(s) => FirstStop(s, Len(s) - d, f[Len(s) - d])}
<1>0. \A i \in 0..Len(s) : f[i] = IF i < Len(s) /\ ~RuneStart(s[i + 1]) THEN f[i + 1] ELSE i
  BY DEF On
<1>1. 0 \in E
  <2>1. f[Len(s)] = Len(s) /\ Len(s) - 0 = Len(s)
    BY <1>0
  <2>2. FirstStop(s, Len(s), Len(s))
    BY DEF FirstStop
  <2> QED
    BY <2>1, <2>2
<1>2. ASSUME NEW d \in Nat, d \in E PROVE d + 1 \in E
  <2>1. SUFFICES ASSUME d + 1 <= Len(s) PROVE FirstStop(s, Len(s) - (d + 1), f[Len(s) - (d + 1)])
    OBVIOUS
  <2> DEFINE i == Len(s) - (d + 1)
  <2>2. i \in Nat /\ i < Len(s) /\ Len(s) - d = i + 1 /\ i \in 0..Len(s)
    BY <2>1
  <2>3. FirstStop(s, i + 1, f[i + 1])
    BY <1>2, <2>1, <2>2
  <2> HIDE DEF i
  <2>4. CASE RuneStart(s[i + 1])
    <3>1. f[i] = i
      BY <1>0, <2>2, <2>4
    <3>2. FirstStop(s, i, f[i])
      BY <2>2, <2>4, <3>1 DEF FirstStop
    <3> QED
      BY <3>2 DEF i
  <2>5. CASE ~RuneStart(s[i + 1])
    <3>1. f[i] = f[i + 1]
      BY <1>0, <2>2, <2>5
    <3>2. \A j \in i..(f[i + 1] - 1) : j = i \/ j \in (i + 1)..(f[i + 1] - 1)
      BY <2>2, <2>3 DEF FirstStop
    <3>3. FirstStop(s, i, f[i])
      BY <2>2, <2>3, <2>5, <3>1, <3>2 DEF FirstStop
    <3> QED
      BY <3>3 DEF i
  <2> QED
    BY <2>4, <2>5
<1>3. Len(s) - n \in E
  <2>1. Len(s) - n \in Nat
    OBVIOUS
  <2> HIDE DEF E
  <2> QED
    BY <1>1, <1>2, <2>1, NatSetInduction
<1>4. Len(s) - (Len(s) - n) = n
  OBVIOUS
<1> QED
  BY <1>3, <1>4

(* cutTail keeps the text from the first place to cut at.                  *)
LEMMA cutTailIs ==
  ASSUME NEW s, Len(s) \in Nat, NEW n \in 0..Len(s)
  PROVE  \E b : FirstStop(s, Len(s) - n, b) /\ cutTail(s, n) = SubSeq(s, b + 1, Len(s))
<1> DEFINE on == CHOOSE f : On(s, f)
<1>1. On(s, on)
  BY OnExists
<1>2. cutTail(s, n) = SubSeq(s, on[Len(s) - n] + 1, Len(s))
  BY DEF cutTail, On
<1> HIDE DEF on
<1>3. FirstStop(s, Len(s) - n, on[Len(s) - n])
  BY <1>1, OnIs
<1> QED
  BY <1>2, <1>3

----------------------------------------------------------------------------
(* A part of a text begins and ends with bytes of the text.                *)
LEMMA PartOf ==
  ASSUME NEW S, NEW s \in Seq(S), NEW i \in 1..Len(s), NEW j \in i..Len(s)
  PROVE  /\ SubSeq(s, i, j) # <<>>
         /\ SubSeq(s, i, j)[1] = s[i] /\ Last(SubSeq(s, i, j)) = s[j]
<1> DEFINE t == SubSeq(s, i, j)
<1>1. /\ t \in Seq(S) /\ Len(t) = (j - i) + 1
      /\ \A k \in 1..((j - i) + 1) : t[k] = s[(i + k) - 1]
  <2>1. \A k \in i..j : s[k] \in S
    OBVIOUS
  <2> QED
    BY <2>1, SubSeqProperties
<1> HIDE DEF t
<1>2. t[1] = s[i] /\ t[(j - i) + 1] = s[j] /\ Last(t) = t[Len(t)] /\ t # <<>>
  BY <1>1 DEF Last
<1> QED
  BY <1>1, <1>2 DEF t

Byte == [nth : Nat, of : Nat]

(* Whether a part of a valid text is valid is decided at its ends.         *)
LEMMA PartValid ==
  ASSUME NEW s, ValidText(s), NEW i \in 1..Len(s), NEW j \in i..Len(s)
  PROVE  ValidString(SubSeq(s, i, j)) <=> RuneStart(s[i]) /\ (j = Len(s) \/ RuneStart(s[j + 1]))
<1>1. /\ s \in Seq(Byte) /\ \A k \in 1..Len(s) : s[k].nth \in 1..s[k].of /\ s[k].of \in Nat
      /\ \A k \in 1..(Len(s) - 1) : s[k + 1].nth = IF s[k].nth = s[k].of THEN 1 ELSE s[k].nth + 1
  <2>1. s \in Seq(Byte)
    BY DEF ValidText, Byte
  <2>2. \A k \in 1..Len(s) : s[k] \in Byte /\ k \in DOMAIN s
    BY <2>1
  <2> QED
    BY <2>1, <2>2 DEF ValidText, Byte
<1> DEFINE t == SubSeq(s, i, j)
<1>2. t # <<>> /\ t[1] = s[i] /\ Last(t) = s[j]
  BY <1>1, PartOf
<1> HIDE DEF t
<1>3. ValidString(t) <=> RuneStart(s[i]) /\ s[j].nth = s[j].of
  BY <1>2 DEF ValidString
<1>4. CASE j = Len(s)
  <2>1. s # <<>> /\ Last(s) = s[Len(s)]
    BY <1>1 DEF Last
  <2>2. s[j].nth = s[j].of
    BY <1>4, <2>1 DEF ValidText, ValidString
  <2> QED
    BY <1>3, <1>4, <2>2 DEF t
<1>5. CASE j # Len(s)
  <2>1. j \in 1..(Len(s) - 1)
    BY <1>5
  <2>2. s[j].nth = s[j].of <=> s[j + 1].nth = 1
    BY <1>1, <2>1
  <2> QED
    BY <1>3, <1>5, <2>2 DEF t, RuneStart
<1> QED
  BY <1>4, <1>5

(* What cutHead keeps of a text is the longest beginning that fits.        *)
LEMMA cutHeadKeeps ==
  ASSUME NEW s, ValidText(s), NEW max \in Int, TooLong(s, max)
  PROVE  \E k \in 0..max : /\ cutHead(s, max) = SubSeq(s, 1, k) /\ ValidString(SubSeq(s, 1, k))
                           /\ \A j \in (k + 1)..max : ~ValidString(SubSeq(s, 1, j))
<1>1. Len(s) \in Nat /\ max \in 1..(Len(s) - 1) /\ max \in 0..Len(s) /\ s \in Seq(Byte)
  BY DEF ValidText, TooLong, Byte
<1>2. PICK b : LastStop(s, max, b) /\ cutHead(s, max) = SubSeq(s, 1, b)
  BY <1>1, cutHeadIs
<1>3. RuneStart(s[1])
  BY <1>1 DEF ValidText, ValidString
<1>4. \A j \in 1..max : ValidString(SubSeq(s, 1, j)) <=> Stop(s, j)
  <2> TAKE j \in 1..max
  <2>1. 1 \in 1..Len(s) /\ j \in 1..Len(s) /\ j # Len(s) /\ j # 0
    BY <1>1
  <2> QED
    BY <1>3, <2>1, PartValid DEF Stop
<1>5. ValidString(SubSeq(s, 1, b))
  <2>1. CASE b = 0
    <3>1. SubSeq(s, 1, b) = <<>>
      BY <2>1, SubSeqEmpty
    <3> QED
      BY <3>1 DEF ValidString
  <2>2. CASE b # 0
    BY <1>1, <1>2, <1>4, <2>2 DEF LastStop
  <2> QED
    BY <2>1, <2>2
<1>6. b \in 0..max /\ \A j \in (b + 1)..max : ~ValidString(SubSeq(s, 1, j))
  BY <1>1, <1>2, <1>4 DEF LastStop
<1> QED
  BY <1>2, <1>5, <1>6

(* What cutTail keeps of a text is the longest end that fits.              *)
LEMMA cutTailKeeps ==
  ASSUME NEW s, ValidText(s), NEW max \in Int, TooLong(s, max)
  PROVE  \E k \in 0..max : /\ cutTail(s, max) = SubSeq(s, Len(s) - k + 1, Len(s))
                           /\ ValidString(SubSeq(s, Len(s) - k + 1, Len(s)))
                           /\ \A j \in (k + 1)..max : ~ValidString(SubSeq(s, Len(s) - j + 1, Len(s)))
<1>1. Len(s) \in Nat /\ max \in 1..(Len(s) - 1) /\ max \in 0..Len(s) /\ s \in Seq(Byte)
  BY DEF ValidText, TooLong, Byte
<1>2. PICK b : FirstStop(s, Len(s) - max, b) /\ cutTail(s, max) = SubSeq(s, b + 1, Len(s))
  BY <1>1, cutTailIs
<1>3. \A i \in 1..Len(s) : ValidString(SubSeq(s, i, Len(s))) <=> RuneStart(s[i])
  <2> TAKE i \in 1..Len(s)
  <2>1. Len(s) \in i..Len(s)
    BY <1>1
  <2> QED
    BY <2>1, PartValid
<1>4. ValidString(SubSeq(s, b + 1, Len(s)))
  <2>1. CASE b = Len(s)
    <3>1. SubSeq(s, b + 1, Len(s)) = <<>>
      BY <1>1, <2>1, SubSeqEmpty
    <3> QED
      BY <3>1 DEF ValidString
  <2>2. CASE b # Len(s)
    <3>1. b + 1 \in 1..Len(s) /\ RuneStart(s[b + 1])
      BY <1>1, <1>2, <2>2 DEF FirstStop
    <3> QED
      BY <1>3, <3>1
  <2> QED
    BY <2>1, <2>2
<1> DEFINE k == Len(s) - b
<1>5. k \in 0..max /\ Len(s) - k + 1 = b + 1
  BY <1>1, <1>2 DEF FirstStop
<1>6. ASSUME NEW j \in (k + 1)..max PROVE ~ValidString(SubSeq(s, Len(s) - j + 1, Len(s)))
  <2>1. Len(s) - j \in (Len(s) - max)..(b - 1) /\ Len(s) - j + 1 \in 1..Len(s)
    BY <1>1, <1>2 DEF FirstStop
  <2>2. ~RuneStart(s[Len(s) - j + 1])
    BY <1>2, <2>1 DEF FirstStop
  <2> QED
    BY <1>3, <2>1, <2>2
<1> HIDE DEF k
<1> QED
  BY <1>2, <1>4, <1>5, <1>6

(* Patches end where runes end, so that all of them are a text as well.    *)
LEMMA PatchValid ==
  ASSUME ValidText(text), NEW path
  PROVE  ValidText(Patch(path))
<1>1. /\ text \in Seq(Byte) /\ ValidString(text) /\ \A k \in 1..Len(text) : text[k].nth \in 1..text[k].of
      /\ \A k \in 1..(Len(text) - 1) :
           text[k + 1].nth = IF text[k].nth = text[k].of THEN 1 ELSE text[k].nth + 1
  BY DEF ValidText, Byte
<1> DEFINE all == text \o text
           n == Len(text)
<1>2. /\ all \in Seq(Byte) /\ Len(all) = n + n /\ n \in Nat
      /\ \A k \in 1..(n + n) : all[k] = IF k <= n THEN text[k] ELSE text[k - n]
  BY <1>1, ConcatProperties
<1> HIDE DEF all
<1>3. CASE text = <<>>
  <2>1. all = text
    BY <1>1, <1>3, ConcatEmptySeq DEF all
  <2> QED
    BY <2>1 DEF Patch, all
<1>4. CASE text # <<>>
  <2>1. n > 0 /\ RuneStart(text[1]) /\ text[n].nth = text[n].of
    <3>1. n > 0 /\ Last(text) = text[n]
      BY <1>1, <1>4 DEF Last
    <3> QED
      BY <1>1, <1>4, <3>1 DEF ValidString
  <2> HIDE DEF n
  <2>2. ValidString(all)
    <3>1. all[1] = text[1] /\ all[n + n] = text[n] /\ Last(all) = all[Len(all)]
      BY <1>2, <2>1 DEF Last
    <3> QED
      BY <1>2, <2>1, <3>1 DEF ValidString
  <2>3. \A k \in DOMAIN all : all[k].nth \in 1..all[k].of
    <3> TAKE k \in DOMAIN all
    <3>1. k \in 1..(n + n)
      BY <1>2
    <3> QED
      BY <1>1, <1>2, <3>1 DEF n
  <2>4. ASSUME NEW k \in 1..(Len(all) - 1)
        PROVE  all[k + 1].nth = IF all[k].nth = all[k].of THEN 1 ELSE all[k].nth + 1
    <3>1. k \in 1..(n + n) /\ k + 1 \in 1..(n + n)
      BY <1>2
    <3>2. CASE k < n
      <4>1. k \in 1..(n - 1) /\ all[k] = text[k] /\ all[k + 1] = text[k + 1]
        BY <1>2, <3>1, <3>2
      <4> QED
        BY <1>1, <4>1 DEF n
    <3>3. CASE k = n
      <4>1. all[k] = text[n] /\ all[k + 1] = text[1]
        BY <1>2, <2>1, <3>1, <3>3
      <4> QED
        BY <2>1, <4>1 DEF RuneStart
    <3>4. CASE k > n
      <4>1. /\ k - n \in 1..(n - 1) /\ all[k] = text[k - n] /\ (k + 1) - n = (k - n) + 1
            /\ all[k + 1] = text[(k + 1) - n]
        BY <1>2, <3>1, <3>4
      <4> QED
        BY <1>1, <4>1 DEF n
    <3> QED
      BY <1>2, <3>1, <3>2, <3>3, <3>4
  <2>5. ValidText(all)
    BY <1>2, <2>2, <2>3, <2>4 DEF ValidText, Byte
  <2> QED
    BY <2>5 DEF Patch, all
<1> QED
  BY <1>3, <1>4

----------------------------------------------------------------------------
(* A limit is an int.                                                      *)
Bounded(q) ==
  /\ q.op = "get_diff" => q.arg[3] \in Int
  /\ q.op = "get_check_logs" => q.arg[2] \in Int

(* The provider under any requests and in any order, and now and then a    *)
(* new one with another text.                                              *)
Renew(seed) == ValidText(seed) /\ full' \in BOOLEAN /\ Fresh(seed)
ProviderUsed(Asked) ==
  /\ ProviderSeeded /\ ValidText(text)
  /\ [][(\E q \in Asked : Serve(q)) \/ (\E seed : Renew(seed))]_<<provider, answer, reads, handed>>

(* What CutsKeepWhatFits says of one answer.                               *)
KeptHead(s, max, result) ==
  IF TooLong(s, max)
  THEN \E k \in 0..max : /\ result = Cut(SubSeq(s, 1, k)) /\ ValidString(SubSeq(s, 1, k))
                         /\ \A j \in (k + 1)..max : ~ValidString(SubSeq(s, 1, j))
  ELSE result = Whole(s)
KeptTail(s, max, result) ==
  IF TooLong(s, max)
  THEN \E k \in 0..max : /\ result = Cut(SubSeq(s, Len(s) - k + 1, Len(s)))
                         /\ ValidString(SubSeq(s, Len(s) - k + 1, Len(s)))
                         /\ \A j \in (k + 1)..max : ~ValidString(SubSeq(s, Len(s) - j + 1, Len(s)))
  ELSE result = Whole(s)

(* It is enough that each kind of answer is what the cut has to be.        *)
LEMMA CutsAreKept ==
  ASSUME answer'.code = "ok" =>
           /\ answer'.op = "get_diff" =>
                KeptHead((Patch(answer.arg[2]))', answer'.arg[3], answer'.result)
           /\ answer'.op = "get_check_logs" => KeptTail(text', answer'.arg[2], answer'.result)
  PROVE  CutsKeepWhatFits'
BY Zenon DEF CutsKeepWhatFits, KeptHead, KeptTail

(* An answer that is no diff and no log says nothing of cuts.              *)
LEMMA OtherAnswer ==
  ASSUME answer'.op \notin {"get_diff", "get_check_logs"}
  PROVE  CutsKeepWhatFits'
BY DEF CutsKeepWhatFits

(* GetDiff answers with the longest beginning of the patches that fits.    *)
LEMMA DiffKept ==
  ASSUME ValidText(text), NEW r, NEW n, NEW path, NEW max \in Int, GetDiff(r, n, path, max).code = "ok"
  PROVE  KeptHead(Patch(path), max, GetDiff(r, n, path, max).result)
<1>1. CASE n \notin DOMAIN crs[r] \/ path \notin Files \cup {AllFiles}
  BY <1>1 DEF GetDiff, Failed
<1>2. CASE ~(n \notin DOMAIN crs[r] \/ path \notin Files \cup {AllFiles})
  <2>1. ValidText(Patch(path))
    BY PatchValid
  <2>2. CASE TooLong(Patch(path), max)
    <3>1. GetDiff(r, n, path, max).result = Cut(cutHead(Patch(path), max))
      BY <1>2, <2>2, Zenon DEF GetDiff, Found
    <3>2. PICK k \in 0..max :
            /\ cutHead(Patch(path), max) = SubSeq(Patch(path), 1, k)
            /\ ValidString(SubSeq(Patch(path), 1, k))
            /\ \A j \in (k + 1)..max : ~ValidString(SubSeq(Patch(path), 1, j))
      BY <2>1, <2>2, cutHeadKeeps
    <3> QED
      BY <2>2, <3>1, <3>2, Zenon DEF KeptHead
  <2>3. CASE ~TooLong(Patch(path), max)
    <3>1. GetDiff(r, n, path, max).result = Whole(Patch(path))
      BY <1>2, <2>3, Zenon DEF GetDiff, Found
    <3> QED
      BY <2>3, <3>1 DEF KeptHead
  <2> QED
    BY <2>2, <2>3
<1> QED
  BY <1>1, <1>2

(* GetCheckLogs answers with the longest end of the log that fits.         *)
LEMMA LogKept ==
  ASSUME ValidText(text), NEW check, NEW max \in Int, GetCheckLogs(check, max).code = "ok"
  PROVE  KeptTail(text, max, GetCheckLogs(check, max).result)
<1>1. CASE check # Check
  BY <1>1 DEF GetCheckLogs, Failed
<1>2. CASE check = Check
  <2>2. CASE TooLong(text, max)
    <3>1. GetCheckLogs(check, max).result = Cut(cutTail(text, max))
      BY <1>2, <2>2, Zenon DEF GetCheckLogs, Found
    <3>2. PICK k \in 0..max :
            /\ cutTail(text, max) = SubSeq(text, Len(text) - k + 1, Len(text))
            /\ ValidString(SubSeq(text, Len(text) - k + 1, Len(text)))
            /\ \A j \in (k + 1)..max : ~ValidString(SubSeq(text, Len(text) - j + 1, Len(text)))
      BY <2>2, cutTailKeeps
    <3> QED
      BY <2>2, <3>1, <3>2, Zenon DEF KeptTail
  <2>3. CASE ~TooLong(text, max)
    <3>1. GetCheckLogs(check, max).result = Whole(text)
      BY <1>2, <2>3, Zenon DEF GetCheckLogs, Found
    <3> QED
      BY <2>3, <3>1 DEF KeptTail
  <2> QED
    BY <2>2, <2>3
<1> QED
  BY <1>1, <1>2

(* A write is answered in the name of the request.                         *)
LEMMA WriteAnswers ==
  ASSUME NEW q, q.op \in WriteOps, Perform(q)
  PROVE  answer'.op = q.op
<1>1. ASSUME NEW op, NEW r, NEW arg, NEW key, NEW code, Refuse(op, r, arg, key, code) PROVE answer'.op = op
  BY <1>1 DEF Refuse, Answer
<1>2. ASSUME NEW op, NEW r, NEW arg, NEW key, Replay(op, r, arg, key) PROVE answer'.op = op
  BY <1>2 DEF Replay, Answer
<1>3. ASSUME NEW op, NEW r, NEW arg, NEW key, NEW res, Keep(op, r, arg, key, res) PROVE answer'.op = op
  BY <1>3 DEF Keep, Answer
<1>4. ASSUME NEW op, NEW r, NEW arg, NEW key, NEW refused, Posting(op, r, arg, key, refused)
      PROVE  answer'.op = op
  BY <1>1, <1>2, <1>3, <1>4, Zenon DEF Posting
<1>5. CASE q.op = "open" /\ OpenChangeRequest(q.repo, q.arg[1], q.arg[2], q.key)
  BY <1>1, <1>2, <1>3, <1>5, Zenon DEF OpenChangeRequest
<1>6. CASE q.op = "update" /\ UpdateChangeRequest(q.repo, q.arg[1], q.arg[2], q.arg[3])
  <2>1. CASE Refuse("update", q.repo, <<q.arg[1], q.arg[2], q.arg[3]>>, NoKey, "not_found")
    BY <1>1, <1>6, <2>1
  <2>2. CASE \E code : Answer("update", q.repo, <<q.arg[1], q.arg[2], q.arg[3]>>, NoKey, code, q.arg[1])
    BY <1>6, <2>2 DEF Answer
  <2> QED
    BY <1>6, <2>1, <2>2, Zenon DEF UpdateChangeRequest
<1>7. CASE q.op = "merge" /\ MergeChangeRequest(q.repo, q.arg[1], q.arg[2])
  <2>1. CASE \E refused : Refuse("merge", q.repo, <<q.arg[1], q.arg[2]>>, NoKey, refused)
    BY <1>1, <1>7, <2>1
  <2>2. CASE Answer("merge", q.repo, <<q.arg[1], q.arg[2]>>, NoKey, "ok", q.arg[1])
    BY <1>7, <2>2 DEF Answer
  <2> QED
    BY <1>7, <2>1, <2>2, Zenon DEF MergeChangeRequest
<1>8. CASE q.op = "comment" /\ Comment(q.repo, q.arg[1], q.arg[2], q.key)
  BY <1>4, <1>8, Zenon DEF Comment
<1>9. CASE q.op = "reply" /\ ReplyThread(q.repo, q.arg[1], q.arg[2], q.key)
  BY <1>4, <1>9, Zenon DEF ReplyThread
<1>10. CASE q.op = "review" /\ SubmitReview(q.repo, q.arg[1], q.arg[2], q.key)
  BY <1>4, <1>10, Zenon DEF SubmitReview
<1>11. CASE q.op = "branch" /\ CreateBranch(q.repo, q.arg[1], q.arg[2], q.key)
  BY <1>1, <1>2, <1>3, <1>11, Zenon DEF CreateBranch
<1>12. CASE Refuse(q.op, q.repo, q.arg, q.key, "unsupported")
  BY <1>1, <1>12
<1> QED
  BY <1>5, <1>6, <1>7, <1>8, <1>9, <1>10, <1>11, <1>12, Zenon DEF Perform

(* So is what hands out ids.                                               *)
LEMMA HandOutAnswers ==
  ASSUME NEW q, HandOut(q)
  PROVE  answer'.op = q.op /\ UNCHANGED text
<1>1. ASSUME NEW ACTION Step, NEW STATE result, Handing(q, Step, result) PROVE answer'.op = q.op /\ UNCHANGED text
  BY <1>1 DEF Handing, Told, Answer, reads
<1>2. ASSUME NEW code, Refusing(q, code) PROVE answer'.op = q.op /\ UNCHANGED text
  BY <1>2 DEF Refusing, Told, Answer, reads
<1>3. CASE Mint(q)
  BY <1>1, <1>2, <1>3, Zenon DEF Mint
<1>4. CASE SetStatus(q)
  BY <1>1, <1>2, <1>4, Zenon DEF SetStatus
<1>5. CASE BeginGrant(q)
  BY <1>1, <1>2, <1>5, Zenon DEF BeginGrant
<1>6. CASE CompleteGrant(q)
  BY <1>1, <1>2, <1>6, Zenon DEF CompleteGrant
<1>7. CASE Handing(q, A!DeleteIdentity, "deleted")
  BY <1>1, <1>7
<1> QED
  BY <1>3, <1>4, <1>5, <1>6, <1>7, Zenon DEF HandOut

(* A diff and a log are what is read of this text.                         *)
LEMMA LookAnswers ==
  ASSUME ValidText(text), NEW q, Bounded(q), Look(q)
  PROVE  CutsKeepWhatFits' /\ UNCHANGED text
<1>1. UNCHANGED text
  BY DEF Look, reads
<1>2. CASE q.op \notin {"get_diff", "get_check_logs"}
  <2>1. \E code, result : Told(q, code, result)
    BY Zenon DEF Look
  <2>2. answer'.op = q.op
    BY <2>1 DEF Told, Answer
  <2> QED
    BY <1>1, <1>2, <2>2, OtherAnswer
<1>3. CASE q.op = "get_diff"
  <2>1. Told(q, Read(q).code, Read(q).result)
    BY <1>3 DEF Look
  <2>2. CASE q.op \notin NoTarget /\ q.repo \notin Repos
    <3>1. Read(q).code = "not_found"
      BY <2>2, Zenon DEF Read, Failed
    <3>2. answer'.code = "not_found"
      BY <2>1, <3>1 DEF Told, Answer
    <3> QED
      BY <1>1, <3>2 DEF CutsKeepWhatFits
  <2>3. CASE ~(q.op \notin NoTarget /\ q.repo \notin Repos)
    <3> DEFINE a == GetDiff(q.repo, q.arg[1], q.arg[2], q.arg[3])
    <3>1. Read(q) = a
      BY <1>3, <2>3 DEF Read, NoTarget
    <3>2. q.arg[3] \in Int /\ (a.code = "ok" => KeptHead(Patch(q.arg[2]), q.arg[3], a.result))
      BY <1>3, DiffKept DEF Bounded
    <3>3. /\ answer'.code = a.code /\ answer'.result = a.result /\ answer'.arg = q.arg
          /\ answer'.op = "get_diff"
      BY <1>3, <2>1, <3>1 DEF Told, Answer
    <3> HIDE DEF a
    <3>4. (Patch(answer.arg[2]))' = Patch(q.arg[2])
      BY <1>1, <3>3 DEF Patch
    <3> QED
      BY <1>1, <3>2, <3>3, <3>4, CutsAreKept
  <2> QED
    BY <2>2, <2>3
<1>4. CASE q.op = "get_check_logs"
  <2>1. Told(q, Read(q).code, Read(q).result)
    BY <1>4 DEF Look
  <2>2. CASE q.op \notin NoTarget /\ q.repo \notin Repos
    <3>1. Read(q).code = "not_found"
      BY <2>2, Zenon DEF Read, Failed
    <3>2. answer'.code = "not_found"
      BY <2>1, <3>1 DEF Told, Answer
    <3> QED
      BY <1>1, <3>2 DEF CutsKeepWhatFits
  <2>3. CASE ~(q.op \notin NoTarget /\ q.repo \notin Repos)
    <3> DEFINE a == GetCheckLogs(q.arg[1], q.arg[2])
    <3>1. Read(q) = a
      BY <1>4, <2>3 DEF Read, NoTarget
    <3>2. q.arg[2] \in Int /\ (a.code = "ok" => KeptTail(text, q.arg[2], a.result))
      BY <1>4, LogKept DEF Bounded
    <3>3. /\ answer'.code = a.code /\ answer'.result = a.result /\ answer'.arg = q.arg
          /\ answer'.op = "get_check_logs"
      BY <1>4, <2>1, <3>1 DEF Told, Answer
    <3> HIDE DEF a
    <3> QED
      BY <1>1, <3>2, <3>3, CutsAreKept
  <2> QED
    BY <2>2, <2>3
<1> QED
  BY <1>2, <1>3, <1>4

(* Any request leaves the text alone and its answer as it has to be.       *)
LEMMA ServeKeeps ==
  ASSUME ValidText(text), NEW q, Bounded(q), Serve(q)
  PROVE  CutsKeepWhatFits' /\ UNCHANGED text
<1>1. CASE q.op \in WriteOps /\ Perform(q) /\ UNCHANGED <<reads, handed>>
  <2>1. answer'.op = q.op
    BY <1>1, WriteAnswers
  <2>2. q.op \notin {"get_diff", "get_check_logs"}
    BY <1>1 DEF WriteOps, Ops
  <2> QED
    BY <1>1, <2>1, <2>2, OtherAnswer DEF reads
<1>2. CASE q.op \in MarkOps /\ PerformMark(q)
  <2>1. answer'.op = q.op /\ UNCHANGED text
    BY <1>2 DEF PerformMark, Answer
  <2>2. q.op \notin {"get_diff", "get_check_logs"}
    BY <1>2 DEF MarkOps
  <2> QED
    BY <2>1, <2>2, OtherAnswer
<1>3. CASE q.op \in HandOps /\ HandOut(q)
  <2>1. answer'.op = q.op /\ UNCHANGED text
    BY <1>3, HandOutAnswers
  <2>2. q.op \notin {"get_diff", "get_check_logs"}
    BY <1>3 DEF HandOps
  <2> QED
    BY <2>1, <2>2, OtherAnswer
<1>4. CASE Look(q)
  BY <1>4, LookAnswers
<1> QED
  BY <1>1, <1>2, <1>3, <1>4, Zenon DEF Serve

(* A diff cut to a size is the longest beginning of the patches that fits  *)
(* and splits no rune, a log the longest such end, and each says whether   *)
(* it was cut: whatever text the seed data holds, whatever else is asked   *)
(* of the provider and in any order (cutHead, cutTail, GetDiff,            *)
(* GetCheckLogs).                                                          *)
THEOREM CutsKeepWhatFitsAlways ==
  ASSUME NEW CONSTANT Asked, \A q \in Asked : Bounded(q)
  PROVE  ProviderUsed(Asked) => []CutsKeepWhatFits
<1> DEFINE Valid == ValidText(text)
           Inv == ValidText(text) /\ CutsKeepWhatFits
           Step == (\E q \in Asked : Serve(q)) \/ (\E seed : Renew(seed))
<1>1. ProviderSeeded /\ ValidText(text) => Inv
  <2>1. ASSUME ProviderSeeded PROVE CutsKeepWhatFits
    <3>1. answer.code = "none"
      BY <2>1 DEF ProviderSeeded, ProviderInit, Seeded, NoAnswer
    <3> QED
      BY <3>1 DEF CutsKeepWhatFits
  <2> QED
    BY <2>1
<1>2. Inv /\ [Step]_<<provider, answer, reads, handed>> => Inv'
  <2>1. SUFFICES ASSUME Inv, [Step]_<<provider, answer, reads, handed>> PROVE Inv'
    OBVIOUS
  <2>2. ASSUME UNCHANGED text PROVE (ValidText(text))'
    BY <2>1, <2>2
  <2>3. ASSUME NEW q \in Asked, Serve(q) PROVE Inv'
    <3>1. CutsKeepWhatFits' /\ UNCHANGED text
      BY <2>1, <2>3, ServeKeeps
    <3> QED
      BY <2>2, <3>1
  <2>4. ASSUME NEW seed, Renew(seed) PROVE Inv'
    <3>1. text' = seed /\ ValidText(seed) /\ answer'.code = "none"
      BY <2>4 DEF Renew, Fresh, Seeded, NoAnswer
    <3>2. (ValidText(text))'
      BY <3>1
    <3>3. CutsKeepWhatFits'
      BY <3>1 DEF CutsKeepWhatFits
    <3> QED
      BY <3>2, <3>3
  <2>5. CASE UNCHANGED <<provider, answer, reads, handed>>
    <3>1. UNCHANGED <<text, answer>>
      BY <2>5 DEF reads
    <3>2. CutsKeepWhatFits'
      BY <2>1, <3>1, Zenon DEF CutsKeepWhatFits, Patch
    <3> QED
      BY <2>2, <3>1, <3>2
  <2> QED
    BY <2>1, <2>3, <2>4, <2>5, Zenon
<1>3. Inv => CutsKeepWhatFits
  OBVIOUS
<1> HIDE DEF Inv, Step
<1>4. ProviderUsed(Asked) <=> ProviderSeeded /\ ValidText(text)
                                  /\ [][Step]_<<provider, answer, reads, handed>>
  BY DEF ProviderUsed, Step
<1> QED
  BY <1>1, <1>2, <1>3, <1>4, PTL
=============================================================================
