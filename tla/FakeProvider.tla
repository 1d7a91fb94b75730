---------------------------- MODULE FakeProvider ----------------------------
(***************************************************************************)
(* The whole reference git provider: the writes, the reads, the webhooks   *)
(* and the ids it hands out share one Core (fakeprovider/fake.go,          *)
(* variants.go), and one counter numbers them all.  ConformanceKit calls   *)
(* it; a request is a record of its operation, repository, arguments and   *)
(* idempotency key.                                                        *)
(***************************************************************************)
EXTENDS FakeReads

CONSTANT MaxSeq      \* bound: ids handed out by next

VARIABLES hooks, grants, statuses, deleted, refs, granted

A == INSTANCE FakeAccess WITH URLs <- {}

handed == <<hooks, grants, statuses, deleted, refs, granted>>

(* Harness.New: seed data that nobody has touched, with that text.         *)
Fresh(seed) ==
  /\ Seeded(crs', nextID', posts', branches', seq', idem', answer', done')
  /\ A!Unused(hooks', grants', statuses', deleted', refs', granted')
  /\ text' = seed /\ marks' = {}

ProviderSeeded ==
  /\ ProviderInit /\ marks = {}
  /\ A!Unused(hooks, grants, statuses, deleted, refs, granted)

----------------------------------------------------------------------------
(* The triggers New and NewMinimal declare.                                *)
Triggers == IF full THEN {"mention", "review_request", "assignment"} ELSE {"mention"}

Told(q, code, result) == Answer(q.op, q.repo, q.arg, q.key, code, result)

(* A step of FakeAccess; what it shares with the writes is seq.            *)
Handing(q, Step, result) ==
  /\ Step
  /\ Told(q, "ok", result)
  /\ UNCHANGED <<full, crs, nextID, posts, branches, idem, done, reads>>

Refusing(q, code) == Told(q, code, 0) /\ UNCHANGED <<provider, reads, handed>>

(* Why MintCredential is refused; a static credential takes no id and does *)
(* not expire.                                                             *)
MintRefused(q) ==
  IF q.repo \notin Repos THEN "not_found"
  ELSE IF q.arg[1] \notin {"read", "write"} THEN "validation" ELSE "no"

Mint(q) ==
  \/ MintRefused(q) # "no" /\ Refusing(q, MintRefused(q))
  \/ MintRefused(q) = "no" /\ full /\ Handing(q, A!MintCredential(seq + 1), "expires")
  \/ MintRefused(q) = "no" /\ ~full /\ Handing(q, UNCHANGED <<seq, handed>>, "static")

(* The reference 0 is empty.                                               *)
SetStatus(q) ==
  LET ref == q.arg[1]
  IN  IF ref = 0 THEN Handing(q, A!NewStatus(q.repo, seq + 1, q.arg[2]), seq + 1)
      ELSE IF ref \in DOMAIN statuses[q.repo] THEN Handing(q, A!UpdateStatus(q.repo, ref, q.arg[2]), ref)
      ELSE Refusing(q, "not_found")

BeginGrant(q) ==
  \/ q.arg[1] # Identity /\ Refusing(q, "not_found")
  \/ q.arg[1] = Identity /\ Handing(q, A!BeginAccessGrant(seq + 1), seq + 1)

(* 0 is an empty state.                                                    *)
CompleteGrant(q) ==
  \/ q.arg[1] = 0 /\ Refusing(q, "validation")
  \/ q.arg[1] # 0 /\ A!GrantRefused(q.arg[1]) /\ Refusing(q, "forbidden")
  \/ q.arg[1] # 0 /\ Handing(q, A!CompleteAccessGrant(q.arg[1]), "granted")

HandOut(q) ==
  \/ q.op = "mint" /\ Mint(q)
  \/ q.op = "set_status" /\ SetStatus(q)
  \/ q.op = "begin_grant" /\ BeginGrant(q)
  \/ q.op = "complete_grant" /\ CompleteGrant(q)
  \/ q.op = "delete_identity" /\ Handing(q, A!DeleteIdentity, "deleted")

HandOps == {"mint", "set_status", "begin_grant", "complete_grant", "delete_identity"}
WriteOps == Ops \cup {"update", "merge"}

(* Reading changes nothing, and neither does parsing a delivery.           *)
Look(q) ==
  LET parsed == VerifyAndParseWebhook(q.arg, Triggers)
  IN  /\ IF q.op = "webhook" THEN Told(q, parsed.code, parsed.events)
         ELSE Told(q, Read(q).code, Read(q).result)
      /\ UNCHANGED <<provider, reads, handed>>

(* The provider runs request q.                                            *)
Serve(q) ==
  \/ q.op \in WriteOps /\ Perform(q) /\ UNCHANGED <<reads, handed>>
  \/ q.op \in MarkOps /\ PerformMark(q) /\ UNCHANGED handed
  \/ q.op \in HandOps /\ HandOut(q)
  \/ q.op \notin WriteOps \cup MarkOps \cup HandOps /\ Look(q)
=============================================================================
