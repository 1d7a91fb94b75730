----------------------------- MODULE FakeAccess -----------------------------
(***************************************************************************)
(* What the reference git provider hands out and takes back by id          *)
(* (fakeprovider/fake.go, variants.go): webhooks, access grants, run       *)
(* statuses and minted credentials, all numbered from one counter.  Every  *)
(* method is one step under Core.mu; callers repeat calls, complete grants *)
(* late or twice, and remove webhooks that are gone.  HookDelivery composes *)
(* this with the deliveries that go through the webhooks.                  *)
(***************************************************************************)
EXTENDS Integers, FiniteSets, Functions, GoMaps

CONSTANTS
  Repos,     \* Core.repos
  URLs,      \* webhook URLs
  MaxSeq     \* bound: ids handed out by next

ASSUME MaxSeqAssumption == MaxSeq \in Nat

RunStates == {"queued", "success"}

VARIABLES
  seq,       \* Core.seq
  hooks,     \* repository -> hook id -> URL
  grants,    \* access-grant state -> used
  statuses,  \* repository -> status reference -> run state
  deleted,   \* Core.Deleted: the identity was deleted
  \* history, for the properties only:
  refs,      \* repository -> what EnsureWebhook answered: its hook ids and their URLs
  granted    \* access-grant state -> grants given for it

access == <<seq, hooks, grants, statuses, deleted, refs, granted>>

(* Nothing is handed out, in the variables of that order.                  *)
Unused(h, g, st, d, rf, gr) ==
  /\ h = [r \in Repos |-> <<>>]
  /\ g = <<>>
  /\ st = [r \in Repos |-> <<>>]
  /\ d = FALSE
  /\ rf = [r \in Repos |-> {}]
  /\ gr = [s \in 1..MaxSeq |-> 0]

AccessInit == seq = 0 /\ Unused(hooks, grants, statuses, deleted, refs, granted)

(* Mutation: an id is handed out and the counter stays.                    *)
Reused(id) == id = seq + 1 /\ id <= MaxSeq /\ UNCHANGED seq

(* Core.next hands out id.                                                 *)
next(id) == id = seq + 1 /\ id <= MaxSeq /\ seq' = id

----------------------------------------------------------------------------
(* EnsureWebhook answers id: the webhook the URL already has, or a new one. *)
EnsureWebhook(r, url, id) ==
  /\ IF url \in Range(hooks[r])
       THEN id \in DOMAIN hooks[r] /\ hooks[r][id] = url /\ UNCHANGED <<seq, hooks>>
       ELSE next(id) /\ hooks' = [hooks EXCEPT ![r] = MapSet(@, id, url)]
  /\ refs' = [refs EXCEPT ![r] = @ \cup {<<id, url>>}]
  /\ UNCHANGED <<grants, statuses, deleted, granted>>

(* Removing a webhook that is gone, or another repository's, does nothing. *)
RemoveWebhook(r, id) ==
  /\ hooks' = [hooks EXCEPT ![r] = Restrict(@, DOMAIN @ \ {id})]
  /\ UNCHANGED <<seq, grants, statuses, deleted, refs, granted>>

BeginAccessGrant(s) ==
  /\ next(s)
  /\ grants' = MapSet(grants, s, FALSE)
  /\ UNCHANGED <<hooks, statuses, deleted, refs, granted>>

(* Mutation: the state stays valid.                                        *)
StateKept(s) == UNCHANGED grants

(* A completed state is used up.                                           *)
Spend(s) == grants' = [grants EXCEPT ![s] = TRUE]

(* Unknown and used states are refused.                                    *)
GrantRefused(s) == ~(s \in DOMAIN grants /\ ~grants[s])

CompleteAccessGrant(s) ==
  /\ ~GrantRefused(s)
  /\ Spend(s)
  /\ granted' = [granted EXCEPT ![s] = @ + 1]
  /\ UNCHANGED <<seq, hooks, statuses, deleted, refs>>

(* SetStatus without a reference shows a new status; with one it updates   *)
(* in place, and refuses a reference the repository does not know.         *)
NewStatus(r, ref, state) ==
  /\ next(ref)
  /\ statuses' = [statuses EXCEPT ![r] = MapSet(@, ref, state)]
  /\ UNCHANGED <<hooks, grants, deleted, refs, granted>>

UpdateStatus(r, ref, state) ==
  /\ ref \in DOMAIN statuses[r]
  /\ statuses' = [statuses EXCEPT ![r][ref] = state]
  /\ UNCHANGED <<seq, hooks, grants, deleted, refs, granted>>

(* An ephemeral credential takes an id.                                    *)
MintCredential(id) ==
  /\ next(id)
  /\ UNCHANGED <<hooks, grants, statuses, deleted, refs, granted>>

(* DeleteIdentity only records the identity: the other methods still       *)
(* accept it.                                                              *)
DeleteIdentity ==
  /\ deleted' = TRUE
  /\ UNCHANGED <<seq, hooks, grants, statuses, refs, granted>>

AccessNext ==
  \/ \E id \in 1..MaxSeq :
       \/ \E r \in Repos, url \in URLs : EnsureWebhook(r, url, id)
       \/ \E r \in Repos : RemoveWebhook(r, id)
       \/ BeginAccessGrant(id)
       \/ CompleteAccessGrant(id)
       \/ \E r \in Repos, state \in RunStates : NewStatus(r, id, state) \/ UpdateStatus(r, id, state)
       \/ MintCredential(id)
  \/ DeleteIdentity
----------------------------------------------------------------------------
(* A reference EnsureWebhook answered names that URL's webhook or nothing, *)
(* for ever: a late RemoveWebhook with it never removes another URL's, nor *)
(* another repository's (Core.next never hands out an id twice).           *)
OldRefsAreHarmless ==
  \A r \in Repos : \A ref \in refs[r] :
    /\ ref[1] \in DOMAIN hooks[r] => hooks[r][ref[1]] = ref[2]
    /\ \A s \in Repos \ {r} : ref[1] \notin DOMAIN hooks[s]

(* "A state works once": replaying a callback does not grant again, in any *)
(* order of grants begun and completed (CompleteAccessGrant).              *)
StateWorksOnce == \A s \in DOMAIN granted : granted[s] <= 1
=============================================================================
