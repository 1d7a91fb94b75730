------------------------------ MODULE Webhooks ------------------------------
(***************************************************************************)
(* From a webhook delivery to the events core is told: the reference       *)
(* provider's VerifyAndParseWebhook (fakeprovider/fake.go) as a function   *)
(* of the delivery and of the triggers the provider declares.              *)
(*                                                                         *)
(* A text is the set of places where it holds "@" and the identity's       *)
(* handle, each the kinds of the characters before and after it.  "" is an *)
(* empty string.  Locations, commits and labels, copied as they are, are   *)
(* left out.                                                               *)
(***************************************************************************)
EXTENDS Integers, Sequences

CONSTANTS
  KnownRepos,    \* the repositories the identity can see
  Permissions    \* login -> its permission in them

(* The handle of the provider's one identity.                              *)
IdentityHandle == "paca-bot"

(* fakeHook without a value in any field.                                  *)
fakeHook ==
  [delivery |-> "", type |-> "", action |-> "", repo |-> "", subject |-> "", number |-> "",
   actor |-> "", actor_kind |-> "", text |-> {}, head_ref |-> "", conclusion |-> "",
   requested |-> "", assignee |-> ""]

(* The types that have an event kind, which has the same name.             *)
EventKinds == {"comment", "change_request", "review", "check", "push", "label",
               "assignment", "review_request"}

(* (^|[^\w@])@handle\b, so that a handle that goes on with "-" matches.    *)
mentions(text) ==
  \E place \in text : place.before \notin {"word", "at"} /\ place.after # "word"

(* How the delivery says that the identity is addressed.                   *)
Named(h) ==
  {via \in {"mention", "review_request", "assignment"} :
     \/ via = "mention" /\ mentions(h.text)
     \/ via = "review_request" /\ h.requested = IdentityHandle
     \/ via = "assignment" /\ h.assignee = IdentityHandle}

(* "Only report ways of being addressed that this provider declares"       *)
(* (SupportsTrigger).                                                      *)
Addressed(h, triggers) == Named(h) \cap triggers

(* Mutation: the id is not the delivery's.                                 *)
ByContent(h) == <<h.type, h.repo>>

EventID(h) == <<h.delivery, h.type>>

Event(h, triggers) ==
  [id |-> EventID(h), kind |-> h.type, action |-> h.action, repo |-> h.repo,
   actor |-> h.actor,
   actor_kind |-> IF h.actor_kind = "bot" THEN "bot" ELSE "user",
   permission |-> IF h.actor \in DOMAIN Permissions THEN Permissions[h.actor] ELSE "",
   subject |-> IF h.number = "" THEN "none"
               ELSE IF h.subject = "" THEN "change_request" ELSE h.subject,
   number |-> h.number,
   push |-> IF h.type = "push" THEN h.head_ref ELSE "none",
   check |-> IF h.type = "check" THEN h.conclusion ELSE "none",
   addressed |-> Addressed(h, triggers),
   raw_ref |-> h.delivery]

(* Mutation: the signature is not looked at.                               *)
Unverified(m) == FALSE

(* The signature is not Sign's of the body.                                *)
BadSignature(m) == ~m.signed

(* What a delivery m, with its hook m.hook, is answered with: an error's   *)
(* code or "ok", and the events.  Repositories the identity cannot see and *)
(* types without a kind are dropped without an error.                      *)
VerifyAndParseWebhook(m, triggers) ==
  CASE BadSignature(m) -> [code |-> "invalid_signature", events |-> <<>>]
    [] ~BadSignature(m) /\ m.malformed -> [code |-> "validation", events |-> <<>>]
    [] OTHER ->
         [code |-> "ok",
          events |-> IF m.hook.repo \in KnownRepos /\ m.hook.type \in EventKinds
                     THEN <<Event(m.hook, triggers)>> ELSE <<>>]
=============================================================================
