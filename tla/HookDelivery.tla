---------------------------- MODULE HookDelivery ----------------------------
(***************************************************************************)
(* Webhooks from registration to core's inbox: the reference provider's    *)
(* EnsureWebhook and RemoveWebhook (FakeAccess), the deliveries that the   *)
(* platform sends through the webhooks registered when something happens,  *)
(* and VerifyAndParseWebhook (Webhooks), whose events core takes once per  *)
(* event id.                                                               *)
(*                                                                         *)
(* The platform and core are external: the platform signs and numbers a    *)
(* delivery per webhook, sends it as often as it likes, late and in any    *)
(* order, and unsigned deliveries arrive too.                              *)
(***************************************************************************)
EXTENDS FakeAccess, Webhooks

CONSTANTS
  Happenings,      \* what may happen: its delivery (a fakeHook), whether that is
                   \* malformed, and the ways it really addresses the identity
  Triggers,        \* the sets of triggers a provider may declare
  MaxHappenings    \* bound: how often something happens

ASSUME MaxHappeningsAssumption == MaxHappenings \in Nat
ASSUME HappeningsAssumption == \A x \in Happenings : DOMAIN x.hook = DOMAIN fakeHook

VARIABLES
  triggers,    \* Capabilities.Triggers
  happened,    \* what happened, in order
  mail,        \* the deliveries sent, any of which may arrive again
  told         \* URL -> the events core took, each with the happening it is of

vars == <<access, triggers, happened, mail, told>>
deliveries == <<triggers, happened, mail, told>>

Init ==
  /\ AccessInit
  /\ triggers \in Triggers
  /\ happened = <<>>
  /\ mail = {}
  /\ told = [url \in URLs |-> {}]

----------------------------------------------------------------------------
(* x happens in r; the platform numbers, signs and sends one delivery for  *)
(* each webhook r has now.  x may say another path than r's, as after a    *)
(* transfer.                                                               *)
Happens(r, x) ==
  LET n == Len(happened) + 1
      path == IF x.hook.repo = "" THEN r ELSE x.hook.repo
      Sent(id) == [url |-> hooks[r][id], signed |-> TRUE, malformed |-> x.malformed, of |-> n,
                   hook |-> [x.hook EXCEPT !.delivery = <<n, id>>, !.repo = path]]
  IN  /\ n <= MaxHappenings
      /\ happened' = Append(happened, [what |-> x, repo |-> path])
      /\ mail' = mail \cup {Sent(id) : id \in DOMAIN hooks[r]}
      /\ UNCHANGED <<access, triggers, told>>

(* What was sent as m arrives as another delivery, which the platform did  *)
(* not sign.                                                               *)
Unsigned(m) ==
  /\ mail' = mail \cup {[m EXCEPT !.signed = FALSE, !.of = 0, !.hook.delivery = <<0, 0>>]}
  /\ UNCHANGED <<access, triggers, happened, told>>

(* Core's inbox for url knows the event.                                   *)
Seen(url, event) == \E t \in told[url] : t.event.id = event.id

(* Core hands m to the provider and takes the events it has not seen.      *)
Deliver(m) ==
  LET events == VerifyAndParseWebhook(m, triggers).events
      new == {i \in DOMAIN events : ~Seen(m.url, events[i])}
  IN  /\ told' = [told EXCEPT ![m.url] = @ \cup {[event |-> events[i], of |-> m.of] : i \in new}]
      /\ UNCHANGED <<access, triggers, happened, mail>>

Next ==
  \/ AccessNext /\ UNCHANGED deliveries
  \/ \E r \in Repos, x \in Happenings : Happens(r, x)
  \/ \E m \in mail : Unsigned(m) \/ Deliver(m)

Spec == Init /\ [][Next]_vars
----------------------------------------------------------------------------
EventsOf(url, n) == {t \in told[url] : t.of = n}

(* Core hears of everything once: however often a webhook was ensured,     *)
(* removed and ensured again and a delivery repeated, a happening has no   *)
(* second event at a URL, and no delivery's event passes for a repetition  *)
(* when core has not heard of what happened (EnsureWebhook, the event ids; *)
(* the kit: "core's idempotency depends on it").                           *)
OneEventPerHappening ==
  /\ \A url \in URLs, n \in 1..MaxHappenings : Cardinality(EventsOf(url, n)) <= 1
  /\ \A m \in mail : LET events == VerifyAndParseWebhook(m, triggers).events
                     IN  \A i \in DOMAIN events :
                           Seen(m.url, events[i]) => EventsOf(m.url, m.of) # {}

(* An event is about something that happened there, done by who did it,    *)
(* and addresses the identity in exactly the declared ways in which it was *)
(* addressed: never from an unsigned or malformed delivery, never by an @  *)
(* in an e-mail address (VerifyAndParseWebhook, mentions; "core trusts     *)
(* `addressed` and capabilities to agree").                                *)
EventsSayWhatHappened ==
  \A url \in URLs : \A t \in told[url] :
    /\ t.of # 0
    /\ LET h == happened[t.of]
       IN  /\ ~h.what.malformed
           /\ t.event.repo = h.repo
           /\ t.event.kind = h.what.hook.type
           /\ t.event.actor = h.what.hook.actor
           /\ t.event.addressed = h.what.addresses \cap triggers
=============================================================================
