------------------------- MODULE HookDeliveryProofs -------------------------
(***************************************************************************)
(* The ids of the reference provider are never reused, grants work once,   *)
(* and core hears of every happening once and truly, for all repositories, *)
(* URLs, happenings and bounds.                                            *)
(***************************************************************************)
EXTENDS HookDelivery, FiniteSetTheorems, TLAPS

(* Webhooks are maps from ids already handed out to URLs.                  *)
HooksType ==
  /\ seq \in Nat
  /\ hooks = [r \in Repos |-> hooks[r]]
  /\ refs = [r \in Repos |-> refs[r]]
  /\ \A r \in Repos : \A id \in DOMAIN hooks[r] : id \in 1..seq /\ hooks[r][id] \in URLs

(* An id has one repository, and a URL one webhook in a repository.        *)
HooksDistinct ==
  /\ \A r, s \in Repos : \A id \in DOMAIN hooks[r] : id \in DOMAIN hooks[s] => r = s
  /\ \A r \in Repos : \A i, j \in DOMAIN hooks[r] : hooks[r][i] = hooks[r][j] => i = j

(* Every reference that was answered has an id handed out by then.         *)
RefsInv == \A r \in Repos : \A ref \in refs[r] : ref[1] \in 1..seq

(* A state was granted once if it is used up, and else not at all.         *)
GrantsInv ==
  /\ DOMAIN grants \subseteq 1..seq
  /\ granted = [s \in 1..MaxSeq |-> IF s \in DOMAIN grants /\ grants[s] THEN 1 ELSE 0]

AccessInv == HooksType /\ HooksDistinct /\ RefsInv /\ OldRefsAreHarmless /\ GrantsInv

----------------------------------------------------------------------------
(* A fresh id is beyond every id in use.                                   *)
LEMMA NextIsFresh ==
  ASSUME HooksType, NEW id, next(id)
  PROVE  id \in Nat /\ id = seq + 1 /\ seq' = id /\ id \notin 1..seq /\ 1..seq \subseteq 1..seq'
  BY DEF next, HooksType

(* EnsureWebhook keeps ids and URLs distinct and old references harmless.  *)
LEMMA EnsureWebhookKeeps ==
  ASSUME AccessInv, NEW r \in Repos, NEW url \in URLs, NEW id, EnsureWebhook(r, url, id)
  PROVE  AccessInv'
<1>0. /\ HooksType /\ HooksDistinct /\ RefsInv /\ OldRefsAreHarmless /\ GrantsInv
      /\ refs' = [refs EXCEPT ![r] = @ \cup {<<id, url>>}]
      /\ UNCHANGED <<grants, granted>>
  BY DEF AccessInv, EnsureWebhook
<1>1. /\ refs' = [s \in Repos |-> refs'[s]]
      /\ refs'[r] = refs[r] \cup {<<id, url>>}
      /\ \A s \in Repos : s # r => refs'[s] = refs[s]
  BY <1>0 DEF HooksType
<1>2. CASE url \in Range(hooks[r])
  <2>1. id \in DOMAIN hooks[r] /\ hooks[r][id] = url /\ UNCHANGED <<seq, hooks>>
    BY <1>2 DEF EnsureWebhook
  <2>2. HooksType' /\ HooksDistinct'
    BY <1>0, <1>1, <2>1 DEF HooksType, HooksDistinct
  <2>3. RefsInv'
    BY <1>0, <1>1, <2>1 DEF HooksType, RefsInv
  <2>4. OldRefsAreHarmless'
    BY <1>0, <1>1, <2>1 DEF HooksType, HooksDistinct, OldRefsAreHarmless
  <2>5. GrantsInv'
    BY <1>0, <2>1 DEF GrantsInv
  <2> QED
    BY <2>2, <2>3, <2>4, <2>5 DEF AccessInv
<1>3. CASE url \notin Range(hooks[r])
  <2>1. next(id) /\ hooks' = [hooks EXCEPT ![r] = MapSet(@, id, url)]
    BY <1>3 DEF EnsureWebhook
  <2>2. id \in Nat /\ id = seq + 1 /\ seq' = id /\ id \notin 1..seq /\ 1..seq \subseteq 1..seq'
        /\ id \in 1..seq' /\ seq' \in Nat
    BY <1>0, <2>1, NextIsFresh DEF HooksType
  <2>3. /\ hooks' = [s \in Repos |-> hooks'[s]]
        /\ hooks'[r] = MapSet(hooks[r], id, url)
        /\ \A s \in Repos : s # r => hooks'[s] = hooks[s]
    BY <1>0, <2>1 DEF HooksType
  <2>4. /\ DOMAIN hooks'[r] = DOMAIN hooks[r] \cup {id}
        /\ hooks'[r][id] = url
        /\ \A i \in DOMAIN hooks[r] : i # id => hooks'[r][i] = hooks[r][i]
    BY <2>3 DEF MapSet
  <2>5. \A s \in Repos : id \notin DOMAIN hooks[s]
    BY <1>0, <2>2 DEF HooksType
  <2>6. HooksType'
    BY <1>0, <1>1, <2>2, <2>3, <2>4 DEF HooksType
  <2>7. HooksDistinct'
    <3>1. \A i \in DOMAIN hooks[r] : hooks[r][i] # url
      BY <1>3 DEF Range
    <3>2. ASSUME NEW s1 \in Repos, NEW s2 \in Repos, NEW i \in DOMAIN hooks'[s1],
                 i \in DOMAIN hooks'[s2]
          PROVE  s1 = s2
      BY <1>0, <2>3, <2>4, <2>5, <3>2 DEF HooksDistinct
    <3>3. ASSUME NEW s1 \in Repos, NEW i \in DOMAIN hooks'[s1], NEW j \in DOMAIN hooks'[s1],
                 hooks'[s1][i] = hooks'[s1][j]
          PROVE  i = j
      BY <1>0, <2>3, <2>4, <2>5, <3>1, <3>3 DEF HooksDistinct
    <3> QED
      BY <3>2, <3>3 DEF HooksDistinct
  <2>8. RefsInv'
    BY <1>0, <1>1, <2>2 DEF RefsInv
  <2>9. OldRefsAreHarmless'
    <3>1. ASSUME NEW s1 \in Repos, NEW ref \in refs'[s1]
          PROVE  /\ ref[1] \in DOMAIN hooks'[s1] => hooks'[s1][ref[1]] = ref[2]
                 /\ \A s2 \in Repos \ {s1} : ref[1] \notin DOMAIN hooks'[s2]
      <4>1. CASE ref \in refs[s1]
        <5>1. ref[1] # id
          BY <1>0, <2>2, <4>1 DEF RefsInv
        <5> QED
          BY <1>0, <2>3, <2>4, <4>1, <5>1 DEF OldRefsAreHarmless
      <4>2. CASE s1 = r /\ ref = <<id, url>>
        BY <2>3, <2>4, <2>5, <4>2
      <4> QED
        BY <1>1, <3>1, <4>1, <4>2
    <3> QED
      BY <3>1 DEF OldRefsAreHarmless
  <2>10. GrantsInv'
    BY <1>0, <2>2 DEF GrantsInv
  <2> QED
    BY <2>6, <2>7, <2>8, <2>9, <2>10 DEF AccessInv
<1> QED
  BY <1>2, <1>3

(* RemoveWebhook takes one webhook away at most.                           *)
LEMMA RemoveWebhookKeeps ==
  ASSUME AccessInv, NEW r \in Repos, NEW id, RemoveWebhook(r, id)
  PROVE  AccessInv'
<1>0. /\ HooksType /\ HooksDistinct /\ RefsInv /\ OldRefsAreHarmless /\ GrantsInv
      /\ hooks' = [hooks EXCEPT ![r] = Restrict(@, DOMAIN @ \ {id})]
      /\ UNCHANGED <<seq, refs, grants, granted>>
  BY DEF AccessInv, RemoveWebhook
<1>1. /\ hooks' = [s \in Repos |-> hooks'[s]]
      /\ hooks'[r] = Restrict(hooks[r], DOMAIN hooks[r] \ {id})
      /\ \A s \in Repos : s # r => hooks'[s] = hooks[s]
  BY <1>0 DEF HooksType
<1>2. \A s \in Repos : /\ DOMAIN hooks'[s] \subseteq DOMAIN hooks[s]
                       /\ \A i \in DOMAIN hooks'[s] : hooks'[s][i] = hooks[s][i]
  <2>1. /\ DOMAIN hooks'[r] = DOMAIN hooks[r] \ {id}
        /\ \A i \in DOMAIN hooks[r] \ {id} : hooks'[r][i] = hooks[r][i]
    BY <1>1 DEF Restrict
  <2> QED
    BY <1>1, <2>1
<1>3. HooksType'
  BY <1>0, <1>1, <1>2 DEF HooksType
<1>4. HooksDistinct'
  <2>1. \A s1, s2 \in Repos : \A i \in DOMAIN hooks'[s1] : i \in DOMAIN hooks'[s2] => s1 = s2
    BY <1>0, <1>2 DEF HooksDistinct
  <2>2. ASSUME NEW s1 \in Repos, NEW i \in DOMAIN hooks'[s1], NEW j \in DOMAIN hooks'[s1],
               hooks'[s1][i] = hooks'[s1][j]
        PROVE  i = j
    <3>1. i \in DOMAIN hooks[s1] /\ j \in DOMAIN hooks[s1] /\ hooks[s1][i] = hooks[s1][j]
      BY <1>2, <2>2
    <3> QED
      BY <1>0, <3>1 DEF HooksDistinct
  <2> QED
    BY <2>1, <2>2 DEF HooksDistinct
<1>5. RefsInv' /\ GrantsInv'
  BY <1>0 DEF RefsInv, GrantsInv
<1>6. OldRefsAreHarmless'
  <2>1. ASSUME NEW s1 \in Repos, NEW ref \in refs[s1]
        PROVE  /\ ref[1] \in DOMAIN hooks'[s1] => hooks'[s1][ref[1]] = ref[2]
               /\ \A s2 \in Repos \ {s1} : ref[1] \notin DOMAIN hooks'[s2]
    <3>1. /\ ref[1] \in DOMAIN hooks[s1] => hooks[s1][ref[1]] = ref[2]
          /\ \A s2 \in Repos \ {s1} : ref[1] \notin DOMAIN hooks[s2]
      BY <1>0 DEF OldRefsAreHarmless
    <3>2. /\ DOMAIN hooks'[s1] \subseteq DOMAIN hooks[s1]
          /\ \A i \in DOMAIN hooks'[s1] : hooks'[s1][i] = hooks[s1][i]
      BY <1>2
    <3>3. \A s2 \in Repos \ {s1} : ref[1] \notin DOMAIN hooks'[s2]
      BY <1>2, <3>1, Zenon
    <3> QED
      BY <3>1, <3>2, <3>3, Zenon
  <2>2. refs' = refs
    BY <1>0
  <2> QED
    BY <2>1, <2>2 DEF OldRefsAreHarmless
<1> QED
  BY <1>3, <1>4, <1>5, <1>6 DEF AccessInv

(* A step that leaves webhooks and their references alone keeps what is    *)
(* known of them, also when it takes an id.                                *)
LEMMA HooksKept ==
  ASSUME AccessInv, UNCHANGED <<hooks, refs>>, seq' = seq \/ (\E id : next(id))
  PROVE  HooksType' /\ HooksDistinct' /\ RefsInv' /\ OldRefsAreHarmless'
<1>1. HooksType /\ HooksDistinct /\ RefsInv /\ OldRefsAreHarmless
  BY DEF AccessInv
<1>2. seq' \in Nat /\ 1..seq \subseteq 1..seq'
  BY <1>1, NextIsFresh DEF HooksType
<1>3. HooksType' /\ RefsInv'
  BY <1>1, <1>2 DEF HooksType, RefsInv
<1>4. HooksDistinct' /\ OldRefsAreHarmless'
  BY <1>1 DEF HooksDistinct, OldRefsAreHarmless
<1> QED
  BY <1>3, <1>4

(* Nothing is handed out at first.                                         *)
LEMMA AccessInitInv == AccessInit => AccessInv
<1> SUFFICES ASSUME AccessInit PROVE AccessInv
  OBVIOUS
<1>1. /\ seq = 0 /\ hooks = [r \in Repos |-> <<>>] /\ grants = <<>>
      /\ refs = [r \in Repos |-> {}] /\ granted = [s \in 1..MaxSeq |-> 0]
  BY DEF AccessInit, Unused
<1>2. HooksType /\ HooksDistinct /\ RefsInv /\ OldRefsAreHarmless
  BY <1>1 DEF HooksType, HooksDistinct, RefsInv, OldRefsAreHarmless
<1>3. GrantsInv
  BY <1>1 DEF GrantsInv
<1> QED
  BY <1>2, <1>3 DEF AccessInv

(* Every method of the provider keeps the invariant.                       *)
LEMMA AccessStepInv ==
  ASSUME AccessInv, AccessNext
  PROVE  AccessInv'
<1>1. ASSUME NEW id \in 1..MaxSeq, BeginAccessGrant(id) PROVE AccessInv'
  <2>1. next(id) /\ grants' = MapSet(grants, id, FALSE) /\ UNCHANGED <<hooks, refs, granted>>
    BY <1>1 DEF BeginAccessGrant
  <2>2. HooksType' /\ HooksDistinct' /\ RefsInv' /\ OldRefsAreHarmless'
    BY <2>1, HooksKept
  <2>3. id = seq + 1 /\ seq' = id /\ id \notin 1..seq /\ 1..seq \subseteq 1..seq' /\ id \in 1..seq'
    BY <1>1, <2>1, NextIsFresh DEF AccessInv, HooksType
  <2>4. DOMAIN grants' = DOMAIN grants \cup {id} /\ grants'[id] = FALSE
        /\ \A s \in DOMAIN grants : s # id => grants'[s] = grants[s]
    BY <2>1 DEF MapSet
  <2>5. id \notin DOMAIN grants /\ DOMAIN grants' \subseteq 1..seq'
    BY <2>3, <2>4 DEF AccessInv, GrantsInv
  <2>6. GrantsInv'
    BY <2>1, <2>4, <2>5 DEF AccessInv, GrantsInv
  <2> QED
    BY <2>2, <2>6 DEF AccessInv
<1>2. ASSUME NEW id \in 1..MaxSeq, CompleteAccessGrant(id) PROVE AccessInv'
  <2>1. /\ id \in DOMAIN grants /\ ~grants[id] /\ grants' = [grants EXCEPT ![id] = TRUE]
        /\ granted' = [granted EXCEPT ![id] = @ + 1] /\ UNCHANGED <<seq, hooks, refs>>
    BY <1>2 DEF CompleteAccessGrant, GrantRefused, Spend
  <2>2. HooksType' /\ HooksDistinct' /\ RefsInv' /\ OldRefsAreHarmless'
    BY <2>1, HooksKept
  <2>3. /\ DOMAIN grants' = DOMAIN grants /\ grants'[id] = TRUE
        /\ \A s \in DOMAIN grants : s # id => grants'[s] = grants[s]
    BY <2>1
  <2>4. granted[id] = 0
    BY <2>1 DEF AccessInv, GrantsInv
  <2>5. granted' = [s \in 1..MaxSeq |-> IF s = id THEN 1 ELSE granted[s]]
    <3>1. DOMAIN granted = 1..MaxSeq
      BY DEF AccessInv, GrantsInv
    <3>2. granted' = [granted EXCEPT ![id] = 1]
      BY <2>1, <2>4
    <3> QED
      BY <3>1, <3>2
  <2>6. \A s \in 1..MaxSeq : granted'[s] = IF s \in DOMAIN grants' /\ grants'[s] THEN 1 ELSE 0
    BY <1>2, <2>1, <2>3, <2>5 DEF AccessInv, GrantsInv
  <2>7. GrantsInv'
    BY <2>1, <2>3, <2>5, <2>6 DEF AccessInv, GrantsInv
  <2> QED
    BY <2>2, <2>7 DEF AccessInv
<1>3. ASSUME UNCHANGED <<hooks, refs, grants, granted>>, seq' = seq \/ (\E id : next(id))
      PROVE  AccessInv'
  <2>1. HooksType' /\ HooksDistinct' /\ RefsInv' /\ OldRefsAreHarmless'
    BY <1>3, HooksKept
  <2>2. 1..seq \subseteq 1..seq'
    BY <1>3, NextIsFresh DEF AccessInv
  <2>3. GrantsInv'
    BY <1>3, <2>2 DEF AccessInv, GrantsInv
  <2> QED
    BY <2>1, <2>3 DEF AccessInv
<1>4. ASSUME NEW id, NEW r \in Repos, NEW state, NewStatus(r, id, state) \/ UpdateStatus(r, id, state)
      PROVE  AccessInv'
  BY <1>3, <1>4 DEF NewStatus, UpdateStatus
<1>5. ASSUME NEW id, MintCredential(id) PROVE AccessInv'
  BY <1>3, <1>5 DEF MintCredential
<1>6. ASSUME DeleteIdentity PROVE AccessInv'
  BY <1>3, <1>6 DEF DeleteIdentity
<1> QED
  BY <1>1, <1>2, <1>4, <1>5, <1>6, EnsureWebhookKeeps, RemoveWebhookKeeps DEF AccessNext

----------------------------------------------------------------------------
(* What happened as number n of hist, as the delivery through webhook id.  *)
HookOf(hist, n, id) == [hist[n].what.hook EXCEPT !.delivery = <<n, id>>, !.repo = hist[n].repo]

Paths == Repos \cup {x.hook.repo : x \in Happenings}
Record == [what : Happenings, repo : Paths]
HappenedType == happened \in Seq(Record)

(* A delivery the platform signed is one of something that happened.       *)
Genuine(hist, m) ==
  /\ m.of \in 1..Len(hist)
  /\ m.malformed = hist[m.of].what.malformed
  /\ \E id : m.hook = HookOf(hist, m.of, id)

MailType(m) == DOMAIN m = {"url", "signed", "malformed", "of", "hook"} /\ m.url \in URLs

(* Of each happening one signed delivery goes to a URL, at most.           *)
MailInv ==
  /\ \A m \in mail : MailType(m) /\ (m.signed => Genuine(happened, m))
  /\ \A m1, m2 \in mail :
       m1.signed /\ m2.signed /\ m1.url = m2.url /\ m1.of = m2.of => m1.hook = m2.hook

(* The event t, taken at url, is that of the signed delivery m.            *)
Source(m, url, t) ==
  /\ m.signed /\ ~m.malformed /\ m.url = url
  /\ t = [event |-> Event(m.hook, triggers), of |-> m.of]

ToldInv ==
  /\ told = [url \in URLs |-> told[url]]
  /\ \A url \in URLs : \A t \in told[url] : \E m \in mail : Source(m, url, t)

IInv == AccessInv /\ HappenedType /\ MailInv /\ ToldInv

(* VerifyAndParseWebhook makes one event of a signed, well-formed delivery *)
(* or none.                                                                *)
LEMMA ParsedEvents ==
  ASSUME NEW m, NEW trg
  PROVE  LET events == VerifyAndParseWebhook(m, trg).events
         IN  events = <<>> \/ (m.signed /\ ~m.malformed /\ events = <<Event(m.hook, trg)>>)
<1> DEFINE parsed == VerifyAndParseWebhook(m, trg)
           evs == IF m.hook.repo \in KnownRepos /\ m.hook.type \in EventKinds
                    THEN <<Event(m.hook, trg)>> ELSE <<>>
<1>1. CASE ~m.signed
  <2>1. parsed = [code |-> "invalid_signature", events |-> <<>>]
    BY <1>1, Zenon DEF VerifyAndParseWebhook, BadSignature
  <2> QED
    BY <2>1
<1>2. CASE m.signed /\ m.malformed
  <2>1. parsed = [code |-> "validation", events |-> <<>>]
    BY <1>2, Zenon DEF VerifyAndParseWebhook, BadSignature
  <2> QED
    BY <2>1
<1>3. CASE m.signed /\ ~m.malformed
  <2>1. parsed = [code |-> "ok", events |-> evs]
    BY <1>3, Zenon DEF VerifyAndParseWebhook, BadSignature
  <2>2. parsed.events = evs
    BY <2>1
  <2> QED
    BY <1>3, <2>2
<1> QED
  BY <1>1, <1>2, <1>3

(* An event copies the delivery's repository, type and actor.              *)
LEMMA EventFields ==
  ASSUME NEW h, NEW trg
  PROVE  /\ Event(h, trg).id = EventID(h) /\ Event(h, trg).repo = h.repo
         /\ Event(h, trg).kind = h.type /\ Event(h, trg).actor = h.actor
         /\ Event(h, trg).addressed = Named(h) \cap trg
  BY DEF Event, Addressed

(* A delivery keeps the fields of what happened but for its number and     *)
(* repository.                                                             *)
LEMMA HookFields ==
  ASSUME HappenedType, NEW n \in 1..Len(happened), NEW id
  PROVE  LET h == HookOf(happened, n, id)
             x == happened[n].what
         IN  /\ x \in Happenings
             /\ h.delivery = <<n, id>> /\ h.repo = happened[n].repo
             /\ h.type = x.hook.type /\ h.actor = x.hook.actor /\ h.text = x.hook.text
             /\ h.requested = x.hook.requested /\ h.assignee = x.hook.assignee
<1>1. happened[n].what \in Happenings
  <2>1. happened[n] \in Record
    BY DEF HappenedType
  <2> QED
    BY <2>1 DEF Record
<1>2. DOMAIN happened[n].what.hook = DOMAIN fakeHook
  BY <1>1, HappeningsAssumption
<1>3. {"delivery", "type", "repo", "actor", "text", "requested", "assignee"} \subseteq DOMAIN fakeHook
  BY DEF fakeHook
<1> DEFINE g == happened[n].what.hook
           d == <<n, id>>
           path == happened[n].repo
           h == HookOf(happened, n, id)
<1>4. h = [g EXCEPT !.delivery = d, !.repo = path]
  BY DEF HookOf
<1> HIDE DEF g, d, path, h
<1>5. /\ h.delivery = d /\ h.repo = path
      /\ h.type = g.type /\ h.actor = g.actor /\ h.text = g.text
      /\ h.requested = g.requested /\ h.assignee = g.assignee
  <2>1. {"delivery", "type", "repo", "actor", "text", "requested", "assignee"} \subseteq DOMAIN g
    BY <1>2, <1>3 DEF g
  <2> QED
    BY <1>4, <2>1
<1> QED
  BY <1>1, <1>5 DEF g, d, path, h

(* Something happens: one more delivery per URL, for the webhooks of a     *)
(* repository have different URLs.                                         *)
LEMMA HappensKeeps ==
  ASSUME IInv, NEW r \in Repos, NEW x \in Happenings, Happens(r, x)
  PROVE  IInv'
<1> DEFINE n == Len(happened) + 1
           path == IF x.hook.repo = "" THEN r ELSE x.hook.repo
           Sent(id) == [url |-> hooks[r][id], signed |-> TRUE, malformed |-> x.malformed, of |-> n,
                        hook |-> [x.hook EXCEPT !.delivery = <<n, id>>, !.repo = path]]
           rec == [what |-> x, repo |-> path]
<1>0. /\ AccessInv /\ HappenedType /\ MailInv /\ ToldInv
      /\ happened' = Append(happened, rec)
      /\ mail' = mail \cup {Sent(id) : id \in DOMAIN hooks[r]}
      /\ UNCHANGED <<seq, hooks, grants, statuses, deleted, refs, granted, triggers, told>>
  BY DEF IInv, Happens, access
<1>1. AccessInv'
  BY <1>0 DEF AccessInv, HooksType, HooksDistinct, RefsInv, OldRefsAreHarmless, GrantsInv
<1>2a. path \in Paths
  BY DEF Paths
<1>2b. rec \in Record /\ rec.what = x /\ rec.repo = path
  BY <1>2a DEF Record
<1> HIDE DEF rec, path
<1>2c. happened \in Seq(Record) /\ rec \in Record /\ happened' = Append(happened, rec)
  BY <1>0, <1>2b DEF HappenedType
<1>2. HappenedType'
  BY <1>2c DEF HappenedType
<1>3. /\ Len(happened) \in Nat /\ Len(happened') = n
      /\ happened'[n] = rec
      /\ \A i \in 1..Len(happened) : happened'[i] = happened[i]
  BY <1>2c
<1>4. \A m \in mail : m.signed => Genuine(happened, m) /\ Genuine(happened', m)
  <2> SUFFICES ASSUME NEW m \in mail, m.signed PROVE Genuine(happened, m) /\ Genuine(happened', m)
    OBVIOUS
  <2>1. Genuine(happened, m)
    BY <1>0 DEF MailInv
  <2>2. m.of \in 1..Len(happened) /\ m.of \in 1..Len(happened') /\ happened'[m.of] = happened[m.of]
    BY <1>3, <2>1 DEF Genuine
  <2>3. PICK id : m.hook = HookOf(happened, m.of, id)
    BY <2>1 DEF Genuine
  <2>4. m.hook = HookOf(happened', m.of, id)
    BY <2>2, <2>3 DEF HookOf
  <2> QED
    BY <2>1, <2>2, <2>4 DEF Genuine
<1>5. ASSUME NEW id \in DOMAIN hooks[r]
      PROVE  /\ MailType(Sent(id)) /\ Sent(id).signed /\ Genuine(happened', Sent(id))
             /\ Sent(id).of = n /\ Sent(id).url = hooks[r][id]
  <2>1. hooks[r][id] \in URLs
    BY <1>0 DEF AccessInv, HooksType
  <2>2. MailType(Sent(id))
    BY <2>1 DEF MailType
  <2>3. happened'[n].what = x /\ happened'[n].repo = path /\ n \in 1..Len(happened')
    BY <1>2b, <1>3
  <2>4. Sent(id).hook = HookOf(happened', n, id)
    BY <2>3 DEF HookOf
  <2> HIDE DEF n
  <2>5. Genuine(happened', Sent(id))
    BY <2>3, <2>4 DEF Genuine
  <2> QED
    BY <2>2, <2>5
<1>6. ASSUME NEW m1 \in mail', NEW m2 \in mail', m1.signed, m2.signed,
             m1.url = m2.url, m1.of = m2.of
      PROVE  m1.hook = m2.hook
  <2>1. \A m \in mail : m.signed => m.of # n
    BY <1>3, <1>4 DEF Genuine
  <2>2. CASE m1 \in mail /\ m2 \in mail
    BY <1>0, <1>6, <2>2 DEF MailInv
  <2>3. ASSUME NEW i \in DOMAIN hooks[r], NEW j \in DOMAIN hooks[r], m1 = Sent(i), m2 = Sent(j)
        PROVE  m1.hook = m2.hook
    <3>1. hooks[r][i] = hooks[r][j]
      BY <1>5, <1>6, <2>3
    <3>2. i = j
      BY <1>0, <3>1 DEF AccessInv, HooksDistinct
    <3> QED
      BY <2>3, <3>2
  <2> HIDE DEF Sent, n
  <2> QED
    BY <1>0, <1>5, <1>6, <2>1, <2>2, <2>3
<1> HIDE DEF Sent, n, path
<1>7. MailInv'
  <2>1. \A m \in mail' : MailType(m) /\ (m.signed => Genuine(happened', m))
    BY <1>0, <1>4, <1>5 DEF MailInv
  <2> QED
    BY <1>6, <2>1 DEF MailInv, MailType
<1>8. ToldInv'
  BY <1>0 DEF ToldInv, Source
<1> QED
  BY <1>1, <1>2, <1>7, <1>8 DEF IInv

(* An unsigned delivery adds nothing that core would take.                 *)
LEMMA UnsignedKeeps ==
  ASSUME IInv, NEW m \in mail, Unsigned(m)
  PROVE  IInv'
<1> DEFINE u == [m EXCEPT !.signed = FALSE, !.of = 0, !.hook.delivery = <<0, 0>>]
<1>0. /\ AccessInv /\ HappenedType /\ MailInv /\ ToldInv
      /\ mail' = mail \cup {u}
      /\ UNCHANGED <<seq, hooks, grants, statuses, deleted, refs, granted, triggers, happened, told>>
  BY DEF IInv, Unsigned, access
<1>1. MailType(u) /\ ~u.signed
  BY <1>0 DEF MailInv, MailType
<1> HIDE DEF u
<1>2. \A k : (Genuine(happened', k) <=> Genuine(happened, k)) /\ (MailType(k)' <=> MailType(k))
  BY <1>0 DEF Genuine, MailType, HookOf
<1>3. MailInv'
  <2>1. \A k \in mail' : MailType(k) /\ (k.signed => Genuine(happened, k))
    BY <1>0, <1>1 DEF MailInv
  <2>2. \A m1, m2 \in mail' :
          m1.signed /\ m2.signed /\ m1.url = m2.url /\ m1.of = m2.of => m1.hook = m2.hook
    BY <1>0, <1>1 DEF MailInv
  <2> QED
    BY <1>2, <2>1, <2>2 DEF MailInv
<1>4. AccessInv'
  BY <1>0 DEF AccessInv, HooksType, HooksDistinct, RefsInv, OldRefsAreHarmless, GrantsInv
<1>5. HappenedType' /\ ToldInv'
  BY <1>0 DEF HappenedType, ToldInv, Source
<1> QED
  BY <1>3, <1>4, <1>5 DEF IInv

(* What core takes from a delivery is the delivery's event.                *)
LEMMA DeliverKeeps ==
  ASSUME IInv, NEW m \in mail, Deliver(m)
  PROVE  IInv'
<1> DEFINE events == VerifyAndParseWebhook(m, triggers).events
           new == {i \in DOMAIN events : ~Seen(m.url, events[i])}
           added == {[event |-> events[i], of |-> m.of] : i \in new}
<1>0. /\ AccessInv /\ HappenedType /\ MailInv /\ ToldInv
      /\ told' = [told EXCEPT ![m.url] = @ \cup added]
      /\ UNCHANGED <<seq, hooks, grants, statuses, deleted, refs, granted, triggers, happened, mail>>
  BY DEF IInv, Deliver, access
<1>1. events = <<>> \/ (m.signed /\ ~m.malformed /\ events = <<Event(m.hook, triggers)>>)
  BY ParsedEvents
<1> HIDE DEF events
<1>2. \A t \in added : m.signed /\ ~m.malformed /\ t = [event |-> Event(m.hook, triggers), of |-> m.of]
  BY <1>1
<1> HIDE DEF added
<1>3. m.url \in URLs
  BY <1>0 DEF MailInv, MailType
<1>4. /\ told' = [url \in URLs |-> told'[url]]
      /\ \A url \in URLs : told'[url] \subseteq told[url] \cup (IF url = m.url THEN added ELSE {})
  BY <1>0, <1>3 DEF ToldInv
<1>5. ASSUME NEW url \in URLs, NEW t \in told'[url]
      PROVE  \E k \in mail : Source(k, url, t)
  <2>1. CASE t \in told[url]
    BY <1>0, <2>1 DEF ToldInv
  <2>2. CASE url = m.url /\ t \in added
    BY <1>2, <2>2 DEF Source
  <2> QED
    BY <1>4, <1>5, <2>1, <2>2
<1>6. ToldInv'
  BY <1>0, <1>4, <1>5 DEF ToldInv, Source
<1>7. AccessInv'
  BY <1>0 DEF AccessInv, HooksType, HooksDistinct, RefsInv, OldRefsAreHarmless, GrantsInv
<1>8. HappenedType' /\ MailInv'
  BY <1>0, ZenonT(60) DEF HappenedType, MailInv, MailType, Genuine, HookOf
<1> QED
  BY <1>6, <1>7, <1>8 DEF IInv

(* The inductive invariant holds throughout.                               *)
LEMMA AlwaysIInv == Spec => []IInv
<1>1. Init => IInv
  <2> SUFFICES ASSUME Init PROVE IInv
    OBVIOUS
  <2>1. AccessInv
    BY AccessInitInv DEF Init
  <2>2. HappenedType /\ MailInv /\ ToldInv
    BY DEF Init, HappenedType, MailInv, ToldInv
  <2> QED
    BY <2>1, <2>2 DEF IInv
<1>2. IInv /\ [Next]_vars => IInv'
  <2> SUFFICES ASSUME IInv, [Next]_vars PROVE IInv'
    OBVIOUS
  <2>1. ASSUME UNCHANGED <<triggers, happened, mail, told>> PROVE HappenedType' /\ MailInv' /\ ToldInv'
    <3>1. HappenedType'
      BY <2>1 DEF IInv, HappenedType
    <3>2. MailInv'
      BY <2>1 DEF IInv, MailInv, MailType
    <3>3. ToldInv'
      BY <2>1 DEF IInv, ToldInv, Source
    <3> QED
      BY <3>1, <3>2, <3>3
  <2>2. CASE AccessNext /\ UNCHANGED deliveries
    <3>1. AccessInv'
      BY <2>2, AccessStepInv DEF IInv
    <3>2. UNCHANGED <<triggers, happened, mail, told>>
      BY <2>2 DEF deliveries
    <3> QED
      BY <2>1, <3>1, <3>2 DEF IInv
  <2>3. CASE UNCHANGED vars
    <3>1. UNCHANGED <<seq, hooks, grants, statuses, deleted, refs, granted,
                      triggers, happened, mail, told>>
      BY <2>3 DEF vars, access
    <3>2. AccessInv'
      BY <3>1 DEF IInv, AccessInv, HooksType, HooksDistinct, RefsInv, OldRefsAreHarmless, GrantsInv
    <3> QED
      BY <2>1, <3>1, <3>2 DEF IInv
  <2> QED
    BY <2>2, <2>3, HappensKeeps, UnsignedKeeps, DeliverKeeps DEF Next
<1> QED
  BY <1>1, <1>2, PTL DEF Spec

----------------------------------------------------------------------------
(* A reference EnsureWebhook ever answered names that URL's webhook or     *)
(* nothing, however many webhooks come and go (Core.next).                 *)
THEOREM RefsStayHarmless == Spec => []OldRefsAreHarmless
<1>1. IInv => OldRefsAreHarmless
  BY DEF IInv, AccessInv
<1> QED
  BY <1>1, AlwaysIInv, PTL

(* An access grant is given once for its state, however often and late its *)
(* callback comes (CompleteAccessGrant).                                   *)
THEOREM GrantsAreSpent == Spec => []StateWorksOnce
<1>1. IInv => StateWorksOnce
  BY DEF IInv, AccessInv, GrantsInv, StateWorksOnce
<1> QED
  BY <1>1, AlwaysIInv, PTL

(* Events of one happening at one URL are one event.                       *)
LEMMA SameHappeningSameEvent ==
  ASSUME IInv, NEW url \in URLs, NEW t \in told[url], NEW u \in told[url], t.of = u.of
  PROVE  t = u
<1>1. PICK m \in mail : Source(m, url, t)
  BY DEF IInv, ToldInv
<1>2. PICK k \in mail : Source(k, url, u)
  BY DEF IInv, ToldInv
<1>3. /\ m.signed /\ m.url = url /\ t = [event |-> Event(m.hook, triggers), of |-> m.of]
      /\ k.signed /\ k.url = url /\ u = [event |-> Event(k.hook, triggers), of |-> k.of]
  BY <1>1, <1>2 DEF Source
<1>4. t.of = m.of /\ u.of = k.of
  BY <1>3
<1>5. m.hook = k.hook
  BY <1>3, <1>4 DEF IInv, MailInv
<1> QED
  BY <1>3, <1>4, <1>5

(* A set whose elements are all equal has one at most.                     *)
LEMMA AtMostOne ==
  ASSUME NEW S, \A x, y \in S : x = y
  PROVE  Cardinality(S) <= 1
<1>1. CASE S = {}
  BY <1>1, FS_EmptySet
<1>2. ASSUME NEW x \in S PROVE Cardinality(S) <= 1
  <2>1. S = {x}
    BY <1>2
  <2>2. Cardinality({x}) = 1
    BY FS_Singleton
  <2> QED
    BY <2>1, <2>2
<1> QED
  BY <1>1, <1>2

(* However often a webhook is ensured and removed and a delivery repeated, *)
(* core takes one event of a happening at a URL, and takes no delivery for *)
(* a repetition of another happening's (EnsureWebhook, the event ids).     *)
THEOREM HeardOfOnce == Spec => []OneEventPerHappening
<1>1. IInv => OneEventPerHappening
  <2> SUFFICES ASSUME IInv PROVE OneEventPerHappening
    OBVIOUS
  <2>1. ASSUME NEW url \in URLs, NEW n \in 1..MaxHappenings
        PROVE  Cardinality(EventsOf(url, n)) <= 1
    <3>1. \A t, u \in EventsOf(url, n) : t = u
      BY SameHappeningSameEvent DEF EventsOf
    <3> QED
      BY <3>1, AtMostOne
  <2>2. ASSUME NEW m \in mail, NEW i \in DOMAIN VerifyAndParseWebhook(m, triggers).events,
               Seen(m.url, VerifyAndParseWebhook(m, triggers).events[i])
        PROVE  EventsOf(m.url, m.of) # {}
    <3> DEFINE events == VerifyAndParseWebhook(m, triggers).events
    <3>0. i \in DOMAIN events /\ Seen(m.url, events[i])
      BY <2>2
    <3>1. events = <<>> \/ (m.signed /\ ~m.malformed /\ events = <<Event(m.hook, triggers)>>)
      BY ParsedEvents
    <3> HIDE DEF events
    <3>2. m.signed /\ events[i] = Event(m.hook, triggers)
      BY <3>0, <3>1
    <3>3. PICK t \in told[m.url] : t.event.id = events[i].id
      BY <3>0 DEF Seen
    <3>4. m.url \in URLs /\ Genuine(happened, m)
      BY <3>2 DEF IInv, MailInv, MailType
    <3>5. PICK k \in mail : Source(k, m.url, t)
      BY <3>3, <3>4 DEF IInv, ToldInv
    <3>6. k.signed /\ t = [event |-> Event(k.hook, triggers), of |-> k.of] /\ Genuine(happened, k)
      BY <3>5 DEF Source, IInv, MailInv
    <3>7. Event(k.hook, triggers).id = EventID(k.hook) /\ Event(m.hook, triggers).id = EventID(m.hook)
      BY EventFields
    <3>8. t.of = k.of /\ t.event = Event(k.hook, triggers)
      BY <3>6
    <3>9. EventID(k.hook) = EventID(m.hook)
      BY <3>2, <3>3, <3>7, <3>8
    <3>10. k.hook.delivery = m.hook.delivery
      BY <3>9 DEF EventID
    <3>11. PICK i1 : k.hook = HookOf(happened, k.of, i1)
      BY <3>6 DEF Genuine
    <3>12. PICK i2 : m.hook = HookOf(happened, m.of, i2)
      BY <3>4 DEF Genuine
    <3>13. k.hook.delivery = <<k.of, i1>> /\ m.hook.delivery = <<m.of, i2>>
      BY <3>4, <3>6, <3>11, <3>12, HookFields DEF IInv, Genuine
    <3>14. k.of = m.of
      <4>1. <<k.of, i1>> = <<m.of, i2>>
        BY <3>10, <3>13, Zenon
      <4> QED
        BY <4>1, Zenon
    <3> QED
      BY <3>3, <3>8, <3>14 DEF EventsOf
  <2> QED
    BY <2>1, <2>2 DEF OneEventPerHappening
<1> QED
  BY <1>1, AlwaysIInv, PTL

(* If what happens addresses the identity in the ways its delivery names,  *)
(* every event core takes is about something that happened in that         *)
(* repository, by who did it, addressing the identity in exactly the ways  *)
(* that are declared (VerifyAndParseWebhook).                              *)
THEOREM EventsAreTrue ==
  ASSUME \A x \in Happenings : x.addresses = Named(x.hook)
  PROVE  Spec => []EventsSayWhatHappened
<1>1. IInv => EventsSayWhatHappened
  <2> SUFFICES ASSUME IInv, NEW url \in URLs, NEW t \in told[url]
               PROVE  /\ t.of # 0
                      /\ ~happened[t.of].what.malformed
                      /\ t.event.repo = happened[t.of].repo
                      /\ t.event.kind = happened[t.of].what.hook.type
                      /\ t.event.actor = happened[t.of].what.hook.actor
                      /\ t.event.addressed = happened[t.of].what.addresses \cap triggers
    BY DEF EventsSayWhatHappened
  <2>1. PICK m \in mail : Source(m, url, t)
    BY DEF IInv, ToldInv
  <2>2. /\ m.signed /\ ~m.malformed /\ t = [event |-> Event(m.hook, triggers), of |-> m.of]
        /\ Genuine(happened, m)
    BY <2>1 DEF Source, IInv, MailInv
  <2>3. t.of = m.of /\ t.event = Event(m.hook, triggers)
    BY <2>2
  <2> DEFINE n == m.of
             x == happened[n].what
             h == m.hook
  <2>4. n \in 1..Len(happened) /\ ~x.malformed /\ n # 0
    BY <2>2 DEF Genuine, IInv, HappenedType
  <2>5. PICK id : h = HookOf(happened, n, id)
    BY <2>2 DEF Genuine
  <2>6. /\ x \in Happenings /\ h.repo = happened[n].repo
        /\ h.type = x.hook.type /\ h.actor = x.hook.actor /\ h.text = x.hook.text
        /\ h.requested = x.hook.requested /\ h.assignee = x.hook.assignee
    BY <2>4, <2>5, HookFields DEF IInv
  <2>7. Named(h) = Named(x.hook)
    BY <2>6 DEF Named
  <2>8. x.addresses = Named(h)
    BY <2>6, <2>7
  <2> HIDE DEF n, x, h
  <2>9. /\ t.event.repo = h.repo /\ t.event.kind = h.type /\ t.event.actor = h.actor
        /\ t.event.addressed = Named(h) \cap triggers
    BY <2>3, EventFields DEF h
  <2> QED
    BY <2>3, <2>4, <2>6, <2>8, <2>9 DEF n, x
<1> QED
  BY <1>1, AlwaysIInv, PTL
=============================================================================
