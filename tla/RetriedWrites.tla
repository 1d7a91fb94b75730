---------------------------- MODULE RetriedWrites ---------------------------
(***************************************************************************)
(* Callers of the reference provider's writes that time out and try again. *)
(* A call travels over the host to serve.Register's route and back, and    *)
(* each leg may take longer than the caller waits: "a stalled platform     *)
(* call would outlive the caller's own timeout" (serve.go).  A caller that *)
(* timed out sends the same request with the same idempotency key again,   *)
(* when the provider declares IdempotentWrites; the attempt it gave up on  *)
(* may still reach the provider, at any later time, even after the caller  *)
(* was told the outcome.  Its answer, if any, goes nowhere.                *)
(*                                                                         *)
(* A key belongs to one call: two callers share a key only if their        *)
(* operations differ.  Writes without keys by others come in between.      *)
(***************************************************************************)
EXTENDS FakeWrites, FiniteSets

CONSTANTS
  Callers,
  Calls,        \* what each caller may have to ask for: caller -> request
  MaxAttempts,  \* bound: attempts of one call
  MaxOthers     \* bound: requests without a key

ASSUME BoundsAssumption == MaxAttempts \in Nat \ {0} /\ MaxOthers \in Nat

Numbers == {SeedNumber} \cup 101..(100 + Cardinality(Callers) + MaxOthers)

(* Requests for op with those arguments and keys.                          *)
Of(op, args, keys) == [op : {op}, repo : Repos, arg : args, key : keys]

(* A request with a key that a caller may have to make.                    *)
Requests ==
  Of("open", (Branches \ {BaseBranch}) \X BOOLEAN, Keys)
  \cup Of("comment", (Numbers \cup {Issue}) \X {FALSE}, Keys)
  \cup Of("reply", Numbers \X {Thread}, Keys)
  \cup Of("review", Numbers \X {"approve", "inline", "summary"}, Keys)
  \cup Of("branch", NewBranches \X (Branches \cup {NoBranch}), Keys)

ASSUME CallsAssumption ==
  \A f \in Calls :
    /\ f \in [Callers -> Requests]
    /\ \A c, d \in Callers : c # d /\ f[c].key = f[d].key => f[c].op # f[d].op

VARIABLES
  call,      \* caller -> the request it makes, with its key
  phase,     \* caller -> "idle", "sent", "answered" or "told"
  attempts,  \* caller -> attempts made
  late,      \* caller -> attempts given up on that the provider may still see
  reply,     \* caller -> the answer to its current attempt
  others     \* how many requests without a key were made

network == <<phase, attempts, late, reply>>
vars == <<provider, answer, call, network, others>>

Init ==
  /\ ProviderInit
  /\ call \in Calls
  /\ phase = [c \in Callers |-> "idle"]
  /\ attempts = [c \in Callers |-> 0]
  /\ late = [c \in Callers |-> 0]
  /\ reply = [c \in Callers |-> NoAnswer]
  /\ others = 0

----------------------------------------------------------------------------
Quiet == answer' = NoAnswer /\ UNCHANGED provider

Send(c) ==
  /\ phase[c] = "idle"
  /\ phase' = [phase EXCEPT ![c] = "sent"]
  /\ attempts' = [attempts EXCEPT ![c] = 1]
  /\ Quiet /\ UNCHANGED <<call, late, reply, others>>

(* An attempt arrives in time and is answered.                             *)
Run(c) ==
  /\ phase[c] = "sent"
  /\ Perform(call[c])
  /\ phase' = [phase EXCEPT ![c] = "answered"]
  /\ reply' = [reply EXCEPT ![c] = answer']
  /\ UNCHANGED <<call, attempts, late, others>>

Deliver(c) ==
  /\ phase[c] = "answered"
  /\ phase' = [phase EXCEPT ![c] = "told"]
  /\ Quiet /\ UNCHANGED <<call, attempts, late, reply, others>>

(* The caller's wait is over: the request is lost, or late, or its answer  *)
(* is.  The caller sends the request again.                                *)
TimeoutAndRetry(c) ==
  /\ phase[c] \in {"sent", "answered"}
  /\ IdempotentWrites /\ attempts[c] < MaxAttempts
  /\ attempts' = [attempts EXCEPT ![c] = @ + 1]
  /\ phase' = [phase EXCEPT ![c] = "sent"]
  /\ reply' = [reply EXCEPT ![c] = NoAnswer]
  /\ \/ UNCHANGED late
     \/ phase[c] = "sent" /\ late' = [late EXCEPT ![c] = @ + 1]
  /\ Quiet /\ UNCHANGED <<call, others>>

(* An attempt the caller gave up on reaches the provider after all.        *)
RunLate(c) ==
  /\ late[c] > 0
  /\ late' = [late EXCEPT ![c] = @ - 1]
  /\ Perform(call[c])
  /\ UNCHANGED <<call, phase, attempts, reply, others>>

(* Requests of others, without a key.  The last update is refused for its  *)
(* state, after the draft mark is set; other refused ones change nothing.  *)
Unkeyed ==
  Of("open", (Branches \ {BaseBranch}) \X {FALSE}, {NoKey})
  \cup Of("update", (Numbers \X {"leave"} \X {"open", "closed"})
                    \cup (Numbers \X {"draft"} \X {"merged"}), {NoKey})
  \cup Of("merge", {<<n, n>> : n \in Numbers}, {NoKey})
  \cup Of("comment", {Issue} \X {FALSE}, {NoKey})
  \cup Of("branch", NewBranches \X Branches, {NoKey})

(* Somebody else writes.                                                   *)
Other ==
  /\ others < MaxOthers /\ others' = others + 1
  /\ UNCHANGED <<call, network>>
  /\ \E q \in Unkeyed : Perform(q)
  /\ answer'.code \in {"ok", "validation"}

(* Every call was told its outcome and nothing is on its way.              *)
Finished ==
  /\ \A c \in Callers : phase[c] = "told" /\ late[c] = 0
  /\ others = MaxOthers
  /\ UNCHANGED vars

Next ==
  \/ \E c \in Callers : Send(c) \/ Run(c) \/ Deliver(c) \/ TimeoutAndRetry(c) \/ RunLate(c)
  \/ Other
  \/ Finished

(* The provider answers a request that reached it, and an answer that is   *)
(* not given up on arrives; neither timeouts nor late attempts are owed.   *)
Fairness == \A c \in Callers : WF_vars(Run(c)) /\ WF_vars(Deliver(c))

Spec == Init /\ [][Next]_vars /\ Fairness
----------------------------------------------------------------------------
(* once: "runs fn at most once per idempotency key when the provider       *)
(* declares IdempotentWrites": however attempts, late ones included, and   *)
(* other operations with the key interleave, a call takes effect once.  A  *)
(* provider that does not declare it is not sent a call twice.             *)
OneEffectPerKey == \A ok \in Ops \X Keys : Len(done[ok]) <= 1

(* types.go: "a retry of a call that already succeeded returns the         *)
(* original result instead of conflict", whatever happened to the branch,  *)
(* the change request or other calls with the key in between (the checks   *)
(* before once must not come to fail for a request that passed them).      *)
RetryReturnsTheOriginal ==
  LET before == done[<<answer.op, answer.key>>]
  IN  answer.key # NoKey /\ before # <<>> =>
        answer.code = "ok" /\ answer.result = before[1].result

(* What a successful answer names exists in the repository asked for and   *)
(* is what was asked for: a key used with several operations or in several *)
(* repositories never answers one call with the result of another.         *)
SuccessNamesItsEffect ==
  \A c \in Callers : reply[c].code = "ok" =>
    LET q == call[c]
        res == reply[c].result
    IN  CASE q.op = "open" -> /\ res \in DOMAIN crs[q.repo] \ {SeedNumber}
                              /\ crs[q.repo][res].head = q.arg[1]
          [] q.op = "branch" -> /\ q.arg[1] \in DOMAIN branches[q.repo]
                                /\ branches[q.repo][q.arg[1]] = res
          [] OTHER -> [op |-> q.op, repo |-> q.repo, id |-> res] \in Range(posts)

(* A caller whose last attempt is neither lost nor given up on learns the  *)
(* outcome: every path of every write answers, whatever the others did.    *)
EveryCallIsTold == \A c \in Callers : phase[c] = "sent" ~> phase[c] = "told"
=============================================================================
