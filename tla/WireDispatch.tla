---------------------------- MODULE WireDispatch ----------------------------
(***************************************************************************)
(* One operation of the git provider contract served over HTTP: the route  *)
(* of serve.Register, gitprovider.Dispatch with its gates, the provider's  *)
(* method, and the answer's status, envelope and Retry-After header        *)
(* (gitprovider/wire.go, errors.go, serve/serve.go).                       *)
(*                                                                         *)
(* Each gate is a step, for what is at stake is their order.  Messages and *)
(* results are left out; a body is empty, malformed or good.               *)
(***************************************************************************)
EXTENDS Integers

CONSTANTS
  RequiredOps,     \* the operations every provider has, besides describe
  OptionalOps,     \* the operations behind a capability
  UnknownOp,       \* a name that is not in the table
  Capabilities,
  CapabilityOf,    \* OptionalOps -> Capabilities
  MaxHint          \* bound: the largest retry hint, in seconds

ASSUME OpsAssumption ==
  /\ RequiredOps \cap OptionalOps = {}
  /\ UnknownOp \notin RequiredOps \cup OptionalOps
  /\ "describe" \notin RequiredOps \cup OptionalOps \cup {UnknownOp}
ASSUME CapabilityAssumption == CapabilityOf \in [OptionalOps -> Capabilities]
ASSUME HintAssumption == MaxHint \in Nat

ErrorCodes == {"not_found", "forbidden", "invalid_signature", "conflict", "rate_limited",
               "validation", "unsupported", "transient", "internal"}

VARIABLES
  declares,    \* the capabilities Describe() sets
  faulty,      \* Describe() panics
  implements,  \* the capabilities whose interface the provider's type has
  op, body,    \* the request
  pc,          \* the gate that comes next
  outcome,     \* how the provider's method ended, "none" if it did not run
  hint,        \* RetryAfterSeconds of the error at hand
  answer       \* status, code ("ok" for a success) and Retry-After (0: no header)

vars == <<declares, faulty, implements, op, body, pc, outcome, hint, answer>>
provider == <<declares, faulty, implements>>
request == <<op, body>>

AllOps == {"describe", UnknownOp} \cup RequiredOps \cup OptionalOps
Bodies == {"empty", "malformed", "good"}
NoAnswer == [status |-> 0, code |-> "none", retryAfter |-> 0]

Init ==
  /\ declares \in SUBSET Capabilities /\ faulty \in BOOLEAN
  /\ implements \in SUBSET Capabilities
  /\ op \in AllOps /\ body \in Bodies
  /\ pc = "lookup"
  /\ outcome = "none" /\ hint = 0
  /\ answer = NoAnswer

----------------------------------------------------------------------------
(* Mutation: a transient failure is told as an internal one.               *)
TransientIs500(code) ==
  CASE code = "not_found" -> 404 [] code = "forbidden" -> 403
    [] code = "invalid_signature" -> 401 [] code = "conflict" -> 409
    [] code = "rate_limited" -> 429 [] code = "validation" -> 400
    [] code = "unsupported" -> 501 [] OTHER -> 500

HTTPStatus(code) ==
  CASE code = "not_found" -> 404 [] code = "forbidden" -> 403
    [] code = "invalid_signature" -> 401 [] code = "conflict" -> 409
    [] code = "rate_limited" -> 429 [] code = "validation" -> 400
    [] code = "unsupported" -> 501 [] code = "transient" -> 503
    [] OTHER -> 500

(* ErrorCode's Retryable.                                                  *)
Retryable(code) == code \in {"rate_limited", "transient"}

(* serve.Register adds the header by the status, not by the code.          *)
RetryAfter(status, seconds) == IF status \in {429, 503} THEN seconds ELSE 0

(* fail, and the route's answer from it.                                   *)
Fail(code, seconds) ==
  /\ pc' = "answered" /\ hint' = seconds
  /\ answer' = [status |-> HTTPStatus(code), code |-> code,
                retryAfter |-> RetryAfter(HTTPStatus(code), seconds)]
  /\ UNCHANGED <<provider, request, outcome>>

Continue(next) == pc' = next /\ UNCHANGED <<provider, request, outcome, hint, answer>>

Lookup ==
  /\ pc = "lookup"
  /\ CASE op = UnknownOp -> Fail("unsupported", 0)
       [] op = "describe" -> Continue("call")
       [] op \in RequiredOps -> Continue("decode")
       [] op \in OptionalOps -> Continue("declared")

(* Mutation: an operation the provider's type has is served.               *)
Undeclared == FALSE

(* Dispatch's gate: declared reads the provider's Describe().              *)
NotDeclared == CapabilityOf[op] \notin declares

(* A panic of Describe is recovered.                                       *)
Declared ==
  /\ pc = "declared"
  /\ CASE faulty -> Fail("internal", 0)
       [] ~faulty /\ NotDeclared -> Fail("unsupported", 0)
       [] ~faulty /\ ~NotDeclared -> Continue("implemented")

(* Mutation: the body is decoded before the interface is looked for.       *)
DecodesFirst ==
  /\ pc = "implemented"
  /\ CASE body # "good" -> Fail("validation", 0)
       [] body = "good" /\ CapabilityOf[op] \in implements -> Continue("call")
       [] body = "good" /\ CapabilityOf[op] \notin implements -> Fail("unsupported", 0)

(* optional: the interface of the operation.                               *)
Implemented ==
  /\ pc = "implemented"
  /\ IF CapabilityOf[op] \in implements THEN Continue("decode") ELSE Fail("unsupported", 0)

Decode ==
  /\ pc = "decode"
  /\ IF body # "good" THEN Fail("validation", 0) ELSE Continue("call")

(* The provider's method ends: with a result that can be encoded or not,   *)
(* in a panic, with a typed error and its hint, with another error, or     *)
(* with a nil *Error.  describe only calls Describe().                     *)
Outcomes ==
  IF op = "describe" THEN IF faulty THEN {"panic"} ELSE {"ok"}
  ELSE {"ok", "unencodable", "panic", "untyped", "nil_error"} \cup ErrorCodes

Call ==
  /\ pc = "call"
  /\ outcome' \in Outcomes
  /\ hint' \in IF outcome' \in ErrorCodes THEN 0..MaxHint ELSE {0}
  /\ pc' = "convert"
  /\ UNCHANGED <<provider, request, answer>>

(* AsError, and the codes Dispatch gives a panic and an encoding error; a  *)
(* nil *Error panics in fail.                                              *)
AsError(o) == IF o \in ErrorCodes THEN o ELSE "internal"

(* Mutation: a retryable failure is retried here, without end.             *)
RetriesHere ==
  /\ pc = "convert"
  /\ \/ Retryable(outcome) /\ pc' = "call" /\ UNCHANGED <<provider, request, outcome, hint, answer>>
     \/ /\ outcome = "ok"
        /\ answer' = [status |-> 200, code |-> "ok", retryAfter |-> 0]
        /\ pc' = "answered"
        /\ UNCHANGED <<provider, request, outcome, hint>>
     \/ outcome # "ok" /\ ~Retryable(outcome) /\ Fail(AsError(outcome), hint)

Convert ==
  /\ pc = "convert"
  /\ \/ /\ outcome = "ok"
        /\ answer' = [status |-> 200, code |-> "ok", retryAfter |-> 0]
        /\ pc' = "answered"
        /\ UNCHANGED <<provider, request, outcome, hint>>
     \/ outcome # "ok" /\ Fail(AsError(outcome), hint)

(* The next request to the same provider.                                  *)
NextRequest ==
  /\ pc = "answered"
  /\ pc' = "lookup" /\ op' \in AllOps /\ body' \in Bodies
  /\ outcome' = "none" /\ hint' = 0 /\ answer' = NoAnswer
  /\ UNCHANGED provider

Dispatch == Lookup \/ Declared \/ Implemented \/ Decode \/ Call \/ Convert

Next == Dispatch \/ NextRequest

(* Dispatch runs to its end: a method that stalls is bounded by the        *)
(* context's timeout.                                                      *)
Spec == Init /\ [][Next]_vars /\ WF_vars(Dispatch)
----------------------------------------------------------------------------
(* What the conformance kit's testWire and testUnsupported take for an     *)
(* answer to o with body b; they send no good body, but for an empty       *)
(* object to operations that are not declared.                             *)
KitAccepts(o, b, a) ==
  /\ o = "describe" => a.status = 200
  /\ o = UnknownOp => a.code = "unsupported" /\ a.status = HTTPStatus("unsupported")
  /\ o # "describe" /\ b # "good" => a.code \in {"validation", "unsupported"}
  /\ o \in OptionalOps /\ CapabilityOf[o] \notin declares /\ b = "good" =>
       a.code = "unsupported" /\ a.status = HTTPStatus("unsupported")

Served(o) ==
  \/ o \in RequiredOps
  \/ o \in OptionalOps /\ CapabilityOf[o] \in declares \cap implements

(* No method of the provider runs for a request that must be refused: its  *)
(* operation is required, or declared and implemented, and its body a      *)
(* request (Dispatch, required, optional, decode).                         *)
OnlyServedOpsRun ==
  outcome # "none" => op = "describe" \/ (Served(op) /\ body = "good")

(* "Optional operations are only served when it is" declared: an operation *)
(* that is not available answers unsupported, whatever the body, so that a *)
(* caller can tell a missing capability from its own mistake (the order of *)
(* the gates in Dispatch and optional).                                    *)
UnavailableIsUnsupported ==
  pc = "answered" /\ ~Served(op) /\ op # "describe" /\ ~faulty =>
    answer.code = "unsupported" /\ answer.status = 501

(* The kit's wire tests are about Dispatch, not about the provider: they   *)
(* pass with every provider whose Describe returns, honest or not, for     *)
(* whatever its methods do (testWire, testUnsupported).                    *)
KitAcceptsTheWire == pc = "answered" /\ ~faulty => KitAccepts(op, body, answer)

(* A caller that sees 200 can rely on the method having succeeded, one     *)
(* that sees a typed error sees the method's, and the three tables of      *)
(* errors.go and serve.Register agree: the header, chosen by status, comes *)
(* with exactly the errors Retryable names that carry a hint.              *)
AnswerTellsTheOutcome ==
  pc = "answered" =>
    /\ answer.status = 200 <=> outcome = "ok"
    /\ outcome \in ErrorCodes => answer.code = outcome
    /\ answer.retryAfter = IF Retryable(answer.code) THEN hint ELSE 0

(* "It never panics on bad input" and "a panicking provider must not take  *)
(* the plugin down": every request is answered.                            *)
EveryRequestAnswered == pc = "lookup" ~> pc = "answered"
=============================================================================
