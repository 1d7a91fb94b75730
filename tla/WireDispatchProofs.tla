------------------------- MODULE WireDispatchProofs -------------------------
(***************************************************************************)
(* The gates of gitprovider.Dispatch do what they are there for, for every *)
(* table of operations, every set of capabilities declared and implemented *)
(* and whatever the provider's methods do.                                 *)
(***************************************************************************)
EXTENDS WireDispatch, TLAPS

(* The answer fail gives.                                                  *)
Failed(code, seconds) ==
  [status |-> HTTPStatus(code), code |-> code,
   retryAfter |-> RetryAfter(HTTPStatus(code), seconds)]

(* The method may run: what the gates before it have established.          *)
MayRun == op = "describe" \/ (Served(op) /\ body = "good")

(* What is known when each gate comes next.                                *)
GateInv ==
  /\ pc \in {"lookup", "declared", "implemented", "decode", "call", "convert", "answered"}
  /\ op \in AllOps
  /\ pc = "declared" => op \in OptionalOps
  /\ pc = "implemented" => op \in OptionalOps /\ CapabilityOf[op] \in declares
  /\ pc = "decode" => Served(op)
  /\ pc = "call" => MayRun

(* How a method that ran ended.                                            *)
OutcomeInv ==
  /\ pc = "convert" => outcome \in Outcomes
  /\ outcome # "none" => pc \in {"convert", "answered"} /\ outcome \in Outcomes /\ MayRun

(* An answer refuses the request at a gate, or tells how the method ended. *)
Refusal ==
  /\ outcome = "none" /\ hint = 0 /\ op # "describe"
  /\ \/ answer = Failed("unsupported", 0) /\ ~Served(op)
     \/ answer = Failed("validation", 0) /\ Served(op) /\ body # "good"
     \/ answer = Failed("internal", 0) /\ faulty /\ op \in OptionalOps

Success == outcome = "ok" /\ answer = [status |-> 200, code |-> "ok", retryAfter |-> 0]

Failure == outcome \notin {"none", "ok"} /\ answer = Failed(AsError(outcome), hint)

AnswerInv == pc = "answered" => Refusal \/ Success \/ Failure

IInv == GateInv /\ OutcomeInv /\ AnswerInv

(* HTTPStatus: no failure is told with status 200, unsupported is 501, and *)
(* the two statuses that carry a header are those of the retryable codes.  *)
LEMMA StatusTable ==
  ASSUME NEW code \in ErrorCodes
  PROVE  /\ HTTPStatus(code) # 200
         /\ HTTPStatus("unsupported") = 501
         /\ HTTPStatus(code) \in {429, 503} <=> Retryable(code)
  BY DEF ErrorCodes, HTTPStatus, Retryable

(* The operation is one of the table, describe or unknown, and one only.   *)
LEMMA OpKinds ==
  ASSUME op \in AllOps
  PROVE  /\ \/ op = UnknownOp \/ op = "describe" \/ op \in RequiredOps \/ op \in OptionalOps
         /\ op = UnknownOp => op # "describe" /\ ~Served(op)
         /\ op = "describe" => op \notin RequiredOps /\ op \notin OptionalOps
         /\ op \in RequiredOps => Served(op) /\ op \notin OptionalOps
         /\ op \in OptionalOps => (Served(op) <=> CapabilityOf[op] \in declares \cap implements)
  BY OpsAssumption, Zenon DEF AllOps, Served

(* A gate that refuses the request answers it.                             *)
LEMMA FailAnswers ==
  ASSUME IInv, outcome = "none", op # "describe", NEW code, Fail(code, 0),
         \/ code = "unsupported" /\ ~Served(op)
         \/ code = "validation" /\ Served(op) /\ body # "good"
         \/ code = "internal" /\ faulty /\ op \in OptionalOps
  PROVE  IInv'
<1>1. /\ pc' = "answered" /\ hint' = 0 /\ answer' = Failed(code, 0)
      /\ UNCHANGED <<declares, faulty, implements, op, body, outcome>>
  BY DEF Fail, Failed, provider, request
<1>2. Served(op)' <=> Served(op)
  BY <1>1 DEF Served
<1>3. Refusal'
  BY <1>1, <1>2, Zenon DEF Refusal, Served, Failed
<1>4. GateInv'
  BY <1>1 DEF IInv, GateInv
<1>5. OutcomeInv'
  BY <1>1 DEF OutcomeInv
<1> QED
  BY <1>3, <1>4, <1>5 DEF IInv, AnswerInv

(* A gate that lets the request pass leaves everything but pc alone.       *)
LEMMA ContinueKeeps ==
  ASSUME IInv, outcome = "none", NEW next, Continue(next),
         \/ next = "declared" /\ op \in OptionalOps
         \/ next = "implemented" /\ op \in OptionalOps /\ CapabilityOf[op] \in declares
         \/ next = "decode" /\ Served(op)
         \/ next = "call" /\ MayRun
  PROVE  IInv'
<1>1. pc' = next /\ UNCHANGED <<declares, faulty, implements, op, body, outcome, hint, answer>>
  BY DEF Continue, provider, request
<1>2. (Served(op)' <=> Served(op)) /\ (MayRun' <=> MayRun)
  BY <1>1 DEF Served, MayRun
<1>3. GateInv'
  BY <1>1, <1>2 DEF IInv, GateInv, Served, MayRun
<1>4. OutcomeInv'
  BY <1>1 DEF OutcomeInv
<1>5. AnswerInv'
  BY <1>1 DEF AnswerInv
<1> QED
  BY <1>3, <1>4, <1>5 DEF IInv

(* The inductive invariant holds throughout.                               *)
LEMMA AlwaysIInv == Spec => []IInv
<1>1. Init => IInv
  BY DEF Init, IInv, GateInv, OutcomeInv, AnswerInv
<1>2. IInv /\ [Next]_vars => IInv'
  <2> SUFFICES ASSUME IInv, [Next]_vars PROVE IInv'
    OBVIOUS
  <2>0. pc \in {"lookup", "declared", "implemented", "decode", "call"} => outcome = "none"
    BY DEF IInv, OutcomeInv
  <2>1. CASE Lookup
    <3>1. /\ pc = "lookup" /\ outcome = "none" /\ op \in AllOps
      BY <2>0, <2>1 DEF Lookup, IInv, GateInv
    <3>2. CASE op = UnknownOp
      <4>1. Fail("unsupported", 0) /\ op # "describe" /\ ~Served(op)
        BY <2>1, <3>1, <3>2, OpKinds, OpsAssumption, Zenon DEF Lookup
      <4> QED
        BY <3>1, <4>1, FailAnswers
    <3>3. CASE op = "describe"
      <4>1. Continue("call") /\ MayRun
        BY <2>1, <3>3, OpsAssumption, Zenon DEF Lookup, MayRun
      <4> QED
        BY <3>1, <4>1, ContinueKeeps
    <3>4. CASE op \in RequiredOps
      <4>1. Continue("decode") /\ Served(op)
        BY <2>1, <3>4, OpsAssumption, Zenon DEF Lookup, Served
      <4> QED
        BY <3>1, <4>1, ContinueKeeps
    <3>5. CASE op \in OptionalOps
      <4>1. Continue("declared")
        BY <2>1, <3>5, OpsAssumption, Zenon DEF Lookup
      <4> QED
        BY <3>1, <3>5, <4>1, ContinueKeeps
    <3> QED
      BY <3>1, <3>2, <3>3, <3>4, <3>5, OpKinds
  <2>2. CASE Declared
    <3>1. pc = "declared" /\ outcome = "none" /\ op \in OptionalOps /\ op # "describe" /\ op \in AllOps
      BY <2>0, <2>2, OpsAssumption DEF Declared, IInv, GateInv
    <3>2. CASE faulty
      <4>1. Fail("internal", 0)
        BY <2>2, <3>2, Zenon DEF Declared
      <4> QED
        BY <3>1, <3>2, <4>1, FailAnswers
    <3>3. CASE ~faulty /\ NotDeclared
      <4>1. Fail("unsupported", 0)
        BY <2>2, <3>3, Zenon DEF Declared
      <4>2. ~Served(op)
        BY <3>1, <3>3, OpKinds DEF NotDeclared
      <4> QED
        BY <3>1, <4>1, <4>2, FailAnswers
    <3>4. CASE ~faulty /\ ~NotDeclared
      <4>1. Continue("implemented")
        BY <2>2, <3>4, Zenon DEF Declared
      <4>2. CapabilityOf[op] \in declares
        BY <3>4 DEF NotDeclared
      <4> QED
        BY <3>1, <4>1, <4>2, ContinueKeeps
    <3> QED
      BY <3>2, <3>3, <3>4
  <2>3. CASE Implemented
    <3>1. /\ pc = "implemented" /\ outcome = "none" /\ op \in OptionalOps /\ op # "describe"
          /\ op \in AllOps /\ CapabilityOf[op] \in declares
      BY <2>0, <2>3, OpsAssumption DEF Implemented, IInv, GateInv
    <3>2. CASE CapabilityOf[op] \in implements
      <4>1. Continue("decode") /\ Served(op)
        BY <2>3, <3>1, <3>2, OpKinds DEF Implemented
      <4> QED
        BY <3>1, <4>1, ContinueKeeps
    <3>3. CASE CapabilityOf[op] \notin implements
      <4>1. Fail("unsupported", 0) /\ ~Served(op)
        BY <2>3, <3>1, <3>3, OpKinds DEF Implemented
      <4> QED
        BY <3>1, <4>1, FailAnswers
    <3> QED
      BY <3>2, <3>3
  <2>4. CASE Decode
    <3>1. pc = "decode" /\ outcome = "none" /\ op \in AllOps /\ Served(op) /\ op # "describe"
      BY <2>0, <2>4, OpsAssumption DEF Decode, IInv, GateInv, Served
    <3>2. CASE body = "good"
      <4>1. Continue("call") /\ MayRun
        BY <2>4, <3>1, <3>2 DEF Decode, MayRun
      <4> QED
        BY <3>1, <4>1, ContinueKeeps
    <3>3. CASE body # "good"
      <4>1. Fail("validation", 0)
        BY <2>4, <3>3 DEF Decode
      <4> QED
        BY <3>1, <3>3, <4>1, FailAnswers
    <3> QED
      BY <3>2, <3>3
  <2>5. CASE Call
    <3>1. /\ pc = "call" /\ pc' = "convert" /\ outcome' \in Outcomes
          /\ UNCHANGED <<declares, faulty, implements, op, body, answer>>
      BY <2>5 DEF Call, provider, request
    <3>2. MayRun
      BY <3>1 DEF IInv, GateInv
    <3>3. Outcomes' = Outcomes /\ (MayRun' <=> MayRun)
      BY <3>1 DEF Outcomes, MayRun, Served
    <3> QED
      BY <3>1, <3>2, <3>3 DEF IInv, GateInv, OutcomeInv, AnswerInv
  <2>6. CASE Convert
    <3>1. pc = "convert" /\ outcome \in Outcomes /\ outcome # "none" /\ MayRun
      <4>1. pc = "convert" /\ outcome \in Outcomes
        BY <2>6 DEF Convert, IInv, OutcomeInv
      <4>2. "none" \notin Outcomes
        BY DEF Outcomes, ErrorCodes
      <4> QED
        BY <4>1, <4>2 DEF IInv, OutcomeInv
    <3>2. /\ pc' = "answered" /\ UNCHANGED <<declares, faulty, implements, op, body, outcome, hint>>
          /\ Success' \/ Failure'
      <4>1. CASE outcome = "ok"
        BY <2>6, <4>1 DEF Convert, Success, provider, request
      <4>2. CASE outcome # "ok"
        BY <2>6, <3>1, <4>2 DEF Convert, Fail, Failure, Failed, provider, request
      <4> QED
        BY <4>1, <4>2
    <3>3. Outcomes' = Outcomes /\ (MayRun' <=> MayRun)
      BY <3>2 DEF Outcomes, MayRun, Served
    <3>4. GateInv'
      BY <3>2 DEF IInv, GateInv
    <3>5. OutcomeInv'
      BY <3>1, <3>2, <3>3 DEF OutcomeInv
    <3> QED
      BY <3>2, <3>4, <3>5 DEF IInv, AnswerInv
  <2>7. CASE NextRequest
    BY <2>7 DEF NextRequest, IInv, GateInv, OutcomeInv, AnswerInv
  <2>8. CASE UNCHANGED vars
    <3>1. UNCHANGED <<declares, faulty, implements, op, body, pc, outcome, hint, answer>>
      BY <2>8 DEF vars
    <3> QED
      BY <3>1 DEF IInv, GateInv, OutcomeInv, AnswerInv, Refusal, Success, Failure, Failed,
                  Served, MayRun, Outcomes
  <2> QED
    BY <2>1, <2>2, <2>3, <2>4, <2>5, <2>6, <2>7, <2>8 DEF Next, Dispatch
<1> QED
  BY <1>1, <1>2, PTL DEF Spec

----------------------------------------------------------------------------
(* No method of a provider runs unless the operation is required, or both  *)
(* declared and implemented, and the body is a request (Dispatch's gates). *)
THEOREM GatesComeFirst == Spec => []OnlyServedOpsRun
<1>1. IInv => OnlyServedOpsRun
  BY DEF IInv, OutcomeInv, OnlyServedOpsRun, MayRun
<1> QED
  BY <1>1, AlwaysIInv, PTL

(* Whatever the body, an operation that is not available is answered with  *)
(* unsupported and 501 (the order of the gates in Dispatch and optional).  *)
THEOREM MissingCapabilityIsTold == Spec => []UnavailableIsUnsupported
<1>1. IInv => UnavailableIsUnsupported
  <2> SUFFICES ASSUME IInv, pc = "answered", ~Served(op), op # "describe", ~faulty
               PROVE  answer.code = "unsupported" /\ answer.status = 501
    BY DEF UnavailableIsUnsupported
  <2>1. ~MayRun
    BY DEF MayRun
  <2>2. outcome = "none"
    BY <2>1 DEF IInv, OutcomeInv
  <2>3. answer = Failed("unsupported", 0)
    BY <2>2 DEF IInv, AnswerInv, Refusal, Success, Failure
  <2>4. HTTPStatus("unsupported") = 501
    BY StatusTable DEF ErrorCodes
  <2> QED
    BY <2>3, <2>4 DEF Failed
<1> QED
  BY <1>1, AlwaysIInv, PTL

(* The kit's wire tests pass with every provider whose Describe returns    *)
(* (testWire, testUnsupported).                                            *)
THEOREM WireTestsPass == Spec => []KitAcceptsTheWire
<1>1. IInv => KitAcceptsTheWire
  <2> SUFFICES ASSUME IInv, pc = "answered", ~faulty
               PROVE  KitAccepts(op, body, answer)
    BY DEF KitAcceptsTheWire
  <2>1. Refusal \/ Success \/ Failure
    BY DEF IInv, AnswerInv
  <2>2. op \in AllOps
    BY DEF IInv, GateInv
  <2>3. ASSUME op = "describe" PROVE answer.status = 200
    <3>1. outcome # "none"
      BY <2>1, <2>3 DEF Refusal, Success, Failure
    <3>2. outcome = "ok"
      BY <2>3, <3>1 DEF IInv, OutcomeInv, Outcomes
    <3> QED
      BY <2>1, <3>2 DEF Refusal, Success, Failure
  <2>4. ASSUME op # "describe", ~Served(op) \/ body # "good"
        PROVE  outcome = "none"
    BY <2>4 DEF IInv, OutcomeInv, MayRun
  <2>5. ASSUME op # "describe", ~Served(op)
        PROVE  answer.code = "unsupported" /\ answer.status = HTTPStatus("unsupported")
    <3>1. Refusal
      BY <2>1, <2>4, <2>5 DEF Success, Failure
    <3>2. answer = Failed("unsupported", 0)
      BY <2>5, <3>1 DEF Refusal
    <3> QED
      BY <3>2 DEF Failed
  <2>6. ASSUME op # "describe", body # "good"
        PROVE  answer.code \in {"validation", "unsupported"}
    <3>1. Refusal
      BY <2>1, <2>4, <2>6 DEF Success, Failure
    <3>2. answer = Failed("unsupported", 0) \/ answer = Failed("validation", 0)
      BY <3>1 DEF Refusal
    <3> QED
      BY <3>2 DEF Failed
  <2>7. op = UnknownOp => op # "describe" /\ ~Served(op)
    BY <2>2, OpKinds
  <2>8. op \in OptionalOps /\ CapabilityOf[op] \notin declares => op # "describe" /\ ~Served(op)
    BY <2>2, OpKinds
  <2> QED
    BY <2>3, <2>5, <2>6, <2>7, <2>8 DEF KitAccepts
<1> QED
  BY <1>1, AlwaysIInv, PTL

(* Status 200 means the method succeeded, a typed error keeps its code,    *)
(* and Retry-After comes with exactly the retryable errors that carry a    *)
(* hint, for every outcome of the method (AsError, HTTPStatus, Register).  *)
THEOREM AnswerIsFaithful == Spec => []AnswerTellsTheOutcome
<1>1. IInv => AnswerTellsTheOutcome
  <2> SUFFICES ASSUME IInv, pc = "answered"
               PROVE  /\ answer.status = 200 <=> outcome = "ok"
                      /\ outcome \in ErrorCodes => answer.code = outcome
                      /\ answer.retryAfter = IF Retryable(answer.code) THEN hint ELSE 0
    BY DEF AnswerTellsTheOutcome
  <2>0. ASSUME NEW code \in ErrorCodes, NEW s, answer = Failed(code, s)
        PROVE  /\ answer.status # 200 /\ answer.code = code
               /\ answer.retryAfter = IF Retryable(answer.code) THEN s ELSE 0
    BY <2>0, StatusTable DEF Failed, RetryAfter
  <2>1. CASE Refusal
    <3>1. /\ outcome = "none" /\ hint = 0
          /\ \E code \in {"unsupported", "validation", "internal"} : answer = Failed(code, 0)
      BY <2>1 DEF Refusal
    <3>2. answer.status # 200 /\ answer.retryAfter = 0
      BY <2>0, <3>1 DEF ErrorCodes
    <3> QED
      BY <3>1, <3>2 DEF ErrorCodes
  <2>2. CASE Success
    BY <2>2 DEF Success, ErrorCodes, Retryable
  <2>3. CASE Failure
    <3>1. AsError(outcome) \in ErrorCodes /\ (outcome \in ErrorCodes => AsError(outcome) = outcome)
      BY DEF AsError, ErrorCodes
    <3>2. answer = Failed(AsError(outcome), hint) /\ outcome # "ok"
      BY <2>3 DEF Failure
    <3> QED
      BY <2>0, <3>1, <3>2
  <2> QED
    BY <2>1, <2>2, <2>3 DEF IInv, AnswerInv
<1> QED
  BY <1>1, AlwaysIInv, PTL
=============================================================================
