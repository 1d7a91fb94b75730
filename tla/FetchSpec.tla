----------------------------- MODULE FetchSpec -----------------------------
(***************************************************************************)
(* What Fetch promises its caller: one outcome, an error or a body, and    *)
(* the body is the whole response, never a part of it, whatever goes wrong  *)
(* on the way, unless the host itself lies about size or bytes.             *)
(***************************************************************************)
EXTENDS Sequences, Naturals

CONSTANT MaxBody   \* the longest body a caller can receive

VARIABLES
  truthful,   \* the host's size and bytes are those of its response
  response,   \* the response body it has
  outcome,    \* "pending", "body" or "error"
  bytes       \* the body delivered to the caller

vars == <<truthful, response, outcome, bytes>>

Init ==
  /\ truthful \in BOOLEAN
  /\ response \in Seq(Nat)
  /\ outcome = "pending" /\ bytes = <<>>

Fail ==
  /\ outcome = "pending"
  /\ outcome' = "error" /\ bytes' = <<>>
  /\ UNCHANGED <<truthful, response>>

Deliver ==
  /\ outcome = "pending"
  /\ outcome' = "body"
  /\ Len(bytes') <= MaxBody
  /\ truthful => bytes' = response
  /\ UNCHANGED <<truthful, response>>

Next == Fail \/ Deliver

Safety == Init /\ [][Next]_vars

(* A host call returns: the caller gets its outcome.                       *)
Answered == <>(outcome # "pending")

Spec == Safety /\ Answered
============================================================================
