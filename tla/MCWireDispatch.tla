--------------------------- MODULE MCWireDispatch ---------------------------
(* Model-checking instance of WireDispatch: two operations share a         *)
(* capability, as get_branch and create_branch do.                         *)
EXTENDS WireDispatch

MCCapabilityOf ==
  [o \in OptionalOps |-> IF o = "merge_change_request" THEN "merge" ELSE "branches"]
=============================================================================
