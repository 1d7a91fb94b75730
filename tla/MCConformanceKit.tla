-------------------------- MODULE MCConformanceKit --------------------------
(* The conformance kit with the fixtures' names, and texts of runes of one *)
(* to three bytes.                                                         *)
EXTENDS ConformanceKit

MCPermissions == [l \in {"octocat", "reader", "owner", "paca-bot"} |->
  CASE l = "reader" -> "read" [] l = "owner" -> "admin" [] OTHER -> "write"]

MCNewBranches == {"feat/new", "draft-branch", "idem-branch", "paca", "from-missing"}

(* The bytes of runes of these lengths.                                    *)
Bytes(runes) ==
  FlattenSeq([k \in DOMAIN runes |-> [j \in 1..runes[k] |-> [nth |-> j, of |-> runes[k]]]])

MCTexts == {s \in {Bytes(runes) : runes \in UNION {[1..n -> 1..3] : n \in 1..4}} : Len(s) <= 5}
=============================================================================
