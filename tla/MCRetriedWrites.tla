-------------------------- MODULE MCRetriedWrites --------------------------
(* Model-checking instance of RetriedWrites: two callers in two            *)
(* repositories, who may share a key for different operations.             *)
EXTENDS RetriedWrites

CONSTANTS c1, c2, r1, r2, k1, k2

(* The writes that can collide with one another or with an Other.          *)
Ask(r, k) ==
  LET On(op, arg) == [op |-> op, repo |-> r, arg |-> arg, key |-> k]
  IN  {On("open", <<h, FALSE>>) : h \in NewBranches \cup {SeedHead}}
      \cup {On("comment", <<101, FALSE>>), On("reply", <<1, Thread>>), On("review", <<101, "approve">>)}
      \cup {On("branch", <<h, BaseBranch>>) : h \in NewBranches}

(* Without loss of generality the first caller uses r1 and k1.  With keys  *)
(* of their own, only opens and branches can get in another's way.         *)
MCCalls ==
  {f \in [{c1, c2} -> Ask(r1, k1) \cup Ask(r1, k2) \cup Ask(r2, k1) \cup Ask(r2, k2)] :
     /\ f[c1].repo = r1 /\ f[c1].key = k1
     /\ f[c2].key = k2 => {f[c1].op, f[c2].op} \subseteq {"open", "branch"}
     /\ f[c2].key = k1 => f[c1].op # f[c2].op}
=============================================================================
