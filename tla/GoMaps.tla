------------------------------- MODULE GoMaps -------------------------------
(***************************************************************************)
(* Go maps as functions from their keys, for the modules that write them.  *)
(***************************************************************************)

(* m[k] = v.                                                               *)
MapSet(m, k, v) == [x \in DOMAIN m \cup {k} |-> IF x = k THEN v ELSE m[x]]

(* n with every entry of m copied over it.                                 *)
MapMerge(m, n) == [x \in DOMAIN m \cup DOMAIN n |-> IF x \in DOMAIN m THEN m[x] ELSE n[x]]
=============================================================================
