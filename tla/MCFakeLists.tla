---------------------------- MODULE MCFakeLists -----------------------------
(* Model-checking instance of FakeLists: one answer at a time, requests    *)
(* that carry one or two elements.                                         *)
EXTENDS FakeLists

MCPayloads == {<<"x">>, <<"y", "z">>}
=============================================================================
