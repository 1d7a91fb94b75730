------------------------------ MODULE MCRoutes ------------------------------
(* Model-checking instance of Routes: two routes, of one method or of two. *)
EXTENDS Routes, TLC

MCMethods == {"GET", "PATCH"}
MCParams == {":", ":x", ":projectId"}
MCSegments == MCParams \cup {"projects", "a", "v"}

UpTo2(S) == {<<>>} \cup {<<s>> : s \in S} \cup (S \X S)
MCPatterns ==
  UpTo2({"projects", "a", ":x", ":projectId"})
    \cup ({"projects", ":x"} \X {"a", ":x", ":projectId"} \X {"a", ":x"})
    \cup {<<":">>}
MCPaths ==
  UpTo2({"projects", "a"}) \cup ({"projects", "a"} \X {"projects", "v"} \X {"a"})
    \cup {<<"v">>, <<":x">>, <<"projects", "v", "a", "projects">>}
MCHostParams == {<<>>, ":x" :> "v"}
MCRegistrations ==
  {{[method |-> "GET", path |-> p], [method |-> m, path |-> q]} :
     p \in MCPatterns, q \in MCPatterns, m \in MCMethods}
=============================================================================
