------------------------------- MODULE Routes -------------------------------
(***************************************************************************)
(* Which route handler a request reaches, and with which path parameters:  *)
(* Context.matchRoute (context.go) and the part of handleRequest           *)
(* (dispatch.go) around it.  The registered routes are a Go map, so the    *)
(* loop visits them in any order.                                          *)
(*                                                                         *)
(* A path is the sequence of its segments.  A segment that starts with ":" *)
(* is its own parameter name; ":" alone names nothing.                     *)
(***************************************************************************)
EXTENDS Integers, Sequences, FiniteSets, Functions, GoMaps

CONSTANTS
  Methods,        \* HTTP methods, upper case
  Segments,       \* path segments
  ParamSegments,  \* those that start with ":"
  Patterns,       \* the paths a plugin may register
  Paths,          \* the paths a request may have
  HostParams,     \* the path_params a host may send along
  Registrations   \* the sets of routes a plugin may have registered

ASSUME SegmentsAssumption ==
  /\ {":", ":projectId"} \subseteq ParamSegments /\ ParamSegments \subseteq Segments
  /\ "projects" \in Segments \ ParamSegments
ASSUME PatternsAssumption == Patterns \subseteq Seq(Segments) /\ Paths \subseteq Seq(Segments)
ASSUME HostParamsAssumption ==
  \A f \in HostParams : DOMAIN f \subseteq ParamSegments /\ Range(f) \subseteq Segments

(* Route and matchRoute upper-case the method, so it is compared as such.  *)
RouteKeys == [method : Methods, path : Patterns]
ASSUME RegistrationsAssumption == Registrations \subseteq SUBSET RouteKeys

----------------------------------------------------------------------------
(* Whether a path is inside a project, and what is left of it then.        *)
hasProjectScope(path) == Len(path) >= 2 /\ path[1] = "projects"
relativePath(path) == SubSeq(path, 3, Len(path))

IsParam(seg) == seg \in ParamSegments

(* Mutation: parameters are counted instead of literals.                   *)
ParamsCounted(pattern) ==
  Cardinality({i \in DOMAIN pattern : IsParam(pattern[i])})

(* How many literal segments a pattern has, its project scope apart.       *)
routeSpecificity(pattern) ==
  LET scoped == hasProjectScope(pattern) /\ IsParam(pattern[2])
  IN  Cardinality({i \in DOMAIN pattern : ~IsParam(pattern[i]) /\ (scoped => i > 2)})

Matches(pattern, path) ==
  /\ Len(pattern) = Len(path)
  /\ \A i \in DOMAIN pattern :
       IF IsParam(pattern[i]) THEN pattern[i] # ":" ELSE pattern[i] = path[i]

(* The parameters of a match; the last of two of the same name counts.     *)
Bound(pattern, path) ==
  [p \in {q \in Range(pattern) : IsParam(q)} |->
     path[CHOOSE i \in DOMAIN pattern :
            pattern[i] = p /\ \A j \in DOMAIN pattern : pattern[j] = p => j <= i]]

----------------------------------------------------------------------------
VARIABLES
  routes,   \* Context.routes: the registered keys
  req,      \* the request: method, path, and PathParams as the host sent them
  todo,     \* keys the loop of matchRoute has not visited
  best,     \* the best match so far
  params,   \* req.PathParams
  pc

vars == <<routes, req, todo, best, params, pc>>

(* Mutation: a match must have a literal segment.                          *)
LiteralNeeded == [found |-> FALSE, path |-> <<>>, params |-> <<>>, specificity |-> 0]

NoMatch == [found |-> FALSE, path |-> <<>>, params |-> <<>>, specificity |-> -1]

Init ==
  /\ routes \in Registrations
  /\ req \in [method : Methods, path : Paths, params : HostParams]
  /\ todo = {} /\ best = NoMatch /\ params = req.params
  /\ pc = "match"

(* Registered under the path exactly as it was requested.                  *)
MatchExact ==
  /\ pc = "match"
  /\ [method |-> req.method, path |-> req.path] \in routes
  /\ best' = [found |-> TRUE, path |-> req.path, params |-> <<>>,
              specificity |-> Len(req.path)]
  /\ pc' = "merge"
  /\ UNCHANGED <<routes, req, todo, params>>

MatchLoop ==
  /\ pc = "match"
  /\ [method |-> req.method, path |-> req.path] \notin routes
  /\ todo' = routes
  /\ pc' = "loop"
  /\ UNCHANGED <<routes, req, best, params>>

(* Mutation: the project of a scoped match is not passed on.               *)
ScopeDropped(b, pattern, path, scope) ==
  IF ~Matches(pattern, path) \/ routeSpecificity(pattern) <= b.specificity THEN b
  ELSE [found |-> TRUE, path |-> pattern, params |-> Bound(pattern, path),
        specificity |-> routeSpecificity(pattern)]

(* Mutation: the segments are taken from the request's whole path.         *)
BindsWholePath(b, pattern, path, scope) ==
  LET found == Bound(pattern, req.path)
  IN  IF ~Matches(pattern, path) \/ routeSpecificity(pattern) <= b.specificity THEN b
      ELSE [found |-> TRUE, path |-> pattern,
            params |-> IF scope THEN MapSet(found, ":projectId", req.path[2]) ELSE found,
            specificity |-> routeSpecificity(pattern)]

(* consider: a match replaces a less specific one.                         *)
consider(b, pattern, path, scope) ==
  LET found == Bound(pattern, path)
  IN  IF ~Matches(pattern, path) \/ routeSpecificity(pattern) <= b.specificity THEN b
      ELSE [found |-> TRUE, path |-> pattern,
            params |-> IF scope THEN MapSet(found, ":projectId", req.path[2]) ELSE found,
            specificity |-> routeSpecificity(pattern)]

(* One turn of the loop: the path itself, then what follows its project.   *)
Visit(key) ==
  LET full == consider(best, key.path, req.path, FALSE)
  IN  /\ pc = "loop" /\ key \in todo
      /\ todo' = todo \ {key}
      /\ best' = IF key.method # req.method THEN best
                 ELSE IF hasProjectScope(req.path)
                        THEN consider(full, key.path, relativePath(req.path), TRUE)
                        ELSE full
      /\ UNCHANGED <<routes, req, params, pc>>

LoopEnds ==
  /\ pc = "loop" /\ todo = {}
  /\ pc' = IF best.found THEN "merge" ELSE "not found"
  /\ UNCHANGED <<routes, req, todo, best, params>>

(* The parameters the handler gets: the host's own win.                    *)
Merged == MapMerge(params, best.params)

MergeParams ==
  /\ pc = "merge"
  /\ params' = Merged
  /\ pc' = "handle"
  /\ UNCHANGED <<routes, req, todo, best>>

Answered == pc \in {"handle", "not found"} /\ UNCHANGED vars

Next ==
  \/ MatchExact
  \/ MatchLoop
  \/ \E key \in routes : Visit(key)
  \/ LoopEnds
  \/ MergeParams
  \/ Answered

Spec == Init /\ [][Next]_vars
----------------------------------------------------------------------------
(* The registered patterns that match the request, as it stands or inside  *)
(* its project.                                                            *)
Candidates ==
  {key.path : key \in {k \in routes :
     /\ k.method = req.method
     /\ \/ Matches(k.path, req.path)
        \/ hasProjectScope(req.path) /\ Matches(k.path, relativePath(req.path))}}

(* A request is answered "no handler" only when no registered pattern      *)
(* matches it, and otherwise reaches one of the most specific ones,        *)
(* whatever order the map was visited in (matchRoute).                     *)
BestCandidateWins ==
  /\ pc = "not found" => Candidates = {}
  /\ pc = "handle" =>
       \/ best.path = req.path
       \/ /\ best.path \in Candidates
          /\ \A p \in Candidates : routeSpecificity(p) <= routeSpecificity(best.path)

(* The pattern q is literal wherever p is, and somewhere p is not.         *)
MoreLiteral(q, p) ==
  /\ Len(q) = Len(p)
  /\ \A i \in DOMAIN p : ~IsParam(p[i]) => ~IsParam(q[i])
  /\ \E i \in DOMAIN p : IsParam(p[i]) /\ ~IsParam(q[i])

SpelledScope(p) == hasProjectScope(p) /\ IsParam(p[2])

(* context.go: "a literal segment like "layout" always beats a             *)
(* same-position ":panelId" wildcard": among patterns that do not spell    *)
(* out a project scope, a handler never runs when another pattern matching *)
(* the request is literal in more places (routeSpecificity, consider).     *)
LiteralBeatsParam ==
  pc = "handle" /\ best.path # req.path =>
    \A q \in Candidates : ~SpelledScope(q) => ~MoreLiteral(q, best.path)

(* Place i of the pattern p is the last that names its parameter.          *)
LastNamed(p, i) == IsParam(p[i]) /\ \A j \in DOMAIN p : p[j] = p[i] => j <= i

(* The parameters a match of p has: none when p is the path requested,     *)
(* else those it names, and the project when p is relative to one.         *)
Named(p) ==
  IF p = req.path THEN {}
  ELSE {q \in Range(p) : IsParam(q)}
         \cup IF Len(p) = Len(req.path) THEN {} ELSE {":projectId"}

(* The segment of the request the parameter in place i of p stands for; in *)
(* a relative pattern a ":projectId" is still the project of the path.     *)
Owed(p, i) ==
  IF Len(p) = Len(req.path) THEN req.path[i]
  ELSE IF p[i] = ":projectId" THEN req.path[2] ELSE req.path[i + 2]

(* The handler gets the parameters the host sent, as it sent them, and     *)
(* beside them exactly the parameters of the match, each with the segment  *)
(* of the request that stands in its place, the project's included, with   *)
(* either style of registration (matchRoutePattern, consider's scope,      *)
(* handleRequest's merge).                                                 *)
HandlerGetsItsParams ==
  pc = "handle" =>
    /\ DOMAIN params = DOMAIN req.params \cup Named(best.path)
    /\ \A q \in DOMAIN req.params : params[q] = req.params[q]
    /\ best.path # req.path =>
         /\ \A i \in DOMAIN best.path :
              LastNamed(best.path, i) /\ best.path[i] \notin DOMAIN req.params =>
                params[best.path[i]] = Owed(best.path, i)
         /\ Len(best.path) # Len(req.path) /\ ":projectId" \notin DOMAIN req.params =>
              params[":projectId"] = req.path[2]

----------------------------------------------------------------------------
(* context.go: "a literal segment like "layout" always beats a             *)
(* same-position ":panelId" wildcard.  Without this, Go's randomized map   *)
(* iteration order would make the match nondeterministic across calls."    *)
LiteralAlwaysBeatsParam ==
  pc = "handle" /\ best.path # req.path =>
    \A q \in Candidates : ~MoreLiteral(q, best.path)
=============================================================================
