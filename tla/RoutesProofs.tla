--------------------------- MODULE RoutesProofs ----------------------------
(***************************************************************************)
(* matchRoute finds a most specific route for every set of routes, in      *)
(* whatever order the map is visited, and its handler gets its parameters. *)
(***************************************************************************)
EXTENDS Routes, FiniteSetTheorems, TLAPS

(* A key matches the request.                                              *)
Fits(k) ==
  /\ k.method = req.method
  /\ \/ Matches(k.path, req.path)
     \/ hasProjectScope(req.path) /\ Matches(k.path, relativePath(req.path))

(* What holds of the best match once the keys in seen have been visited.   *)
BestOf(seen) ==
  /\ best.specificity \in Int
  /\ ~best.found => best.specificity = -1
  /\ best.found => /\ \E k \in seen : Fits(k) /\ k.path = best.path
                   /\ best.specificity = routeSpecificity(best.path)
  /\ \A k \in seen : Fits(k) => best.found /\ routeSpecificity(k.path) <= best.specificity

IInv ==
  /\ pc \in {"match", "loop", "merge", "handle", "not found"}
  /\ routes \subseteq RouteKeys /\ todo \subseteq routes
  /\ pc = "match" => best = NoMatch
  /\ pc = "loop" => BestOf(routes \ todo)
  /\ pc \in {"merge", "handle"} => best.path = req.path \/ (best.found /\ BestOf(routes))
  /\ pc = "not found" => ~best.found /\ BestOf(routes)

(* Specificity is a count.                                                 *)
LEMMA SpecificityNat ==
  ASSUME NEW p \in Seq(Segments)
  PROVE  routeSpecificity(p) \in Nat
<1> DEFINE scoped == hasProjectScope(p) /\ IsParam(p[2])
           S == {i \in DOMAIN p : ~IsParam(p[i]) /\ (scoped => i > 2)}
<1>1. DOMAIN p = 1..Len(p) /\ Len(p) \in Nat
  OBVIOUS
<1>2. IsFiniteSet(1..Len(p))
  BY <1>1, FS_Interval
<1>3. S \subseteq 1..Len(p)
  BY <1>1
<1>4. IsFiniteSet(S)
  BY <1>2, <1>3, FS_Subset
<1>5. Cardinality(S) \in Nat
  BY <1>4, FS_CardinalityType
<1> QED
  BY <1>5 DEF routeSpecificity

(* c is the better of b and a match of p, if p matches.                    *)
Better(b, p, path, c) ==
  /\ c.specificity \in Int
  /\ ~c.found => c.specificity = -1
  /\ c = b \/ (/\ Matches(p, path) /\ c.found /\ c.path = p
               /\ c.specificity = routeSpecificity(p))
  /\ b.specificity <= c.specificity
  /\ b.found => c.found
  /\ Matches(p, path) => c.found /\ routeSpecificity(p) <= c.specificity

(* consider keeps the better of a match and the best so far.               *)
LEMMA ConsiderBest ==
  ASSUME NEW b, NEW p \in Seq(Segments), NEW path, NEW scope \in BOOLEAN,
         b.specificity \in Int, ~b.found => b.specificity = -1
  PROVE  Better(b, p, path, consider(b, p, path, scope))
<1> USE DEF Better
<1> DEFINE c == consider(b, p, path, scope)
<1>1. routeSpecificity(p) \in Nat
  BY SpecificityNat
<1>2. CASE ~Matches(p, path)
  <2>1. c = b
    BY <1>2, Zenon DEF consider
  <2> QED
    BY <1>2, <2>1
<1>3. CASE Matches(p, path) /\ routeSpecificity(p) <= b.specificity
  <2>1. c = b
    BY <1>3, Zenon DEF consider
  <2>2. b.found
    BY <1>1, <1>3
  <2> QED
    BY <1>1, <1>3, <2>1, <2>2
<1>4. CASE Matches(p, path) /\ ~(routeSpecificity(p) <= b.specificity)
  <2>1. PICK pars : c = [found |-> TRUE, path |-> p, params |-> pars,
                         specificity |-> routeSpecificity(p)]
    BY <1>4, Zenon DEF consider
  <2>2. c.found /\ c.path = p /\ c.specificity = routeSpecificity(p)
    BY <2>1
  <2> QED
    BY <1>1, <1>4, <2>2
<1> QED
  BY <1>2, <1>3, <1>4

(* One turn of the loop extends what holds of the visited keys.            *)
LEMMA VisitBest ==
  ASSUME IInv, NEW key \in routes, Visit(key)
  PROVE  BestOf(routes \ todo)'
<1> DEFINE seen == routes \ todo
           full == consider(best, key.path, req.path, FALSE)
           rel == consider(full, key.path, relativePath(req.path), TRUE)
<1>1. /\ pc = "loop" /\ key \in todo /\ todo' = todo \ {key}
      /\ UNCHANGED <<routes, req>>
      /\ best' = IF key.method # req.method THEN best
                 ELSE IF hasProjectScope(req.path) THEN rel ELSE full
  BY DEF Visit
<1>2. /\ best.specificity \in Int
      /\ ~best.found => best.specificity = -1
      /\ best.found => /\ \E k \in seen : Fits(k) /\ k.path = best.path
                       /\ best.specificity = routeSpecificity(best.path)
      /\ \A k \in seen : Fits(k) => best.found /\ routeSpecificity(k.path) <= best.specificity
  BY <1>1 DEF IInv, BestOf
<1>3. routes' \ todo' = seen \cup {key}
  BY <1>1 DEF IInv
<1>4. \A k \in seen \cup {key} : k.path \in Seq(Segments)
  BY PatternsAssumption DEF IInv, RouteKeys
<1>4a. \A k \in seen \cup {key} : routeSpecificity(k.path) \in Int
  BY <1>4, SpecificityNat
<1>5. /\ full.specificity \in Int
      /\ ~full.found => full.specificity = -1
      /\ full = best \/ (/\ Matches(key.path, req.path) /\ full.found
                         /\ full.path = key.path
                         /\ full.specificity = routeSpecificity(key.path))
      /\ best.specificity <= full.specificity
      /\ best.found => full.found
      /\ Matches(key.path, req.path) => full.found /\ routeSpecificity(key.path) <= full.specificity
  <2>1. key.path \in Seq(Segments)
    BY <1>4
  <2>2. Better(best, key.path, req.path, full)
    BY <1>2, <2>1, ConsiderBest
  <2> QED
    BY <2>2 DEF Better
<1> HIDE DEF full
<1>6. /\ rel.specificity \in Int
      /\ ~rel.found => rel.specificity = -1
      /\ rel = full \/ (/\ Matches(key.path, relativePath(req.path)) /\ rel.found
                        /\ rel.path = key.path
                        /\ rel.specificity = routeSpecificity(key.path))
      /\ full.specificity <= rel.specificity
      /\ full.found => rel.found
      /\ Matches(key.path, relativePath(req.path)) =>
           rel.found /\ routeSpecificity(key.path) <= rel.specificity
  <2>1. key.path \in Seq(Segments)
    BY <1>4
  <2>2. Better(full, key.path, relativePath(req.path), rel)
    BY <1>5, <2>1, ConsiderBest
  <2> QED
    BY <2>2 DEF Better
<1> HIDE DEF rel
(* The new best is the old one or the visited key's, and bounds both.      *)
<1>7. /\ best'.specificity \in Int
      /\ ~best'.found => best'.specificity = -1
      /\ best' = best \/ (/\ Fits(key) /\ best'.found /\ best'.path = key.path
                          /\ best'.specificity = routeSpecificity(key.path))
      /\ best.specificity <= best'.specificity
      /\ best.found => best'.found
      /\ Fits(key) => best'.found /\ routeSpecificity(key.path) <= best'.specificity
  <2>1. CASE key.method # req.method
    <3>1. best' = best /\ ~Fits(key)
      BY <1>1, <2>1 DEF Fits
    <3> QED
      BY <1>2, <3>1
  <2>2. CASE key.method = req.method /\ ~hasProjectScope(req.path)
    <3>1. best' = full /\ (Fits(key) <=> Matches(key.path, req.path))
      BY <1>1, <2>2 DEF Fits
    <3> QED
      BY <1>5, <3>1
  <2>3. CASE key.method = req.method /\ hasProjectScope(req.path)
    <3>1. /\ best' = rel
          /\ Fits(key) <=> (\/ Matches(key.path, req.path)
                            \/ Matches(key.path, relativePath(req.path)))
      BY <1>1, <2>3 DEF Fits
    <3>2. routeSpecificity(key.path) \in Int
      BY <1>4a
    <3> QED
      BY <1>2, <1>5, <1>6, <3>1, <3>2
  <2> QED
    BY <2>1, <2>2, <2>3
<1>8. \A k : Fits(k)' <=> Fits(k)
  BY <1>1 DEF Fits
<1>9. best'.found => /\ \E k \in seen \cup {key} : Fits(k) /\ k.path = best'.path
                     /\ best'.specificity = routeSpecificity(best'.path)
  <2>1. CASE best' = best
    BY <1>2, <2>1
  <2>2. CASE Fits(key) /\ best'.path = key.path
             /\ best'.specificity = routeSpecificity(key.path)
    BY <2>2
  <2> QED
    BY <1>7, <2>1, <2>2
<1>10. ASSUME NEW k \in seen \cup {key}, Fits(k)
       PROVE  best'.found /\ routeSpecificity(k.path) <= best'.specificity
  <2>1. CASE k = key
    BY <1>7, <1>10, <2>1
  <2>2. CASE k \in seen
    <3>1. best.found /\ routeSpecificity(k.path) <= best.specificity
      BY <1>2, <1>10, <2>2
    <3>2. routeSpecificity(k.path) \in Int
      BY <1>4a
    <3> QED
      BY <1>2, <1>7, <3>1, <3>2
  <2> QED
    BY <2>1, <2>2
<1> QED
  BY <1>1, <1>3, <1>7, <1>8, <1>9, <1>10 DEF BestOf, Fits

(* The inductive invariant holds throughout.                               *)
LEMMA AlwaysIInv == Spec => []IInv
<1>1. Init => IInv
  BY RegistrationsAssumption DEF Init, IInv
<1>2. IInv /\ [Next]_vars => IInv'
  <2> SUFFICES ASSUME IInv, [Next]_vars PROVE IInv'
    OBVIOUS
  <2>1. CASE MatchExact
    <3>1. best'.path = req.path
      BY <2>1 DEF MatchExact
    <3> QED
      BY <2>1, <3>1 DEF MatchExact, IInv
  <2>2. CASE MatchLoop
    <3>1. /\ best = NoMatch /\ best' = best /\ todo' = routes /\ routes' = routes
          /\ req' = req /\ pc' = "loop"
      BY <2>2 DEF MatchLoop, IInv
    <3>2. ~best'.found /\ best'.specificity = -1
      BY <3>1 DEF NoMatch
    <3>3. BestOf(routes \ todo)'
      BY <3>1, <3>2 DEF BestOf
    <3> QED
      BY <3>1, <3>3 DEF IInv
  <2>3. CASE \E key \in routes : Visit(key)
    <3>1. PICK key \in routes : Visit(key)
      BY <2>3
    <3>2. BestOf(routes \ todo)'
      BY <3>1, VisitBest
    <3> QED
      BY <3>1, <3>2 DEF Visit, IInv
  <2>4. CASE LoopEnds
    <3>1. /\ pc = "loop" /\ todo = {} /\ UNCHANGED <<routes, req, todo, best>>
          /\ pc' = IF best.found THEN "merge" ELSE "not found"
      BY <2>4 DEF LoopEnds
    <3>2. BestOf(routes)
      <4>1. BestOf(routes \ todo) /\ routes \ todo = routes
        BY <3>1 DEF IInv
      <4> QED
        BY <4>1
    <3>3. BestOf(routes)'
      BY <3>1, <3>2 DEF BestOf, Fits
    <3> QED
      BY <3>1, <3>3 DEF IInv
  <2>5. CASE MergeParams
    <3>1. pc = "merge" /\ pc' = "handle" /\ UNCHANGED <<routes, req, todo, best>>
      BY <2>5 DEF MergeParams
    <3> QED
      BY <3>1 DEF IInv, BestOf, Fits
  <2>6. CASE UNCHANGED vars
    BY <2>6 DEF vars, IInv, BestOf, Fits
  <2> QED
    BY <2>1, <2>2, <2>3, <2>4, <2>5, <2>6 DEF Next, Answered
<1> QED
  BY <1>1, <1>2, PTL DEF Spec

----------------------------------------------------------------------------
(* For every set of registered routes, every request and every visiting    *)
(* order, matchRoute answers "no handler" only if nothing matches, and     *)
(* otherwise picks a most specific candidate.                              *)
THEOREM MostSpecificRoute == Spec => []BestCandidateWins
<1>1. IInv => BestCandidateWins
  <2> SUFFICES ASSUME IInv PROVE BestCandidateWins
    OBVIOUS
  <2>1. Candidates = {k.path : k \in {r \in routes : Fits(r)}}
    BY DEF Candidates, Fits
  <2>2. ASSUME pc = "not found" PROVE Candidates = {}
    BY <2>1, <2>2 DEF IInv, BestOf
  <2>3. ASSUME pc = "handle", best.path # req.path
        PROVE  /\ best.path \in Candidates
               /\ \A p \in Candidates : routeSpecificity(p) <= routeSpecificity(best.path)
    <3>1. best.found /\ BestOf(routes)
      BY <2>3 DEF IInv
    <3> QED
      BY <2>1, <3>1 DEF BestOf
  <2> QED
    BY <2>2, <2>3 DEF BestCandidateWins
<1> QED
  BY <1>1, AlwaysIInv, PTL

----------------------------------------------------------------------------
(* How many literal segments a pattern has in all.                         *)
Literals(p) == {i \in DOMAIN p : ~IsParam(p[i])}

(* routeSpecificity counts every literal of a pattern that does not spell  *)
(* out a project scope, and no pattern scores more than its literals.      *)
LEMMA SpecificityCounts ==
  ASSUME NEW p \in Seq(Segments)
  PROVE  /\ IsFiniteSet(Literals(p))
         /\ Cardinality(Literals(p)) \in Nat
         /\ routeSpecificity(p) <= Cardinality(Literals(p))
         /\ ~SpelledScope(p) => routeSpecificity(p) = Cardinality(Literals(p))
<1> DEFINE scoped == hasProjectScope(p) /\ IsParam(p[2])
           S == {i \in DOMAIN p : ~IsParam(p[i]) /\ (scoped => i > 2)}
<1>1. DOMAIN p = 1..Len(p) /\ Len(p) \in Nat
  OBVIOUS
<1>2. IsFiniteSet(1..Len(p)) /\ Literals(p) \subseteq 1..Len(p)
  BY <1>1, FS_Interval DEF Literals
<1>3. IsFiniteSet(Literals(p))
  BY <1>2, FS_Subset
<1>4. S \subseteq Literals(p) /\ (~scoped => S = Literals(p))
  BY DEF Literals
<1>5. Cardinality(S) <= Cardinality(Literals(p))
  BY <1>3, <1>4, FS_Subset
<1>6. Cardinality(Literals(p)) \in Nat
  BY <1>3, FS_CardinalityType
<1>7. routeSpecificity(p) = Cardinality(S)
  BY DEF routeSpecificity
<1> QED
  BY <1>3, <1>4, <1>5, <1>6, <1>7 DEF SpelledScope

(* A pattern that is literal wherever another is, and in one more place,   *)
(* scores more, if it spells out no project scope.                         *)
LEMMA MoreLiteralScoresMore ==
  ASSUME NEW q \in Seq(Segments), NEW p \in Seq(Segments), ~SpelledScope(q), MoreLiteral(q, p)
  PROVE  ~(routeSpecificity(q) <= routeSpecificity(p))
<1>1. DOMAIN q = DOMAIN p
  BY DEF MoreLiteral
<1>2. Literals(p) \subseteq Literals(q) /\ Literals(p) # Literals(q)
  BY <1>1 DEF MoreLiteral, Literals
<1>3. /\ IsFiniteSet(Literals(q)) /\ Cardinality(Literals(q)) \in Nat
      /\ Cardinality(Literals(p)) \in Nat
      /\ routeSpecificity(q) = Cardinality(Literals(q))
      /\ routeSpecificity(p) <= Cardinality(Literals(p))
  BY SpecificityCounts
<1>4. /\ Cardinality(Literals(p)) <= Cardinality(Literals(q))
      /\ Cardinality(Literals(p)) # Cardinality(Literals(q))
  BY <1>2, <1>3, FS_Subset
<1>5. routeSpecificity(p) \in Nat
  BY SpecificityNat
<1> QED
  BY <1>3, <1>4, <1>5

(* A literal segment beats a parameter in the same place, among all routes *)
(* that spell out no project scope, in every visiting order (matchRoute).  *)
THEOREM LiteralWins == Spec => []LiteralBeatsParam
<1>1. IInv /\ BestCandidateWins => LiteralBeatsParam
  <2> SUFFICES ASSUME IInv, BestCandidateWins, pc = "handle", best.path # req.path,
                      NEW q \in Candidates, ~SpelledScope(q), MoreLiteral(q, best.path)
               PROVE  FALSE
    BY DEF LiteralBeatsParam
  <2>1. best.path \in Candidates /\ routeSpecificity(q) <= routeSpecificity(best.path)
    BY DEF BestCandidateWins
  <2>2. Candidates \subseteq Seq(Segments)
    BY PatternsAssumption DEF IInv, Candidates, RouteKeys
  <2> QED
    BY <2>1, <2>2, MoreLiteralScoresMore
<1> QED
  BY <1>1, AlwaysIInv, MostSpecificRoute, PTL

----------------------------------------------------------------------------
(* The parameters pars are what a match of pattern p owes its handler.     *)
Bears(p, pars) ==
  /\ DOMAIN pars = Named(p)
  /\ \A i \in DOMAIN p : LastNamed(p, i) => pars[p[i]] = Owed(p, i)
  /\ Len(p) # Len(req.path) => pars[":projectId"] = req.path[2]

(* A request path that is registered as it stands is not looked for in the *)
(* loop, so that only MatchExact finds it.                                 *)
ParamsInv ==
  /\ req.path \in Seq(Segments)
  /\ pc \in {"match", "loop", "merge"} => params = req.params
  /\ pc = "loop" =>
       /\ [method |-> req.method, path |-> req.path] \notin routes
       /\ best.found => best.path # req.path /\ Bears(best.path, best.params)
  /\ pc \in {"merge", "handle"} =>
       IF best.path = req.path THEN DOMAIN best.params = {} ELSE Bears(best.path, best.params)
  /\ pc = "handle" => params = MapMerge(req.params, best.params)

(* Bound gives a parameter the segment at the last place that names it.    *)
LEMMA BoundLast ==
  ASSUME NEW p \in Seq(Segments), NEW path, NEW i \in DOMAIN p, LastNamed(p, i)
  PROVE  Bound(p, path)[p[i]] = path[i]
<1> DEFINE Last(k) == p[k] = p[i] /\ \A j \in DOMAIN p : p[j] = p[i] => j <= k
           c == CHOOSE k \in DOMAIN p : Last(k)
<1>1. Last(i)
  BY DEF LastNamed
<1>2. c \in DOMAIN p /\ Last(c)
  BY <1>1, Zenon
<1>3. c = i
  <2> HIDE DEF c
  <2>1. c <= i /\ i <= c
    BY <1>1, <1>2
  <2>2. c \in Int /\ i \in Int
    BY <1>2
  <2> QED
    BY <2>1, <2>2
<1>4. p[i] \in {q \in Range(p) : IsParam(q)}
  BY DEF Range, LastNamed
<1>5. Bound(p, path)[p[i]] = path[c]
  BY <1>4, Zenon DEF Bound
<1> QED
  BY <1>3, <1>5

(* The place of a parameter in what follows the project of a path.         *)
LEMMA RelativePlace ==
  ASSUME NEW path \in Seq(Segments), hasProjectScope(path)
  PROVE  /\ relativePath(path) \in Seq(Segments)
         /\ Len(relativePath(path)) = Len(path) - 2
         /\ \A i \in 1..(Len(path) - 2) : relativePath(path)[i] = path[i + 2]
<1>1. Len(path) \in Nat /\ Len(path) >= 2
  BY DEF hasProjectScope
<1>2. relativePath(path) = [i \in 1..(Len(path) - 2) |-> path[i + 2]]
  <2>1. relativePath(path) = [i \in 1..(Len(path) - 3 + 1) |-> path[3 + i - 1]]
    BY <1>1, SMT DEF relativePath
  <2> QED
    BY <1>1, <2>1
<1>3. \A i \in 1..(Len(path) - 2) : path[i + 2] \in Segments
  BY <1>1
<1> QED
  BY <1>1, <1>2, <1>3

(* consider hands on parameters that its match owes the handler, for the   *)
(* path itself and for what follows its project.                           *)
LEMMA ConsiderBears ==
  ASSUME NEW b, NEW p \in Seq(Segments), NEW path \in Seq(Segments), NEW scope \in BOOLEAN,
         req.path \in Seq(Segments), p # req.path,
         b.found => b.path # req.path /\ Bears(b.path, b.params),
         IF scope THEN hasProjectScope(req.path) /\ path = relativePath(req.path)
                  ELSE path = req.path
  PROVE  LET c == consider(b, p, path, scope)
         IN  c.found => c.path # req.path /\ Bears(c.path, c.params)
<1> DEFINE c == consider(b, p, path, scope)
           found == Bound(p, path)
           pars == IF scope THEN MapSet(found, ":projectId", req.path[2]) ELSE found
<1>1. CASE ~Matches(p, path) \/ routeSpecificity(p) <= b.specificity
  <2>1. c = b
    BY <1>1, Zenon DEF consider
  <2> QED
    BY <2>1
<1>2. CASE ~(~Matches(p, path) \/ routeSpecificity(p) <= b.specificity)
  <2>1. c = [found |-> TRUE, path |-> p, params |-> pars, specificity |-> routeSpecificity(p)]
    BY <1>2, Zenon DEF consider
  <2>2. c.path = p /\ c.params = pars
    BY <2>1
  <2>3. DOMAIN found = {q \in Range(p) : IsParam(q)}
    BY DEF Bound
  <2>4. \A i \in DOMAIN p : LastNamed(p, i) => found[p[i]] = path[i]
    BY BoundLast
  <2>5. Len(p) = Len(path) /\ Len(p) \in Nat /\ DOMAIN p = 1..Len(p)
    BY <1>2 DEF Matches
  <2>6. CASE scope
    <3>1. pars = MapSet(found, ":projectId", req.path[2])
      BY <2>6
    <3> HIDE DEF pars, found
    <3>2. /\ DOMAIN pars = DOMAIN found \cup {":projectId"}
          /\ pars[":projectId"] = req.path[2]
          /\ \A q \in DOMAIN found : q # ":projectId" => pars[q] = found[q]
      BY <3>1 DEF MapSet
    <3>3. /\ Len(p) = Len(req.path) - 2
          /\ \A i \in 1..(Len(req.path) - 2) : path[i] = req.path[i + 2]
      BY <2>5, <2>6, RelativePlace
    <3>4. Len(p) # Len(req.path)
      BY <2>5, <3>3
    <3>5. DOMAIN pars = Named(p)
      BY <2>3, <3>2, <3>4, Zenon DEF Named
    <3>6. ASSUME NEW i \in DOMAIN p, LastNamed(p, i)
          PROVE  pars[p[i]] = Owed(p, i)
      <4>1. p[i] \in DOMAIN found
        BY <2>3, <3>6 DEF Range, LastNamed
      <4>2. CASE p[i] = ":projectId"
        BY <3>2, <3>4, <4>2, Zenon DEF Owed
      <4>3. CASE p[i] # ":projectId"
        <5>1. pars[p[i]] = path[i]
          BY <2>4, <3>2, <3>6, <4>1, <4>3
        <5>2. path[i] = req.path[i + 2]
          BY <2>5, <3>3
        <5> QED
          BY <3>4, <4>3, <5>1, <5>2, Zenon DEF Owed
      <4> QED
        BY <4>2, <4>3
    <3> QED
      BY <2>2, <3>2, <3>5, <3>6 DEF Bears
  <2>7. CASE ~scope
    <3>1. pars = found /\ path = req.path
      BY <2>7
    <3>2. Len(p) = Len(req.path)
      BY <2>5, <3>1
    <3> HIDE DEF pars, found
    <3>3. DOMAIN pars = Named(p)
      BY <2>3, <3>1, <3>2, Zenon DEF Named
    <3>4. \A i \in DOMAIN p : LastNamed(p, i) => pars[p[i]] = Owed(p, i)
      BY <2>4, <3>1, <3>2, Zenon DEF Owed
    <3> QED
      BY <2>2, <3>2, <3>3, <3>4 DEF Bears
  <2> QED
    BY <2>6, <2>7
<1> QED
  BY <1>1, <1>2

(* The parameters of the best match are what it owes its handler.          *)
LEMMA AlwaysParamsInv == Spec => []ParamsInv
<1>1. Init => ParamsInv
  BY PatternsAssumption DEF Init, ParamsInv
<1>2. IInv /\ ParamsInv /\ [Next]_vars => ParamsInv'
  <2> SUFFICES ASSUME IInv, ParamsInv, [Next]_vars PROVE ParamsInv'
    OBVIOUS
  <2>1. CASE MatchExact
    <3>1. /\ pc' = "merge" /\ best'.path = req.path /\ best'.params = <<>>
          /\ params = req.params /\ UNCHANGED <<req, params>>
      BY <2>1 DEF MatchExact, ParamsInv
    <3>2. DOMAIN best'.params = {}
      BY <3>1
    <3> QED
      BY <3>1, <3>2 DEF ParamsInv
  <2>2. CASE MatchLoop
    <3>1. /\ pc' = "loop" /\ best' = best /\ best = NoMatch /\ params = req.params
          /\ [method |-> req.method, path |-> req.path] \notin routes
          /\ UNCHANGED <<routes, req, params>>
      BY <2>2 DEF MatchLoop, ParamsInv, IInv
    <3>2. ~best'.found
      BY <3>1 DEF NoMatch
    <3> QED
      BY <3>1, <3>2 DEF ParamsInv
  <2>3. CASE \E key \in routes : Visit(key)
    <3>1. PICK key \in routes : Visit(key)
      BY <2>3
    <3> DEFINE full == consider(best, key.path, req.path, FALSE)
               rel == consider(full, key.path, relativePath(req.path), TRUE)
    <3>2. /\ pc = "loop" /\ UNCHANGED <<routes, req, params, pc>>
          /\ best' = IF key.method # req.method THEN best
                     ELSE IF hasProjectScope(req.path) THEN rel ELSE full
      BY <3>1 DEF Visit
    <3>3. req.path \in Seq(Segments) /\ key.path \in Seq(Segments)
      BY PatternsAssumption DEF ParamsInv, IInv, RouteKeys
    <3>4. best.found => best.path # req.path /\ Bears(best.path, best.params)
      BY <3>2 DEF ParamsInv
    <3>5. key.method = req.method => key.path # req.path
      <4>1. key = [method |-> key.method, path |-> key.path]
        BY DEF IInv, RouteKeys
      <4>2. [method |-> req.method, path |-> req.path] \notin routes
        BY <3>2 DEF ParamsInv
      <4> QED
        BY <4>1, <4>2
    <3>6. key.method = req.method /\ full.found =>
            full.path # req.path /\ Bears(full.path, full.params)
      BY <3>3, <3>4, <3>5, ConsiderBears
    <3>7. hasProjectScope(req.path) => relativePath(req.path) \in Seq(Segments)
      BY <3>3, RelativePlace
    <3> HIDE DEF full
    <3>8. key.method = req.method /\ hasProjectScope(req.path) /\ rel.found =>
            rel.path # req.path /\ Bears(rel.path, rel.params)
      BY <3>3, <3>5, <3>6, <3>7, ConsiderBears
    <3> HIDE DEF rel
    <3>9. best'.found => best'.path # req.path /\ Bears(best'.path, best'.params)
      BY <3>2, <3>4, <3>6, <3>8
    <3>10. best'.found => best'.path # req'.path /\ Bears(best.path, best.params)'
      BY <3>2, <3>9 DEF Bears, Named, Owed
    <3> QED
      BY <3>2, <3>10 DEF ParamsInv
  <2>4. CASE LoopEnds
    <3>1. /\ pc = "loop" /\ pc' \in {"merge", "not found"} /\ (pc' = "merge" => best.found)
          /\ UNCHANGED <<req, best, params>>
      BY <2>4 DEF LoopEnds
    <3>2. pc' = "merge" => best'.path # req'.path /\ Bears(best.path, best.params)'
      BY <3>1 DEF ParamsInv, Bears, Named, Owed
    <3> QED
      BY <3>1, <3>2 DEF ParamsInv
  <2>5. CASE MergeParams
    <3>1. /\ pc = "merge" /\ pc' = "handle" /\ params' = MapMerge(params, best.params)
          /\ UNCHANGED <<req, best>>
      BY <2>5 DEF MergeParams, Merged
    <3>2. /\ best.path = req.path => DOMAIN best.params = {}
          /\ best.path # req.path => Bears(best.path, best.params)'
      BY <3>1 DEF ParamsInv, Bears, Named, Owed
    <3>3. params' = MapMerge(req'.params, best'.params)
      BY <3>1 DEF ParamsInv
    <3> QED
      BY <3>1, <3>2, <3>3 DEF ParamsInv
  <2>6. CASE UNCHANGED vars
    BY <2>6 DEF vars, ParamsInv, Bears, Named, Owed
  <2> QED
    BY <2>1, <2>2, <2>3, <2>4, <2>5, <2>6 DEF Next, Answered
<1> QED
  BY <1>1, <1>2, AlwaysIInv, PTL DEF Spec

(* The handler gets the host's parameters and, beside them, each parameter *)
(* of the match with the segment that stands in its place and no other,    *)
(* for every set of routes, every request and every visiting order         *)
(* (matchRoutePattern, consider, handleRequest's merge).                   *)
THEOREM ParamsReachTheHandler == Spec => []HandlerGetsItsParams
<1>1. ParamsInv => HandlerGetsItsParams
  <2> SUFFICES ASSUME ParamsInv, pc = "handle"
               PROVE  /\ DOMAIN params = DOMAIN req.params \cup Named(best.path)
                      /\ \A q \in DOMAIN req.params : params[q] = req.params[q]
                      /\ best.path # req.path =>
                           /\ \A i \in DOMAIN best.path :
                                LastNamed(best.path, i) /\ best.path[i] \notin DOMAIN req.params =>
                                  params[best.path[i]] = Owed(best.path, i)
                           /\ Len(best.path) # Len(req.path)
                                /\ ":projectId" \notin DOMAIN req.params =>
                                  params[":projectId"] = req.path[2]
    BY DEF HandlerGetsItsParams
  <2>1. params = MapMerge(req.params, best.params)
    BY DEF ParamsInv
  <2>2. /\ DOMAIN params = DOMAIN req.params \cup DOMAIN best.params
        /\ \A q \in DOMAIN req.params : params[q] = req.params[q]
        /\ \A q \in DOMAIN best.params \ DOMAIN req.params : params[q] = best.params[q]
    BY <2>1 DEF MapMerge
  <2>3. CASE best.path = req.path
    <3>1. DOMAIN best.params = {} /\ Named(best.path) = {}
      BY <2>3, Zenon DEF ParamsInv, Named
    <3> QED
      BY <2>2, <2>3, <3>1
  <2>4. CASE best.path # req.path
    <3>1. Bears(best.path, best.params)
      BY <2>4 DEF ParamsInv
    <3>2. DOMAIN best.params = Named(best.path)
      BY <3>1 DEF Bears
    <3>3. ASSUME NEW i \in DOMAIN best.path, LastNamed(best.path, i),
                 best.path[i] \notin DOMAIN req.params
          PROVE  params[best.path[i]] = Owed(best.path, i)
      <4>1. best.path[i] \in DOMAIN best.params
        BY <2>4, <3>2, <3>3, Zenon DEF Named, LastNamed, Range
      <4>2. best.params[best.path[i]] = Owed(best.path, i)
        BY <3>1, <3>3, Zenon DEF Bears
      <4> QED
        BY <2>2, <3>3, <4>1, <4>2
    <3>4. ASSUME Len(best.path) # Len(req.path), ":projectId" \notin DOMAIN req.params
          PROVE  params[":projectId"] = req.path[2]
      <4>1. ":projectId" \in DOMAIN best.params
        BY <2>4, <3>2, <3>4, Zenon DEF Named
      <4>2. best.params[":projectId"] = req.path[2]
        BY <3>1, <3>4, Zenon DEF Bears
      <4> QED
        BY <2>2, <3>4, <4>1, <4>2
    <3> QED
      BY <2>2, <3>2, <3>3, <3>4
  <2> QED
    BY <2>3, <2>4
<1> QED
  BY <1>1, AlwaysParamsInv, PTL
============================================================================
