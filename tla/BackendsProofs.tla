--------------------------- MODULE BackendsProofs ---------------------------
(***************************************************************************)
(* Both sets of backends of plugin.KV, plugin.Cache and plugin.Config are  *)
(* stores in the sense of StoreSpec, for every buffer, unit of time and    *)
(* set of values, as long as no TTL overflows a duration or an int32.      *)
(*                                                                         *)
(* The second part is about plugintest's database, for every schema, seed  *)
(* and set of statements.  A statement runs loops, folds over the rows,    *)
(* the conditions and the assignments; each is first shown to go through   *)
(* the states of a run, which induction over the turns then reasons about. *)
(***************************************************************************)
EXTENDS PluginStores, InMemoryDB, SequenceTheorems, FiniteSetTheorems, WellFoundedInduction, TLAPS

(* The sums and seconds ttlToSeconds computes fit their widths.            *)
TTLsFit ==
  \A ttl \in TTLs : ttl > 0 =>
    /\ Wrapped(ttl + Second - 1, DurationBits) = ttl + Second - 1
    /\ Wrapped((ttl + Second - 1) \div Second, SecondsBits) = (ttl + Second - 1) \div Second

StoreType ==
  /\ mallocOffset \in 0..ArenaCap
  /\ backend \in {"memory", "host"}
  /\ value \in [Entries -> Values \cup {None}]
  /\ expireAt \in [Entries -> Nat]
  /\ clock \in Nat

(* What the mapping gives for the variables of StoreSpec.                  *)
Stored == [e \in Entries |-> IF Live(e) THEN value[e] ELSE None]
Left == [e \in Entries |-> IF Live(e) /\ expireAt[e] # 0 THEN expireAt[e] - clock ELSE 0]
Room == ArenaCap - mallocOffset
Slack == IF backend = "host" THEN Second - 1 ELSE 0
----------------------------------------------------------------------------
(* ttlToSeconds rounds up: the whole seconds it answers last as long as    *)
(* the TTL, and less than a second longer.                                 *)
LEMMA SecondsRoundUp ==
  ASSUME TTLsFit, NEW ttl \in TTLs, ttl > 0
  PROVE  /\ ttlToSeconds(ttl) \in Int
         /\ Second * ttlToSeconds(ttl) \in ttl..(ttl + Second - 1)
<1> DEFINE n == ttl + Second - 1
<1>1. ttl \in Int /\ Second \in Nat \ {0} /\ n \in Nat
  BY TTLsAssumption, SecondAssumption
<1>2. ttlToSeconds(ttl) = n \div Second
  <2>1. Wrapped(n, DurationBits) = n /\ Wrapped(n \div Second, SecondsBits) = n \div Second
    BY DEF TTLsFit
  <2>2. Quotient(n, Second) = n \div Second
    BY <1>1 DEF Quotient
  <2>3. ~(ttl <= 0)
    BY <1>1
  <2> QED
    BY <2>1, <2>2, <2>3 DEF ttlToSeconds
<1>3. /\ n \div Second \in Int
      /\ n = Second * (n \div Second) + (n % Second)
      /\ n % Second \in 0..(Second - 1)
  BY <1>1
<1>4. Second * (n \div Second) \in Int
  BY <1>1, <1>3
<1> QED
  BY <1>1, <1>2, <1>3, <1>4

(* An entry lives as long as its TTL, and less than a second longer on the *)
(* host; without one it lives for ever.                                    *)
LEMMA LifetimeIsTheTTL ==
  ASSUME TTLsFit, StoreType, NEW ttl \in TTLs
  PROVE  /\ Lifetime(ttl) \in Nat
         /\ Lifetime(ttl) \in IF ttl <= 0 THEN {0} ELSE ttl..(ttl + Slack)
         /\ Lifetime(ttl) = 0 <=> ttl <= 0
<1>1. ttl \in Int /\ Second \in Nat \ {0}
  BY TTLsAssumption, SecondAssumption
<1>2. CASE ttl <= 0
  <2>1. ttlToSeconds(ttl) = 0
    BY <1>2 DEF ttlToSeconds
  <2> QED
    BY <1>1, <1>2, <2>1 DEF Lifetime
<1>3. CASE ttl > 0 /\ backend = "host"
  BY <1>1, <1>3, SecondsRoundUp DEF Lifetime, Slack
<1>4. CASE ttl > 0 /\ backend # "host"
  BY <1>1, <1>4 DEF Lifetime, Slack
<1> QED
  BY <1>1, <1>2, <1>3, <1>4

(* An entry is live, or its time is up.                                    *)
LEMMA LiveOrExpired ==
  ASSUME StoreType, NEW e \in Entries
  PROVE  Live(e) <=> ~Expired(e)
BY DEF StoreType, Live, Expired

(* The mapping's functions are functions on the entries.                   *)
LEMMA MappedAre ==
  ASSUME StoreType
  PROVE  /\ DOMAIN Stored = Entries /\ DOMAIN Left = Entries
         /\ Room \in Nat /\ Slack \in Nat
         /\ \A e \in Entries :
              /\ Stored[e] = IF Expired(e) THEN None ELSE value[e]
              /\ Left[e] = IF Expired(e) \/ expireAt[e] = 0 THEN 0 ELSE expireAt[e] - clock
BY LiveOrExpired, ArenaCapAssumption, SecondAssumption
   DEF StoreType, Stored, Left, Room, Slack
----------------------------------------------------------------------------
(* A step that replaces one entry's value and expiry at one moment changes *)
(* what the store holds for that entry only.                               *)
LEMMA ReplacedEntry ==
  ASSUME StoreType, StoreType', NEW e \in Entries, NEW v, NEW l \in Nat,
         value' = [value EXCEPT ![e] = v],
         expireAt' = [expireAt EXCEPT ![e] = IF l = 0 THEN 0 ELSE clock + l],
         clock' = clock
  PROVE  /\ Stored' = [Stored EXCEPT ![e] = v]
         /\ Left' = [Left EXCEPT ![e] = l]
<1> DEFINE at == IF l = 0 THEN 0 ELSE clock + l
<1>1. clock \in Nat /\ at \in Nat /\ value'[e] = v /\ expireAt'[e] = at
  BY DEF StoreType
<1>2. at = 0 \/ clock' < at
  BY <1>1
<1>3. Stored'[e] = v /\ Left'[e] = l
  BY <1>1, <1>2 DEF Stored, Left, Live
<1>4. ASSUME NEW x \in Entries, x # e
      PROVE  Stored'[x] = Stored[x] /\ Left'[x] = Left[x]
  <2>1. value'[x] = value[x] /\ expireAt'[x] = expireAt[x]
    BY <1>4 DEF StoreType
  <2> QED
    BY <2>1 DEF Stored, Left, Live
<1> QED
  BY <1>3, <1>4, ZenonT(60) DEF Stored, Left

(* A step that leaves the entries and the clock alone changes nothing.     *)
LEMMA SameEntries ==
  ASSUME UNCHANGED <<value, expireAt, clock>>
  PROVE  Stored' = Stored /\ Left' = Left
BY DEF Stored, Left, Live

(* Whole units of time pass for every entry alike.                         *)
LEMMA TimePasses ==
  ASSUME StoreType, NEW d \in 1..MaxClock, clock' = clock + d,
         UNCHANGED <<mallocOffset, backend, value, expireAt>>,
         call' = <<"pass", d>>, answer' = None
  PROVE  StoreType' /\ Promised!Pass(d)
<1>1. /\ StoreType'
      /\ UNCHANGED <<backend, Slack, Room>>
  BY MaxClockAssumption DEF StoreType, Slack, Room
<1>2. ASSUME NEW e \in Entries
      PROVE  LET gone == Left[e] # 0 /\ Left[e] <= d
             IN  /\ Stored'[e] = IF gone THEN None ELSE Stored[e]
                 /\ Left'[e] = IF gone \/ Left[e] = 0 THEN 0 ELSE Left[e] - d
  BY MaxClockAssumption DEF StoreType, Stored, Left, Live
<1>3. Stored' = [e \in Entries |-> IF Left[e] # 0 /\ Left[e] <= d THEN None ELSE Stored[e]]
  BY <1>2 DEF Stored
<1>4. Left' = [e \in Entries |->
                 IF (Left[e] # 0 /\ Left[e] <= d) \/ Left[e] = 0 THEN 0 ELSE Left[e] - d]
  BY <1>2 DEF Left
<1> QED
  BY <1>1, <1>3, <1>4 DEF Promised!Pass, Stored, Left, Slack, Room
----------------------------------------------------------------------------
(* Set keeps the value for its TTL.                                        *)
LEMMA SetStep ==
  ASSUME TTLsFit, StoreType,
         NEW e \in Entries, NEW v \in Values, NEW ttl \in TTLs, Set(e, v, ttl)
  PROVE  StoreType' /\ Promised!Set(e, v, ttl)
<1> DEFINE l == Lifetime(ttl)
<1>1. l \in Nat /\ l \in IF ttl <= 0 THEN {0} ELSE ttl..(ttl + Slack)
  BY LifetimeIsTheTTL
<1>2. /\ value' = [value EXCEPT ![e] = v]
      /\ expireAt' = [expireAt EXCEPT ![e] = IF l = 0 THEN 0 ELSE clock + l]
      /\ call' = <<"set", e, v, ttl>> /\ answer' = None
      /\ UNCHANGED <<mallocOffset, backend, clock>>
  BY DEF Set
<1> HIDE DEF l
<1>3. StoreType' /\ UNCHANGED <<backend, Slack, Room>>
  BY <1>1, <1>2 DEF StoreType, Slack, Room
<1>4. Stored' = [Stored EXCEPT ![e] = v] /\ Left' = [Left EXCEPT ![e] = l]
  BY <1>1, <1>2, <1>3, ReplacedEntry
<1> QED
  BY <1>1, <1>2, <1>3, <1>4 DEF Promised!Set, Stored, Left, Slack, Room

(* Delete removes an entry, expired or not.                                *)
LEMMA DeleteStep ==
  ASSUME StoreType, NEW e \in Entries, Delete(e)
  PROVE  StoreType' /\ Promised!Delete(e)
<1>1. /\ value' = [value EXCEPT ![e] = None] /\ expireAt' = [expireAt EXCEPT ![e] = 0]
      /\ call' = <<"delete", e>> /\ answer' = None
      /\ UNCHANGED <<mallocOffset, backend, clock>>
  BY DEF Delete
<1>2. StoreType' /\ UNCHANGED <<backend, Slack, Room>>
  BY <1>1 DEF StoreType, Slack, Room
<1>3. Stored' = [Stored EXCEPT ![e] = None] /\ Left' = [Left EXCEPT ![e] = 0]
  BY <1>1, <1>2, ReplacedEntry
<1> QED
  BY <1>1, <1>2, <1>3 DEF Promised!Delete, Stored, Left, Slack, Room

(* Dropping an expired entry is a read of an entry that is gone.           *)
LEMMA GetExpiredStep ==
  ASSUME StoreType, NEW e \in Entries, GetExpired(e)
  PROVE  StoreType' /\ Promised!Get(e)
<1>1. /\ Expired(e)
      /\ value' = [value EXCEPT ![e] = None] /\ expireAt' = [expireAt EXCEPT ![e] = 0]
      /\ call' = <<"get", e>> /\ answer' = None
      /\ UNCHANGED <<mallocOffset, backend, clock>>
  BY DEF GetExpired
<1>2. StoreType' /\ UNCHANGED <<backend, Slack, Room>>
  BY <1>1 DEF StoreType, Slack, Room
<1>3. Stored' = [Stored EXCEPT ![e] = None] /\ Left' = [Left EXCEPT ![e] = 0]
  BY <1>1, <1>2, ReplacedEntry
<1>4. Stored[e] = None /\ Left[e] = 0 /\ Room \in Nat
  BY <1>1, MappedAre
<1>5. Stored' = Stored /\ Left' = Left
  BY <1>3, <1>4 DEF Stored, Left
<1>6. Room' >= Room
  BY <1>2, <1>4
<1> QED
  BY <1>1, <1>2, <1>4, <1>5, <1>6 DEF Promised!Get, Promised!Unsaid, Stored, Left, Slack, Room

(* The maps answer what they hold.                                         *)
LEMMA GetFromMemoryStep ==
  ASSUME StoreType, NEW e \in Entries, GetFromMemory(e)
  PROVE  StoreType' /\ Promised!Get(e)
<1>1. /\ backend = "memory" /\ ~Expired(e)
      /\ call' = <<"get", e>> /\ answer' = value[e]
      /\ UNCHANGED <<mallocOffset, backend, value, expireAt, clock>>
  BY DEF GetFromMemory
<1>2. StoreType' /\ UNCHANGED <<backend, Slack, Room>>
  BY <1>1 DEF StoreType, Slack, Room
<1>3. Stored' = Stored /\ Left' = Left
  BY <1>1, SameEntries
<1>4. Stored[e] = value[e] /\ Room \in Nat
  BY <1>1, MappedAre
<1>5. Room' >= Room
  BY <1>2, <1>4
<1> QED
  BY <1>1, <1>2, <1>3, <1>4, <1>5 DEF Promised!Get, Promised!Unsaid, Stored, Left, Slack, Room

(* The host's answer has length 0 for a missing or empty value and for one *)
(* that finds no room, and the value's own length otherwise.               *)
LEMMA WhatFitsIsAnswered ==
  ASSUME StoreType, NEW e \in Entries, ~Expired(e)
  PROVE  valLen(e) = 0 <=>
           value[e] = None \/ value[e] = Empty \/ Length[value[e]] > Room
<1>1. CASE value[e] = None
  BY <1>1 DEF valLen
<1>2. CASE value[e] # None
  <2>1. /\ value[e] \in Values
        /\ Length[value[e]] \in 0..MaxSize
        /\ Length[value[e]] = 0 <=> value[e] = Empty
        /\ mallocOffset \in 0..ArenaCap
    BY <1>2, LengthAssumption DEF StoreType
  <2>2. PICK n : n = Length[value[e]]
    OBVIOUS
  <2>3. n \in 0..MaxSize /\ Add32(mallocOffset, n) = mallocOffset + n
    BY <2>1, <2>2, Int32Assumption, ArenaCapAssumption, MaxSizeAssumption DEF Add32
  <2>4. MallocAt(mallocOffset, n) = 0 <=> n = 0 \/ n > Room
    BY <2>1, <2>3, ArenaCapAssumption, MaxSizeAssumption DEF MallocAt, mallocBase, Room
  <2>5. valLen(e) = IF MallocAt(mallocOffset, n) = 0 THEN 0 ELSE n
    BY <1>2, <2>2 DEF valLen
  <2> QED
    BY <1>2, <2>1, <2>2, <2>4, <2>5
<1> QED
  BY <1>1, <1>2

(* A read from the host leaves at least as much room as it found.          *)
LEMMA GetFromHostStep ==
  ASSUME StoreType, NEW e \in Entries, GetFromHost(e)
  PROVE  StoreType' /\ Promised!Get(e)
<1>1. /\ backend = "host" /\ ~Expired(e)
      /\ call' = <<"get", e>>
      /\ UNCHANGED <<backend, value, expireAt, clock>>
      /\ \/ valLen(e) = 0 /\ answer' = None /\ UNCHANGED mallocOffset
         \/ valLen(e) # 0 /\ answer' = value[e] /\ mallocOffset' = 0
  BY DEF GetFromHost, wasmResetAllocator
<1>2. StoreType' /\ UNCHANGED <<backend, Slack>> /\ Room' >= Room
  BY <1>1, ArenaCapAssumption DEF StoreType, Slack, Room
<1>3. Stored' = Stored /\ Left' = Left
  BY <1>1, SameEntries
<1>4. Stored[e] = value[e]
  BY <1>1, MappedAre
<1>5. answer' = IF Stored[e] # None /\ (Stored[e] = Empty \/ Length[Stored[e]] > Room)
                THEN None ELSE Stored[e]
  BY <1>1, <1>4, WhatFitsIsAnswered
<1> QED
  BY <1>1, <1>2, <1>3, <1>5 DEF Promised!Get, Promised!Unsaid, Stored, Left, Slack, Room

(* The buffer's other uses change its room only.                           *)
LEMMA ElsewhereStep ==
  ASSUME StoreType, Elsewhere
  PROVE  StoreType' /\ Promised!Elsewhere
<1>1. /\ backend = "host" /\ call' = <<"elsewhere">> /\ answer' = None
      /\ mallocOffset' \in 0..ArenaCap
      /\ UNCHANGED <<backend, value, expireAt, clock>>
  BY DEF Elsewhere
<1>2. StoreType' /\ UNCHANGED <<backend, Slack>>
  BY <1>1 DEF StoreType, Slack
<1>3. Stored' = Stored /\ Left' = Left
  BY <1>1, SameEntries
<1>4. Room' \in Nat
  <2>1. PICK m \in 0..ArenaCap : mallocOffset' = m
    BY <1>1
  <2>2. ArenaCap - m \in Nat
    BY <2>1, ArenaCapAssumption
  <2> QED
    BY <2>1, <2>2 DEF Room
<1> QED
  BY <1>1, <1>2, <1>3, <1>4 DEF Promised!Elsewhere, Stored, Left, Slack, Room
----------------------------------------------------------------------------
(* The initial states map to initial states.                               *)
LEMMA InitStep == Init => StoreType /\ Promised!Init
<1> SUFFICES ASSUME Init PROVE StoreType /\ Promised!Init
  OBVIOUS
<1>1. StoreType
  BY ArenaCapAssumption DEF Init, StoreType
<1>2. Stored = [e \in Entries |-> None] /\ Left = [e \in Entries |-> 0]
  BY DEF Init, Stored, Left, Live
<1>3. Room \in Nat /\ Slack \in Nat
  BY <1>1, MappedAre
<1> QED
  BY <1>1, <1>2, <1>3 DEF Init, Promised!Init, Stored, Left, Room, Slack

(* Every step maps to a step or a stutter.                                 *)
LEMMA NextStep ==
  ASSUME TTLsFit, StoreType, [Next]_vars
  PROVE  StoreType' /\ [Promised!Next]_(Promised!vars)
<1>1. ASSUME NEW e \in Entries, NEW v \in Values, NEW ttl \in TTLs, Set(e, v, ttl)
      PROVE  StoreType' /\ Promised!Next
  BY <1>1, SetStep DEF Promised!Next
<1>2. ASSUME NEW e \in Entries, Delete(e)
      PROVE  StoreType' /\ Promised!Next
  BY <1>2, DeleteStep DEF Promised!Next
<1>3. ASSUME NEW e \in Entries, GetExpired(e) \/ GetFromMemory(e) \/ GetFromHost(e)
      PROVE  StoreType' /\ Promised!Next
  BY <1>3, GetExpiredStep, GetFromMemoryStep, GetFromHostStep DEF Promised!Next
<1>4. ASSUME NEW d \in 1..MaxClock, Advance(d)
      PROVE  StoreType' /\ Promised!Next
  <2>1. StoreType' /\ Promised!Pass(d)
    BY <1>4, TimePasses DEF Advance
  <2> QED
    BY <2>1 DEF Promised!Next
<1>5. ASSUME Tick PROVE StoreType' /\ Promised!Next
  <2>1. 1 \in 1..MaxClock
    BY MaxClockAssumption
  <2>2. StoreType' /\ Promised!Pass(1)
    BY <1>5, <2>1, TimePasses DEF Tick
  <2> QED
    BY <2>1, <2>2 DEF Promised!Next
<1>6. ASSUME Elsewhere PROVE StoreType' /\ Promised!Next
  BY <1>6, ElsewhereStep DEF Promised!Next
<1>7. ASSUME UNCHANGED vars PROVE StoreType' /\ UNCHANGED Promised!vars
  <2>1. Stored' = Stored /\ Left' = Left
    BY <1>7, SameEntries DEF vars
  <2> QED
    BY <1>7, <2>1 DEF vars, StoreType, Promised!vars, Stored, Left
<1> QED
  BY <1>1, <1>2, <1>3, <1>4, <1>5, <1>6, <1>7 DEF Next

(* Every step of either set of backends is a step of the store that        *)
(* plugin.KV, plugin.Cache and plugin.Config promise, for TTLs that        *)
(* ttlToSeconds does not wrap.                                             *)
THEOREM BackendsAreStores ==
  ASSUME TTLsFit
  PROVE  Spec => IsAStore
<1>1. Init => StoreType /\ Promised!Init
  BY InitStep
<1>2. StoreType /\ [Next]_vars => StoreType' /\ [Promised!Next]_(Promised!vars)
  BY NextStep
<1> QED
  BY <1>1, <1>2, PTL DEF Spec, IsAStore, Promised!Spec
----------------------------------------------------------------------------
(* Induction, over the members of a set.                                   *)
LEMMA NatSetInduction ==
  ASSUME NEW S, 0 \in S, \A n \in Nat : n \in S => n + 1 \in S
  PROVE  \A n \in Nat : n \in S
<1> DEFINE R == OpToRel(<, Nat)
           T == {n \in Nat : n \notin S}
<1>1. SUFFICES ASSUME T # {} PROVE FALSE
  OBVIOUS
<1>2. IsWellFoundedOn(R, Nat)
  BY NatLessThanWellFounded
<1>3. \A y \in Nat, x \in Nat : <<y, x>> \in R <=> y < x
  BY DEF OpToRel
<1> HIDE DEF R
<1>4. PICK x \in T : \A y \in T : ~ (<<y, x>> \in R)
  <2>1. T \subseteq Nat
    OBVIOUS
  <2> HIDE DEF T
  <2> QED
    BY <1>1, <1>2, <2>1, WFMin
<1>5. x \in Nat /\ x \notin S /\ x # 0
  OBVIOUS
<1>6. x - 1 \in Nat /\ (x - 1) + 1 = x
  BY <1>5
<1>7. x - 1 \in S
  <2>1. SUFFICES ASSUME x - 1 \notin S PROVE FALSE
    OBVIOUS
  <2>2. x - 1 \in T
    BY <1>6, <2>1
  <2>3. <<x - 1, x>> \in R
    BY <1>3, <1>5, <1>6
  <2> QED
    BY <1>4, <2>2, <2>3
<1> QED
  BY <1>5, <1>6, <1>7

(* The greatest member of a set that has one.                              *)
LEMMA GreatestIs ==
  ASSUME NEW S, S \subseteq Int, NEW m \in S, \A i \in S : i <= m
  PROVE  Max(S) = m
<1>1. \E x \in S : \A y \in S : x >= y
  OBVIOUS
<1>2. Max(S) \in S /\ \A y \in S : Max(S) >= y
  BY <1>1 DEF Max
<1>3. Max(S) \in Int /\ m \in Int /\ Max(S) >= m /\ Max(S) <= m
  BY <1>2
<1> QED
  BY <1>3

(* The set a fold over a sequence has come to after k members.             *)
LEMMA UpTo ==
  ASSUME NEW n \in Nat, NEW k \in 1..n
  PROVE  /\ 1..k \in SUBSET (1..n) /\ 1..k # {} /\ (1..k) \ {k} = 1..(k - 1) /\ Max(1..k) = k
         /\ k \in 0..n /\ k - 1 \in 0..n
<1>1. k \in 1..k /\ 1..k \subseteq Int /\ \A i \in 1..k : i <= k
  OBVIOUS
<1>2. Max(1..k) = k
  BY <1>1, GreatestIs
<1>3. 1..k \in SUBSET (1..n)
  OBVIOUS
<1>4. (1..k) \ {k} = 1..(k - 1)
  OBVIOUS
<1> QED
  BY <1>1, <1>2, <1>3, <1>4

(* A set of numbers up to n has a greatest member.                         *)
LEMMA GreatestOf ==
  ASSUME NEW n \in Nat, NEW S \in SUBSET (1..n), S # {}
  PROVE  Max(S) \in S /\ \A i \in S : i <= Max(S)
<1> DEFINE E == {k \in Nat : \A T \in SUBSET (1..k) : T # {} => \E m \in T : \A i \in T : i <= m}
<1>1. 0 \in E
  <2>1. 1..0 = {}
    OBVIOUS
  <2> QED
    BY <2>1
<1>2. ASSUME NEW k \in Nat, k \in E PROVE k + 1 \in E
  <2>1. SUFFICES ASSUME NEW T \in SUBSET (1..(k + 1)), T # {}
                 PROVE  \E m \in T : \A i \in T : i <= m
    OBVIOUS
  <2>2. CASE k + 1 \in T
    BY <2>2
  <2>3. CASE k + 1 \notin T
    <3>1. T \in SUBSET (1..k)
      BY <2>3
    <3> QED
      BY <1>2, <2>1, <3>1
  <2> QED
    BY <2>2, <2>3
<1>3. n \in E
  <2> HIDE DEF E
  <2> QED
    BY <1>1, <1>2, NatSetInduction
<1>4. PICK m \in S : \A i \in S : i <= m
  BY <1>3
<1>5. Max(S) = m
  <2>1. S \subseteq Int
    OBVIOUS
  <2> QED
    BY <1>4, <2>1, GreatestIs
<1> QED
  BY <1>4, <1>5

(* What the folds of the library compute, for an operator with a type: the *)
(* member folded last is the greatest.                                     *)
IsFold(it, b, step, k) ==
  \A S \in SUBSET (1..k) :
    it[S] = IF S = {} THEN b ELSE step[<<it[S \ {Max(S)}], Max(S)>>]

(* A fold over a sequence is well defined when its operator keeps a type.  *)
LEMMA FoldExists ==
  ASSUME NEW X, NEW b \in X, NEW n \in Nat, NEW step \in [X \X (1..n) -> X]
  PROVE  \E it \in [SUBSET (1..n) -> X] : IsFold(it, b, step, n)
<1> DEFINE Has(k) == k <= n => \E it \in [SUBSET (1..k) -> X] : IsFold(it, b, step, k)
           E == {k \in Nat : Has(k)}
<1>1. Has(0)
  <2>1. SUBSET (1..0) = {{}}
    OBVIOUS
  <2>2. [S \in SUBSET (1..0) |-> b] \in [SUBSET (1..0) -> X]
    OBVIOUS
  <2>3. IsFold([S \in SUBSET (1..0) |-> b], b, step, 0)
    BY <2>1 DEF IsFold
  <2> QED
    BY <2>2, <2>3
<1>2. ASSUME NEW k \in Nat, Has(k) PROVE Has(k + 1)
  <2>1. SUFFICES ASSUME k + 1 <= n
                 PROVE  \E it \in [SUBSET (1..(k + 1)) -> X] : IsFold(it, b, step, k + 1)
    OBVIOUS
  <2>2. PICK it \in [SUBSET (1..k) -> X] : IsFold(it, b, step, k)
    <3>1. k <= n
      BY <2>1
    <3> QED
      BY <1>2, <3>1, Zenon
  <2>3. k + 1 \in 1..n
    BY <2>1
  <2> DEFINE new == [S \in SUBSET (1..(k + 1)) |->
                       IF k + 1 \in S THEN step[<<it[S \ {k + 1}], k + 1>>] ELSE it[S]]
  <2>4. new \in [SUBSET (1..(k + 1)) -> X]
    <3>1. ASSUME NEW S \in SUBSET (1..(k + 1)), k + 1 \in S
          PROVE  step[<<it[S \ {k + 1}], k + 1>>] \in X
      <4>1. S \ {k + 1} \in SUBSET (1..k)
        OBVIOUS
      <4> QED
        BY <2>3, <4>1
    <3>2. ASSUME NEW S \in SUBSET (1..(k + 1)), k + 1 \notin S PROVE it[S] \in X
      <4>1. S \in SUBSET (1..k)
        BY <3>2
      <4> QED
        BY <4>1
    <3> QED
      BY <3>1, <3>2
  <2>5. ASSUME NEW S \in SUBSET (1..(k + 1)), k + 1 \in S
        PROVE  new[S] = IF S = {} THEN b ELSE step[<<new[S \ {Max(S)}], Max(S)>>]
    <3>1. Max(S) = k + 1
      <4>1. S \subseteq Int /\ \A i \in S : i <= k + 1
        OBVIOUS
      <4> QED
        BY <2>5, <4>1, GreatestIs
    <3>2. S \ {k + 1} \in SUBSET (1..(k + 1)) /\ k + 1 \notin S \ {k + 1}
      OBVIOUS
    <3>3. new[S \ {k + 1}] = it[S \ {k + 1}]
      BY <3>2
    <3>4. new[S] = step[<<it[S \ {k + 1}], k + 1>>] /\ S # {}
      BY <2>5
    <3> QED
      BY <3>1, <3>3, <3>4
  <2>6. ASSUME NEW S \in SUBSET (1..(k + 1)), k + 1 \notin S
        PROVE  new[S] = IF S = {} THEN b ELSE step[<<new[S \ {Max(S)}], Max(S)>>]
    <3>1. /\ S \in SUBSET (1..k) /\ S \ {Max(S)} \in SUBSET (1..(k + 1))
          /\ k + 1 \notin S \ {Max(S)}
      <4>1. \A i \in S : i \in 1..k
        BY <2>6
      <4>2. S \ {Max(S)} \subseteq S
        OBVIOUS
      <4> HIDE DEF new
      <4> QED
        BY <2>6, <4>1, <4>2
    <3>2. new[S] = it[S] /\ new[S \ {Max(S)}] = it[S \ {Max(S)}]
      BY <2>6, <3>1
    <3>3. it[S] = IF S = {} THEN b ELSE step[<<it[S \ {Max(S)}], Max(S)>>]
      BY <2>2, <3>1 DEF IsFold
    <3> QED
      BY <3>2, <3>3
  <2> HIDE DEF new
  <2>7. IsFold(new, b, step, k + 1)
    BY <2>5, <2>6 DEF IsFold
  <2> QED
    BY <2>4, <2>7
<1>3. \A k \in Nat : k \in E
  <2> HIDE DEF Has
  <2>1. 0 \in E /\ \A k \in Nat : k \in E => k + 1 \in E
    BY <1>1, <1>2
  <2> HIDE DEF E
  <2> QED
    BY <2>1, NatSetInduction
<1>4. Has(n)
  <2> HIDE DEF Has
  <2> QED
    BY <1>3
<1>5. n <= n
  OBVIOUS
<1> QED
  BY <1>4, <1>5, Zenon

(* How a statement can end, and what can be said of a row.                 *)
Ends == {"ok", "error", "panic"}
Verdicts == {"yes", "no", "error"}

(* The verdicts m[k] after k conditions.                                   *)
VerdictRun(m, n, columns, row, conditions, params) ==
  /\ m[0] = "yes"
  /\ \A k \in 1..n :
       m[k] = IF m[k - 1] = "yes" THEN Verdict(columns, row, conditions[k], params) ELSE m[k - 1]

(* The loop over the conditions goes through these verdicts.               *)
LEMMA VerdictLoop ==
  ASSUME NEW columns, NEW row, NEW params, NEW n \in Nat, NEW conditions, DOMAIN conditions = 1..n
  PROVE  \E m : VerdictRun(m, n, columns, row, conditions, params)
                /\ matchesConditions(columns, row, conditions, params) = m[n]
<1> DEFINE step == [p \in Verdicts \X (1..n) |->
                      IF p[1] = "yes" THEN Verdict(columns, row, conditions[p[2]], params) ELSE p[1]]
           Is(f) == f = [S \in SUBSET (DOMAIN conditions) |->
                           IF S = {} THEN "yes"
                           ELSE IF f[S \ {Max(S)}] = "yes" THEN Verdict(columns, row, conditions[Max(S)], params)
                                ELSE f[S \ {Max(S)}]]
           it == CHOOSE f : Is(f)
           m == [k \in 0..n |-> it[1..k]]
<1>1. matchesConditions(columns, row, conditions, params) = it[DOMAIN conditions]
  BY DEF matchesConditions, FoldLeft, MapThenFoldSet
<1>2. Is(it)
  <2>1. "yes" \in Verdicts /\ step \in [Verdicts \X (1..n) -> Verdicts]
    BY DEF Verdicts, Verdict
  <2>2. PICK f \in [SUBSET (1..n) -> Verdicts] : IsFold(f, "yes", step, n)
    <3> HIDE DEF step
    <3> QED
      BY <2>1, FoldExists
  <2>3. ASSUME NEW S \in SUBSET (1..n), S # {}
        PROVE  f[S] = IF f[S \ {Max(S)}] = "yes" THEN Verdict(columns, row, conditions[Max(S)], params)
                      ELSE f[S \ {Max(S)}]
    <3>1. Max(S) \in 1..n /\ S \ {Max(S)} \in SUBSET (1..n)
      BY <2>3, GreatestOf
    <3>2. f[S \ {Max(S)}] \in Verdicts
      BY <3>1
    <3>3. f[S] = step[<<f[S \ {Max(S)}], Max(S)>>]
      <4> HIDE DEF step
      <4> QED
        BY <2>2, <2>3, <3>1 DEF IsFold
    <3> QED
      BY <3>1, <3>2, <3>3
  <2>4. f[{}] = "yes"
    <3> HIDE DEF step
    <3> QED
      BY <2>2 DEF IsFold
  <2>5. Is(f)
    <3> HIDE DEF step
    <3> QED
      BY <2>3, <2>4
  <2> HIDE DEF Is
  <2> QED
    BY <2>5
<1> HIDE DEF it
<1>3. m[0] = "yes"
  BY <1>2
<1>4. ASSUME NEW k \in 1..n
      PROVE  m[k] = IF m[k - 1] = "yes" THEN Verdict(columns, row, conditions[k], params) ELSE m[k - 1]
  <2>1. /\ 1..k \in SUBSET DOMAIN conditions /\ 1..k # {} /\ (1..k) \ {k} = 1..(k - 1)
        /\ k \in 0..n /\ k - 1 \in 0..n
    BY UpTo
  <2>2. Max(1..k) = k
    BY UpTo
  <2>3. m[k] = it[1..k] /\ m[k - 1] = it[1..(k - 1)]
    BY <2>1
  <2> DEFINE before == it[(1..k) \ {Max(1..k)}]
  <2>4. it[1..k] = IF before = "yes" THEN Verdict(columns, row, conditions[Max(1..k)], params) ELSE before
    BY <1>2, <2>1
  <2>5. before = m[k - 1]
    BY <2>1, <2>2, <2>3
  <2> HIDE DEF m, before
  <2> QED
    BY <2>2, <2>3, <2>4, <2>5
<1>5. matchesConditions(columns, row, conditions, params) = m[n]
  BY <1>1
<1> HIDE DEF m
<1> QED
  BY <1>3, <1>4, <1>5 DEF VerdictRun

(* The states of the loops over rows, and over the assignments to one row. *)
RowsState == [rows : Seq(Seq(Nat)), n : Nat, how : Ends]
RowOf(w) == [1..w -> Nat]
RowState(w) == [row : [1..w -> Nat], how : Ends]

(* An assignment changes one cell of a row, or none.                       *)
LEMMA AssignType ==
  ASSUME NEW columns, NEW w \in Nat, NEW params \in Seq(Nat), NEW a,
         NEW s \in RowState(w)
  PROVE  Assign(columns, params, s, a) \in RowState(w)
<1> DEFINE c == colIndex(columns, a.column)
<1>1. CASE s.how = "ok" /\ InRow(columns, s.row, a.column) /\ a.paramIdx \in DOMAIN params
  <2>1. c \in 1..w /\ params[a.paramIdx] \in Nat
    BY <1>1 DEF InRow, RowState
  <2>2. Assign(columns, params, s, a) = [s EXCEPT !.row = [s.row EXCEPT ![c] = params[a.paramIdx]]]
    BY <1>1 DEF Assign, RowState
  <2> DEFINE row == [s.row EXCEPT ![c] = params[a.paramIdx]]
  <2> HIDE DEF c
  <2>3. row \in [1..w -> Nat]
    BY <2>1 DEF RowState
  <2> HIDE DEF row
  <2>4. [s EXCEPT !.row = row] \in RowState(w)
    BY <2>3 DEF RowState
  <2> QED
    BY <2>2, <2>4 DEF row
<1>2. CASE ~(s.how = "ok" /\ InRow(columns, s.row, a.column) /\ a.paramIdx \in DOMAIN params)
  BY <1>2 DEF Assign, Ends, RowState
<1> QED
  BY <1>1, <1>2

(* The rows a[k] collected from the first k.                               *)
KeptRun(a, n, rows, I) ==
  /\ a[0] = <<>>
  /\ \A k \in 1..n : a[k] = IF k \in I THEN Append(a[k - 1], rows[k]) ELSE a[k - 1]

(* The loop that collects rows goes through these.                         *)
LEMMA KeptLoop ==
  ASSUME NEW n \in Nat, NEW R, NEW rows \in [1..n -> R], NEW I
  PROVE  \E a : KeptRun(a, n, rows, I) /\ Kept(rows, I) = a[n]
<1> DEFINE X == Seq(R)
           base == <<>>
           step == [p \in X \X (1..n) |-> IF p[2] \in I THEN Append(p[1], rows[p[2]]) ELSE p[1]]
           ids == [i \in DOMAIN rows |-> i]
           Is(f) == f = [S \in SUBSET (DOMAIN ids) |->
                           IF S = {} THEN base ELSE IF ids[Max(S)] \in I THEN Append(f[S \ {Max(S)}], rows[ids[Max(S)]]) ELSE f[S \ {Max(S)}]]
           it == CHOOSE f : Is(f)
           a == [k \in 0..n |-> it[1..k]]
<1>1. Kept(rows, I) = it[DOMAIN ids]
  BY DEF Kept, FoldLeft, MapThenFoldSet
<1>2. base \in X /\ step \in [X \X (1..n) -> X]
  OBVIOUS
<1> HIDE DEF base
<1>7. DOMAIN ids = 1..n /\ \A i \in 1..n : ids[i] = i
  OBVIOUS
<1> HIDE DEF ids
<1>3. Is(it)
  <2>1. PICK f \in [SUBSET (1..n) -> X] : IsFold(f, base, step, n)
    <3> HIDE DEF step, X
    <3> QED
      BY <1>2, FoldExists
  <2>2. ASSUME NEW S \in SUBSET (1..n), S # {}
        PROVE  f[S] = IF ids[Max(S)] \in I THEN Append(f[S \ {Max(S)}], rows[ids[Max(S)]]) ELSE f[S \ {Max(S)}]
    <3>1. Max(S) \in 1..n /\ S \ {Max(S)} \in SUBSET (1..n)
      BY <2>2, GreatestOf
    <3>2. f[S \ {Max(S)}] \in X
      <4> HIDE DEF X
      <4> QED
        BY <3>1
    <3>3. f[S] = step[<<f[S \ {Max(S)}], Max(S)>>]
      <4> HIDE DEF step, X
      <4> QED
        BY <2>1, <2>2, <3>1 DEF IsFold
    <3> HIDE DEF X
    <3> QED
      BY <3>1, <3>2, <3>3, <1>7
  <2>3. f[{}] = base
    <3> HIDE DEF step, X
    <3> QED
      BY <2>1 DEF IsFold
  <2>4. Is(f)
    <3> HIDE DEF step, X
    <3> QED
      BY <2>2, <2>3, <1>7
  <2> HIDE DEF Is
  <2> QED
    BY <2>4
<1> HIDE DEF it
<1>4. a[0] = base
  BY <1>3, <1>7
<1>5. ASSUME NEW k \in 1..n PROVE a[k] = IF k \in I THEN Append(a[k - 1], rows[k]) ELSE a[k - 1]
  <2>1. /\ 1..k \in SUBSET (1..n) /\ 1..k # {} /\ (1..k) \ {k} = 1..(k - 1) /\ Max(1..k) = k
        /\ k \in 0..n /\ k - 1 \in 0..n
    BY UpTo
  <2>2. a[k] = it[1..k] /\ a[k - 1] = it[1..(k - 1)]
    BY <2>1
  <2>3. it[1..k] = IF ids[Max(1..k)] \in I THEN Append(it[(1..k) \ {Max(1..k)}], rows[ids[Max(1..k)]]) ELSE it[(1..k) \ {Max(1..k)}]
    BY <1>3, <2>1, <1>7
  <2>4. Max(1..k) = k /\ (1..k) \ {k} = 1..(k - 1) /\ ids[k] = k
    BY <2>1, <1>7
  <2> HIDE DEF a
  <2> QED
    BY <2>2, <2>3, <2>4
<1>6. Kept(rows, I) = a[n]
  BY <1>1, <1>7
<1> HIDE DEF a
<1> QED
  BY <1>4, <1>5, <1>6 DEF base, KeptRun

(* The states a[k] after k assignments.                                    *)
AssignRun(a, n, columns, row, set, params) ==
  /\ a[0] = [row |-> row, how |-> "ok"]
  /\ \A k \in 1..n : a[k] = Assign(columns, params, a[k - 1], set[k])

(* The loop over the assignments goes through these states.                *)
LEMMA AssignLoop ==
  ASSUME NEW n \in Nat, NEW set, DOMAIN set = 1..n, NEW columns,
         NEW w \in Nat, NEW row, row \in RowOf(w), NEW params \in Seq(Nat)
  PROVE  \E a : AssignRun(a, n, columns, row, set, params) /\ Assigned(columns, row, set, params) = a[n]
<1> DEFINE X == RowState(w)
           base == [row |-> row, how |-> "ok"]
           step == [p \in X \X (1..n) |-> Assign(columns, params, p[1], set[p[2]])]
           Is(f) == f = [S \in SUBSET (DOMAIN set) |->
                           IF S = {} THEN base ELSE Assign(columns, params, f[S \ {Max(S)}], set[Max(S)])]
           it == CHOOSE f : Is(f)
           a == [k \in 0..n |-> it[1..k]]
<1>1. Assigned(columns, row, set, params) = it[DOMAIN set]
  BY DEF Assigned, FoldLeft, MapThenFoldSet
<1>2. base \in X /\ step \in [X \X (1..n) -> X]
  <2>1. base \in X
    BY DEF Ends, RowState, RowOf
  <2>2. ASSUME NEW s \in X, NEW k \in 1..n PROVE Assign(columns, params, s, set[k]) \in X
    BY AssignType
  <2> QED
    BY <2>1, <2>2
<1> HIDE DEF base
<1>3. Is(it)
  <2>1. PICK f \in [SUBSET (1..n) -> X] : IsFold(f, base, step, n)
    <3> HIDE DEF step, X
    <3> QED
      BY <1>2, FoldExists
  <2>2. ASSUME NEW S \in SUBSET (1..n), S # {}
        PROVE  f[S] = Assign(columns, params, f[S \ {Max(S)}], set[Max(S)])
    <3>1. Max(S) \in 1..n /\ S \ {Max(S)} \in SUBSET (1..n)
      BY <2>2, GreatestOf
    <3>2. f[S \ {Max(S)}] \in X
      <4> HIDE DEF X
      <4> QED
        BY <3>1
    <3>3. f[S] = step[<<f[S \ {Max(S)}], Max(S)>>]
      <4> HIDE DEF step, X
      <4> QED
        BY <2>1, <2>2, <3>1 DEF IsFold
    <3> HIDE DEF X
    <3> QED
      BY <3>1, <3>2, <3>3
  <2>3. f[{}] = base
    <3> HIDE DEF step, X
    <3> QED
      BY <2>1 DEF IsFold
  <2>4. Is(f)
    <3> HIDE DEF step, X
    <3> QED
      BY <2>2, <2>3
  <2> HIDE DEF Is
  <2> QED
    BY <2>4
<1> HIDE DEF it
<1>4. a[0] = base
  BY <1>3
<1>5. ASSUME NEW k \in 1..n PROVE a[k] = Assign(columns, params, a[k - 1], set[k])
  <2>1. /\ 1..k \in SUBSET (1..n) /\ 1..k # {} /\ (1..k) \ {k} = 1..(k - 1) /\ Max(1..k) = k
        /\ k \in 0..n /\ k - 1 \in 0..n
    BY UpTo
  <2>2. a[k] = it[1..k] /\ a[k - 1] = it[1..(k - 1)]
    BY <2>1
  <2> DEFINE before == it[(1..k) \ {Max(1..k)}]
  <2>3. it[1..k] = Assign(columns, params, before, set[Max(1..k)])
    BY <1>3, <2>1
  <2>4. before = a[k - 1]
    BY <2>1, <2>2
  <2> HIDE DEF a, before
  <2> QED
    BY <2>1, <2>2, <2>3, <2>4
<1>6. Assigned(columns, row, set, params) = a[n]
  BY <1>1
<1> HIDE DEF a
<1> QED
  BY <1>4, <1>5, <1>6 DEF base, AssignRun

(* The rows a[k] after k columns of an INSERT.                             *)
FillRun(a, n, columns, cols, params) ==
  /\ a[0] = [i \in DOMAIN columns |-> nil]
  /\ \A k \in 1..n : a[k] = [a[k - 1] EXCEPT ![colIndex(columns, cols[k])] = params[k]]

(* The loop over the columns goes through these rows.                      *)
LEMMA FillLoop ==
  ASSUME NEW n \in Nat, NEW cols, DOMAIN cols = 1..n, NEW V,
         NEW w \in Nat, NEW columns, DOMAIN columns = 1..w, nil \in V, NEW params \in [1..n -> V]
  PROVE  \E a : FillRun(a, n, columns, cols, params) /\ Filled(columns, cols, params) = a[n]
<1> DEFINE X == [1..w -> V]
           base == [i \in DOMAIN columns |-> nil]
           step == [p \in X \X (1..n) |-> [p[1] EXCEPT ![colIndex(columns, cols[p[2]])] = params[p[2]]]]
           ids == [i \in DOMAIN cols |-> i]
           Is(f) == f = [S \in SUBSET (DOMAIN ids) |->
                           IF S = {} THEN base ELSE [f[S \ {Max(S)}] EXCEPT ![colIndex(columns, cols[ids[Max(S)]])] =
                                          params[ids[Max(S)]]]]
           it == CHOOSE f : Is(f)
           a == [k \in 0..n |-> it[1..k]]
<1>1. Filled(columns, cols, params) = it[DOMAIN ids]
  BY DEF Filled, FoldLeft, MapThenFoldSet
<1>2. base \in X /\ step \in [X \X (1..n) -> X]
  OBVIOUS
<1> HIDE DEF base
<1>7. DOMAIN ids = 1..n /\ \A i \in 1..n : ids[i] = i
  OBVIOUS
<1> HIDE DEF ids
<1>3. Is(it)
  <2>1. PICK f \in [SUBSET (1..n) -> X] : IsFold(f, base, step, n)
    <3> HIDE DEF step, X
    <3> QED
      BY <1>2, FoldExists
  <2>2. ASSUME NEW S \in SUBSET (1..n), S # {}
        PROVE  f[S] = [f[S \ {Max(S)}] EXCEPT ![colIndex(columns, cols[ids[Max(S)]])] =
                                          params[ids[Max(S)]]]
    <3>1. Max(S) \in 1..n /\ S \ {Max(S)} \in SUBSET (1..n)
      BY <2>2, GreatestOf
    <3>2. f[S \ {Max(S)}] \in X
      <4> HIDE DEF X
      <4> QED
        BY <3>1
    <3>3. f[S] = step[<<f[S \ {Max(S)}], Max(S)>>]
      <4> HIDE DEF step, X
      <4> QED
        BY <2>1, <2>2, <3>1 DEF IsFold
    <3> HIDE DEF X
    <3> QED
      BY <3>1, <3>2, <3>3, <1>7
  <2>3. f[{}] = base
    <3> HIDE DEF step, X
    <3> QED
      BY <2>1 DEF IsFold
  <2>4. Is(f)
    <3> HIDE DEF step, X
    <3> QED
      BY <2>2, <2>3, <1>7
  <2> HIDE DEF Is
  <2> QED
    BY <2>4
<1> HIDE DEF it
<1>4. a[0] = base
  BY <1>3, <1>7
<1>5. ASSUME NEW k \in 1..n PROVE a[k] = [a[k - 1] EXCEPT ![colIndex(columns, cols[k])] = params[k]]
  <2>1. /\ 1..k \in SUBSET (1..n) /\ 1..k # {} /\ (1..k) \ {k} = 1..(k - 1) /\ Max(1..k) = k
        /\ k \in 0..n /\ k - 1 \in 0..n
    BY UpTo
  <2>2. a[k] = it[1..k] /\ a[k - 1] = it[1..(k - 1)]
    BY <2>1
  <2>3. it[1..k] = [it[(1..k) \ {Max(1..k)}] EXCEPT ![colIndex(columns, cols[ids[Max(1..k)]])] =
                                          params[ids[Max(1..k)]]]
    BY <1>3, <2>1, <1>7
  <2>4. Max(1..k) = k /\ (1..k) \ {k} = 1..(k - 1) /\ ids[k] = k
    BY <2>1, <1>7
  <2> HIDE DEF a
  <2> QED
    BY <2>2, <2>3, <2>4
<1>6. Filled(columns, cols, params) = a[n]
  BY <1>1, <1>7
<1> HIDE DEF a
<1> QED
  BY <1>4, <1>5, <1>6 DEF base, FillRun

(* A set of numbers up to n has a least member.                            *)
LEMMA LeastOf ==
  ASSUME NEW n \in Nat, NEW S \in SUBSET (1..n), S # {}
  PROVE  Min(S) \in S /\ \A i \in S : Min(S) <= i
<1> DEFINE E == {k \in Nat : \A T \in SUBSET (1..k) : T # {} => \E m \in T : \A i \in T : m <= i}
<1>1. 0 \in E
  <2>1. 1..0 = {}
    OBVIOUS
  <2> QED
    BY <2>1
<1>2. ASSUME NEW k \in Nat, k \in E PROVE k + 1 \in E
  <2>1. SUFFICES ASSUME NEW T \in SUBSET (1..(k + 1)), T # {}
                 PROVE  \E m \in T : \A i \in T : m <= i
    OBVIOUS
  <2>2. CASE T \cap (1..k) = {}
    <3>1. \A i \in T : i = k + 1
      BY <2>2
    <3>2. PICK i \in T : TRUE
      BY <2>1
    <3> QED
      BY <3>1, <3>2
  <2>3. CASE T \cap (1..k) # {}
    <3>1. PICK m \in T \cap (1..k) : \A i \in T \cap (1..k) : m <= i
      BY <1>2, <2>3
    <3>2. \A i \in T : i \in 1..k \/ i = k + 1
      OBVIOUS
    <3> QED
      BY <3>1, <3>2
  <2> QED
    BY <2>2, <2>3
<1>3. n \in E
  <2> HIDE DEF E
  <2> QED
    BY <1>1, <1>2, NatSetInduction
<1>4. \E m \in S : \A i \in S : m =< i
  BY <1>3
<1> QED
  BY <1>4 DEF Min

(* The first column of a name.                                             *)
LEMMA ColumnFound ==
  ASSUME NEW columns \in Seq(STRING), NEW col
  PROVE  /\ colIndex(columns, col) \in 0..Len(columns)
         /\ colIndex(columns, col) # 0 => columns[colIndex(columns, col)] = col
         /\ \A c \in 1..Len(columns) :
              /\ columns[c] = col
              /\ \A d \in 1..Len(columns) : d # c => columns[d] # columns[c]
              => colIndex(columns, col) = c
<1> DEFINE I == {i \in 1..Len(columns) : columns[i] = col}
<1>1. colIndex(columns, col) = IF I # {} THEN Min(I) ELSE 0
  BY DEF colIndex, SelectInSeq
<1>2. I # {} => Min(I) \in I
  <2>1. I \in SUBSET (1..Len(columns)) /\ Len(columns) \in Nat
    OBVIOUS
  <2> HIDE DEF I
  <2> QED
    BY <2>1, LeastOf
<1>3. ASSUME NEW c \in 1..Len(columns), columns[c] = col,
             \A d \in 1..Len(columns) : d # c => columns[d] # columns[c]
      PROVE  colIndex(columns, col) = c
  <2>1. I = {c}
    BY <1>3
  <2> HIDE DEF I
  <2> QED
    BY <1>1, <1>2, <2>1
<1>4. colIndex(columns, col) = 0 \/ colIndex(columns, col) \in I
  <2> HIDE DEF I
  <2> QED
    BY <1>1, <1>2
<1> QED
  BY <1>3, <1>4

(* The loop says "yes" when each condition does.                           *)
LEMMA ConditionsDecide ==
  ASSUME NEW columns, NEW row, NEW params, NEW n \in Nat, NEW conditions, DOMAIN conditions = 1..n
  PROVE  LET m == matchesConditions(columns, row, conditions, params)
         IN  /\ m \in Verdicts
             /\ m = "yes" <=> \A k \in 1..n : Verdict(columns, row, conditions[k], params) = "yes"
             /\ m = "error" => \E k \in 1..n : Verdict(columns, row, conditions[k], params) = "error"
<1>1. PICK m : VerdictRun(m, n, columns, row, conditions, params)
              /\ matchesConditions(columns, row, conditions, params) = m[n]
  BY VerdictLoop
<1> DEFINE v(k) == Verdict(columns, row, conditions[k], params)
           Decided(j) == /\ m[j] \in Verdicts
                         /\ m[j] = "yes" <=> \A k \in 1..j : v(k) = "yes"
                         /\ m[j] = "error" => \E k \in 1..j : v(k) = "error"
           E == {j \in Nat : j <= n => Decided(j)}
<1>2. 0 \in E
  BY <1>1 DEF Verdicts, VerdictRun
<1>3. ASSUME NEW j \in Nat, j \in E PROVE j + 1 \in E
  <2>1. SUFFICES ASSUME j + 1 <= n PROVE Decided(j + 1)
    OBVIOUS
  <2>2. Decided(j)
    BY <1>3, <2>1
  <2>3. v(j + 1) \in Verdicts
    BY DEF Verdict, Verdicts
  <2>4. m[j + 1] = IF m[j] = "yes" THEN v(j + 1) ELSE m[j]
    BY <1>1, <2>1 DEF VerdictRun
  <2> HIDE DEF v
  <2>5. \A k \in 1..(j + 1) : k \in 1..j \/ k = j + 1
    OBVIOUS
  <2> QED
    BY <2>2, <2>3, <2>4, <2>5 DEF Verdicts
<1>4. n \in E
  <2> HIDE DEF E
  <2> QED
    BY <1>2, <1>3, NatSetInduction
<1> QED
  BY <1>1, <1>4

(* As many rows are kept as there are places, and all of them unchanged.   *)
LEMMA KeptAre ==
  ASSUME NEW R, NEW rows \in Seq(R), NEW I \in SUBSET (DOMAIN rows)
  PROVE  /\ Kept(rows, I) \in Seq(R)
         /\ Len(Kept(rows, I)) = Cardinality(I)
         /\ I = DOMAIN rows => Kept(rows, I) = rows
<1> DEFINE n == Len(rows)
<1>1. n \in Nat /\ rows \in [1..n -> R] /\ DOMAIN rows = 1..n
  OBVIOUS
<1> HIDE DEF n
<1>2. PICK a : KeptRun(a, n, rows, I) /\ Kept(rows, I) = a[n]
  BY <1>1, KeptLoop
<1>3. \A k \in 0..n : IsFiniteSet(I \cap (1..k)) /\ Cardinality(I \cap (1..k)) \in Nat
  <2> TAKE k \in 0..n
  <2>1. IsFiniteSet(1..k)
    BY <1>1, FS_Interval
  <2>2. IsFiniteSet(I \cap (1..k))
    BY <2>1, FS_Subset
  <2> QED
    BY <2>2, FS_CardinalityType
<1> DEFINE Are(k) == /\ a[k] \in Seq(R)
                     /\ Len(a[k]) = Cardinality(I \cap (1..k))
                     /\ I = 1..n => Len(a[k]) = k /\ \A i \in 1..k : a[k][i] = rows[i]
           E == {k \in Nat : k <= n => Are(k)}
<1>4. 0 \in E
  <2>1. I \cap (1..0) = {}
    OBVIOUS
  <2>2. Cardinality(I \cap (1..0)) = 0
    BY <2>1, FS_EmptySet
  <2>3. a[0] = <<>> /\ <<>> \in Seq(R) /\ Len(<<>>) = 0
    BY <1>2 DEF KeptRun
  <2>4. Are(0)
    BY <2>2, <2>3
  <2> HIDE DEF Are
  <2> QED
    BY <2>4
<1>5. ASSUME NEW k \in Nat, k \in E PROVE k + 1 \in E
  <2>1. SUFFICES ASSUME k + 1 <= n PROVE Are(k + 1)
    OBVIOUS
  <2>2. Are(k) /\ k + 1 \in 1..n /\ rows[k + 1] \in R
    BY <1>1, <1>5, <2>1
  <2>3. CASE k + 1 \in I
    <3>1. a[k + 1] = Append(a[k], rows[k + 1])
      <4>1. (k + 1) - 1 = k
        OBVIOUS
      <4> QED
        BY <1>2, <2>2, <2>3, <4>1 DEF KeptRun
    <3>2. I \cap (1..(k + 1)) = (I \cap (1..k)) \cup {k + 1} /\ k + 1 \notin I \cap (1..k)
      BY <2>3
    <3>3. Cardinality(I \cap (1..(k + 1))) = Cardinality(I \cap (1..k)) + 1
      <4>1. IsFiniteSet(I \cap (1..k))
        BY <1>1, <1>3, <2>1
      <4> QED
        BY <3>2, <4>1, FS_AddElement
    <3>4. a[k + 1] \in Seq(R) /\ Len(a[k + 1]) = Len(a[k]) + 1
      BY <2>2, <3>1
    <3>5. \A i \in 1..(k + 1) : Len(a[k]) = k => a[k + 1][i] = IF i = k + 1 THEN rows[k + 1] ELSE a[k][i]
      BY <2>2, <3>1
    <3>6. I = 1..n => Len(a[k + 1]) = k + 1 /\ \A i \in 1..(k + 1) : a[k + 1][i] = rows[i]
      <4>1. \A i \in 1..(k + 1) : i = k + 1 \/ i \in 1..k
        OBVIOUS
      <4> QED
        BY <2>2, <3>4, <3>5, <4>1
    <3>7. Len(a[k + 1]) = Cardinality(I \cap (1..(k + 1)))
      BY <2>2, <3>3, <3>4
    <3> QED
      BY <3>4, <3>6, <3>7
  <2>4. CASE k + 1 \notin I
    <3>1. a[k + 1] = a[k]
      BY <1>2, <2>2, <2>4 DEF KeptRun
    <3>2. I \cap (1..(k + 1)) = I \cap (1..k)
      BY <2>4
    <3>3. I # 1..n
      BY <2>2, <2>4
    <3> QED
      BY <2>2, <3>1, <3>2, <3>3
  <2> QED
    BY <2>3, <2>4
<1>6. Are(n)
  <2>1. n \in E
    <3> HIDE DEF E
    <3> QED
      BY <1>1, <1>4, <1>5, NatSetInduction
  <2> QED
    BY <1>1, <2>1
<1>7. I \cap (1..n) = I
  BY <1>1
<1>8. I = 1..n => a[n] = rows
  BY <1>1, <1>6
<1> QED
  BY <1>1, <1>2, <1>6, <1>7, <1>8

(* A row filled from a column list is as long as the table is wide.        *)
LEMMA FilledType ==
  ASSUME NEW V, nil \in V, NEW columns, NEW w \in Nat, DOMAIN columns = 1..w,
         NEW cols, NEW n \in Nat, DOMAIN cols = 1..n, NEW params \in [1..n -> V]
  PROVE  Filled(columns, cols, params) \in [1..w -> V]
<1>1. PICK a : FillRun(a, n, columns, cols, params) /\ Filled(columns, cols, params) = a[n]
  BY FillLoop
<1> DEFINE E == {k \in Nat : k <= n => a[k] \in [1..w -> V]}
<1>2. 0 \in E
  BY <1>1 DEF FillRun
<1>3. ASSUME NEW k \in Nat, k \in E PROVE k + 1 \in E
  <2>1. (k + 1) - 1 = k
    OBVIOUS
  <2>2. SUFFICES ASSUME k + 1 <= n PROVE a[k + 1] \in [1..w -> V]
    OBVIOUS
  <2>3. k + 1 \in 1..n /\ params[k + 1] \in V /\ a[k] \in [1..w -> V]
    BY <1>3, <2>2
  <2>4. a[k + 1] = [a[k] EXCEPT ![colIndex(columns, cols[k + 1])] = params[k + 1]]
    BY <1>1, <2>1, <2>3 DEF FillRun
  <2> QED
    BY <2>3, <2>4
<1>4. n \in E
  <2> HIDE DEF E
  <2> QED
    BY <1>2, <1>3, NatSetInduction
<1> QED
  BY <1>1, <1>4

(* A cell is what it was, or a parameter.                                  *)
OrParam(v, old, params) == v = old \/ \E k \in DOMAIN params : v = params[k]

(* The assignment is made, and to one cell only.                           *)
Assigns(r, columns, w, params, s, a) ==
  /\ r.how = "ok"
  /\ \A c \in 1..w :
       r.row[c] = IF c = colIndex(columns, a.column) THEN params[a.paramIdx] ELSE s.row[c]

(* One assignment: at most one cell changes, to a parameter.               *)
LEMMA AssignStep ==
  ASSUME NEW columns, NEW w \in Nat, NEW params \in Seq(Nat), NEW a,
         NEW s \in RowState(w)
  PROVE  LET r == Assign(columns, params, s, a)
         IN  /\ \A c \in 1..w : OrParam(r.row[c], s.row[c], params)
             /\ s.how = "ok" /\ colIndex(columns, a.column) \in 1..w /\ a.paramIdx \in DOMAIN params
                => Assigns(r, columns, w, params, s, a)
<1> DEFINE r == Assign(columns, params, s, a)
           d == colIndex(columns, a.column)
<1>1. CASE s.how = "ok" /\ InRow(columns, s.row, a.column) /\ a.paramIdx \in DOMAIN params
  <2>1. d \in 1..w /\ params[a.paramIdx] \in Nat
    BY <1>1 DEF InRow, RowState
  <2>2. r = [s EXCEPT !.row = [s.row EXCEPT ![d] = params[a.paramIdx]]]
    BY <1>1 DEF Assign, RowState
  <2> HIDE DEF r, d
  <2>3. r.how = "ok" /\ \A c \in 1..w : r.row[c] = IF c = d THEN params[a.paramIdx] ELSE s.row[c]
    BY <1>1, <2>1, <2>2 DEF RowState
  <2>4. \A c \in 1..w : OrParam(r.row[c], s.row[c], params)
    BY <1>1, <2>3 DEF OrParam
  <2>5. Assigns(r, columns, w, params, s, a)
    BY <2>3 DEF Assigns, d
  <2> QED
    BY <2>4, <2>5 DEF r
<1>2. CASE ~(s.how = "ok" /\ InRow(columns, s.row, a.column) /\ a.paramIdx \in DOMAIN params)
  <2>1. r.row = s.row
    BY <1>2 DEF Assign, RowState
  <2>2. ~(s.how = "ok" /\ d \in 1..w /\ a.paramIdx \in DOMAIN params)
    BY <1>2 DEF InRow, RowState
  <2>3. \A c \in 1..w : OrParam(r.row[c], s.row[c], params)
    BY <2>1 DEF OrParam
  <2> QED
    BY <2>2, <2>3
<1> QED
  BY <1>1, <1>2

(* One assignment leaves each cell so.                                     *)
LEMMA CellAfter ==
  ASSUME NEW columns, NEW w \in Nat, NEW params \in Seq(Nat), NEW a,
         NEW s \in RowState(w), NEW c \in 1..w
  PROVE  OrParam(Assign(columns, params, s, a).row[c], s.row[c], params)
BY AssignStep

(* The assignments leave each cell as it was, or make it a parameter.      *)
LEMMA AssignedAre ==
  ASSUME NEW columns, NEW w \in Nat, NEW row \in [1..w -> Nat], NEW params \in Seq(Nat),
         NEW n \in Nat, NEW set, DOMAIN set = 1..n
  PROVE  LET s == Assigned(columns, row, set, params)
         IN  /\ s \in RowState(w)
             /\ \A c \in 1..w : OrParam(s.row[c], row[c], params)
<1>1. PICK a : AssignRun(a, n, columns, row, set, params) /\ Assigned(columns, row, set, params) = a[n]
  <2>1. row \in RowOf(w)
    BY DEF RowOf
  <2> QED
    BY <2>1, AssignLoop
<1> DEFINE Are(s) == /\ s \in RowState(w)
                     /\ \A c \in 1..w : OrParam(s.row[c], row[c], params)
           E == {k \in Nat : k <= n => Are(a[k])}
<1>2. 0 \in E
  BY <1>1 DEF AssignRun, RowState, Ends, OrParam
<1>3. ASSUME NEW k \in Nat, k \in E PROVE k + 1 \in E
  <2>1. SUFFICES ASSUME k + 1 <= n PROVE Are(a[k + 1])
    OBVIOUS
  <2>2. Are(a[k])
    BY <1>3, <2>1
  <2>6. a[k] \in RowState(w)
    BY <2>2
  <2>3. a[k + 1] = Assign(columns, params, a[k], set[k + 1])
    <3>1. k + 1 \in 1..n /\ (k + 1) - 1 = k
      BY <2>1
    <3> QED
      BY <1>1, <3>1 DEF AssignRun
  <2>4. a[k + 1] \in RowState(w)
    BY <2>6, <2>3, AssignType
  <2>5. \A c \in 1..w : OrParam(a[k + 1].row[c], a[k].row[c], params)
    BY <2>3, <2>6, CellAfter
  <2>7. \A c \in 1..w : OrParam(a[k + 1].row[c], row[c], params)
    BY <2>2, <2>5 DEF OrParam
  <2> QED
    BY <2>4, <2>7
<1>4. Are(a[n])
  <2>1. n \in E
    <3> HIDE DEF E
    <3> QED
      BY <1>2, <1>3, NatSetInduction
  <2> QED
    BY <2>1
<1> QED
  BY <1>1, <1>4

(* Each assignment names a column of a row of w cells, and a parameter.    *)
CanAssign(columns, w, n, set, params) ==
  \A k \in 1..n : colIndex(columns, set[k].column) \in 1..w /\ set[k].paramIdx \in DOMAIN params

(* Each cell got the value of the last assignment to it, if there is one.  *)
AssignsAll(s, columns, w, row, n, set, params) ==
  LET d(k) == colIndex(columns, set[k].column)
  IN  /\ s.how = "ok"
      /\ \A c \in 1..w :
           /\ \A k \in 1..n : d(k) = c /\ (\A l \in (k + 1)..n : d(l) # c)
                                => s.row[c] = params[set[k].paramIdx]
           /\ (\A k \in 1..n : d(k) # c) => s.row[c] = row[c]

(* Assignments that can all be made are all made.                          *)
LEMMA AssignedInFull ==
  ASSUME NEW columns, NEW w \in Nat, NEW row \in [1..w -> Nat], NEW params \in Seq(Nat),
         NEW n \in Nat, NEW set, DOMAIN set = 1..n,
         CanAssign(columns, w, n, set, params)
  PROVE  AssignsAll(Assigned(columns, row, set, params), columns, w, row, n, set, params)
<1>1. PICK a : AssignRun(a, n, columns, row, set, params) /\ Assigned(columns, row, set, params) = a[n]
  <2>1. row \in RowOf(w)
    BY DEF RowOf
  <2> QED
    BY <2>1, AssignLoop, SMTT(30)
<1> DEFINE d(k) == colIndex(columns, set[k].column)
           Sets(j, c, v) == /\ \A k \in 1..j : d(k) = c /\ (\A l \in (k + 1)..j : d(l) # c)
                                                 => v = params[set[k].paramIdx]
                            /\ (\A k \in 1..j : d(k) # c) => v = row[c]
           Are(j) == /\ a[j] \in RowState(w)
                     /\ a[j].how = "ok"
                     /\ \A c \in 1..w : Sets(j, c, a[j].row[c])
           E == {j \in Nat : j <= n => Are(j)}
<1>2. 0 \in E
  <2>1. a[0] = [row |-> row, how |-> "ok"]
    BY <1>1 DEF AssignRun
  <2>2. a[0] \in RowState(w)
    BY <2>1 DEF RowState, Ends
  <2> HIDE DEF d
  <2>3. a[0].row = row /\ a[0].how = "ok" /\ \A c \in 1..w : Sets(0, c, row[c])
    BY <2>1
  <2> QED
    BY <2>2, <2>3
<1>3. ASSUME NEW j \in Nat, j \in E PROVE j + 1 \in E
  <2>1. SUFFICES ASSUME j + 1 <= n PROVE Are(j + 1)
    OBVIOUS
  <2>2. Are(j) /\ j + 1 \in 1..n /\ (j + 1) - 1 = j
    <3>1. j <= n /\ j + 1 \in 1..n /\ (j + 1) - 1 = j
      BY <2>1
    <3> HIDE DEF Are
    <3>2. Are(j)
      BY <1>3, <3>1
    <3> QED
      BY <3>1, <3>2
  <2>7. a[j] \in RowState(w) /\ a[j].how = "ok" /\ \A c \in 1..w : Sets(j, c, a[j].row[c])
    <3> HIDE DEF Sets
    <3> QED
      BY <2>2
  <2>3. a[j + 1] = Assign(columns, params, a[j], set[j + 1])
    <3> HIDE DEF Are
    <3> QED
      BY <1>1, <2>2 DEF AssignRun
  <2>4. a[j + 1] \in RowState(w)
    <3> HIDE DEF Sets
    <3> QED
      BY <2>7, <2>3, AssignType
  <2>5. /\ a[j + 1].how = "ok"
        /\ \A c \in 1..w : a[j + 1].row[c] = IF c = d(j + 1) THEN params[set[j + 1].paramIdx]
                                             ELSE a[j].row[c]
    <3> DEFINE r == Assign(columns, params, a[j], set[j + 1])
    <3>1. d(j + 1) \in 1..w /\ set[j + 1].paramIdx \in DOMAIN params
      <4> HIDE DEF Are
      <4> QED
        BY <2>2 DEF CanAssign
    <3> HIDE DEF Sets
    <3>2. Assigns(r, columns, w, params, a[j], set[j + 1])
      BY <2>7, <3>1, AssignStep
    <3> QED
      BY <2>3, <3>2 DEF Assigns
  <2>6. ASSUME NEW c \in 1..w PROVE Sets(j + 1, c, a[j + 1].row[c])
    <3> HIDE DEF d
    <3>1. CASE c = d(j + 1)
      <4>1. \A k \in 1..(j + 1) : (\A l \in (k + 1)..(j + 1) : d(l) # c) => k = j + 1
        BY <3>1
      <4>2. a[j + 1].row[c] = params[set[j + 1].paramIdx]
        BY <2>5, <3>1
      <4>3. ~ \A k \in 1..(j + 1) : d(k) # c
        BY <3>1
      <4> QED
        BY <4>1, <4>2, <4>3
    <3>2. CASE c # d(j + 1)
      <4>1. a[j + 1].row[c] = a[j].row[c]
        BY <2>5, <3>2
      <4>2. Sets(j, c, a[j].row[c])
        <5> HIDE DEF Sets
        <5> QED
          BY <2>7
      <4>3. \A k \in 1..(j + 1) : d(k) = c /\ (\A l \in (k + 1)..(j + 1) : d(l) # c)
              => k \in 1..j /\ \A l \in (k + 1)..j : d(l) # c
        <5> TAKE k \in 1..(j + 1)
        <5>1. SUFFICES ASSUME d(k) = c, \A l \in (k + 1)..(j + 1) : d(l) # c
                       PROVE  k \in 1..j /\ \A l \in (k + 1)..j : d(l) # c
          OBVIOUS
        <5>2. k # j + 1
          BY <3>2, <5>1
        <5> QED
          BY <5>1, <5>2
      <4>4. (\A k \in 1..(j + 1) : d(k) # c) => \A k \in 1..j : d(k) # c
        OBVIOUS
      <4> QED
        BY <4>1, <4>2, <4>3, <4>4
    <3> QED
      BY <3>1, <3>2
  <2> HIDE DEF Sets
  <2> QED
    BY <2>4, <2>5, <2>6
<1>4. Are(n)
  <2>1. n \in E
    <3> HIDE DEF E
    <3> QED
      BY <1>2, <1>3, NatSetInduction
  <2> HIDE DEF Are
  <2> QED
    BY <2>1
<1>5. a[n].how = "ok" /\ \A c \in 1..w : Sets(n, c, a[n].row[c])
  <2> HIDE DEF Sets
  <2> QED
    BY <1>4
<1> HIDE DEF d, Are
<1>6. Assigned(columns, row, set, params) = a[n]
  BY <1>1
<1>7. AssignsAll(a[n], columns, w, row, n, set, params)
  BY <1>5 DEF d, AssignsAll
<1> QED
  BY <1>6, <1>7

(* A row assigned to keeps its length.                                     *)
AssignsTo(s, row, params) ==
  /\ s.row \in Seq(Nat) /\ Len(s.row) = Len(row) /\ s.how \in Ends
  /\ \A c \in DOMAIN row : OrParam(s.row[c], row[c], params)

(* The row the assignments make of a row.                                  *)
LEMMA AssignedType ==
  ASSUME NEW columns, NEW params \in Seq(Nat), NEW row \in Seq(Nat),
         NEW n \in Nat, NEW set, DOMAIN set = 1..n
  PROVE  AssignsTo(Assigned(columns, row, set, params), row, params)
<1> DEFINE w == Len(row)
           s == Assigned(columns, row, set, params)
<1>1. w \in Nat /\ row \in [1..w -> Nat] /\ DOMAIN row = 1..w
  OBVIOUS
<1> HIDE DEF w
<1>2. s \in RowState(w) /\ \A c \in 1..w : OrParam(s.row[c], row[c], params)
  BY <1>1, AssignedAre
<1> HIDE DEF s
<1>3. s.row \in [1..w -> Nat] /\ s.how \in Ends
  BY <1>2 DEF RowState
<1>4. s.row \in Seq(Nat) /\ Len(s.row) = w
  BY <1>1, <1>3
<1>5. s.row \in Seq(Nat) /\ Len(s.row) = w /\ s.how \in Ends /\ \A c \in DOMAIN row : OrParam(s.row[c], row[c], params)
  BY <1>1, <1>2, <1>3, <1>4
<1> QED
  BY <1>5 DEF s, w, AssignsTo

(* What a turn of the loop leaves: a row changed or kept, and counted when *)
(* it was changed without error.                                           *)
Turned(u, s, row, m, d) ==
  u = IF s.how # "ok" THEN [rows |-> Append(s.rows, row), n |-> s.n, how |-> s.how]
      ELSE IF m = "yes"
        THEN [rows |-> Append(s.rows, d.row), n |-> IF d.how = "ok" THEN s.n + 1 ELSE s.n, how |-> d.how]
      ELSE [rows |-> Append(s.rows, row), n |-> s.n, how |-> IF m = "no" THEN "ok" ELSE "error"]

(* One turn of the loop over the rows (UpdateRow).                         *)
LEMMA UpdateRowIs ==
  ASSUME NEW columns, NEW params \in Seq(Nat), NEW row \in Seq(Nat),
         NEW n \in Nat, NEW set, DOMAIN set = 1..n, NEW conditions, NEW s \in RowsState
  PROVE  LET u == UpdateRow(columns, set, conditions, params, s, row)
         IN  /\ u \in RowsState
             /\ Turned(u, s, row, matchesConditions(columns, row, conditions, params),
                       Assigned(columns, row, set, params))
<1> DEFINE u == UpdateRow(columns, set, conditions, params, s, row)
           m == matchesConditions(columns, row, conditions, params)
           d == Assigned(columns, row, set, params)
<1>1. d.row \in Seq(Nat) /\ d.how \in Ends
  BY AssignedType DEF AssignsTo
<1>2. s.rows \in Seq(Seq(Nat)) /\ s.n \in Nat /\ s.how \in Ends
  BY DEF RowsState
<1>3. Turned(u, s, row, m, d)
  <2> HIDE DEF m, d
  <2>1. u = UpdatedRow(s, IF s.how = "ok" THEN m ELSE "no",
                       IF s.how # "ok" THEN [row |-> row, how |-> s.how]
                       ELSE IF m = "yes" THEN d
                       ELSE [row |-> row, how |-> IF m = "no" THEN "ok" ELSE "error"])
    BY DEF UpdateRow, m, d
  <2> HIDE DEF u
  <2> QED
    BY <2>1 DEF UpdatedRow, Turned
<1> HIDE DEF u, m, d
<1>4. /\ Append(s.rows, row) \in Seq(Seq(Nat)) /\ Append(s.rows, d.row) \in Seq(Seq(Nat))
      /\ s.n + 1 \in Nat
  BY <1>1, <1>2
<1>5. u \in RowsState
  BY <1>1, <1>2, <1>3, <1>4 DEF RowsState, Ends, Turned
<1>6. u \in RowsState /\ Turned(u, s, row, m, d)
  BY <1>3, <1>5
<1> QED
  BY <1>6 DEF u, m, d

(* A list of n rows.                                                       *)
RowsOf(n) == [1..n -> Seq(Nat)]

(* The states a[k] after k rows of an UPDATE.                              *)
UpdateRun(a, n, columns, rows, set, conditions, params) ==
  /\ a[0] = [rows |-> <<>>, n |-> 0, how |-> "ok"]
  /\ \A k \in 1..n : a[k] = UpdateRow(columns, set, conditions, params, a[k - 1], rows[k])

UpdatesTo(u, n, columns, rows, set, conditions, params) ==
  \E a : UpdateRun(a, n, columns, rows, set, conditions, params) /\ u = a[n]

(* The loop over the rows goes through these states.                       *)
LEMMA UpdateLoop ==
  ASSUME NEW columns, NEW params \in Seq(Nat), NEW n \in Nat, NEW rows, rows \in RowsOf(n),
         NEW w \in Nat, NEW set, DOMAIN set = 1..w, NEW conditions
  PROVE  UpdatesTo(Updated(columns, rows, set, conditions, params),
                   n, columns, rows, set, conditions, params)
<1> DEFINE X == RowsState
           base == [rows |-> <<>>, n |-> 0, how |-> "ok"]
           step == [p \in X \X (1..n) |-> UpdateRow(columns, set, conditions, params, p[1], rows[p[2]])]
           Is(f) == f = [S \in SUBSET (DOMAIN rows) |->
                           IF S = {} THEN base ELSE UpdateRow(columns, set, conditions, params, f[S \ {Max(S)}], rows[Max(S)])]
           it == CHOOSE f : Is(f)
           a == [k \in 0..n |-> it[1..k]]
<1>1. Updated(columns, rows, set, conditions, params) = it[DOMAIN rows]
  BY DEF Updated, FoldLeft, MapThenFoldSet
<1>8. DOMAIN rows = 1..n /\ \A i \in 1..n : rows[i] \in Seq(Nat)
  BY DEF RowsOf
<1>2. base \in X /\ step \in [X \X (1..n) -> X]
  <2>1. base \in X
    BY DEF Ends, RowsState
  <2>2. ASSUME NEW s \in X, NEW k \in 1..n
        PROVE  UpdateRow(columns, set, conditions, params, s, rows[k]) \in X
    BY <1>8, UpdateRowIs
  <2> QED
    BY <2>1, <2>2
<1> HIDE DEF base
<1>3. Is(it)
  <2>1. PICK f \in [SUBSET (1..n) -> X] : IsFold(f, base, step, n)
    <3> HIDE DEF step, X
    <3> QED
      BY <1>2, FoldExists
  <2>2. ASSUME NEW S \in SUBSET (1..n), S # {}
        PROVE  f[S] = UpdateRow(columns, set, conditions, params, f[S \ {Max(S)}], rows[Max(S)])
    <3>1. Max(S) \in 1..n /\ S \ {Max(S)} \in SUBSET (1..n)
      BY <2>2, GreatestOf
    <3>2. f[S \ {Max(S)}] \in X
      <4> HIDE DEF X
      <4> QED
        BY <3>1
    <3>3. f[S] = step[<<f[S \ {Max(S)}], Max(S)>>]
      <4> HIDE DEF step, X
      <4> QED
        BY <2>1, <2>2, <3>1 DEF IsFold
    <3> HIDE DEF X
    <3> QED
      BY <3>1, <3>2, <3>3
  <2>3. f[{}] = base
    <3> HIDE DEF step, X
    <3> QED
      BY <2>1 DEF IsFold
  <2>4. Is(f)
    <3> HIDE DEF step, X
    <3> QED
      BY <2>2, <2>3, <1>8
  <2> HIDE DEF Is
  <2> QED
    BY <2>4
<1> HIDE DEF it
<1>4. a[0] = base
  BY <1>3, <1>8
<1>5. ASSUME NEW k \in 1..n PROVE a[k] = UpdateRow(columns, set, conditions, params, a[k - 1], rows[k])
  <2>1. /\ 1..k \in SUBSET (1..n) /\ 1..k # {} /\ (1..k) \ {k} = 1..(k - 1) /\ Max(1..k) = k
        /\ k \in 0..n /\ k - 1 \in 0..n
    BY UpTo
  <2>2. a[k] = it[1..k] /\ a[k - 1] = it[1..(k - 1)]
    BY <2>1
  <2> DEFINE before == it[(1..k) \ {Max(1..k)}]
  <2>3. it[1..k] = UpdateRow(columns, set, conditions, params, before, rows[Max(1..k)])
    BY <1>3, <1>8, <2>1
  <2>4. before = a[k - 1]
    BY <2>1, <2>2
  <2> HIDE DEF a, before
  <2> QED
    BY <2>1, <2>2, <2>3, <2>4
<1>6. Updated(columns, rows, set, conditions, params) = a[n]
  BY <1>1, <1>8
<1> HIDE DEF a
<1> QED
  BY <1>4, <1>5, <1>6 DEF base, UpdateRun, UpdatesTo

(* A row more.                                                             *)
LEMMA AppendIs ==
  ASSUME NEW S, NEW s \in Seq(S), NEW e \in S
  PROVE  /\ Append(s, e) \in Seq(S) /\ Len(Append(s, e)) = Len(s) + 1
         /\ \A i \in 1..(Len(s) + 1) : Append(s, e)[i] = IF i = Len(s) + 1 THEN e ELSE s[i]
OBVIOUS

(* Every row is left as it was, or as the assignments make it, in its      *)
(* place, however the UPDATE ends.                                         *)
LEMMA UpdatedAre ==
  ASSUME NEW columns, NEW params \in Seq(Nat), NEW n \in Nat, NEW rows, rows \in RowsOf(n),
         NEW w \in Nat, NEW set, DOMAIN set = 1..w, NEW conditions
  PROVE  LET u == Updated(columns, rows, set, conditions, params)
         IN  /\ u \in RowsState /\ Len(u.rows) = n
             /\ \A i \in 1..n :
                  u.rows[i] \in {rows[i], Assigned(columns, rows[i], set, params).row}
<1>1. DOMAIN rows = 1..n /\ \A i \in 1..n : rows[i] \in Seq(Nat)
  BY DEF RowsOf
<1> DEFINE new(i) == {rows[i], Assigned(columns, rows[i], set, params).row}
<1>2. ASSUME NEW i \in 1..n PROVE new(i) \subseteq Seq(Nat)
  <2>1. rows[i] \in Seq(Nat)
    BY <1>1
  <2>2. Assigned(columns, rows[i], set, params).row \in Seq(Nat)
    BY <2>1, AssignedType DEF AssignsTo
  <2> QED
    BY <2>1, <2>2
<1> HIDE DEF new
<1>3. PICK a : UpdateRun(a, n, columns, rows, set, conditions, params)
              /\ Updated(columns, rows, set, conditions, params) = a[n]
  <2>1. UpdatesTo(Updated(columns, rows, set, conditions, params),
                  n, columns, rows, set, conditions, params)
    BY UpdateLoop
  <2> QED
    BY <2>1 DEF UpdatesTo
<1> DEFINE Are(k) == a[k] \in RowsState /\ Len(a[k].rows) = k /\ \A i \in 1..k : a[k].rows[i] \in new(i)
           E == {k \in Nat : k <= n => Are(k)}
<1>4. 0 \in E
  <2>1. a[0] = [rows |-> <<>>, n |-> 0, how |-> "ok"]
    BY <1>3 DEF UpdateRun
  <2>2. a[0] \in RowsState /\ a[0].rows = <<>> /\ Len(<<>>) = 0
    BY <2>1 DEF RowsState, Ends
  <2>3. Are(0)
    BY <2>2
  <2> HIDE DEF Are
  <2> QED
    BY <2>3
<1>5. ASSUME NEW k \in Nat, k \in E PROVE k + 1 \in E
  <2>1. SUFFICES ASSUME k + 1 <= n PROVE Are(k + 1)
    <3> HIDE DEF Are
    <3> QED
      OBVIOUS
  <2>2. Are(k)
    <3> HIDE DEF Are
    <3> QED
      BY <1>5, <1>1, <2>1
  <2>3. k + 1 \in 1..n /\ (k + 1) - 1 = k /\ rows[k + 1] \in Seq(Nat)
    BY <1>1, <2>1
  <2> DEFINE u == UpdateRow(columns, set, conditions, params, a[k], rows[k + 1])
  <2>4. a[k + 1] = u
    BY <1>3, <2>3 DEF UpdateRun
  <2>9. a[k] \in RowsState /\ Len(a[k].rows) = k /\ \A i \in 1..k : a[k].rows[i] \in new(i)
    BY <2>2
  <2>10. u \in RowsState
    BY <2>3, <2>9, UpdateRowIs
  <2>11. \E r \in new(k + 1) : u.rows = Append(a[k].rows, r)
    <3> DEFINE m == matchesConditions(columns, rows[k + 1], conditions, params)
               d == Assigned(columns, rows[k + 1], set, params)
    <3>1. Turned(u, a[k], rows[k + 1], m, d)
      BY <2>3, <2>9, UpdateRowIs
    <3>2. rows[k + 1] \in new(k + 1) /\ d.row \in new(k + 1)
      BY DEF new
    <3> HIDE DEF u, m, d
    <3>3. u.rows = Append(a[k].rows, rows[k + 1]) \/ u.rows = Append(a[k].rows, d.row)
      BY <3>1 DEF Turned
    <3> QED
      BY <3>2, <3>3
  <2>5. PICK r \in new(k + 1) : a[k + 1].rows = Append(a[k].rows, r)
    BY <2>4, <2>11
  <2>6. a[k + 1] \in RowsState /\ a[k].rows \in Seq(Seq(Nat)) /\ r \in Seq(Nat)
    BY <1>2, <2>3, <2>4, <2>9, <2>10 DEF RowsState
  <2>7. Len(a[k + 1].rows) = k + 1
        /\ \A i \in 1..(k + 1) : a[k + 1].rows[i] = IF i = k + 1 THEN r ELSE a[k].rows[i]
    BY <2>5, <2>6, <2>9, AppendIs
  <2>8. \A i \in 1..(k + 1) : i = k + 1 \/ i \in 1..k
    OBVIOUS
  <2>12. \A i \in 1..(k + 1) : a[k + 1].rows[i] \in new(i)
    BY <2>5, <2>7, <2>8, <2>9
  <2> QED
    BY <2>6, <2>7, <2>12
<1>6. Are(n)
  <2> HIDE DEF Are
  <2>1. n \in E
    <3> HIDE DEF E
    <3> QED
      BY <1>1, <1>4, <1>5, NatSetInduction
  <2> QED
    BY <1>1, <2>1
<1> QED
  BY <1>3, <1>6 DEF new

(* Every row can be judged, and those that match, yes, can be assigned to. *)
Updates(columns, rows, n, set, conditions, params, yes) ==
  /\ \A i \in (1..n) \ yes : matchesConditions(columns, rows[i], conditions, params) = "no"
  /\ \A i \in yes : /\ matchesConditions(columns, rows[i], conditions, params) = "yes"
                    /\ Assigned(columns, rows[i], set, params).how = "ok"

(* Exactly the rows that match are changed and counted.                    *)
UpdatesAll(u, columns, rows, n, set, params, yes) ==
  /\ u.how = "ok" /\ u.n = Cardinality(yes) /\ Len(u.rows) = n
  /\ \A i \in 1..n :
       u.rows[i] = IF i \in yes THEN Assigned(columns, rows[i], set, params).row ELSE rows[i]

(* An UPDATE that can judge every row and assign what it is told.          *)
LEMMA UpdatedInFull ==
  ASSUME NEW columns, NEW params \in Seq(Nat), NEW n \in Nat, NEW rows, rows \in RowsOf(n),
         NEW w \in Nat, NEW set, DOMAIN set = 1..w, NEW conditions, NEW yes \in SUBSET (1..n),
         Updates(columns, rows, n, set, conditions, params, yes)
  PROVE  UpdatesAll(Updated(columns, rows, set, conditions, params), columns, rows, n, set, params, yes)
<1> DEFINE m(i) == matchesConditions(columns, rows[i], conditions, params)
           d(i) == Assigned(columns, rows[i], set, params)
<1>1. DOMAIN rows = 1..n /\ \A i \in 1..n : rows[i] \in Seq(Nat)
  BY DEF RowsOf
<1>2. /\ \A i \in (1..n) \ yes : m(i) = "no"
      /\ \A i \in yes : m(i) = "yes" /\ d(i).how = "ok"
  BY DEF Updates
<1>3. \A i \in 1..n : d(i).row \in Seq(Nat)
  BY <1>1, AssignedType DEF AssignsTo
<1>4. PICK a : UpdateRun(a, n, columns, rows, set, conditions, params)
              /\ Updated(columns, rows, set, conditions, params) = a[n]
  <2>1. UpdatesTo(Updated(columns, rows, set, conditions, params),
                  n, columns, rows, set, conditions, params)
    BY UpdateLoop
  <2> QED
    BY <2>1 DEF UpdatesTo
<1>5. \A k \in 0..n : IsFiniteSet(yes \cap (1..k)) /\ Cardinality(yes \cap (1..k)) \in Nat
  <2> TAKE k \in 0..n
  <2>1. IsFiniteSet(1..k)
    BY <1>1, FS_Interval
  <2>2. IsFiniteSet(yes \cap (1..k))
    BY <2>1, FS_Subset
  <2> QED
    BY <2>2, FS_CardinalityType
<1> DEFINE new(i) == IF i \in yes THEN d(i).row ELSE rows[i]
           Are(k) == /\ a[k] \in RowsState /\ a[k].how = "ok"
                     /\ a[k].n = Cardinality(yes \cap (1..k))
                     /\ Len(a[k].rows) = k
                     /\ \A i \in 1..k : a[k].rows[i] = new(i)
           E == {k \in Nat : k <= n => Are(k)}
<1>6. 0 \in E
  <2>1. a[0] = [rows |-> <<>>, n |-> 0, how |-> "ok"]
    BY <1>4 DEF UpdateRun
  <2>2. a[0] \in RowsState /\ a[0].rows = <<>> /\ a[0].n = 0 /\ a[0].how = "ok" /\ Len(<<>>) = 0
    BY <2>1 DEF RowsState, Ends
  <2>3. yes \cap (1..0) = {}
    OBVIOUS
  <2>4. Cardinality(yes \cap (1..0)) = 0
    BY <2>3, FS_EmptySet
  <2> HIDE DEF new
  <2>5. Are(0)
    BY <2>2, <2>4
  <2> HIDE DEF Are
  <2> QED
    BY <2>5
<1>7. ASSUME NEW k \in Nat, k \in E PROVE k + 1 \in E
  <2>1. SUFFICES ASSUME k + 1 <= n PROVE Are(k + 1)
    OBVIOUS
  <2>2. Are(k)
    <3> HIDE DEF Are
    <3> QED
      BY <1>1, <1>7, <2>1
  <2>3. k + 1 \in 1..n /\ (k + 1) - 1 = k /\ rows[k + 1] \in Seq(Nat) /\ k \in 0..n
    BY <1>1, <2>1
  <2> DEFINE u == UpdateRow(columns, set, conditions, params, a[k], rows[k + 1])
  <2>4. a[k + 1] = u
    BY <1>4, <2>3 DEF UpdateRun
  <2>12. new(k + 1) \in Seq(Nat)
    BY <1>3, <2>3
  <2>13. /\ a[k] \in RowsState /\ a[k].how = "ok" /\ a[k].n = Cardinality(yes \cap (1..k))
         /\ Len(a[k].rows) = k /\ \A i \in 1..k : a[k].rows[i] = new(i)
    <3> HIDE DEF new
    <3> QED
      BY <2>2
  <2>14. u \in RowsState /\ Turned(u, a[k], rows[k + 1], m(k + 1), d(k + 1))
    BY <2>3, <2>13, UpdateRowIs
  <2> HIDE DEF m, d
  <2>5. /\ a[k + 1].rows = Append(a[k].rows, new(k + 1))
        /\ a[k + 1].n = IF k + 1 \in yes THEN a[k].n + 1 ELSE a[k].n
        /\ a[k + 1].how = "ok"
    <3> HIDE DEF u
    <3>1. CASE k + 1 \in yes
      <4>1. m(k + 1) = "yes" /\ d(k + 1).how = "ok" /\ new(k + 1) = d(k + 1).row
        BY <1>2, <3>1
      <4> QED
        BY <2>4, <2>13, <2>14, <3>1, <4>1 DEF Turned
    <3>2. CASE k + 1 \notin yes
      <4>1. m(k + 1) = "no" /\ new(k + 1) = rows[k + 1]
        BY <1>2, <2>3, <3>2
      <4> QED
        BY <2>4, <2>13, <2>14, <3>2, <4>1 DEF Turned
    <3> QED
      BY <3>1, <3>2
  <2>6. a[k + 1] \in RowsState /\ a[k].rows \in Seq(Seq(Nat))
    BY <2>4, <2>13, <2>14 DEF RowsState
  <2> HIDE DEF new, u
  <2>7. /\ Len(a[k + 1].rows) = k + 1
        /\ \A i \in 1..(k + 1) : a[k + 1].rows[i] = IF i = k + 1 THEN new(k + 1) ELSE a[k].rows[i]
    BY <2>5, <2>6, <2>12, <2>13, AppendIs
  <2>8. \A i \in 1..(k + 1) : a[k + 1].rows[i] = new(i)
    <3>1. \A i \in 1..(k + 1) : i = k + 1 \/ i \in 1..k
      OBVIOUS
    <3> QED
      BY <2>7, <2>13, <3>1
  <2>9. a[k + 1].n = Cardinality(yes \cap (1..(k + 1)))
    <3>1. CASE k + 1 \in yes
      <4>1. yes \cap (1..(k + 1)) = (yes \cap (1..k)) \cup {k + 1} /\ k + 1 \notin yes \cap (1..k)
        BY <3>1
      <4>2. IsFiniteSet(yes \cap (1..k))
        BY <1>5, <2>3
      <4>3. Cardinality(yes \cap (1..(k + 1))) = Cardinality(yes \cap (1..k)) + 1
        BY <4>1, <4>2, FS_AddElement
      <4> QED
        BY <2>13, <2>5, <3>1, <4>3
    <3>2. CASE k + 1 \notin yes
      <4>1. yes \cap (1..(k + 1)) = yes \cap (1..k)
        BY <3>2
      <4> QED
        BY <2>13, <2>5, <3>2, <4>1
    <3> QED
      BY <3>1, <3>2
  <2>10. a[k + 1].how = "ok"
    BY <2>5
  <2> QED
    BY <2>6, <2>7, <2>8, <2>9, <2>10
<1>8. Are(n)
  <2> HIDE DEF Are
  <2>1. n \in E
    <3> HIDE DEF E
    <3> QED
      BY <1>1, <1>6, <1>7, NatSetInduction
  <2> QED
    BY <1>1, <2>1
<1>9. yes \cap (1..n) = yes
  OBVIOUS
<1>10. /\ a[n].how = "ok" /\ a[n].n = Cardinality(yes) /\ Len(a[n].rows) = n
       /\ \A i \in 1..n : a[n].rows[i] = new(i)
  <2> HIDE DEF new
  <2> QED
    BY <1>8, <1>9
<1> QED
  BY <1>4, <1>10 DEF UpdatesAll

(* A table as tests seed one and statements leave one.                     *)
Table(T) ==
  /\ T \in [columns : Seq(STRING), rows : Seq(Seq(Nat))]
  /\ \A i, j \in DOMAIN T.columns : i # j => T.columns[i] # T.columns[j]
  /\ \A i \in DOMAIN T.rows : Len(T.rows[i]) <= Len(T.columns)

(* A generated id tells in which place its row was inserted.               *)
Fresh(T) ==
  LET id == colIndex(T.columns, "id")
  IN  id # 0 => \A i \in DOMAIN T.rows :
        id \in DOMAIN T.rows[i] /\ T.rows[i][id] > 100 => T.rows[i][id] = Generated(i)

(* The inductive invariant of the database.                                *)
DBInv ==
  /\ tables = [t \in DOMAIN tables |-> tables[t]]
  /\ DOMAIN tables \subseteq Tables
  /\ \A t \in DOMAIN tables : Table(tables[t]) /\ (t \notin shrunk => Fresh(tables[t]))

(* Other rows in a table.                                                  *)
WithRows(T, rows) == [T EXCEPT !.rows = rows]

(* A table with other rows is a table.                                     *)
LEMMA WithRowsIs ==
  ASSUME NEW T, Table(T), NEW rows \in Seq(Seq(Nat)),
         \A i \in DOMAIN rows : Len(rows[i]) <= Len(T.columns)
  PROVE  /\ Table(WithRows(T, rows))
         /\ WithRows(T, rows).columns = T.columns /\ WithRows(T, rows).rows = rows
         /\ WithRows(T, T.rows) = T
BY DEF Table, WithRows

(* The values tests use are below the generated ones.                      *)
LEMMA Below ==
  ASSUME NEW n \in Nat, NEW row \in [1..n -> 0..99]
  PROVE  row \in [1..n -> Nat] /\ row \in Seq(Nat) /\ \A c \in 1..n : row[c] <= 99
<1>1. \A c \in 1..n : row[c] \in 0..99
  OBVIOUS
<1>2. \A c \in 1..n : row[c] \in Nat /\ row[c] <= 99
  <2>1. \A v \in 0..99 : v \in Nat /\ v <= 99
    OBVIOUS
  <2> QED
    BY <1>1, <2>1, Zenon
<1>3. row \in [1..n -> Nat]
  BY <1>2
<1> QED
  BY <1>2, <1>3

(* So are the cells of a row of such values.                               *)
LEMMA CellsBelow ==
  ASSUME NEW row \in Seq(Cells)
  PROVE  /\ Len(row) \in Nat /\ DOMAIN row = 1..Len(row)
         /\ row \in [1..Len(row) -> 0..99] /\ row \in Seq(Nat)
         /\ \A c \in DOMAIN row : row[c] <= 99
<1>1. Len(row) \in Nat /\ row \in [1..Len(row) -> Cells] /\ Cells \subseteq 0..99
  BY CellsAssumption
<1> DEFINE n == Len(row)
<1>2. DOMAIN row = 1..n
  OBVIOUS
<1>3. n \in Nat /\ row \in [1..n -> Cells]
  BY <1>1
<1> HIDE DEF n
<1>4. row \in [1..n -> 0..99]
  BY <1>1, <1>3
<1>5. row \in Seq(Nat) /\ \A c \in 1..n : row[c] <= 99
  BY <1>3, <1>4, Below
<1> QED
  BY <1>2, <1>3, <1>4, <1>5 DEF n

(* What SeedRows puts in place is a table without generated ids.           *)
LEMMA SeedIs ==
  ASSUME NEW seed \in Seeds
  PROVE  Table(seed) /\ Fresh(seed)
<1>1. /\ seed \in [columns : Seq(STRING), rows : Seq(Seq(Cells))]
      /\ \A i, j \in DOMAIN seed.columns : i # j => seed.columns[i] # seed.columns[j]
      /\ \A i \in DOMAIN seed.rows : Len(seed.rows[i]) <= Len(seed.columns)
  BY SeedsAssumption
<1>2. \A i \in DOMAIN seed.rows : seed.rows[i] \in Seq(Cells)
  BY <1>1
<1>4. \A i \in DOMAIN seed.rows : seed.rows[i] \in Seq(Nat) /\ \A c \in DOMAIN seed.rows[i] : seed.rows[i][c] <= 99
  BY <1>2, CellsBelow
<1>5. seed.rows \in Seq(Seq(Nat))
  BY <1>1, <1>4
<1>6. Table(seed)
  BY <1>1, <1>5 DEF Table
<1>7. ASSUME NEW i \in DOMAIN seed.rows, NEW c \in DOMAIN seed.rows[i] PROVE ~ seed.rows[i][c] > 100
  <2>1. seed.rows[i][c] <= 99 /\ seed.rows[i][c] \in Nat
    BY <1>4
  <2> QED
    BY <2>1
<1>8. Fresh(seed)
  BY <1>7 DEF Fresh
<1> QED
  BY <1>6, <1>8

(* Parameters are values of the tests.                                     *)
LEMMA ParamsAre ==
  ASSUME NEW params \in Params
  PROVE  /\ params \in Seq(Nat) /\ Len(params) \in Nat /\ DOMAIN params = 1..Len(params)
         /\ params \in [1..Len(params) -> 0..99]
         /\ \A k \in DOMAIN params : ~ params[k] > 100
<1>1. params \in Seq(Cells)
  BY ParamsAssumption
<1>2. ASSUME NEW k \in DOMAIN params PROVE ~ params[k] > 100
  <2>1. params[k] <= 99 /\ params[k] \in Cells
    BY <1>1, CellsBelow
  <2>2. params[k] \in 0..99
    BY <2>1, CellsAssumption
  <2> QED
    BY <2>1, <2>2
<1> QED
  BY <1>1, <1>2, CellsBelow

(* What INSERT adds.                                                       *)
LEMMA InsertedIs ==
  ASSUME NEW t \in DOMAIN tables, Table(tables[t]), NEW cols \in InsertLists, NEW params \in Params,
         Len(params) = Len(IF cols = <<>> THEN tables[t].columns ELSE cols)
  PROVE  LET T == tables[t]
             row == InsertedRow(t, cols, params)
             id == colIndex(T.columns, "id")
         IN  /\ row \in Seq(Nat) /\ Len(row) = Len(T.columns)
             /\ id # 0 => row[id] <= 99 \/ row[id] = Generated(Len(T.rows) + 1)
<1> DEFINE T == tables[t]
           w == Len(T.columns)
           id == colIndex(T.columns, "id")
           base == IF cols = <<>> THEN params ELSE Filled(T.columns, cols, params)
           row == InsertedRow(t, cols, params)
<1>1. T.columns \in Seq(STRING) /\ w \in Nat /\ DOMAIN T.columns = 1..w /\ Len(T.rows) \in Nat
  BY DEF Table
<1>2. params \in [1..Len(params) -> 0..99] /\ Len(params) \in Nat
  BY ParamsAre
<1>3. base \in [1..w -> 0..99]
  <2>1. CASE cols = <<>>
    BY <1>2, <2>1
  <2>2. CASE cols # <<>>
    <3>1. cols \in Seq(STRING)
      BY ListsAssumption
    <3>2. DOMAIN cols = 1..Len(params)
      BY <2>2, <3>1
    <3>3. nil \in 0..99
      BY CellsAssumption
    <3>4. Filled(T.columns, cols, params) \in [1..w -> 0..99]
      <4> HIDE DEF T, w
      <4> QED
        BY <1>1, <1>2, <3>2, <3>3, FilledType
    <3> QED
      BY <2>2, <3>4
  <2> QED
    BY <2>1, <2>2
<1>4. id \in 0..w
  BY <1>1, ColumnFound
<1>5. row = IF id # 0 /\ base[id] = nil THEN [base EXCEPT ![id] = Generated(Len(T.rows) + 1)] ELSE base
  BY DEF InsertedRow, NewId
<1>6. Generated(Len(T.rows) + 1) \in Nat
  BY <1>1 DEF Generated
<1> HIDE DEF T, w, id, base, row
<1>9. base \in [1..w -> Nat] /\ (id # 0 => id \in 1..w /\ base[id] <= 99)
  <2>1. base \in [1..w -> Nat] /\ \A c \in 1..w : base[c] <= 99
    BY <1>1, <1>3, Below
  <2>2. id # 0 => id \in 1..w
    BY <1>1, <1>4
  <2> QED
    BY <2>1, <2>2
<1>7. row \in [1..w -> Nat] /\ (id # 0 => row[id] <= 99 \/ row[id] = Generated(Len(T.rows) + 1))
  <2>1. CASE id # 0 /\ base[id] = nil
    BY <1>5, <1>6, <1>9, <2>1
  <2>2. CASE ~(id # 0 /\ base[id] = nil)
    BY <1>5, <1>9, <2>2
  <2> QED
    BY <2>1, <2>2
<1>8. row \in Seq(Nat) /\ Len(row) = w
  BY <1>1, <1>7
<1> QED
  BY <1>7, <1>8 DEF T, w, id, row

(* INSERT leaves a table, the new row's generated id the next one.         *)
LEMMA InsertKeeps ==
  ASSUME NEW t \in DOMAIN tables, Table(tables[t]), NEW cols \in InsertLists, NEW params \in Params,
         Len(params) = Len(IF cols = <<>> THEN tables[t].columns ELSE cols)
  PROVE  LET new == WithRows(tables[t], Append(tables[t].rows, InsertedRow(t, cols, params)))
         IN  Table(new) /\ (Fresh(tables[t]) => Fresh(new))
<1> DEFINE T == tables[t]
           row == InsertedRow(t, cols, params)
           rows == Append(T.rows, row)
           new == WithRows(T, rows)
           id == colIndex(T.columns, "id")
           n == Len(T.rows)
<1>1. /\ row \in Seq(Nat) /\ Len(row) = Len(T.columns)
      /\ id # 0 => row[id] <= 99 \/ row[id] = Generated(n + 1)
  BY InsertedIs
<1>2. /\ T.columns \in Seq(STRING) /\ T.rows \in Seq(Seq(Nat)) /\ n \in Nat /\ DOMAIN T.rows = 1..n
      /\ Len(T.columns) \in Nat /\ id \in 0..Len(T.columns) /\ Table(T)
      /\ \A i \in 1..n : Len(T.rows[i]) <= Len(T.columns)
  BY ColumnFound DEF Table
<1> HIDE DEF T, row, id
<1>3. /\ rows \in Seq(Seq(Nat)) /\ DOMAIN rows = 1..(n + 1)
      /\ \A i \in 1..(n + 1) : rows[i] = IF i = n + 1 THEN row ELSE T.rows[i]
  BY <1>1, <1>2
<1> HIDE DEF rows, n
<1>4. \A i \in DOMAIN rows : Len(rows[i]) <= Len(T.columns)
  <2> TAKE i \in DOMAIN rows
  <2>1. i \in 1..(n + 1)
    BY <1>3
  <2>2. CASE i = n + 1
    <3>1. rows[i] = row
      BY <1>3, <2>1, <2>2
    <3> QED
      BY <1>1, <1>2, <3>1
  <2>3. CASE i # n + 1
    <3>1. i \in 1..n
      BY <1>2, <2>1, <2>3
    <3>2. rows[i] = T.rows[i]
      BY <1>3, <2>1, <2>3
    <3> QED
      BY <1>2, <3>1, <3>2
  <2> QED
    BY <2>2, <2>3
<1>5. Table(new) /\ new.columns = T.columns /\ new.rows = rows
  BY <1>2, <1>3, <1>4, WithRowsIs
<1> HIDE DEF new
<1>6. ASSUME Fresh(T), id # 0, NEW i \in 1..(n + 1), id \in DOMAIN rows[i], rows[i][id] > 100
      PROVE  rows[i][id] = Generated(i)
  <2>1. CASE i = n + 1
    <3>1. row[id] \in Nat
      BY <1>1, <1>3, <1>6, <2>1
    <3> QED
      BY <1>1, <1>3, <1>6, <2>1, <3>1
  <2>2. CASE i # n + 1
    <3>1. i \in 1..n /\ rows[i] = T.rows[i]
      BY <1>2, <1>3, <2>2
    <3> QED
      BY <1>2, <1>6, <3>1 DEF Fresh, id
  <2> QED
    BY <2>1, <2>2
<1>7. Fresh(T) => Fresh(new)
  BY <1>3, <1>5, <1>6 DEF Fresh, id
<1> QED
  BY <1>5, <1>7 DEF new, rows, row, T

(* DELETE keeps rows of the table, all of them when it counts none.        *)
LEMMA DeleteKeeps ==
  ASSUME NEW t \in DOMAIN tables, Table(tables[t]), NEW where, NEW params
  PROVE  LET T == tables[t]
             done == execDelete(t, where, params)
         IN  /\ Table(WithRows(T, done.rows))
             /\ ~ done.n > 0 => done.rows = T.rows
             /\ done.how # "ok" => done.rows = T.rows
<1> DEFINE T == tables[t]
           n == Len(T.rows)
           I == Judged(t, where, params, "no")
           done == execDelete(t, where, params)
           W == {row \in Seq(Nat) : Len(row) <= Len(T.columns)}
<1>1. /\ Table(T) /\ n \in Nat /\ DOMAIN T.rows = 1..n /\ T.rows \in Seq(Seq(Nat))
      /\ \A i \in 1..n : Len(T.rows[i]) <= Len(T.columns)
  BY DEF Table
<1>2. I \in SUBSET (1..n)
  BY <1>1 DEF Judged
<1>3. T.rows \in Seq(W)
  <2> HIDE DEF T
  <2>1. \A i \in 1..n : T.rows[i] \in W
    BY <1>1
  <2> HIDE DEF W
  <2>2. T.rows \in [1..n -> W] /\ n \in Nat
    BY <1>1, <2>1
  <2> HIDE DEF n
  <2> QED
    BY <2>2
<1>4. /\ Kept(T.rows, I) \in Seq(W)
      /\ Len(Kept(T.rows, I)) = Cardinality(I)
      /\ I = 1..n => Kept(T.rows, I) = T.rows
  <2> HIDE DEF T, I, W
  <2> QED
    BY <1>1, <1>2, <1>3, KeptAre
<1>5. \/ done = [rows |-> T.rows, n |-> 0, how |-> "error"]
      \/ done = [rows |-> Kept(T.rows, I), n |-> n - Len(Kept(T.rows, I)), how |-> "ok"]
  <2> HIDE DEF I
  <2> QED
    BY DEF execDelete, Refused, I
<1>6. Cardinality(I) \in Nat /\ (Cardinality(I) >= n => I = 1..n)
  <2>1. IsFiniteSet(1..n) /\ Cardinality(1..n) = n
    BY <1>1, FS_Interval
  <2>2. IsFiniteSet(I) /\ Cardinality(I) <= Cardinality(1..n) /\ (Cardinality(I) = Cardinality(1..n) => I = 1..n)
    BY <1>2, <2>1, FS_Subset
  <2>3. Cardinality(I) \in Nat
    BY <2>2, FS_CardinalityType
  <2> HIDE DEF I, n
  <2> QED
    BY <1>1, <2>1, <2>2, <2>3
<1> HIDE DEF I, n
<1>7. ~ done.n > 0 => done.rows = T.rows
  <2> HIDE DEF T, done, W
  <2> QED
    BY <1>1, <1>4, <1>5, <1>6
<1>8. done.how # "ok" => done.rows = T.rows
  <2> HIDE DEF T, done, W
  <2> QED
    BY <1>5
<1>9. done.rows \in Seq(W)
  <2> HIDE DEF T, done, W
  <2> QED
    BY <1>3, <1>4, <1>5
<1>10. done.rows \in Seq(Seq(Nat)) /\ \A i \in DOMAIN done.rows : Len(done.rows[i]) <= Len(T.columns)
  <2> HIDE DEF T, done
  <2> QED
    BY <1>9
<1>11. Table(WithRows(T, done.rows))
  <2> HIDE DEF T, done
  <2> QED
    BY <1>1, <1>10, WithRowsIs
<1> QED
  BY <1>7, <1>8, <1>11

(* UPDATE leaves the rows in their places, and puts parameters in them.    *)
LEMMA UpdateKeeps ==
  ASSUME NEW t \in DOMAIN tables, Table(tables[t]), NEW assignments \in SetLists, NEW where,
         NEW params \in Params
  PROVE  LET T == tables[t]
             new == WithRows(T, execUpdate(t, assignments, where, params).rows)
         IN  Table(new) /\ (Fresh(T) => Fresh(new))
<1> DEFINE T == tables[t]
           n == Len(T.rows)
           w == Len(assignments)
           rows == execUpdate(t, assignments, where, params).rows
           new == WithRows(T, rows)
           done(i) == Assigned(T.columns, T.rows[i], assignments, params).row
           id == colIndex(T.columns, "id")
<1>1. /\ Table(T) /\ n \in Nat /\ T.rows \in RowsOf(n) /\ T.rows \in Seq(Seq(Nat))
      /\ \A i \in 1..n : T.rows[i] \in Seq(Nat) /\ Len(T.rows[i]) <= Len(T.columns)
  BY DEF Table, RowsOf
<1>2. /\ params \in Seq(Nat) /\ \A k \in DOMAIN params : ~ params[k] > 100
      /\ w \in Nat /\ DOMAIN assignments = 1..w
  <2>1. assignments \in Seq([column : STRING, paramIdx : Nat])
    BY ListsAssumption
  <2> QED
    BY <2>1, ParamsAre
<1> HIDE DEF T, n, w
<1>3. rows \in Seq(Seq(Nat)) /\ Len(rows) = n /\ \A i \in 1..n : rows[i] \in {T.rows[i], done(i)}
  <2>1. CASE ~ParsesUpdate(where)
    <3>1. rows = T.rows
      BY <2>1 DEF execUpdate, Refused, T
    <3>2. Len(T.rows) = n
      BY DEF n
    <3> HIDE DEF rows, done
    <3> QED
      BY <1>1, <3>1, <3>2
  <2>2. CASE ParsesUpdate(where)
    <3> DEFINE u == Updated(T.columns, T.rows, assignments, parseConditions(where), params)
    <3>1. rows = u.rows
      BY <2>2 DEF execUpdate, T
    <3>2. u \in RowsState /\ Len(u.rows) = n /\ \A i \in 1..n : u.rows[i] \in {T.rows[i], done(i)}
      BY <1>1, <1>2, UpdatedAre
    <3> HIDE DEF u, rows, done
    <3> QED
      BY <3>1, <3>2 DEF RowsState
  <2> QED
    BY <2>1, <2>2
<1> HIDE DEF rows
<1>4. ASSUME NEW i \in 1..n
      PROVE  /\ Len(rows[i]) = Len(T.rows[i]) /\ DOMAIN rows[i] = DOMAIN T.rows[i]
             /\ \A c \in DOMAIN rows[i] : rows[i][c] > 100 => rows[i][c] = T.rows[i][c]
  <2>1. T.rows[i] \in Seq(Nat)
    BY <1>1
  <2>2. done(i) \in Seq(Nat) /\ Len(done(i)) = Len(T.rows[i])
        /\ \A c \in DOMAIN T.rows[i] : OrParam(done(i)[c], T.rows[i][c], params)
    <3> DEFINE row == T.rows[i]
               s == Assigned(T.columns, row, assignments, params)
    <3>1. row \in Seq(Nat)
      BY <2>1
    <3> HIDE DEF row
    <3>2. AssignsTo(s, row, params)
      BY <1>2, <3>1, AssignedType
    <3> QED
      BY <3>2 DEF row, AssignsTo
  <2> HIDE DEF done
  <2>3. DOMAIN done(i) = DOMAIN T.rows[i]
    BY <2>1, <2>2
  <2>4. CASE rows[i] = T.rows[i]
    BY <2>4
  <2>5. CASE rows[i] = done(i)
    <3>1. ASSUME NEW c \in DOMAIN T.rows[i], done(i)[c] > 100 PROVE done(i)[c] = T.rows[i][c]
      BY <1>2, <2>2, <3>1 DEF OrParam
    <3> QED
      BY <2>2, <2>3, <2>5, <3>1
  <2> QED
    BY <1>3, <2>4, <2>5
<1>5. DOMAIN rows = 1..n /\ DOMAIN T.rows = 1..n
  BY <1>1, <1>3 DEF n
<1>6. Table(new) /\ new.columns = T.columns /\ new.rows = rows
  <2>1. \A i \in DOMAIN rows : Len(rows[i]) <= Len(T.columns)
    BY <1>1, <1>4, <1>5
  <2> QED
    BY <1>1, <1>3, <2>1, WithRowsIs
<1> HIDE DEF new
<1>7. Fresh(T) => Fresh(new)
  <2>1. ASSUME Fresh(T), id # 0, NEW i \in 1..n, id \in DOMAIN rows[i], rows[i][id] > 100
        PROVE  rows[i][id] = Generated(i)
    <3>1. rows[i][id] = T.rows[i][id] /\ id \in DOMAIN T.rows[i]
      BY <1>4, <2>1
    <3> QED
      BY <1>5, <2>1, <3>1 DEF Fresh
  <2> QED
    BY <1>5, <1>6, <2>1 DEF Fresh
<1> QED
  BY <1>6, <1>7 DEF new, T, rows

(* A statement that puts other rows into table t.                          *)
LEMMA TableChanges ==
  ASSUME DBInv, NEW t \in DOMAIN tables, NEW rows, Table(WithRows(tables[t], rows)),
         tables' = [tables EXCEPT ![t].rows = rows],
         \A u \in DOMAIN tables : u \notin shrunk' => u \notin shrunk,
         t \notin shrunk' => Fresh(WithRows(tables[t], rows))
  PROVE  DBInv'
<1>1. /\ tables' = [u \in DOMAIN tables |-> tables'[u]] /\ DOMAIN tables' = DOMAIN tables
      /\ tables'[t] = WithRows(tables[t], rows)
      /\ \A u \in DOMAIN tables : u # t => tables'[u] = tables[u]
  BY DEF DBInv, WithRows
<1>2. \A u \in DOMAIN tables : Table(tables'[u]) /\ (u \notin shrunk' => Fresh(tables'[u]))
  BY <1>1 DEF DBInv
<1> QED
  BY <1>1, <1>2 DEF DBInv

(* insertRow keeps the invariant, whether Exec or Query calls it.          *)
LEMMA insertRowKeeps ==
  ASSUME DBInv, NEW t \in DOMAIN tables, NEW cols \in InsertLists, NEW params \in Params,
         Len(params) = Len(IF cols = <<>> THEN tables[t].columns ELSE cols),
         insertRow(t, cols, params)
  PROVE  DBInv'
<1> DEFINE rows == Append(tables[t].rows, InsertedRow(t, cols, params))
<1>1. Table(tables[t]) /\ (t \notin shrunk => Fresh(tables[t]))
  BY DEF DBInv
<1>2. Table(WithRows(tables[t], rows)) /\ (Fresh(tables[t]) => Fresh(WithRows(tables[t], rows)))
  BY <1>1, InsertKeeps
<1>3. tables' = [tables EXCEPT ![t].rows = rows] /\ shrunk' = shrunk
  BY DEF insertRow
<1> HIDE DEF rows
<1> QED
  BY <1>1, <1>2, <1>3, TableChanges

(* The invariant: tables are well formed, and in a table from which no row *)
(* was deleted since it was seeded every generated id is the one counted   *)
(* for the place its row is in.                                            *)
THEOREM DatabaseInvariant == DBSpec => []DBInv
<1>1. EmptyDB => DBInv
  BY DEF EmptyDB, DBInv
<1>2. DBInv /\ [Statement]_dbVars => DBInv'
  <2> SUFFICES ASSUME DBInv, [Statement]_dbVars PROVE DBInv'
    OBVIOUS
  <2>1. ASSUME NEW t \in Tables, NEW seed \in Seeds, SeedRows(t, seed) PROVE DBInv'
    <3>1. Table(seed) /\ Fresh(seed)
      BY SeedIs
    <3>2. /\ tables' = [u \in DOMAIN tables \cup {t} |-> IF u = t THEN seed ELSE tables[u]]
          /\ shrunk' = shrunk \ {t}
      BY <2>1 DEF SeedRows
    <3>3. \A u \in DOMAIN tables \cup {t} :
            Table(tables'[u]) /\ (u \notin shrunk' => Fresh(tables'[u]))
      BY <3>1, <3>2 DEF DBInv
    <3>4. DOMAIN tables' = DOMAIN tables \cup {t} /\ tables' = [u \in DOMAIN tables' |-> tables'[u]]
      BY <3>2
    <3> QED
      BY <3>3, <3>4 DEF DBInv
  <2>2. ASSUME NEW t \in Tables, NEW form \in {"columns", "values", "bare"}, NEW cols \in InsertLists,
               NEW params \in Params, execInsert(form, t, cols, params)
        PROVE  DBInv'
    <3>1. CASE Insertable(form, t, cols, params)
      <4>1. /\ t \in DOMAIN tables
            /\ Len(params) = Len(IF cols = <<>> THEN tables[t].columns ELSE cols)
        BY <3>1, TablesAssumption DEF Insertable, InsertTable, DBInv
      <4>2. insertRow(t, cols, params)
        BY <2>2, <3>1 DEF execInsert
      <4> QED
        BY <4>1, <4>2, insertRowKeeps
    <3>2. CASE ~Insertable(form, t, cols, params)
      <4>1. UNCHANGED <<tables, shrunk>>
        BY <2>2, <3>2 DEF execInsert
      <4> QED
        BY <4>1 DEF DBInv
    <3> QED
      BY <3>1, <3>2
  <2>3. ASSUME NEW t \in Tables, NEW cols \in InsertLists, NEW returning, NEW params \in Params,
               queryInsert(t, cols, params, returning)
        PROVE  DBInv'
    <3>1. CASE returning # <<>> /\ Insertable("columns", t, cols, params)
      <4>1. /\ t \in DOMAIN tables
            /\ Len(params) = Len(IF cols = <<>> THEN tables[t].columns ELSE cols)
        BY <3>1 DEF Insertable, InsertTable
      <4>2. insertRow(t, cols, params)
        BY <2>3, <3>1 DEF queryInsert
      <4> QED
        BY <4>1, <4>2, insertRowKeeps
    <3>2. CASE ~(returning # <<>> /\ Insertable("columns", t, cols, params))
      <4>1. UNCHANGED <<tables, shrunk>>
        BY <2>3, <3>2 DEF queryInsert
      <4> QED
        BY <4>1 DEF DBInv
    <3> QED
      BY <3>1, <3>2
  <2>4. ASSUME NEW t \in Tables, NEW where, NEW params \in Params, ExecDelete(t, where, params)
        PROVE  DBInv'
    <3>1. CASE t \in DOMAIN tables
      <4> DEFINE done == execDelete(t, where, params)
      <4>1. Table(tables[t]) /\ (t \notin shrunk => Fresh(tables[t]))
        BY <3>1 DEF DBInv
      <4>2. Table(WithRows(tables[t], done.rows)) /\ (~ done.n > 0 => done.rows = tables[t].rows)
        BY <3>1, <4>1, DeleteKeeps
      <4>3. /\ tables' = [tables EXCEPT ![t].rows = done.rows]
            /\ shrunk' = IF done.n > 0 THEN shrunk \cup {t} ELSE shrunk
        BY <2>4, <3>1 DEF ExecDelete
      <4> HIDE DEF done
      <4>4. WithRows(tables[t], tables[t].rows) = tables[t]
        BY <4>1 DEF Table, WithRows
      <4>5. t \notin shrunk' => Fresh(WithRows(tables[t], done.rows))
        BY <4>1, <4>2, <4>3, <4>4
      <4> QED
        BY <3>1, <4>2, <4>3, <4>5, TableChanges
    <3>2. CASE t \notin DOMAIN tables
      <4>1. UNCHANGED <<tables, shrunk>>
        BY <2>4, <3>2 DEF ExecDelete
      <4> QED
        BY <4>1 DEF DBInv
    <3> QED
      BY <3>1, <3>2
  <2>5. ASSUME NEW t \in Tables, NEW assignments \in SetLists, NEW where, NEW params \in Params,
               ExecUpdate(t, assignments, where, params)
        PROVE  DBInv'
    <3>1. CASE t \in DOMAIN tables
      <4> DEFINE rows == execUpdate(t, assignments, where, params).rows
      <4>1. Table(tables[t]) /\ (t \notin shrunk => Fresh(tables[t]))
        BY <3>1 DEF DBInv
      <4>2. Table(WithRows(tables[t], rows)) /\ (Fresh(tables[t]) => Fresh(WithRows(tables[t], rows)))
        BY <3>1, <4>1, UpdateKeeps
      <4>3. tables' = [tables EXCEPT ![t].rows = rows] /\ shrunk' = shrunk
        BY <2>5, <3>1 DEF ExecUpdate
      <4> HIDE DEF rows
      <4> QED
        BY <3>1, <4>1, <4>2, <4>3, TableChanges
    <3>2. CASE t \notin DOMAIN tables
      <4>1. UNCHANGED <<tables, shrunk>>
        BY <2>5, <3>2 DEF ExecUpdate
      <4> QED
        BY <4>1 DEF DBInv
    <3> QED
      BY <3>1, <3>2
  <2>6. CASE UNCHANGED dbVars
    BY <2>6 DEF dbVars, DBInv
  <2> QED
    BY <2>1, <2>2, <2>3, <2>4, <2>5, <2>6 DEF Statement
<1> QED
  BY <1>1, <1>2, PTL DEF DBSpec

(* Generated ids tell rows apart (insertRow): two rows with the same one   *)
(* would be in the same place.                                             *)
THEOREM GeneratedIdsStayDistinct == DBSpec => []GeneratedIdsDistinct
<1>1. DBInv => GeneratedIdsDistinct
  <2> SUFFICES ASSUME DBInv, NEW t \in DOMAIN tables \ shrunk,
                      colIndex(tables[t].columns, "id") # 0,
                      NEW i \in DOMAIN tables[t].rows, NEW j \in DOMAIN tables[t].rows, i # j,
                      colIndex(tables[t].columns, "id") \in DOMAIN tables[t].rows[i],
                      colIndex(tables[t].columns, "id") \in DOMAIN tables[t].rows[j],
                      tables[t].rows[i][colIndex(tables[t].columns, "id")] > 100
               PROVE  tables[t].rows[i][colIndex(tables[t].columns, "id")]
                        # tables[t].rows[j][colIndex(tables[t].columns, "id")]
    BY DEF GeneratedIdsDistinct
  <2> DEFINE T == tables[t]
             id == colIndex(T.columns, "id")
  <2>1. Fresh(T) /\ i \in Nat /\ j \in Nat
    <3>1. Fresh(T) /\ T.rows \in Seq(Seq(Nat))
      BY DEF DBInv, Table
    <3>2. \A rows \in Seq(Seq(Nat)) : DOMAIN rows \subseteq Nat
      OBVIOUS
    <3> HIDE DEF T
    <3>3. DOMAIN T.rows \subseteq Nat
      BY <3>1, <3>2
    <3> QED
      BY <3>1, <3>3 DEF T
  <2>2. SUFFICES ASSUME T.rows[i][id] = T.rows[j][id] PROVE FALSE
    OBVIOUS
  <2>3. T.rows[i][id] = Generated(i) /\ T.rows[j][id] = Generated(j)
    BY <2>1, <2>2 DEF Fresh
  <2>4. Generated(i) = Generated(j)
    <3> HIDE DEF T, id
    <3> QED
      BY <2>2, <2>3
  <2>5. 100 + i = 100 + j
    BY <2>4 DEF Generated
  <2> QED
    BY <2>1, <2>5
<1> QED
  BY <1>1, DatabaseInvariant, PTL

(* A statement that fails and has changed rows is an UPDATE or an INSERT   *)
(* with RETURNING: DELETE and a refused INSERT leave the tables alone.     *)
THEOREM OthersFailWhole == DBSpec => OnlyTheseFailHalfway
<1>1. DBInv /\ [Statement]_dbVars =>
        [outcome'.how # "ok" /\ tables' # tables => outcome'.op \in {"update", "returning"}]_dbVars
  <2> SUFFICES ASSUME DBInv, Statement, outcome'.how # "ok", tables' # tables
               PROVE  outcome'.op \in {"update", "returning"}
    OBVIOUS
  <2>1. ASSUME NEW t \in Tables, NEW seed \in Seeds, SeedRows(t, seed) PROVE FALSE
    BY <2>1 DEF SeedRows, Answer
  <2>2. ASSUME NEW t \in Tables, NEW form, NEW cols, NEW params, execInsert(form, t, cols, params)
        PROVE  FALSE
    BY <2>2 DEF execInsert, Answer
  <2>3. ASSUME NEW t \in Tables, NEW cols, NEW returning, NEW params,
               queryInsert(t, cols, params, returning)
        PROVE  outcome'.op = "returning"
    BY <2>3 DEF queryInsert, Answer
  <2>4. ASSUME NEW t \in Tables, NEW where, NEW params, ExecDelete(t, where, params) PROVE FALSE
    <3> DEFINE done == execDelete(t, where, params)
    <3>1. /\ t \in DOMAIN tables /\ tables' = [tables EXCEPT ![t].rows = done.rows]
          /\ outcome'.how = done.how
      BY <2>4 DEF ExecDelete, Answer
    <3>2. Table(tables[t])
      BY <3>1 DEF DBInv
    <3>3. done.rows = tables[t].rows
      BY <3>1, <3>2, DeleteKeeps
    <3> HIDE DEF done
    <3>4. [tables[t] EXCEPT !.rows = tables[t].rows] = tables[t]
      BY <3>2 DEF Table
    <3>5. tables' = [u \in DOMAIN tables |-> tables[u]]
      BY <3>1, <3>3, <3>4
    <3> QED
      BY <3>5 DEF DBInv
  <2>5. ASSUME NEW t \in Tables, NEW assignments, NEW where, NEW params,
               ExecUpdate(t, assignments, where, params)
        PROVE  outcome'.op = "update"
    BY <2>5 DEF ExecUpdate, Answer
  <2> QED
    BY <2>1, <2>2, <2>3, <2>4, <2>5 DEF Statement
<1> QED
  BY <1>1, DatabaseInvariant, PTL DEF DBSpec, OnlyTheseFailHalfway

(* A WHERE joined by AND is parsed into all its conditions.                *)
LEMMA ClausesParsed ==
  ASSUME NEW where \in Wheres({"AND"})
  PROVE  /\ parseConditions(where) = where.clauses /\ ParsesConditions(where)
         /\ \E n \in Nat : DOMAIN where.clauses = 1..n
<1>1. /\ where.join = "AND"
      /\ where.clauses \in {<<>>} \cup {<<c>> : c \in Clauses} \cup (Clauses \X Clauses)
  BY DEF Wheres
<1>2. ~Unsplit(where)
  BY <1>1 DEF Unsplit
<1>3. \E n \in Nat : DOMAIN where.clauses = 1..n
  <2>1. CASE where.clauses = <<>>
    <3>1. DOMAIN where.clauses = 1..0
      BY <2>1
    <3> QED
      BY <3>1
  <2>2. CASE where.clauses \in {<<c>> : c \in Clauses}
    <3>1. DOMAIN where.clauses = 1..1
      BY <2>2
    <3> QED
      BY <3>1
  <2>3. CASE where.clauses \in Clauses \X Clauses
    <3>1. DOMAIN where.clauses = 1..2
      BY <2>3
    <3> QED
      BY <3>1
  <2> QED
    BY <1>1, <2>1, <2>2, <2>3
<1> QED
  BY <1>2, <1>3 DEF parseConditions, ParsesConditions

(* Each row of a well-formed statement is judged by all its conditions.    *)
LEMMA RowsJudged ==
  ASSUME NEW t, NEW where \in Wheres({"AND"}), NEW params, WellFormed(t, where, params),
         NEW i \in DOMAIN tables[t].rows
  PROVE  LET m == matchesConditions(tables[t].columns, tables[t].rows[i], parseConditions(where), params)
         IN  m = IF Satisfies(t, tables[t].rows[i], where, params) THEN "yes" ELSE "no"
<1> DEFINE columns == tables[t].columns
           row == tables[t].rows[i]
           conditions == where.clauses
           m == matchesConditions(columns, row, conditions, params)
<1>1. parseConditions(where) = conditions
  BY ClausesParsed
<1>2. PICK n \in Nat : DOMAIN conditions = 1..n
  BY ClausesParsed
<1>3. \A k \in 1..n : Verdict(columns, row, conditions[k], params) # "error"
  BY <1>2 DEF WellFormed
<1>4. Satisfies(t, row, where, params) <=> \A k \in 1..n : Verdict(columns, row, conditions[k], params) = "yes"
  BY <1>2 DEF Satisfies
<1> HIDE DEF columns, row, conditions
<1>5. /\ m \in Verdicts
      /\ m = "yes" <=> \A k \in 1..n : Verdict(columns, row, conditions[k], params) = "yes"
      /\ m = "error" => \E k \in 1..n : Verdict(columns, row, conditions[k], params) = "error"
  BY <1>2, ConditionsDecide
<1> HIDE DEF m
<1>6. m = IF Satisfies(t, row, where, params) THEN "yes" ELSE "no"
  BY <1>3, <1>4, <1>5 DEF Verdicts
<1> QED
  BY <1>1, <1>6 DEF m, columns, row

(* SELECT returns and DELETE removes exactly the rows that satisfy every   *)
(* condition (querySelect, execDelete, matchesConditions).                 *)
THEOREM WheresAreEvaluatedInFull == DBSpec => []WhereIsEvaluatedInFull
<1>1. DBInv => WhereIsEvaluatedInFull
  <2> SUFFICES ASSUME DBInv, NEW t \in DOMAIN tables, NEW where \in Wheres({"AND"}),
                      NEW params \in Params,
                      WellFormed(t, where, params)
               PROVE  LET rows == tables[t].rows
                          gone == execDelete(t, where, params)
                          chosen == {i \in DOMAIN rows : Satisfies(t, rows[i], where, params)}
                      IN  /\ querySelect(t, where, params).rows = Kept(rows, chosen)
                          /\ gone.rows = Kept(rows, DOMAIN rows \ chosen)
                          /\ gone.n = Cardinality(chosen)
    BY DEF WhereIsEvaluatedInFull, InFull
  <2> DEFINE rows == tables[t].rows
             n == Len(rows)
             chosen == {i \in DOMAIN rows : Satisfies(t, rows[i], where, params)}
             J(v) == Judged(t, where, params, v)
  <2>1. n \in Nat /\ DOMAIN rows = 1..n /\ rows \in Seq(Seq(Nat))
    BY DEF DBInv, Table
  <2>2. \A i \in 1..n : matchesConditions(tables[t].columns, rows[i], parseConditions(where), params)
                         = IF i \in chosen THEN "yes" ELSE "no"
    <3> TAKE i \in 1..n
    <3>1. i \in DOMAIN rows /\ (i \in chosen <=> Satisfies(t, rows[i], where, params))
      BY <2>1
    <3> HIDE DEF chosen
    <3> QED
      BY <3>1, RowsJudged
  <2>3. chosen \in SUBSET (1..n)
    BY <2>1
  <2> HIDE DEF chosen
  <2>4. J("yes") = chosen /\ J("no") = (1..n) \ chosen /\ J("error") = {}
    BY <2>1, <2>2, <2>3 DEF Judged
  <2>5. ParsesConditions(where)
    BY ClausesParsed
  <2> HIDE DEF J, n
  <2>6. querySelect(t, where, params).rows = Kept(rows, chosen)
    BY <2>4, <2>5 DEF querySelect, J
  <2>7. /\ execDelete(t, where, params).rows = Kept(rows, (1..n) \ chosen)
        /\ execDelete(t, where, params).n = n - Len(Kept(rows, (1..n) \ chosen))
    BY <2>4, <2>5 DEF execDelete, J, n
  <2> HIDE DEF rows
  <2>8. Len(Kept(rows, (1..n) \ chosen)) = Cardinality((1..n) \ chosen)
    <3>1. (1..n) \ chosen \in SUBSET (DOMAIN rows)
      BY <2>1
    <3> QED
      BY <2>1, <3>1, KeptAre
  <2>9. n - Cardinality((1..n) \ chosen) = Cardinality(chosen)
    <3>1. IsFiniteSet(1..n) /\ Cardinality(1..n) = n
      BY <2>1, FS_Interval
    <3>2. IsFiniteSet(chosen)
      BY <2>3, <3>1, FS_Subset
    <3>3. Cardinality(chosen) \in Nat
      BY <3>2, FS_CardinalityType
    <3>4. Cardinality((1..n) \ chosen) = Cardinality(1..n) - Cardinality((1..n) \cap chosen)
      BY <3>1, FS_Difference
    <3>5. (1..n) \cap chosen = chosen
      BY <2>3
    <3>6. Cardinality((1..n) \ chosen) = n - Cardinality(chosen)
      BY <3>1, <3>4, <3>5
    <3> DEFINE c == Cardinality(chosen)
               d == Cardinality((1..n) \ chosen)
    <3>7. d = n - c /\ c \in Nat
      BY <3>3, <3>6
    <3> HIDE DEF c, d
    <3>8. n - d = c
      BY <2>1, <3>7
    <3> QED
      BY <3>8 DEF c, d
  <2> QED
    BY <2>1, <2>6, <2>7, <2>8, <2>9 DEF rows, chosen
<1> QED
  BY <1>1, DatabaseInvariant, PTL

(* In a table whose columns have different names, colIndex leads to the    *)
(* column of that name.                                                    *)
LEMMA SameColumn ==
  ASSUME NEW T, Table(T), NEW c \in 1..Len(T.columns), NEW col
  PROVE  colIndex(T.columns, col) = c <=> col = T.columns[c]
<1>1. /\ T.columns \in Seq(STRING) /\ DOMAIN T.columns = 1..Len(T.columns)
      /\ \A d \in 1..Len(T.columns) : d # c => T.columns[d] # T.columns[c]
  BY DEF Table
<1> DEFINE columns == T.columns
<1> HIDE DEF columns
<1>2. /\ columns \in Seq(STRING) /\ c \in 1..Len(columns) /\ c # 0
      /\ \A d \in 1..Len(columns) : d # c => columns[d] # columns[c]
  BY <1>1 DEF columns
<1>3. /\ colIndex(columns, col) # 0 => columns[colIndex(columns, col)] = col
      /\ columns[c] = col => colIndex(columns, col) = c
  BY <1>2, ColumnFound
<1> QED
  BY <1>2, <1>3 DEF columns

(* Each assignment can be made to this row.                                *)
Assignable(T, row, n, set, params) ==
  \A k \in 1..n : set[k].paramIdx \in DOMAIN params /\ InRow(T.columns, row, set[k].column)

(* What UpdateChangesWhatItSays asks of a cell.                            *)
CellSet(s, t, row, set, params, c) ==
  /\ s.how = "ok"
  /\ \A k \in LastSet(t, set, c) : s.row[c] = params[set[k].paramIdx]
  /\ LastSet(t, set, c) = {} => s.row[c] = row[c]

(* Assigned gives it to each cell of a row that can be assigned to.        *)
LEMMA CellIs ==
  ASSUME NEW t, NEW T, T = tables[t], Table(T), NEW params \in Seq(Nat), NEW n \in Nat,
         NEW set, DOMAIN set = 1..n, NEW row \in Seq(Nat), Len(row) <= Len(T.columns), NEW c \in DOMAIN row,
         Assignable(T, row, n, set, params)
  PROVE  CellSet(Assigned(T.columns, row, set, params), t, row, set, params, c)
<1> DEFINE w == Len(row)
           columns == T.columns
           d(k) == colIndex(columns, set[k].column)
           s == Assigned(columns, row, set, params)
           last == LastSet(t, set, c)
<1>1. w \in Nat /\ row \in [1..w -> Nat] /\ DOMAIN row = 1..w /\ c \in 1..w
  OBVIOUS
<1>2. \A k \in 1..n : d(k) \in 1..w /\ set[k].paramIdx \in DOMAIN params
  BY <1>1 DEF InRow, Assignable
<1>3. \A k \in 1..n : d(k) = c <=> set[k].column = T.columns[c]
  <2>1. c \in 1..Len(T.columns)
    <3>1. Len(T.columns) \in Nat
      BY DEF Table
    <3> QED
      BY <1>1, <3>1
  <2> QED
    BY <2>1, SameColumn
<1>4. Len(set) = n
  <2>1. \A x \in Nat : DOMAIN set = 1..x => x = n
    OBVIOUS
  <2>2. Len(set) \in Nat /\ DOMAIN set = 1..Len(set)
    OBVIOUS
  <2> QED
    BY <2>1, <2>2
<1> HIDE DEF w, columns
<1>5. /\ s.how = "ok"
      /\ \A k \in 1..n : d(k) = c /\ (\A l \in (k + 1)..n : d(l) # c)
                           => s.row[c] = params[set[k].paramIdx]
      /\ (\A k \in 1..n : d(k) # c) => s.row[c] = row[c]
  <2>1. CanAssign(columns, w, n, set, params)
    BY <1>2 DEF CanAssign
  <2> HIDE DEF s
  <2>2. (* Each cell got the value of the last assignment to it, if there is one.  *)
AssignsAll(s, columns, w, row, n, set, params)
    BY <1>1, <2>1, AssignedInFull DEF s
  <2> QED
    BY <1>1, <2>2 DEF AssignsAll
<1> HIDE DEF s
<1>6. \A k \in last : k \in 1..n /\ d(k) = c /\ \A l \in (k + 1)..n : d(l) # c
  <2> TAKE k \in last
  <2>1. k \in 1..n /\ set[k].column = T.columns[c] /\ \A l \in k+1..n : set[l].column # T.columns[c]
    BY <1>4 DEF LastSet
  <2>2. \A l \in (k + 1)..n : l \in 1..n
    BY <2>1
  <2> HIDE DEF d, last
  <2> QED
    BY <1>3, <2>1, <2>2
<1>7. ASSUME last = {} PROVE \A k \in 1..n : d(k) # c
  <2> DEFINE S == {k \in 1..n : d(k) = c}
  <2>1. SUFFICES ASSUME S # {} PROVE FALSE
    OBVIOUS
  <2>2. Max(S) \in S /\ \A k \in S : k <= Max(S)
    <3>1. S \in SUBSET (1..n)
      OBVIOUS
    <3> HIDE DEF S
    <3> QED
      BY <2>1, <3>1, GreatestOf
  <2>3. PICK k \in 1..n : d(k) = c /\ \A l \in (k + 1)..n : d(l) # c
    <3>1. Max(S) \in 1..n /\ d(Max(S)) = c
      BY <2>2
    <3>2. ASSUME NEW l \in (Max(S) + 1)..n PROVE d(l) # c
      <4>1. l \in 1..n /\ ~ l <= Max(S)
        BY <3>1
      <4> HIDE DEF d
      <4> QED
        BY <2>2, <4>1
    <3> QED
      BY <3>1, <3>2
  <2>4. set[k].column = T.columns[c] /\ \A l \in k+1..n : set[l].column # T.columns[c]
    <3>1. \A l \in (k + 1)..n : l \in 1..n
      OBVIOUS
    <3> HIDE DEF d, S
    <3> QED
      BY <1>3, <2>3, <3>1
  <2>5. k \in last
    BY <1>4, <2>4 DEF LastSet
  <2> QED
    BY <1>7, <2>5
<1> HIDE DEF d, last
<1>8. s.how = "ok" /\ (\A k \in last : s.row[c] = params[set[k].paramIdx]) /\ (last = {} => s.row[c] = row[c])
  BY <1>5, <1>6, <1>7
<1> QED
  BY <1>8 DEF s, last, columns, CellSet

(* A well-formed UPDATE changes the rows that satisfy its WHERE, in the    *)
(* columns it sets, and counts them (execUpdate).                          *)
THEOREM UpdatesChangeWhatTheySay == DBSpec => []UpdateChangesWhatItSays
<1>1. DBInv => UpdateChangesWhatItSays
  <2> SUFFICES ASSUME DBInv, NEW t \in DOMAIN tables, NEW where \in Wheres({"AND"}),
                      NEW params \in Params,
                      NEW set \in SetLists, UpdateApplies(t, set, where, params)
               PROVE  ChangesWhatItSays(t, set, where, params)
    BY DEF UpdateChangesWhatItSays
  <2> DEFINE T == tables[t]
             rows == T.rows
             n == Len(rows)
             w == Len(set)
             yes == {i \in DOMAIN rows : Satisfies(t, rows[i], where, params)}
             last(c) == LastSet(t, set, c)
             new(i) == Assigned(T.columns, rows[i], set, params)
             done == execUpdate(t, set, where, params)
  <2>1. /\ Table(T) /\ n \in Nat /\ DOMAIN rows = 1..n /\ rows \in RowsOf(n)
        /\ \A i \in 1..n : rows[i] \in Seq(Nat) /\ Len(rows[i]) <= Len(T.columns)
    BY DEF DBInv, Table, RowsOf
  <2>2. params \in Seq(Nat) /\ w \in Nat /\ DOMAIN set = 1..w
    <3>1. set \in Seq([column : STRING, paramIdx : Nat])
      BY ListsAssumption
    <3> QED
      BY <3>1, ParamsAre
  <2>14. WellFormed(t, where, params)
    BY DEF UpdateApplies
  <2>3. \A i \in 1..n : matchesConditions(T.columns, rows[i], where.clauses, params)
                         = IF i \in yes THEN "yes" ELSE "no"
    <3> TAKE i \in 1..n
    <3>1. i \in DOMAIN rows /\ (i \in yes <=> Satisfies(t, rows[i], where, params))
      BY <2>1
    <3>2. parseConditions(where) = where.clauses
      BY ClausesParsed
    <3> HIDE DEF yes
    <3> QED
      BY <2>14, <3>1, <3>2, RowsJudged
  <2>4. \A k \in 1..w : set[k].paramIdx \in DOMAIN params /\ \A i \in 1..n : InRow(T.columns, rows[i], set[k].column)
    <3>1. \A i \in 1..n : rows[i] \in Range(rows)
      BY <2>1 DEF Range
    <3> QED
      BY <2>2, <3>1 DEF UpdateApplies
  <2>5. \A i \in yes : i \in 1..n
    BY <2>1
  <2>6. \A i \in 1..n : i \in yes <=> Satisfies(t, rows[i], where, params)
    BY <2>1
  <2>7. done = Updated(T.columns, rows, set, where.clauses, params)
    <3>1. ParsesUpdate(where) /\ parseConditions(where) = where.clauses
      BY ClausesParsed DEF ParsesUpdate, UpdateApplies
    <3> QED
      BY <3>1 DEF execUpdate
  <2> HIDE DEF w, n, rows, done
  <2>8. ASSUME NEW i \in 1..n, NEW c \in DOMAIN rows[i]
        PROVE  /\ new(i).how = "ok"
               /\ \A k \in last(c) : new(i).row[c] = params[set[k].paramIdx]
               /\ last(c) = {} => new(i).row[c] = rows[i][c]
    <3> DEFINE row == rows[i]
    <3>1. row \in Seq(Nat) /\ Len(row) <= Len(T.columns) /\ c \in DOMAIN row
      BY <2>1
    <3>2. Assignable(T, row, w, set, params)
      BY <2>4 DEF Assignable
    <3>4. T = tables[t]
      OBVIOUS
    <3> HIDE DEF row, T
    <3>3. CellSet(Assigned(T.columns, row, set, params), t, row, set, params, c)
      BY <2>1, <2>2, <3>1, <3>2, <3>4, CellIs
    <3> QED
      BY <3>3 DEF row, CellSet
  <2>9. ASSUME NEW i \in 1..n PROVE new(i).how = "ok"
    <3> DEFINE row == rows[i]
               len == Len(row)
    <3>1. row \in Seq(Nat)
      BY <2>1
    <3>2. len \in Nat /\ DOMAIN row = 1..len /\ row \in [1..len -> Nat]
      BY <3>1
    <3>3. CanAssign(T.columns, len, w, set, params)
      BY <2>4, <3>2 DEF CanAssign, InRow
    <3> HIDE DEF row, len, T
    <3>4. AssignsAll(Assigned(T.columns, row, set, params), T.columns, len, row, w, set, params)
      BY <2>2, <3>2, <3>3, AssignedInFull
    <3> QED
      BY <3>4 DEF AssignsAll, row
  <2> HIDE DEF yes, T
  <2>10. /\ done.how = "ok" /\ done.n = Cardinality(yes) /\ Len(done.rows) = n
         /\ \A i \in 1..n : done.rows[i] = IF i \in yes THEN new(i).row ELSE rows[i]
    <3>1. yes \in SUBSET (1..n)
      BY <2>5
    <3>2. \A i \in (1..n) \ yes : matchesConditions(T.columns, rows[i], where.clauses, params) = "no"
      BY <2>3
    <3>3. \A i \in yes : /\ matchesConditions(T.columns, rows[i], where.clauses, params) = "yes"
                         /\ new(i).how = "ok"
      BY <2>3, <2>5, <2>9
    <3>4. Updates(T.columns, rows, n, set, where.clauses, params, yes)
      BY <3>2, <3>3 DEF Updates
    <3>5. UpdatesAll(Updated(T.columns, rows, set, where.clauses, params), T.columns, rows, n, set, params, yes)
      BY <2>1, <2>2, <3>1, <3>4, UpdatedInFull
    <3> QED
      BY <2>7, <3>5 DEF UpdatesAll
  <2>11. ASSUME NEW i \in 1..n, NEW c \in DOMAIN rows[i]
         PROVE  IF i \in yes /\ last(c) # {}
                  THEN \A k \in last(c) : done.rows[i][c] = params[set[k].paramIdx]
                  ELSE done.rows[i][c] = rows[i][c]
    <3> HIDE DEF last, new
    <3> QED
      BY <2>8, <2>10
  <2>12. \A i \in DOMAIN rows : \A c \in DOMAIN rows[i] :
           IF Satisfies(t, rows[i], where, params) /\ last(c) # {}
             THEN \A k \in last(c) : done.rows[i][c] = params[set[k].paramIdx]
             ELSE done.rows[i][c] = rows[i][c]
    <3> HIDE DEF last
    <3> QED
      BY <2>1, <2>6, <2>11
  <2>13. done.how = "ok" /\ Len(done.rows) = n /\ done.n = Cardinality(yes)
    BY <2>10
  <2> QED
    BY <2>12, <2>13 DEF yes, n, rows, done, T, ChangesWhatItSays
<1> QED
  BY <1>1, DatabaseInvariant, PTL
=============================================================================
