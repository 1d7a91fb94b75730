---------------------------- MODULE PluginStores ----------------------------
(***************************************************************************)
(* The two sets of backends of plugin.KV, plugin.Cache and plugin.Config:  *)
(* the WASM ones, which ask the host and read its answer from the buffer   *)
(* of WasmMalloc (wasm_backends.go, ttlToSeconds), and plugintest's maps   *)
(* with a clock that tests advance (plugintest/backends.go).  Each has to  *)
(* be a store in the sense of StoreSpec, so that a plugin tested with one  *)
(* behaves the same with the other.                                        *)
(*                                                                         *)
(* Durations count in units of which Second make a second.  The host's     *)
(* stores are external: the cache takes a TTL in seconds, 0 for none.      *)
(***************************************************************************)
EXTENDS WasmMalloc

CONSTANTS
  Entries,     \* <<store, key>> with store "kv", "cache" or "config"
  Values,
  Length,      \* Values -> their lengths in bytes
  Empty,       \* the empty string, one of the Values
  None,        \* no value
  TTLs,        \* the TTLs plugins use, of any sign
  Second,
  DurationBits, SecondsBits,   \* the widths of time.Duration and int32
  MaxClock     \* bound: how far time goes

ASSUME EntriesAssumption == \A e \in Entries : e[1] \in {"kv", "cache", "config"}
ASSUME ValuesAssumption == Empty \in Values /\ None \notin Values
ASSUME LengthAssumption ==
  Length \in [Values -> 0..MaxSize] /\ \A v \in Values : Length[v] = 0 <=> v = Empty
ASSUME TTLsAssumption == TTLs \subseteq Int /\ 0 \in TTLs
ASSUME SecondAssumption == Second \in Nat \ {0}
ASSUME BitsAssumption == DurationBits \in Nat \ {0} /\ SecondsBits \in Nat \ {0}
ASSUME MaxClockAssumption == MaxClock \in Nat \ {0}

VARIABLES
  backend,    \* "memory" or "host"
  value,      \* entry -> the value stored, expired or not
  expireAt,   \* entry -> when it expires; 0, before all time, is never
  clock,
  advanced,   \* InMemoryCache.now no longer follows the real clock
  call,       \* the last call with its arguments
  answer      \* what it answered; None for a miss or no answer

vars == <<mallocOffset, backend, value, expireAt, clock, advanced, call, answer>>

Init ==
  /\ mallocOffset = 0
  /\ backend \in {"memory", "host"}
  /\ value = [e \in Entries |-> None]
  /\ expireAt = [e \in Entries |-> 0]
  /\ clock = 1 /\ advanced = FALSE
  /\ call = <<>> /\ answer = None

(* n as a two's complement number of w bits.                               *)
Wrapped(n, w) == ((n + 2^(w-1)) % 2^w) - 2^(w-1)

(* Go's division rounds towards zero.                                      *)
Quotient(n, d) == IF n >= 0 THEN n \div d ELSE -((-n) \div d)

(* Mutation: seconds are truncated.                                        *)
TruncatedSeconds(ttl) == IF ttl <= 0 THEN 0 ELSE ttl \div Second

ttlToSeconds(ttl) ==
  IF ttl <= 0 THEN 0
  ELSE Wrapped(Quotient(Wrapped(ttl + Second - 1, DurationBits), Second), SecondsBits)

(* How long an entry set with ttl is kept; 0 is for ever.                  *)
Lifetime(ttl) ==
  IF backend = "host" THEN Second * ttlToSeconds(ttl)
  ELSE IF ttl > 0 THEN ttl ELSE 0

(* A KV or cache entry is set by the plugin, a configuration value by the  *)
(* test or the host's administrator; only the cache has TTLs.              *)
Set(e, v, ttl) ==
  /\ e[1] # "cache" => ttl = 0
  /\ call' = <<"set", e, v, ttl>>
  /\ value' = [value EXCEPT ![e] = v]
  /\ expireAt' = [expireAt EXCEPT ![e] = IF Lifetime(ttl) = 0 THEN 0 ELSE clock + Lifetime(ttl)]
  /\ answer' = None
  /\ UNCHANGED <<mallocOffset, backend, clock, advanced>>

Delete(e) ==
  /\ e[1] # "config"
  /\ call' = <<"delete", e>>
  /\ value' = [value EXCEPT ![e] = None]
  /\ expireAt' = [expireAt EXCEPT ![e] = 0]
  /\ answer' = None
  /\ UNCHANGED <<mallocOffset, backend, clock, advanced>>

(* !now.Before(expireAt)                                                   *)
Expired(e) == expireAt[e] # 0 /\ clock >= expireAt[e]

(* An expired entry is dropped when it is asked for.                       *)
GetExpired(e) ==
  /\ Expired(e)
  /\ call' = <<"get", e>>
  /\ value' = [value EXCEPT ![e] = None]
  /\ expireAt' = [expireAt EXCEPT ![e] = 0]
  /\ answer' = None
  /\ UNCHANGED <<mallocOffset, backend, clock, advanced>>

GetFromMemory(e) ==
  /\ backend = "memory" /\ ~Expired(e)
  /\ call' = <<"get", e>>
  /\ answer' = value[e]
  /\ UNCHANGED <<mallocOffset, backend, value, expireAt, clock, advanced>>

(* The length of the answer the host could put into the buffer.            *)
valLen(e) ==
  IF value[e] = None \/ MallocAt(mallocOffset, Length[value[e]]) = 0 THEN 0 ELSE Length[value[e]]

(* The WASM backends take a result of length 0 for a miss; they copy any   *)
(* other result and release the buffer.                                    *)
GetFromHost(e) ==
  /\ backend = "host" /\ ~Expired(e)
  /\ call' = <<"get", e>>
  /\ \/ valLen(e) = 0 /\ answer' = None /\ UNCHANGED mallocOffset
     \/ valLen(e) # 0 /\ answer' = value[e] /\ mallocOffset' = wasmResetAllocator
  /\ UNCHANGED <<backend, value, expireAt, clock, advanced>>

(* Payloads and other results come and go in the buffer.                   *)
Elsewhere ==
  /\ backend = "host"
  /\ call' = <<"elsewhere">> /\ answer' = None
  /\ mallocOffset' \in 0..ArenaCap
  /\ UNCHANGED <<backend, value, expireAt, clock, advanced>>

(* Advance stops the clock at its new time.                                *)
Advance(d) ==
  /\ backend = "memory"
  /\ clock + d <= MaxClock
  /\ call' = <<"pass", d>>
  /\ clock' = clock + d /\ advanced' = TRUE
  /\ answer' = None
  /\ UNCHANGED <<mallocOffset, backend, value, expireAt>>

(* Real time passes.                                                       *)
Tick ==
  /\ ~advanced /\ clock < MaxClock
  /\ call' = <<"pass", 1>>
  /\ clock' = clock + 1
  /\ answer' = None
  /\ UNCHANGED <<mallocOffset, backend, value, expireAt, advanced>>

Next ==
  \/ \E e \in Entries, v \in Values, ttl \in TTLs : Set(e, v, ttl)
  \/ \E e \in Entries : Delete(e) \/ GetExpired(e) \/ GetFromMemory(e) \/ GetFromHost(e)
  \/ \E d \in 1..MaxClock : Advance(d)
  \/ Tick
  \/ Elsewhere

Spec == Init /\ [][Next]_vars
----------------------------------------------------------------------------
Live(e) == expireAt[e] = 0 \/ clock < expireAt[e]

Promised == INSTANCE StoreSpec WITH
  Spans <- 1..MaxClock,
  host <- backend = "host",
  slack <- IF backend = "host" THEN Second - 1 ELSE 0,
  stored <- [e \in Entries |-> IF Live(e) THEN value[e] ELSE None],
  left <- [e \in Entries |-> IF Live(e) /\ expireAt[e] # 0 THEN expireAt[e] - clock ELSE 0],
  room <- ArenaCap - mallocOffset

(* Both sets of backends are stores: with lazy removal, a clock that jumps *)
(* and whole seconds, an entry is answered until its TTL is over, never    *)
(* after it (but for the rest of a second on the host), and a set, delete  *)
(* or expiry changes no other key and no other store; the host's answers   *)
(* differ from the test double's for an empty value and for one that finds *)
(* no room, only, and a plugin that reads on and on runs out of no room    *)
(* (InMemoryKV, InMemoryCache, InMemoryConfig, the WASM backends' Get).    *)
IsAStore == Promised!Spec
=============================================================================
