------------------------------ MODULE StoreSpec ------------------------------
(***************************************************************************)
(* What plugin.KV, plugin.Cache and plugin.Config promise (backends.go):   *)
(* Set keeps a value, in the cache for its TTL or, with none, for ever;    *)
(* Get answers the value, or a miss when there is none or its time is up.  *)
(*                                                                         *)
(* A store behind the host may keep an entry up to slack longer than asked *)
(* for, never shorter; it answers a miss for an empty value and for one    *)
(* that does not fit in the room its result buffer has at that moment, and *)
(* reading takes no room from the next reader.                             *)
(***************************************************************************)
EXTENDS Integers

CONSTANTS
  Entries,  \* pairs of a store and a key
  Values, Empty, None, TTLs,
  Length,   \* Values -> their lengths
  Spans     \* how much time may pass in a step

VARIABLES
  host,     \* the store is behind the host
  slack,    \* how much longer than its TTL an entry may live
  stored,   \* entry -> its value, or None
  left,     \* entry -> the time it has left, 0 for ever
  room,     \* how long a value may be to be answered
  call,     \* the last call with its arguments
  answer    \* what it answered: a value, or None for a miss

vars == <<host, slack, stored, left, room, call, answer>>

Init ==
  /\ host \in BOOLEAN /\ slack \in Nat
  /\ stored = [e \in Entries |-> None]
  /\ left = [e \in Entries |-> 0]
  /\ room \in Nat
  /\ call = <<>> /\ answer = None

Set(e, v, ttl) ==
  /\ call' = <<"set", e, v, ttl>>
  /\ stored' = [stored EXCEPT ![e] = v]
  /\ \E l \in IF ttl <= 0 THEN {0} ELSE ttl..(ttl + slack) : left' = [left EXCEPT ![e] = l]
  /\ answer' = None
  /\ UNCHANGED <<host, slack, room>>

Delete(e) ==
  /\ call' = <<"delete", e>>
  /\ stored' = [stored EXCEPT ![e] = None]
  /\ left' = [left EXCEPT ![e] = 0]
  /\ answer' = None
  /\ UNCHANGED <<host, slack, room>>

(* A value the host has to leave unsaid.                                   *)
Unsaid(v) == host /\ v # None /\ (v = Empty \/ Length[v] > room)

Get(e) ==
  /\ call' = <<"get", e>>
  /\ answer' = IF Unsaid(stored[e]) THEN None ELSE stored[e]
  /\ room' >= room
  /\ UNCHANGED <<host, slack, stored, left>>

(* d units of time pass; entries whose time is up are gone.                *)
Pass(d) ==
  LET gone(e) == left[e] # 0 /\ left[e] <= d
  IN  /\ call' = <<"pass", d>>
      /\ stored' = [e \in Entries |-> IF gone(e) THEN None ELSE stored[e]]
      /\ left' = [e \in Entries |-> IF gone(e) \/ left[e] = 0 THEN 0 ELSE left[e] - d]
      /\ answer' = None
      /\ UNCHANGED <<host, slack, room>>

(* The buffer is used for something else.                                  *)
Elsewhere ==
  /\ host
  /\ call' = <<"elsewhere">> /\ answer' = None
  /\ room' \in Nat
  /\ UNCHANGED <<host, slack, stored, left>>

Next ==
  \/ \E e \in Entries, v \in Values, ttl \in TTLs : Set(e, v, ttl)
  \/ \E e \in Entries : Delete(e) \/ Get(e)
  \/ \E d \in Spans : Pass(d)
  \/ Elsewhere

Spec == Init /\ [][Next]_vars
=============================================================================
