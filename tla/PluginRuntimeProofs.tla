------------------------ MODULE PluginRuntimeProofs ------------------------
(***************************************************************************)
(* The safety properties of PluginRuntime hold for every buffer capacity,  *)
(* every set of names and registrable handlers and every limit.            *)
(***************************************************************************)
EXTENDS PluginRuntime, TLAPS

(* What the call in progress holds.  Before its payload is decoded or      *)
(* copied, the slices alias cells the host wrote and nothing has           *)
(* overwritten; from then on they are heap copies, which is why the host   *)
(* calls of Init and of the handler cannot reach them.                     *)
CallInv ==
  /\ pc = "idle" => fn = "none"
  /\ pc = "pack" => fn \in ResultExports
  /\ pc = "entry" => fn \in HandlerExports
  /\ pc = "shutdown" => fn = "Shutdown"
  /\ pc \in {"init", "initializing"} => fn \in HandlerExports \cup {"Init"}
  /\ pc \in {"lookup", "handler"} => fn \in HandlerExports
  /\ pc = "entry" => /\ Bytes(mallocBuffer, topic) = sent.topic
                     /\ Bytes(mallocBuffer, payload) = sent.payload
  /\ pc \in {"init", "initializing", "lookup", "handler"} /\ fn # "Init" =>
       /\ topic.heap /\ topic.val = sent.topic
       /\ payload.heap /\ payload.val = sent.payload

(* What plugin code keeps is on the heap.                                  *)
HeldInv == held.heap /\ held.val = delivered

(* So is the result handed to the host, and it is within the limit.        *)
ResultInv ==
  /\ resultBuf.heap
  /\ resultBuf.val = (IF promised.kind = "none" THEN "nothing" ELSE promised.kind)
  /\ resultBuf.len = promised.size
  /\ resultBuf.len <= MaxResult
  /\ reply.kind # "none" \/ pc # "pack"

(* A Context under construction or in use carries one Init's handlers.     *)
ContextInv ==
  /\ initted \/ pc = "initializing" => ctx = registered
  /\ pc = "initializing" => ~initted
  /\ pc \in {"lookup", "handler"} => initted

(* Only a result export may hold bytes that are not accounted for.         *)
DebtInv == fn \notin ResultExports => mallocOffset = debt

IInv == TypeOK /\ CallInv /\ HeldInv /\ ResultInv /\ ContextInv /\ DebtInv

----------------------------------------------------------------------------
(* wasmMalloc hands out a block inside the buffer, or none: the int32 sum  *)
(* cannot wrap for the sizes a host passes.                                *)
LEMMA MallocFits ==
  ASSUME NEW offset \in 0..ArenaCap, NEW size \in 0..MaxSize,
         MallocAt(offset, size) # 0
  PROVE  /\ size >= 1
         /\ MallocAt(offset, size) = offset + 1
         /\ offset + size <= ArenaCap
         /\ OffsetAfter(offset, size) = offset + size
BY ArenaCapAssumption, MaxSizeAssumption, Int32Assumption
   DEF MallocAt, OffsetAfter, Add32, mallocBase

(* A refused allocation leaves the free position where it was.             *)
LEMMA MallocRefused ==
  ASSUME NEW offset \in 0..ArenaCap, NEW size \in 0..MaxSize,
         MallocAt(offset, size) = 0
  PROVE  OffsetAfter(offset, size) = offset
BY DEF OffsetAfter

(* wasmMalloc refuses an empty allocation, whose slice is nil.             *)
LEMMA EmptyBlock ==
  ASSUME NEW offset \in 0..ArenaCap
  PROVE  MallocAt(offset, 0) = 0 /\ wasmSlice(MallocAt(offset, 0), 0) = Nil
BY DEF MallocAt, wasmSlice

(* The nil slice is a slice, and reads as nothing.                         *)
LEMMA NilType ==
  Nil \in GoSlices /\ \A buffer : Bytes(buffer, Nil) = "nothing"
BY ArenaCapAssumption DEF Nil, GoSlices, Contents, Sendable, Bytes

(* Writing a block keeps the buffer a buffer.                              *)
LEMMA WrittenType ==
  ASSUME NEW buffer \in [Cells -> Contents \cup Kinds], NEW ptr, NEW size,
         NEW c \in Contents \cup Kinds
  PROVE  Written(buffer, ptr, size, c) \in [Cells -> Contents \cup Kinds]
BY DEF Written

(* The slice of a block just written reads what was written.               *)
LEMMA ReadBack ==
  ASSUME NEW buffer, NEW c,
         NEW ptr \in 1..ArenaCap, NEW size \in Nat \ {0}, ptr + size <= ArenaCap + 1
  PROVE  /\ wasmSlice(ptr, size) =
              [heap |-> FALSE, ptr |-> ptr, len |-> size, val |-> "nothing"]
         /\ Bytes(Written(buffer, ptr, size, c), wasmSlice(ptr, size)) = c
<1> DEFINE buf == Written(buffer, ptr, size, c)
<1>1. wasmSlice(ptr, size) = [heap |-> FALSE, ptr |-> ptr, len |-> size, val |-> "nothing"]
  BY ArenaCapAssumption DEF wasmSlice, mallocBase
<1>2. \A i \in Cells : i >= ptr /\ i < ptr + size => buf[i] = c
  BY DEF Written
<1>3. ptr \in Cells /\ ptr >= ptr /\ ptr < ptr + size
  BY ArenaCapAssumption DEF Cells
<1>4. buf[ptr] = c
  BY <1>2, <1>3
<1>5. Load(buf, ptr, size) = c
  BY <1>2, <1>4 DEF Load
<1> QED
  BY <1>1, <1>5 DEF Bytes

(* A block written after it, in its own cells, does not disturb it.        *)
LEMMA ReadBackFirst ==
  ASSUME NEW buffer, NEW c, NEW d,
         NEW ptr \in 1..ArenaCap, NEW size \in Nat \ {0}, ptr + size <= ArenaCap + 1,
         NEW q \in Nat, q >= ptr + size, NEW m \in Nat
  PROVE  Bytes(Written(Written(buffer, ptr, size, c), q, m, d), wasmSlice(ptr, size)) = c
<1> DEFINE first == Written(buffer, ptr, size, c)
           buf == Written(first, q, m, d)
<1>1. wasmSlice(ptr, size) = [heap |-> FALSE, ptr |-> ptr, len |-> size, val |-> "nothing"]
  BY ReadBack
<1>2. \A i \in Cells : i >= ptr /\ i < ptr + size => first[i] = c
  BY DEF Written
<1>3. \A i \in Cells : i >= ptr /\ i < ptr + size => buf[i] = first[i]
  BY ArenaCapAssumption DEF Written, Cells
<1>4. ptr \in Cells /\ ptr >= ptr /\ ptr < ptr + size
  BY ArenaCapAssumption DEF Cells
<1>5. buf[ptr] = c
  BY <1>2, <1>3, <1>4
<1>6. Load(buf, ptr, size) = c
  BY <1>2, <1>3, <1>5 DEF Load
<1> QED
  BY <1>1, <1>6 DEF Bytes

(* The initial states satisfy the inductive invariant.                     *)
LEMMA InitIInv == Init => IInv
<1> SUFFICES ASSUME Init PROVE IInv
  OBVIOUS
<1> USE ArenaCapAssumption, MaxInitsAssumption, MaxResultAssumption DEF Init, ArenaInit
<1>1. TypeOK
  <2>1. mallocOffset \in 0..ArenaCap /\ mallocBuffer \in [Cells -> Contents \cup Kinds]
    BY DEF Contents, Sendable
  <2>2. topic \in GoSlices /\ payload \in GoSlices /\ held \in GoSlices /\ resultBuf \in GoSlices
    BY NilType
  <2>3. sent \in [topic : Sendable, payload : Sendable] /\ delivered \in Sendable
    BY DEF NothingSent, Sendable
  <2>4. reply \in Replies /\ promised \in Replies
    BY DEF NoReply, Replies, Kinds
  <2>5. pc \in PC /\ fn \in Exports /\ globalDispatcher \in {"nil", "set"} /\ initted \in BOOLEAN
    BY DEF PC, Exports
  <2>6. inits \in 0..MaxInits /\ debt \in Nat
    OBVIOUS
  <2>7. ctx \subseteq Registrable /\ registered \subseteq Registrable
    OBVIOUS
  <2> QED
    BY <2>1, <2>2, <2>3, <2>4, <2>5, <2>6, <2>7 DEF TypeOK
<1>2. CallInv
  BY DEF CallInv
<1>3. HeldInv /\ ResultInv
  BY DEF HeldInv, ResultInv, Nil, NoReply
<1>4. ContextInv /\ DebtInv
  BY DEF ContextInv, DebtInv
<1> QED
  BY <1>1, <1>2, <1>3, <1>4 DEF IInv

(* Entry of a result export keeps the invariant: the slice it takes reads  *)
(* what the host wrote.                                                    *)
LEMMA CallResultExportIInv ==
  ASSUME IInv, NEW e \in ResultExports, NEW size \in 0..MaxSize, NEW c \in Sendable,
         CallResultExport(e, size, c)
  PROVE  IInv'
<1> DEFINE ptr == MallocAt(mallocOffset, size)
           bytes == wasmSlice(ptr, size)
<1> USE DEF IInv
<1>0. /\ mallocOffset \in 0..ArenaCap
      /\ mallocBuffer \in [Cells -> Contents \cup Kinds]
      /\ c \in Contents \cup Kinds
      /\ debt \in Nat /\ size \in Nat
  BY MaxSizeAssumption DEF TypeOK, Contents
<1>1. /\ mallocOffset' = mallocOffset + size
      /\ mallocOffset' \in 0..ArenaCap
      /\ mallocBuffer' \in [Cells -> Contents \cup Kinds]
      /\ bytes \in GoSlices
      /\ Bytes(mallocBuffer', bytes) = c
  <2>1. CASE c = "nothing"
    <3>1. size = 0 /\ UNCHANGED arenaVars
      BY <2>1 DEF CallResultExport
    <3>2. bytes = Nil
      BY <3>1, <1>0, EmptyBlock
    <3> QED
      BY <2>1, <3>1, <3>2, <1>0, NilType DEF arenaVars
  <2>2. CASE c # "nothing"
    <3>1. HostWrites(size, c)
      BY <2>2 DEF CallResultExport
    <3>2. /\ ptr # 0
          /\ mallocOffset' = OffsetAfter(mallocOffset, size)
          /\ mallocBuffer' = Written(mallocBuffer, ptr, size, c)
      BY <3>1 DEF HostWrites
    <3>3. size >= 1 /\ ptr = mallocOffset + 1 /\ mallocOffset + size <= ArenaCap
          /\ OffsetAfter(mallocOffset, size) = mallocOffset + size
      BY <3>2, <1>0, MallocFits
    <3>4. mallocBuffer' \in [Cells -> Contents \cup Kinds]
      BY <3>2, <1>0, WrittenType
    <3>5. ptr \in 1..ArenaCap /\ size \in Nat \ {0} /\ ptr + size <= ArenaCap + 1
      BY <3>3, <1>0, ArenaCapAssumption
    <3>6. /\ bytes = [heap |-> FALSE, ptr |-> ptr, len |-> size, val |-> "nothing"]
          /\ Bytes(mallocBuffer', bytes) = c
      BY <3>2, <3>5, <1>0, ReadBack
    <3>7. bytes \in GoSlices
      BY <3>5, <3>6, ArenaCapAssumption DEF GoSlices, Contents, Sendable
    <3> QED
      BY <3>2, <3>3, <3>4, <3>6, <3>7, <1>0, ArenaCapAssumption
  <2> QED
    BY <2>1, <2>2
<1>2. CASE globalDispatcher = "nil"
  <2>1. debt' = debt + size /\ Return /\ pc = "idle"
        /\ UNCHANGED <<dispatcherVars, heldVars, resultVars>>
    BY <1>2 DEF CallResultExport
  <2>2. TypeOK'
    BY <2>1, <1>0, <1>1, ArenaCapAssumption
       DEF TypeOK, Return, Nil, NothingSent, GoSlices, Contents, Sendable, PC, Exports,
           dispatcherVars, heldVars, resultVars
  <2>3. CallInv'
    BY <2>1 DEF CallInv, Return
  <2>4. HeldInv' /\ ResultInv' /\ ContextInv'
    BY <2>1 DEF HeldInv, ResultInv, ContextInv, Return, dispatcherVars, heldVars, resultVars
  <2>5. mallocOffset = debt
    BY <2>1 DEF CallInv, DebtInv, ResultExports
  <2>6. DebtInv'
    BY <2>1, <2>5, <1>0, <1>1 DEF DebtInv
  <2> QED
    BY <2>2, <2>3, <2>4, <2>6
<1>3. CASE globalDispatcher # "nil"
  <2>1. /\ pc' = "entry" /\ fn' = e /\ pc = "idle"
        /\ sent' = [topic |-> c, payload |-> c]
        /\ topic' = bytes /\ payload' = bytes
        /\ UNCHANGED <<debt, dispatcherVars, heldVars, resultVars>>
    BY <1>3 DEF CallResultExport
  <2>2. TypeOK'
    BY <2>1, <1>0, <1>1 DEF TypeOK, PC, Exports, HandlerExports, dispatcherVars, heldVars, resultVars
  <2>3. CallInv'
    BY <2>1, <1>1 DEF CallInv, HandlerExports
  <2>4. HeldInv' /\ ResultInv' /\ ContextInv'
    BY <2>1 DEF HeldInv, ResultInv, ContextInv, dispatcherVars, heldVars, resultVars
  <2>5. DebtInv'
    BY <2>1 DEF DebtInv
  <2> QED
    BY <2>2, <2>3, <2>4, <2>5
<1> QED
  BY <1>2, <1>3

(* Entry of HandleEvent keeps the invariant: its two blocks are disjoint.  *)
LEMMA CallHandleEventIInv ==
  ASSUME IInv, NEW tsize \in 1..MaxSize, NEW t \in Names,
         NEW size \in 0..MaxSize, NEW c \in Sendable,
         CallHandleEvent(tsize, t, size, c)
  PROVE  IInv'
<1> DEFINE tptr == MallocAt(mallocOffset, tsize)
           off == OffsetAfter(mallocOffset, tsize)
           ptr == MallocAt(off, size)
           buf == Written(mallocBuffer, tptr, tsize, t)
<1> USE DEF IInv
<1>0. /\ mallocOffset \in 0..ArenaCap
      /\ mallocBuffer \in [Cells -> Contents \cup Kinds]
      /\ c \in Contents \cup Kinds /\ t \in Contents \cup Kinds
      /\ t \in Sendable
      /\ debt \in Nat /\ size \in Nat /\ tsize \in 0..MaxSize
  BY MaxSizeAssumption DEF TypeOK, Contents, Sendable
<1>1. /\ pc = "idle" /\ tptr # 0
      /\ IF c = "nothing" THEN size = 0 ELSE ptr # 0
      /\ mallocOffset' = OffsetAfter(off, size)
      /\ mallocBuffer' = IF ptr = 0 THEN buf ELSE Written(buf, ptr, size, c)
      /\ debt' = debt + tsize + size
      /\ UNCHANGED <<dispatcherVars, heldVars, resultVars>>
  BY DEF CallHandleEvent
<1>2. /\ tsize >= 1 /\ tptr = mallocOffset + 1 /\ mallocOffset + tsize <= ArenaCap
      /\ off = mallocOffset + tsize
  BY <1>0, <1>1, MallocFits
<1>3. off \in 0..ArenaCap /\ tptr \in 1..ArenaCap /\ tptr + tsize <= ArenaCap + 1
      /\ tsize \in Nat \ {0}
  BY <1>0, <1>2, ArenaCapAssumption
<1>4. buf \in [Cells -> Contents \cup Kinds]
  BY <1>0, WrittenType
<1> HIDE DEF tptr, off, ptr, buf
<1>5. /\ wasmSlice(tptr, tsize) \in GoSlices
      /\ Bytes(buf, wasmSlice(tptr, tsize)) = t
  <2>1. wasmSlice(tptr, tsize) = [heap |-> FALSE, ptr |-> tptr, len |-> tsize, val |-> "nothing"]
        /\ Bytes(buf, wasmSlice(tptr, tsize)) = t
    BY <1>0, <1>3, ReadBack DEF buf
  <2> QED
    BY <2>1, <1>3 DEF GoSlices, Contents, Sendable
<1>6. /\ mallocOffset' = mallocOffset + tsize + size
      /\ mallocOffset' \in 0..ArenaCap
      /\ mallocBuffer' \in [Cells -> Contents \cup Kinds]
      /\ wasmSlice(ptr, size) \in GoSlices
      /\ Bytes(mallocBuffer', wasmSlice(ptr, size)) = c
      /\ Bytes(mallocBuffer', wasmSlice(tptr, tsize)) = t
  <2>1. CASE c = "nothing"
    <3>1. size = 0
      BY <2>1, <1>1
    <3>2. ptr = 0 /\ wasmSlice(ptr, size) = Nil
      BY <3>1, <1>3, EmptyBlock DEF ptr
    <3>3. OffsetAfter(off, size) = off
      BY <3>2 DEF OffsetAfter, ptr
    <3> QED
      BY <2>1, <3>1, <3>2, <3>3, <1>0, <1>1, <1>2, <1>3, <1>4, <1>5, NilType
  <2>2. CASE c # "nothing"
    <3>1. ptr # 0
      BY <2>2, <1>1
    <3>2. size >= 1 /\ ptr = off + 1 /\ off + size <= ArenaCap
          /\ OffsetAfter(off, size) = off + size
      BY <3>1, <1>3, MallocFits DEF ptr
    <3>3. mallocBuffer' = Written(buf, ptr, size, c)
      BY <3>1, <1>1
    <3>4. ptr \in 1..ArenaCap /\ size \in Nat \ {0} /\ ptr + size <= ArenaCap + 1
      BY <3>2, <1>0, <1>2, <1>3, ArenaCapAssumption
    <3>4a. ptr = tptr + tsize
      BY <3>2, <1>0, <1>2, <1>3, ArenaCapAssumption
    <3>5. /\ wasmSlice(ptr, size) = [heap |-> FALSE, ptr |-> ptr, len |-> size, val |-> "nothing"]
          /\ Bytes(mallocBuffer', wasmSlice(ptr, size)) = c
      <4>1. /\ wasmSlice(ptr, size) = [heap |-> FALSE, ptr |-> ptr, len |-> size, val |-> "nothing"]
            /\ Bytes(Written(buf, ptr, size, c), wasmSlice(ptr, size)) = c
        BY <3>4, ReadBack, ArenaCapAssumption
      <4> QED
        BY <3>3, <4>1
    <3>6. Bytes(mallocBuffer', wasmSlice(tptr, tsize)) = t
      <4>1. Bytes(Written(Written(mallocBuffer, tptr, tsize, t), ptr, size, c),
                  wasmSlice(tptr, tsize)) = t
        BY <3>4, <3>4a, <1>3, ReadBackFirst
      <4> QED
        BY <3>3, <4>1 DEF buf
    <3>7. mallocBuffer' \in [Cells -> Contents \cup Kinds]
      BY <3>3, <1>0, <1>4, WrittenType
    <3>8. wasmSlice(ptr, size) \in GoSlices
      <4>1. "nothing" \in Contents \cup Kinds /\ ptr \in 0..ArenaCap /\ size \in Nat
        BY <3>4, ArenaCapAssumption DEF Contents, Sendable
      <4> QED
        BY <4>1, <3>5 DEF GoSlices
    <3> QED
      BY <3>2, <3>5, <3>6, <3>7, <3>8, <1>0, <1>1, <1>2, ArenaCapAssumption
  <2> QED
    BY <2>1, <2>2
<1>7. mallocOffset = debt /\ fn = "none"
  BY <1>1 DEF CallInv, DebtInv, ResultExports
<1>8. HeldInv' /\ ResultInv' /\ ContextInv'
  BY <1>1 DEF HeldInv, ResultInv, ContextInv, dispatcherVars, heldVars, resultVars,
              CallHandleEvent, Return
<1>9. DebtInv'
  BY <1>0, <1>1, <1>6, <1>7 DEF DebtInv
<1>10. CASE globalDispatcher = "nil"
  <2>1. Return
    BY <1>10 DEF CallHandleEvent
  <2>2. TypeOK'
    BY <2>1, <1>0, <1>1, <1>6, ArenaCapAssumption
       DEF TypeOK, Return, Nil, NothingSent, GoSlices, Contents, Sendable, PC, Exports,
           dispatcherVars, heldVars, resultVars
  <2>3. CallInv'
    BY <2>1 DEF CallInv, Return
  <2> QED
    BY <2>2, <2>3, <1>8, <1>9
<1>11. CASE globalDispatcher # "nil"
  <2>1. /\ pc' = "entry" /\ fn' = "HandleEvent"
        /\ sent' = [topic |-> t, payload |-> c]
        /\ topic' = wasmSlice(tptr, tsize) /\ payload' = wasmSlice(ptr, size)
    BY <1>11 DEF CallHandleEvent, tptr, off, ptr
  <2>2. TypeOK'
    BY <2>1, <1>0, <1>1, <1>5, <1>6
       DEF TypeOK, PC, Exports, HandlerExports, dispatcherVars, heldVars, resultVars
  <2>3. CallInv'
    BY <2>1, <1>6 DEF CallInv, HandlerExports
  <2> QED
    BY <2>2, <2>3, <1>8, <1>9
<1> QED
  BY <1>10, <1>11

(* A host call that delivers a result keeps the invariant: the copy is     *)
(* taken from the cells the host has just written.                         *)
LEMMA HostDeliversIInv ==
  ASSUME IInv, NEW size \in 1..MaxSize, NEW c \in Names, HostDelivers(size, c)
  PROVE  IInv'
<1> DEFINE ptr == MallocAt(mallocOffset, size)
           buf == Written(mallocBuffer, ptr, size, c)
           got == ResultBytes(buf, wasmSlice(ptr, size))
<1> USE DEF IInv
<1>0. /\ mallocOffset \in 0..ArenaCap
      /\ mallocBuffer \in [Cells -> Contents \cup Kinds]
      /\ c \in Contents \cup Kinds /\ c \in Sendable
      /\ size \in 0..MaxSize
  BY MaxSizeAssumption DEF TypeOK, Contents, Sendable
<1>1. /\ pc \in PluginCode /\ ptr # 0
      /\ mallocBuffer' = buf /\ mallocOffset' = 0
      /\ (held' = got /\ delivered' = c) \/ UNCHANGED heldVars
      /\ debt' = 0
      /\ UNCHANGED <<dispatcherVars, pc, callVars, resultVars>>
  BY DEF HostDelivers, wasmResetAllocator
<1>2. size >= 1 /\ ptr = mallocOffset + 1 /\ mallocOffset + size <= ArenaCap
  BY <1>0, <1>1, MallocFits
<1>3. ptr \in 1..ArenaCap /\ size \in Nat \ {0} /\ ptr + size <= ArenaCap + 1
  BY <1>0, <1>2, ArenaCapAssumption
<1>4. buf \in [Cells -> Contents \cup Kinds]
  BY <1>0, WrittenType
<1> HIDE DEF ptr
<1>5. /\ wasmSlice(ptr, size) = [heap |-> FALSE, ptr |-> ptr, len |-> size, val |-> "nothing"]
      /\ Bytes(buf, wasmSlice(ptr, size)) = c
  BY <1>3, ReadBack, ArenaCapAssumption
<1> HIDE DEF buf
<1>6. got = [heap |-> TRUE, ptr |-> 0, len |-> size, val |-> c]
  <2>1. wasmSlice(ptr, size).len = size
    BY <1>5
  <2> QED
    BY <2>1, <1>5 DEF ResultBytes, Copied
<1>7. got \in GoSlices
  BY <1>0, <1>3, <1>6, ArenaCapAssumption DEF GoSlices
<1> HIDE DEF got
<1>8. held' \in GoSlices /\ delivered' \in Sendable /\ HeldInv'
  <2>1. CASE held' = got /\ delivered' = c
    <3>1. got.heap /\ got.val = c
      BY <1>6
    <3> QED
      BY <2>1, <3>1, <1>0, <1>7 DEF HeldInv
  <2>2. CASE UNCHANGED heldVars
    BY <2>2 DEF TypeOK, HeldInv, heldVars
  <2> QED
    BY <2>1, <2>2, <1>1
<1>9. TypeOK'
  BY <1>0, <1>1, <1>4, <1>8, ArenaCapAssumption
     DEF TypeOK, dispatcherVars, callVars, resultVars
<1>10. CallInv'
  BY <1>1 DEF CallInv, PluginCode, callVars
<1>11. ResultInv' /\ ContextInv' /\ DebtInv'
  BY <1>1 DEF ResultInv, ContextInv, DebtInv, dispatcherVars, callVars, resultVars
<1> QED
  BY <1>8, <1>9, <1>10, <1>11

(* Decoding the payload, or answering that it is malformed, keeps the      *)
(* invariant: what was decoded is a copy of what the host sent.            *)
LEMMA DecodePayloadIInv == IInv /\ DecodePayload => IInv'
<1> SUFFICES ASSUME IInv, DecodePayload PROVE IInv'
  OBVIOUS
<1> USE DEF IInv
<1>1. /\ pc = "entry" /\ fn \in ResultExports
      /\ UNCHANGED <<arenaVars, dispatcherVars, heldVars, resultBuf, promised, debt>>
  BY DEF DecodePayload
<1>2. CASE /\ pc' = "init"
           /\ topic' = Decoded(topic) /\ payload' = Decoded(payload)
           /\ UNCHANGED <<fn, sent, reply>>
  <2>1. /\ topic' = [heap |-> TRUE, ptr |-> 0, len |-> topic.len, val |-> sent.topic]
        /\ payload' = [heap |-> TRUE, ptr |-> 0, len |-> payload.len, val |-> sent.payload]
    BY <1>1, <1>2 DEF Decoded, Copied, CallInv
  <2>2. topic' \in GoSlices /\ payload' \in GoSlices
    BY <2>1, ArenaCapAssumption DEF TypeOK, GoSlices, Contents
  <2>3. TypeOK'
    BY <1>1, <1>2, <2>2 DEF TypeOK, PC, arenaVars, dispatcherVars, heldVars
  <2>4. CallInv'
    BY <1>1, <1>2, <2>1 DEF CallInv, HandlerExports
  <2>5. HeldInv' /\ ResultInv' /\ ContextInv' /\ DebtInv'
    BY <1>1, <1>2 DEF HeldInv, ResultInv, ContextInv, DebtInv, arenaVars, dispatcherVars, heldVars
  <2> QED
    BY <2>3, <2>4, <2>5
<1>3. CASE Answer("bad payload")
  <2>1. /\ pc' = "pack" /\ UNCHANGED callVars
        /\ \E size \in 1..MaxReply : reply' = [kind |-> "bad payload", size |-> size]
    BY <1>1, <1>3 DEF Answer
  <2>1a. reply' \in Replies /\ reply'.kind # "none"
    <3>1. PICK size \in 1..MaxReply : reply' = [kind |-> "bad payload", size |-> size]
      BY <2>1
    <3>2. size \in Nat /\ "bad payload" \in Kinds
      BY MaxReplyAssumption DEF Kinds
    <3> QED
      BY <3>1, <3>2 DEF Replies
  <2>2. TypeOK'
    BY <1>1, <2>1, <2>1a DEF TypeOK, PC, arenaVars, dispatcherVars, heldVars, callVars
  <2>3. CallInv'
    BY <1>1, <2>1 DEF CallInv, callVars
  <2>4. HeldInv' /\ ResultInv' /\ ContextInv' /\ DebtInv'
    BY <1>1, <2>1, <2>1a DEF HeldInv, ResultInv, ContextInv, DebtInv, arenaVars, dispatcherVars,
                             heldVars, callVars
  <2> QED
    BY <2>2, <2>3, <2>4
<1> QED
  BY <1>2, <1>3 DEF DecodePayload

(* HandleEvent's copies keep the invariant.                                *)
LEMMA CopyEventIInv == IInv /\ CopyEvent => IInv'
<1> SUFFICES ASSUME IInv, CopyEvent PROVE IInv'
  OBVIOUS
<1> USE DEF IInv, CopyEvent
<1>1. /\ topic' = [heap |-> TRUE, ptr |-> 0, len |-> topic.len, val |-> sent.topic]
      /\ payload' = [heap |-> TRUE, ptr |-> 0, len |-> payload.len, val |-> sent.payload]
  BY DEF EventBytes, Copied, CallInv
<1>2. topic' \in GoSlices /\ payload' \in GoSlices
  BY <1>1, ArenaCapAssumption DEF TypeOK, GoSlices, Contents
<1>3. TypeOK'
  BY <1>2 DEF TypeOK, PC, arenaVars, dispatcherVars, heldVars, resultVars
<1>4. CallInv'
  BY <1>1 DEF CallInv, HandlerExports
<1>5. HeldInv' /\ ResultInv' /\ ContextInv' /\ DebtInv'
  BY DEF HeldInv, ResultInv, ContextInv, DebtInv, arenaVars, dispatcherVars, heldVars, resultVars
<1> QED
  BY <1>3, <1>4, <1>5

(* Answering, from any control point that may, keeps the invariant.        *)
LEMMA AnswerIInv ==
  ASSUME IInv, NEW kind \in Kinds \ {"none"}, Answer(kind),
         pc \in {"initializing", "lookup", "handler"},
         UNCHANGED <<arenaVars, dispatcherVars, heldVars, resultBuf, promised, debt>>
  PROVE  IInv'
<1> USE DEF IInv
<1>1. CASE fn \in ResultExports
  <2>1. /\ pc' = "pack" /\ UNCHANGED callVars
        /\ \E size \in 1..MaxReply : reply' = [kind |-> kind, size |-> size]
    BY <1>1 DEF Answer
  <2>2. TypeOK'
    BY <2>1, MaxReplyAssumption
       DEF TypeOK, PC, Replies, arenaVars, dispatcherVars, heldVars, callVars
  <2>3. CallInv'
    BY <1>1, <2>1 DEF CallInv, callVars
  <2>4. HeldInv' /\ ResultInv' /\ ContextInv' /\ DebtInv'
    BY <2>1 DEF HeldInv, ResultInv, ContextInv, DebtInv, arenaVars, dispatcherVars, heldVars, callVars
  <2> QED
    BY <2>2, <2>3, <2>4
<1>2. CASE fn \notin ResultExports
  <2>1. Return /\ UNCHANGED reply
    BY <1>2 DEF Answer
  <2>2. TypeOK'
    BY <2>1, NilType
       DEF TypeOK, Return, NothingSent, Sendable, PC, Exports, arenaVars, dispatcherVars, heldVars
  <2>3. CallInv'
    BY <2>1 DEF CallInv, Return
  <2>4. HeldInv' /\ ResultInv' /\ ContextInv' /\ DebtInv'
    BY <1>2, <2>1 DEF HeldInv, ResultInv, ContextInv, DebtInv, Return, arenaVars, dispatcherVars, heldVars
  <2> QED
    BY <2>2, <2>3, <2>4
<1> QED
  BY <1>1, <1>2

(* Packing the result keeps the invariant.                                 *)
LEMMA PackResultIInv == IInv /\ PackResult => IInv'
<1> SUFFICES ASSUME IInv, PackResult PROVE IInv'
  OBVIOUS
<1> DEFINE r == boundResult(reply)
<1> USE DEF IInv
<1>0. reply \in Replies /\ reply.size \in Nat /\ reply.kind # "none"
  BY DEF TypeOK, ResultInv, Replies, PackResult
<1>1. /\ r \in Replies /\ r.size <= MaxResult /\ r.kind # "none"
      /\ promised' = r
  <2>1. /\ reply.size > MaxResult => promised' = [kind |-> "too large", size |-> 1]
        /\ ~(reply.size > MaxResult) => promised' = reply
    BY Zenon DEF PackResult
  <2>2. CASE reply.size <= MaxResult
    <3>1. r = reply
      BY <2>2 DEF boundResult
    <3>2. ~(reply.size > MaxResult)
      BY <2>2, <1>0, MaxResultAssumption
    <3> QED
      BY <2>1, <2>2, <3>1, <3>2, <1>0
  <2>3. CASE ~(reply.size <= MaxResult)
    <3>1. r = [kind |-> "too large", size |-> 1]
      BY <2>3 DEF boundResult
    <3> HIDE DEF r
    <3>2. reply.size > MaxResult
      BY <2>3, <1>0, MaxResultAssumption
    <3>3. "too large" \in Kinds
      BY DEF Kinds
    <3>4. promised' = r
      BY <2>1, <3>1, <3>2, Zenon
    <3>5. r.kind # "none"
      BY <3>1
    <3>5a. r.size <= MaxResult
      <4>1. r.size = 1
        BY <3>1
      <4>2. 1 <= MaxResult
        BY MaxResultAssumption
      <4> QED
        BY <4>1, <4>2
    <3>6. r \in Replies
      BY <3>1, <3>3 DEF Replies
    <3> QED
      BY <3>4, <3>5, <3>5a, <3>6
  <2> QED
    BY <2>2, <2>3
<1>2. /\ resultBuf' = [heap |-> TRUE, ptr |-> 0, len |-> r.size, val |-> r.kind]
      /\ mallocOffset' = 0 /\ debt' = 0 /\ Return /\ reply' = NoReply
      /\ UNCHANGED <<mallocBuffer, dispatcherVars, heldVars>>
  BY DEF PackResult, wasmResetAllocator
<1> HIDE DEF r
<1>3. resultBuf' \in GoSlices
  BY <1>1, <1>2, ArenaCapAssumption DEF GoSlices, Replies
<1>3a. reply' \in Replies
  BY <1>2 DEF NoReply, Replies, Kinds
<1>4. TypeOK'
  BY <1>1, <1>2, <1>3, <1>3a, NilType, ArenaCapAssumption
     DEF TypeOK, Return, NothingSent, Sendable, PC, Exports, dispatcherVars, heldVars
<1>5. CallInv'
  BY <1>2 DEF CallInv, Return
<1>6. ResultInv'
  BY <1>1, <1>2 DEF ResultInv, Return
<1>7. HeldInv' /\ ContextInv' /\ DebtInv'
  BY <1>2 DEF HeldInv, ContextInv, DebtInv, Return, dispatcherVars, heldVars
<1> QED
  BY <1>4, <1>5, <1>6, <1>7

(* An export that returns without a result keeps the invariant.            *)
LEMMA ReturnIInv ==
  ASSUME IInv, Return, fn \notin ResultExports,
         UNCHANGED <<arenaVars, globalDispatcher, ctx, registered, inits, heldVars,
                     resultVars, debt>>,
         initted' = initted \/ (pc = "initializing" /\ initted' = TRUE)
  PROVE  IInv'
<1> USE DEF IInv
<1>1. TypeOK'
  BY NilType
     DEF TypeOK, Return, NothingSent, Sendable, PC, Exports, arenaVars, heldVars, resultVars
<1>2. CallInv'
  BY DEF CallInv, Return
<1>3. HeldInv' /\ ResultInv' /\ ContextInv' /\ DebtInv'
  BY DEF HeldInv, ResultInv, ContextInv, DebtInv, Return, arenaVars, heldVars, resultVars
<1> QED
  BY <1>1, <1>2, <1>3

(* An allocation between calls is accounted for.                           *)
LEMMA MallocIInv ==
  ASSUME IInv, NEW size \in 1..MaxSize, NEW c \in Names, malloc(size, c)
  PROVE  IInv'
<1> DEFINE ptr == MallocAt(mallocOffset, size)
<1> USE DEF IInv
<1>0. /\ mallocOffset \in 0..ArenaCap
      /\ mallocBuffer \in [Cells -> Contents \cup Kinds]
      /\ c \in Contents \cup Kinds
      /\ size \in 0..MaxSize /\ size \in Nat /\ debt \in Nat
  BY MaxSizeAssumption DEF TypeOK, Contents, Sendable
<1>1. /\ pc = "idle" /\ ptr # 0 /\ debt' = debt + size
      /\ mallocOffset' = OffsetAfter(mallocOffset, size)
      /\ mallocBuffer' = Written(mallocBuffer, ptr, size, c)
      /\ UNCHANGED <<dispatcherVars, pc, callVars, heldVars, resultVars>>
  BY DEF malloc, HostWrites
<1>2. mallocOffset + size <= ArenaCap /\ mallocOffset' = mallocOffset + size
  BY <1>0, <1>1, MallocFits
<1>3. mallocBuffer' \in [Cells -> Contents \cup Kinds]
  BY <1>0, <1>1, WrittenType
<1>4. mallocOffset' \in 0..ArenaCap /\ debt' \in Nat
  BY <1>0, <1>1, <1>2, ArenaCapAssumption
<1>5. TypeOK'
  BY <1>1, <1>3, <1>4 DEF TypeOK, dispatcherVars, callVars, heldVars, resultVars
<1>6. CallInv'
  BY <1>1 DEF CallInv, callVars
<1>7. HeldInv' /\ ResultInv' /\ ContextInv'
  BY <1>1 DEF HeldInv, ResultInv, ContextInv, dispatcherVars, heldVars, resultVars
<1>8. DebtInv'
  BY <1>1, <1>2 DEF DebtInv, CallInv, callVars
<1> QED
  BY <1>5, <1>6, <1>7, <1>8

(* The steps of the dispatcher between a call and its handler keep the     *)
(* invariant.                                                              *)
LEMMA DispatchIInv ==
  ASSUME IInv, InitDone \/ InitBegin \/ InitSucceeds \/ InitFails \/ Lookup \/ HandlerReturns
  PROVE  IInv'
<1> USE DEF IInv
<1>1. CASE InitDone
  <2>1. CASE fn = "Init"
    BY <1>1, <2>1, ReturnIInv DEF InitDone, Initialised, dispatcherVars, ResultExports
  <2>2. CASE fn # "Init"
    <3>1. /\ pc = "init" /\ initted /\ pc' = "lookup"
          /\ UNCHANGED <<callVars, arenaVars, dispatcherVars, heldVars, resultVars, debt>>
      BY <1>1, <2>2 DEF InitDone, Initialised
    <3>2. TypeOK'
      BY <3>1 DEF TypeOK, PC, callVars, arenaVars, dispatcherVars, heldVars, resultVars
    <3>3. CallInv'
      BY <3>1, <2>2 DEF CallInv, callVars
    <3>4. HeldInv' /\ ResultInv' /\ ContextInv' /\ DebtInv'
      BY <3>1 DEF HeldInv, ResultInv, ContextInv, DebtInv, callVars, arenaVars, dispatcherVars,
                  heldVars, resultVars
    <3> QED
      BY <3>2, <3>3, <3>4
  <2> QED
    BY <2>1, <2>2
<1>2. CASE InitBegin
  <2>1. /\ pc = "init" /\ ~initted /\ pc' = "initializing"
        /\ ctx' = {} /\ registered' = {} /\ inits' \in {inits, inits + 1} 
        /\ inits < MaxInits \/ inits' = inits
        /\ UNCHANGED <<arenaVars, globalDispatcher, initted, callVars, heldVars, resultVars, debt>>
    BY <1>2 DEF InitBegin, newContext
  <2>2. inits' \in 0..MaxInits
    BY <2>1, MaxInitsAssumption DEF TypeOK
  <2>3. TypeOK'
    BY <2>1, <2>2 DEF TypeOK, PC, callVars, arenaVars, heldVars, resultVars
  <2>4. CallInv'
    BY <2>1 DEF CallInv, callVars
  <2>5. HeldInv' /\ ResultInv' /\ ContextInv' /\ DebtInv'
    BY <2>1 DEF HeldInv, ResultInv, ContextInv, DebtInv, callVars, arenaVars, heldVars, resultVars
  <2> QED
    BY <2>3, <2>4, <2>5
<1>3. CASE InitSucceeds
  <2>1. CASE fn = "Init"
    BY <1>3, <2>1, ReturnIInv DEF InitSucceeds, Initialised, ResultExports
  <2>2. CASE fn # "Init"
    <3>1. /\ pc = "initializing" /\ initted' = TRUE /\ pc' = "lookup"
          /\ UNCHANGED <<callVars, arenaVars, globalDispatcher, ctx, registered, inits,
                         heldVars, resultVars, debt>>
      BY <1>3, <2>2 DEF InitSucceeds, Initialised
    <3>2. TypeOK'
      BY <3>1 DEF TypeOK, PC, callVars, arenaVars, heldVars, resultVars
    <3>3. CallInv'
      BY <3>1, <2>2 DEF CallInv, callVars
    <3>4. HeldInv' /\ ResultInv' /\ ContextInv' /\ DebtInv'
      BY <3>1 DEF HeldInv, ResultInv, ContextInv, DebtInv, callVars, arenaVars,
                  heldVars, resultVars
    <3> QED
      BY <3>2, <3>3, <3>4
  <2> QED
    BY <2>1, <2>2
<1>4. CASE InitFails
  BY <1>4, AnswerIInv DEF InitFails, Kinds
<1>5. CASE Lookup
  <2>1. CASE Answer("no handler")
    BY <1>5, <2>1, AnswerIInv DEF Lookup, Kinds
  <2>2. CASE pc' = "handler" /\ UNCHANGED <<callVars, reply>>
    <3>1. /\ pc = "lookup" /\ pc' = "handler"
          /\ UNCHANGED <<callVars, arenaVars, dispatcherVars, heldVars, resultVars, debt>>
      BY <1>5, <2>2 DEF Lookup, resultVars
    <3>2. TypeOK'
      BY <3>1 DEF TypeOK, PC, callVars, arenaVars, dispatcherVars, heldVars, resultVars
    <3>3. CallInv'
      BY <3>1 DEF CallInv, callVars
    <3>4. HeldInv' /\ ResultInv' /\ ContextInv' /\ DebtInv'
      BY <3>1 DEF HeldInv, ResultInv, ContextInv, DebtInv, callVars, arenaVars, dispatcherVars,
                  heldVars, resultVars
    <3> QED
      BY <3>2, <3>3, <3>4
  <2> QED
    BY <1>5, <2>1, <2>2 DEF Lookup
<1>6. CASE HandlerReturns
  BY <1>6, AnswerIInv DEF HandlerReturns, Kinds
<1> QED
  BY <1>1, <1>2, <1>3, <1>4, <1>5, <1>6

(* The remaining steps touch one part of the state each.                   *)
LEMMA OtherIInv ==
  ASSUME IInv,
         \/ Run \/ ResetAllocator \/ CallInit \/ CallShutdown
         \/ (\E r \in Registrable : Register(r[1], r[2]))
         \/ HostDeliversNothing \/ KeepPayload
  PROVE  IInv'
<1> USE DEF IInv
<1>1. CASE Run
  <2>1. TypeOK'
    BY <1>1 DEF Run, TypeOK, callVars, arenaVars, heldVars, resultVars
  <2> QED
    BY <1>1, <2>1 DEF Run, CallInv, HeldInv, ResultInv, ContextInv, DebtInv, callVars,
                      arenaVars, heldVars, resultVars
<1>2. CASE ResetAllocator
  <2>1. TypeOK'
    BY <1>2, ArenaCapAssumption
       DEF ResetAllocator, wasmResetAllocator, TypeOK, dispatcherVars, callVars, heldVars, resultVars
  <2> QED
    BY <1>2, <2>1 DEF ResetAllocator, wasmResetAllocator, CallInv, HeldInv, ResultInv,
                      ContextInv, DebtInv, dispatcherVars, callVars, heldVars, resultVars
<1>3. CASE CallInit \/ CallShutdown
  <2>1. /\ pc = "idle"
        /\ (pc' = "init" /\ fn' = "Init") \/ (pc' = "shutdown" /\ fn' = "Shutdown")
        /\ UNCHANGED <<arenaVars, dispatcherVars, topic, payload, sent, heldVars, resultVars, debt>>
    BY <1>3 DEF CallInit, CallShutdown
  <2>2. TypeOK'
    BY <2>1 DEF TypeOK, PC, Exports, dispatcherVars, arenaVars, heldVars, resultVars
  <2>3. CallInv'
    BY <2>1 DEF CallInv
  <2>4. HeldInv' /\ ResultInv' /\ ContextInv'
    BY <2>1 DEF HeldInv, ResultInv, ContextInv, dispatcherVars, heldVars, resultVars
  <2>5. DebtInv'
    BY <2>1 DEF DebtInv, CallInv, ResultExports, arenaVars
  <2> QED
    BY <2>2, <2>3, <2>4, <2>5
<1>4. CASE \E r \in Registrable : Register(r[1], r[2])
  <2>1. PICK r \in Registrable : Register(r[1], r[2])
    BY <1>4
  <2>2. <<r[1], r[2]>> \in Registrable
    BY RegistrableAssumption
  <2>3. /\ pc = "initializing"
        /\ ctx' = ctx \cup {<<r[1], r[2]>>} /\ registered' = registered \cup {<<r[1], r[2]>>}
        /\ UNCHANGED <<arenaVars, globalDispatcher, initted, inits, pc, callVars, heldVars,
                       resultVars, debt>>
    BY <2>1 DEF Register
  <2>4. ctx' \subseteq Registrable /\ registered' \subseteq Registrable
    BY <2>2, <2>3 DEF TypeOK
  <2>5. TypeOK'
    BY <2>3, <2>4 DEF TypeOK, callVars, arenaVars, heldVars, resultVars
  <2>6. ContextInv'
    BY <2>3 DEF ContextInv
  <2> QED
    BY <2>3, <2>5, <2>6 DEF CallInv, HeldInv, ResultInv, DebtInv, callVars, arenaVars, heldVars,
                            resultVars
<1>5. CASE HostDeliversNothing \/ KeepPayload
  <2>1. /\ held' \in GoSlices /\ delivered' \in Sendable /\ HeldInv'
    <3>1. CASE HostDeliversNothing
      <4>1. held' = Nil /\ delivered' = "nothing"
        BY <3>1 DEF HostDeliversNothing
      <4>2. held'.heap /\ held'.val = "nothing"
        BY <4>1 DEF Nil
      <4> QED
        BY <4>1, <4>2, NilType DEF HeldInv, Sendable
    <3>2. CASE KeepPayload
      BY <3>2 DEF KeepPayload, HeldInv, CallInv, HandlerExports, ResultExports, TypeOK
    <3> QED
      BY <1>5, <3>1, <3>2
  <2>2. UNCHANGED <<arenaVars, dispatcherVars, pc, callVars, resultVars, debt>>
    BY <1>5 DEF HostDeliversNothing, KeepPayload
  <2>3. TypeOK'
    BY <2>1, <2>2 DEF TypeOK, dispatcherVars, callVars, arenaVars, resultVars
  <2> QED
    BY <2>1, <2>2, <2>3 DEF CallInv, ResultInv, ContextInv, DebtInv, dispatcherVars, callVars,
                            arenaVars, resultVars
<1> QED
  BY <1>1, <1>2, <1>3, <1>4, <1>5

(* Every step of the plugin instance keeps the inductive invariant.        *)
LEMMA NextIInv == IInv /\ [Next]_vars => IInv'
<1> SUFFICES ASSUME IInv, [Next]_vars PROVE IInv'
  OBVIOUS
<1>1. CASE \E size \in 1..MaxSize, c \in Names : malloc(size, c)
  BY <1>1, MallocIInv
<1>2. CASE \E e \in ResultExports, size \in 0..MaxSize, c \in Sendable :
             CallResultExport(e, size, c)
  BY <1>2, CallResultExportIInv
<1>3. CASE \E tsize \in 1..MaxSize, t \in Names, size \in 0..MaxSize, c \in Sendable :
             CallHandleEvent(tsize, t, size, c)
  BY <1>3, CallHandleEventIInv
<1>4. CASE \E size \in 1..MaxSize, c \in Names : HostDelivers(size, c)
  BY <1>4, HostDeliversIInv
<1>5. CASE \/ Run \/ ResetAllocator \/ CallInit \/ CallShutdown
           \/ (\E r \in Registrable : Register(r[1], r[2]))
           \/ HostDeliversNothing \/ KeepPayload
  BY <1>5, OtherIInv
<1>6. CASE InitDone \/ InitBegin \/ InitSucceeds \/ InitFails \/ Lookup \/ HandlerReturns
  BY <1>6, DispatchIInv
<1>7. CASE DecodePayload
  BY <1>7, DecodePayloadIInv
<1>8. CASE CopyEvent
  BY <1>8, CopyEventIInv
<1>9. CASE PackResult
  BY <1>9, PackResultIInv
<1>10. CASE ShutdownReturns
  <2>1. fn \notin ResultExports
    BY <1>10 DEF ShutdownReturns, IInv, CallInv, ResultExports
  <2> QED
    BY <1>10, <2>1, ReturnIInv DEF ShutdownReturns, dispatcherVars
<1>11. CASE UNCHANGED vars
  <2>1. UNCHANGED <<arenaVars, dispatcherVars, pc, callVars, heldVars, resultVars, debt>>
    BY <1>11 DEF vars
  <2>2. TypeOK'
    BY <2>1 DEF IInv, TypeOK, arenaVars, dispatcherVars, callVars, heldVars, resultVars
  <2> QED
    BY <2>1, <2>2 DEF IInv, CallInv, HeldInv, ResultInv, ContextInv, DebtInv, arenaVars,
                      dispatcherVars, callVars, heldVars, resultVars
<1> QED
  BY <1>1, <1>2, <1>3, <1>4, <1>5, <1>6, <1>7, <1>8, <1>9, <1>10, <1>11 DEF Next

(* The inductive invariant holds throughout.                               *)
LEMMA AlwaysIInv == Spec => []IInv
BY InitIInv, NextIInv, PTL DEF Spec

----------------------------------------------------------------------------
(* Every variable keeps its type: for every buffer capacity and every      *)
(* bounded allocation size, wasmMalloc never moves past the end of         *)
(* mallocBuffer.                                                           *)
THEOREM TypeCorrect == Spec => []TypeOK
<1>1. IInv => TypeOK
  BY DEF IInv
<1> QED
  BY <1>1, AlwaysIInv, PTL

(* Handlers are selected by and read what the host sent with this call,    *)
(* although every host call made since overwrote the buffer it came in.    *)
THEOREM CallsKeepTheirPayload == Spec => []HandlerSeesItsCall
<1>1. IInv => HandlerSeesItsCall
  BY DEF IInv, CallInv, HandlerSeesItsCall, Bytes, HandlerExports, ResultExports
<1> QED
  BY <1>1, AlwaysIInv, PTL

(* Results and payloads that plugin code kept stay what the host delivered. *)
THEOREM HeldResultsStay == Spec => []HeldResultIntact
<1>1. IInv => HeldResultIntact
  BY DEF IInv, HeldInv, HeldResultIntact, Bytes
<1> QED
  BY <1>1, AlwaysIInv, PTL

(* The host reads the packed result, bounded by maxResultBytes, for as     *)
(* long as no other result has replaced it.                                *)
THEOREM RepliesStay == Spec => []HostReadsTheReply
<1>1. IInv => HostReadsTheReply
  BY DEF IInv, ResultInv, HostReadsTheReply, Bytes
<1> QED
  BY <1>1, AlwaysIInv, PTL

(* A handler runs on the Context of one Init, the one that succeeded.      *)
THEOREM OneContext == Spec => []ContextOfOneInit
<1>1. IInv => ContextOfOneInit
  BY DEF IInv, ContextInv, ContextOfOneInit
<1> QED
  BY <1>1, AlwaysIInv, PTL

(* Result exports give back what their request took from the buffer.       *)
THEOREM RequestsReclaim == Spec => []OnlyDebtRemains
<1>1. IInv => OnlyDebtRemains
  BY DEF IInv, CallInv, DebtInv, OnlyDebtRemains, ResultExports
<1> QED
  BY <1>1, AlwaysIInv, PTL

(* A successful Init is final: no later step calls Init again or changes   *)
(* the Context it built.                                                   *)
THEOREM InitFinal == Spec => InitIsFinal
<1>1. IInv /\ [Next]_vars => [initted => initted' /\ ctx' = ctx /\ inits' = inits]_vars
  <2> SUFFICES ASSUME IInv, Next, initted PROVE initted' /\ ctx' = ctx /\ inits' = inits
    OBVIOUS
  <2>1. pc # "initializing"
    BY DEF IInv, ContextInv
  <2> QED
    BY <2>1, ZenonT(60) DEF Next, Run, malloc, ResetAllocator, CallResultExport, CallHandleEvent, CallInit,
       CallShutdown, DecodePayload, CopyEvent, InitDone, InitBegin, Register, InitSucceeds,
       InitFails, Lookup, HandlerReturns, ShutdownReturns, PackResult, HostDelivers,
       HostDeliversNothing, KeepPayload, dispatcherVars
<1> QED
  BY <1>1, AlwaysIInv, PTL DEF Spec, InitIsFinal
============================================================================
