---------------------------- MODULE WasmMalloc -----------------------------
(***************************************************************************)
(* The bump allocator over mallocBuffer, the fixed buffer a WASM plugin    *)
(* lends to its host (wasm_backends.go).  The host allocates in it with    *)
(* paca_malloc to pass request payloads in and to deliver host-call        *)
(* results; nothing is ever freed one block at a time, wasmResetAllocator  *)
(* releases the whole buffer at once.                                      *)
(***************************************************************************)
EXTENDS Integers

CONSTANTS
  ArenaCap,   \* len(mallocBuffer)
  MaxSize,    \* the largest size the host passes to paca_malloc
  MaxInt32    \* largest value of the int32 sizes and offsets

ASSUME ArenaCapAssumption == ArenaCap \in Nat \ {0}
ASSUME MaxSizeAssumption == MaxSize \in Nat \ {0}
(* The host bounds what it sends (1 MiB requests, 50 MiB fetch bodies), far *)
(* below 2^31 - 1 MiB, so that the int32 sum in wasmMalloc cannot wrap.     *)
ASSUME Int32Assumption == MaxInt32 \in Nat /\ ArenaCap + MaxSize <= MaxInt32

VARIABLE
  mallocOffset   \* next free position of the buffer

(* The address of the first cell; 0 is the null pointer.                   *)
mallocBase == 1

(* int32 addition, wrapping as Go's does.                                  *)
Add32(a, b) ==
  IF a + b > MaxInt32 THEN a + b - 2 * (MaxInt32 + 1) ELSE a + b

(* Mutation: the end of the buffer is off by one.                          *)
MallocPastEnd(offset, size) ==
  IF size <= 0 \/ Add32(offset, size) > ArenaCap + 1 THEN 0 ELSE mallocBase + offset

(* Where wasmMalloc places a block of size bytes when the next free        *)
(* position is offset: 0 when it refuses.                                  *)
MallocAt(offset, size) ==
  IF size <= 0 \/ Add32(offset, size) > ArenaCap THEN 0 ELSE mallocBase + offset

(* The next free position after that call.                                 *)
OffsetAfter(offset, size) ==
  IF MallocAt(offset, size) = 0 THEN offset ELSE offset + size

(* Mutation: the allocator is not reset.                                   *)
NoReset == mallocOffset

(* mallocOffset after a reset; the cells keep their contents.              *)
wasmResetAllocator == 0
============================================================================
