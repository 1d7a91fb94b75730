----------------------------- MODULE HostArena -----------------------------
(***************************************************************************)
(* The buffer of WasmMalloc with its contents, and the byte slices through *)
(* which plugin code meets it: they either alias the buffer (wasmSlice) or *)
(* were copied to the Go heap.                                             *)
(*                                                                         *)
(* Contents are abstract: a block holds one content, written to each of    *)
(* its cells; reading cells that no longer agree yields "garbage".         *)
(***************************************************************************)
EXTENDS WasmMalloc

CONSTANT
  Names       \* what a payload or a host result may say

ASSUME NamesAssumption ==
  {"malformed", "nothing", "garbage"} \cap Names = {}

VARIABLE
  mallocBuffer    \* the buffer's cells

arenaVars == <<mallocOffset, mallocBuffer>>

Sendable == Names \cup {"malformed", "nothing"}
Contents == Sendable \cup {"garbage"}
Cells == 1..ArenaCap

(* The host's write of content c into the block it was given.              *)
Written(buffer, ptr, size, c) ==
  [i \in Cells |-> IF i >= ptr /\ i < ptr + size THEN c ELSE buffer[i]]

----------------------------------------------------------------------------
(* Go byte slices.  heap: a copy, holding val; otherwise an alias of the   *)
(* buffer's cells ptr .. ptr+len-1.                                        *)
Nil == [heap |-> TRUE, ptr |-> 0, len |-> 0, val |-> "nothing"]

wasmSlice(ptr, length) ==
  IF length = 0 \/ ptr < mallocBase \/ ptr - mallocBase + length > ArenaCap
    THEN Nil
    ELSE [heap |-> FALSE, ptr |-> ptr, len |-> length, val |-> "nothing"]

(* The bytes in cells ptr .. ptr+len-1 of a buffer.                        *)
Load(buffer, ptr, length) ==
  IF \A i \in Cells : i >= ptr /\ i < ptr + length => buffer[i] = buffer[ptr]
    THEN buffer[ptr]
    ELSE "garbage"

(* What reading slice b yields, given the buffer's current cells.          *)
Bytes(buffer, b) == IF b.heap THEN b.val ELSE Load(buffer, b.ptr, b.len)

(* append([]byte(nil), b...), string(b), or an Unmarshal of b.             *)
Copied(buffer, b) ==
  [heap |-> TRUE, ptr |-> 0, len |-> b.len, val |-> Bytes(buffer, b)]

----------------------------------------------------------------------------
ArenaInit ==
  /\ mallocOffset = 0
  /\ mallocBuffer = [i \in Cells |-> "nothing"]

(* The host allocates size bytes and writes c there; refused when full.    *)
HostWrites(size, c) ==
  LET ptr == MallocAt(mallocOffset, size)
  IN  /\ ptr # 0
      /\ mallocOffset' = OffsetAfter(mallocOffset, size)
      /\ mallocBuffer' = Written(mallocBuffer, ptr, size, c)
============================================================================
