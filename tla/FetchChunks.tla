---------------------------- MODULE FetchChunks ----------------------------
(***************************************************************************)
(* plugin.Fetch (wasm_backends.go) and the chunked transfer of a response  *)
(* too large for one envelope (fetch_chunks.go): the host parks the body   *)
(* and the plugin drains it with reads of at most limit bytes, halving     *)
(* limit when a chunk does not fit the buffer it has to be delivered in.   *)
(*                                                                         *)
(* The host is external.  A "serving" one delivers its response as far as  *)
(* the buffer allows.  A "failing" one announces the true size and sends   *)
(* true bytes, but chunks of any length, an end at any point and errors at *)
(* any read.  A "lying" one announces and sends anything.                  *)
(* Byte i of the response is the number i.                                 *)
(***************************************************************************)
EXTENDS WasmMalloc, Sequences

CONSTANTS
  fetchChunkSize, minFetchChunkSize, maxFetchBodyBytes,
  EnvelopeBytes,   \* what a reply takes besides the bytes of the body
  MaxResponse,     \* bound: the longest response a host has
  MaxChunk         \* bound: the longest chunk a misbehaving host sends

ASSUME ChunkAssumption ==
  /\ minFetchChunkSize \in Nat \ {0}
  /\ fetchChunkSize \in Nat /\ fetchChunkSize >= minFetchChunkSize
ASSUME BodyAssumption ==
  maxFetchBodyBytes \in Nat /\ MaxResponse \in Nat /\ MaxChunk \in Nat
ASSUME EnvelopeAssumption == EnvelopeBytes \in Nat \ {0}
(* The host allocates no more than MaxSize for any of its replies.         *)
ASSUME ReplyAssumption ==
  /\ EnvelopeBytes + MaxResponse <= MaxSize
  /\ \A n \in {MaxResponse, MaxChunk} : EnvelopeBytes + 4 * ((n + 2) \div 3) <= MaxSize

VARIABLES
  host,       \* "serving", "failing" or "lying"
  response,   \* the body it has
  pc,         \* "fetch", "read" or "done"
  size,       \* the announced body_size
  limit,      \* bytes asked for in the next read
  body,       \* what was read so far
  turn,       \* flips at every read, so that a read that brings nothing is a step
  result      \* how Fetch ended

hostVars == <<host, response>>
vars == <<mallocOffset, host, response, pc, size, limit, body, turn, result>>

(* How a host call can fail: an error envelope, with or without the code   *)
(* response_too_large, or no reply at all.                                 *)
HostErrors == {"too large", "no data", "failed"}
Errors == HostErrors \cup {"overrun", "short", "empty chunk"}

(* Bytes first+1 .. last of the response.                                  *)
Piece(first, last) == [i \in 1..(last - first) |-> first + i]

(* Whether the host can deliver a reply of n bytes.                        *)
Fits(n) == MallocAt(mallocOffset, n) # 0

(* The bytes a chunk takes on the wire, base64 in a JSON envelope.         *)
ChunkReply(n) == EnvelopeBytes + 4 * ((n + 2) \div 3)

Init ==
  /\ mallocOffset \in 0..ArenaCap
  /\ host \in {"serving", "failing", "lying"}
  /\ \E n \in 0..MaxResponse : response = Piece(0, n)
  /\ pc = "fetch" /\ size = 0 /\ limit = fetchChunkSize /\ body = <<>>
  /\ turn = 0
  /\ result = "none"

(* Mutation: a delivered reply is not released.                            *)
ReplyKept(n) == mallocOffset' = OffsetAfter(mallocOffset, n)

(* callFetchHost copies a delivered reply of n bytes and releases the      *)
(* buffer.                                                                 *)
callFetchHost(n) == mallocOffset' = wasmResetAllocator

Ends(how) ==
  /\ pc' = "done" /\ result' = how
  /\ UNCHANGED <<size, limit>>

----------------------------------------------------------------------------
(* The request itself.                                                     *)

(* The whole response in one envelope.                                     *)
FetchInline ==
  /\ pc = "fetch"
  /\ Fits(EnvelopeBytes + Len(response))
  /\ callFetchHost(EnvelopeBytes + Len(response))
  /\ body' = response
  /\ Ends("ok")
  /\ UNCHANGED <<hostVars, turn>>

(* A body_handle for a parked body of n bytes; readBodyChunks refuses a    *)
(* size it would not allocate.                                             *)
FetchParked(n) ==
  /\ pc = "fetch"
  /\ Fits(EnvelopeBytes)
  /\ host # "lying" => n = Len(response)
  /\ host = "serving" => ~Fits(EnvelopeBytes + Len(response))
  /\ callFetchHost(EnvelopeBytes)
  /\ size' = n
  /\ IF n < 0 \/ n > maxFetchBodyBytes
       THEN pc' = "done" /\ result' = "too large"
       ELSE pc' = "read" /\ UNCHANGED result
  /\ UNCHANGED <<hostVars, limit, body, turn>>

(* An error envelope, or no reply at all.                                  *)
FetchFails(err) ==
  /\ pc = "fetch"
  /\ host = "serving" => ~Fits(EnvelopeBytes)
  /\ IF err = "no data" THEN UNCHANGED mallocOffset
                        ELSE Fits(EnvelopeBytes) /\ callFetchHost(EnvelopeBytes)
  /\ Ends(err)
  /\ UNCHANGED <<hostVars, body, turn>>

----------------------------------------------------------------------------
(* readBodyChunks                                                          *)

(* Mutation: a retry asks for what follows the byte that did not fit.      *)
SkipsOnRetry == Len(body) + IF limit < fetchChunkSize THEN 1 ELSE 0

(* The offset a read asks for, a retry's included.                         *)
readOffset == Len(body)

(* Where a full answer to read(handle, readOffset, limit) ends.            *)
ServedEnd ==
  IF readOffset + limit < Len(response) THEN readOffset + limit ELSE Len(response)

(* The answers of a host; a serving one sends all it was asked for and may *)
(* notice the end of the body only on the next read.                       *)
Answers(chunk, done) ==
  \/ host = "lying"
  \/ host = "failing" /\ \E n \in readOffset..Len(response) : chunk = Piece(readOffset, n)
  \/ /\ host = "serving"
     /\ chunk = Piece(readOffset, ServedEnd)
     /\ ServedEnd < Len(response) => ~done
     /\ chunk = <<>> => done

(* Mutation: a body that ends early is accepted.                           *)
ShortAccepted(chunk, done) ==
  IF Len(body) + Len(chunk) > size THEN "overrun"
  ELSE IF done THEN "ok"
  ELSE IF Len(chunk) = 0 THEN "empty chunk" ELSE "none"

(* Mutation: the announced size does not bound the body.                   *)
OverrunAccepted(chunk, done) ==
  IF done THEN IF Len(body) + Len(chunk) # size THEN "short" ELSE "ok"
  ELSE IF Len(chunk) = 0 THEN "empty chunk" ELSE "none"

(* Mutation: an empty chunk is read again.                                 *)
EmptyAgain(chunk, done) ==
  IF Len(body) + Len(chunk) > size THEN "overrun"
  ELSE IF done THEN IF Len(body) + Len(chunk) # size THEN "short" ELSE "ok"
  ELSE "none"

(* How a delivered chunk ends the transfer: "none" when it goes on.        *)
AfterChunk(chunk, done) ==
  IF Len(body) + Len(chunk) > size THEN "overrun"
  ELSE IF done THEN IF Len(body) + Len(chunk) # size THEN "short" ELSE "ok"
  ELSE IF Len(chunk) = 0 THEN "empty chunk" ELSE "none"

ReadChunk(chunk, done) ==
  LET how == AfterChunk(chunk, done)
  IN  /\ pc = "read" /\ turn' = 1 - turn
      /\ Answers(chunk, done)
      /\ Fits(ChunkReply(Len(chunk)))
      /\ callFetchHost(ChunkReply(Len(chunk)))
      /\ body' = IF how = "overrun" THEN body ELSE body \o chunk
      /\ IF how = "none" THEN UNCHANGED <<pc, size, limit, result>> ELSE Ends(how)
      /\ UNCHANGED hostVars

(* Mutation: limit shrinks without end.                                    *)
RetriesForever(err) == err \in {"too large", "no data"}

(* Mutation: a reply that did not arrive is not retried.                   *)
RetriesTooLarge(err) == err = "too large" /\ limit > minFetchChunkSize

(* The errors after which a smaller chunk may succeed.                     *)
Retries(err) == err \in {"too large", "no data"} /\ limit > minFetchChunkSize

ReadFails(err) ==
  /\ pc = "read" /\ turn' = 1 - turn
  /\ host = "serving" =>
       /\ err \in {"too large", "no data"}
       /\ ~Fits(ChunkReply(ServedEnd - readOffset))
  /\ IF err = "no data" THEN UNCHANGED mallocOffset
                        ELSE Fits(EnvelopeBytes) /\ callFetchHost(EnvelopeBytes)
  /\ IF Retries(err) THEN limit' = limit \div 2 /\ UNCHANGED <<pc, size, result>>
                     ELSE Ends(err)
  /\ UNCHANGED <<hostVars, body>>

(* What a misbehaving host may send besides pieces of the response.        *)
Junk == {[i \in 1..n |-> 0] : n \in 0..MaxChunk}
Chunks == Junk \cup {Piece(readOffset, n) : n \in readOffset..Len(response)}

Done == pc = "done" /\ UNCHANGED vars

Next ==
  \/ FetchInline
  \/ \E n \in -1..(MaxResponse + 1) : FetchParked(n)
  \/ \E err \in HostErrors : FetchFails(err)
  \/ \E chunk \in Chunks, done \in BOOLEAN : ReadChunk(chunk, done)
  \/ \E err \in HostErrors : ReadFails(err)
  \/ Done

(* A host call returns, and the loop goes on.                              *)
Spec == Init /\ [][Next]_vars /\ WF_vars(Next)
----------------------------------------------------------------------------
(* Every variable stays in its type; in particular limit never shrinks to  *)
(* 0, which no host could answer with progress.                            *)
TypeOK ==
  /\ mallocOffset \in 0..ArenaCap
  /\ host \in {"serving", "failing", "lying"}
  /\ response \in Seq(Nat)
  /\ pc \in {"fetch", "read", "done"}
  /\ size \in Int
  /\ limit \in 1..fetchChunkSize
  /\ body \in Seq(Nat)
  /\ turn \in {0, 1}
  /\ result \in Errors \cup {"none", "ok"}

(* Every read of the loop, retries included, gives the host the whole      *)
(* buffer, however full it was when the plugin called Fetch: a chunk is    *)
(* only refused when it would never fit (callFetchHost's reset).           *)
ReadsFindAFreshBuffer == pc = "read" => mallocOffset = 0

(* Every chunk extends what was already read, with no byte skipped or      *)
(* repeated, however often limit shrank, and never past the announced size *)
(* (readBodyChunks asks at readOffset).                                    *)
BodyIsAPrefix ==
  /\ host # "lying" => body = SubSeq(response, 1, Len(body))
  /\ pc = "read" => Len(body) <= size

Whole == INSTANCE FetchSpec WITH
  MaxBody <- IF maxFetchBodyBytes > ArenaCap THEN maxFetchBodyBytes ELSE ArenaCap,
  truthful <- host # "lying",
  outcome <- IF pc # "done" THEN "pending" ELSE IF result = "ok" THEN "body" ELSE "error",
  bytes <- IF pc = "done" /\ result = "ok" THEN body ELSE <<>>

(* Fetch has one outcome, an error or the whole body, whatever lengths,    *)
(* ends and errors the reads met (FetchSpec's safety part).                *)
WholeBodyOrError == Whole!Safety

(* Fetch ends even against a host that answers every read with nothing:    *)
(* each turn of the loop ends it, shrinks limit or lengthens the body.     *)
FetchEnds == Whole!Answered

(* fetch_chunks.go: "halves the chunk size and retries, down to            *)
(* minFetchChunkSize, so a plugin whose buffer is partly used still        *)
(* succeeds."  When the host is serving, the body is within the limit, the *)
(* first envelope fits what is free and a minimal chunk fits the buffer,   *)
(* Fetch delivers the body.                                                *)
PartlyUsedBufferSucceeds ==
  (/\ pc = "fetch" /\ host = "serving"
   /\ Len(response) <= maxFetchBodyBytes
   /\ Fits(EnvelopeBytes)
   /\ MallocAt(0, ChunkReply(minFetchChunkSize)) # 0)
  ~> (result = "ok")
============================================================================
