------------------------- MODULE FetchChunksProofs -------------------------
(***************************************************************************)
(* For every buffer, chunk size and response, a Fetch that succeeds        *)
(* delivered the whole body: FetchChunks implements the safety part of     *)
(* FetchSpec.                                                              *)
(***************************************************************************)
EXTENDS FetchChunks, TLAPS

(* Byte i of the response is i, and what was read is its first bytes.      *)
ResponseInv ==
  /\ Len(response) <= MaxResponse
  /\ \A i \in 1..Len(response) : response[i] = i

PrefixInv ==
  host # "lying" =>
    Len(body) <= Len(response) /\ \A i \in 1..Len(body) : body[i] = i

(* While it is read, a body stays within an announced size that was        *)
(* checked and, unless the host lies, is true.                             *)
SizeInv ==
  /\ pc = "fetch" => Len(body) = 0
  /\ pc = "read" =>
       /\ Len(body) <= size /\ size <= maxFetchBodyBytes
       /\ host # "lying" => size = Len(response)

(* A success is the whole body.                                            *)
OkInv ==
  /\ pc # "done" => result = "none" /\ mallocOffset \in 0..ArenaCap
  /\ result = "ok" =>
       /\ Len(body) <= maxFetchBodyBytes \/ Len(body) <= ArenaCap
       /\ host # "lying" => Len(body) = Len(response)

IInv ==
  /\ TypeOK /\ ReadsFindAFreshBuffer
  /\ ResponseInv /\ PrefixInv /\ SizeInv /\ OkInv

----------------------------------------------------------------------------
(* A piece of the response is a sequence of its own positions.             *)
LEMMA PieceType ==
  ASSUME NEW m \in Nat, NEW n \in Nat, m <= n
  PROVE  /\ Piece(m, n) \in Seq(Nat)
         /\ Len(Piece(m, n)) = n - m
         /\ \A i \in 1..(n - m) : Piece(m, n)[i] = m + i
BY DEF Piece

(* Appending the piece that starts where the body ends keeps it a prefix.  *)
LEMMA AppendPiece ==
  ASSUME NEW b \in Seq(Nat), \A i \in 1..Len(b) : b[i] = i,
         NEW n \in Nat, Len(b) <= n
  PROVE  /\ b \o Piece(Len(b), n) \in Seq(Nat)
         /\ Len(b \o Piece(Len(b), n)) = n
         /\ \A i \in 1..n : (b \o Piece(Len(b), n))[i] = i
<1> DEFINE c == Piece(Len(b), n)
<1>1. c \in Seq(Nat) /\ Len(c) = n - Len(b) /\ \A i \in 1..(n - Len(b)) : c[i] = Len(b) + i
  BY PieceType
<1> HIDE DEF c
<1>2. b \o c \in Seq(Nat) /\ Len(b \o c) = n
  BY <1>1
<1>3. ASSUME NEW i \in 1..n PROVE (b \o c)[i] = i
  <2>1. CASE i <= Len(b)
    <3>1. i \in 1..Len(b)
      BY <2>1
    <3>2. (b \o c)[i] = b[i]
      BY <1>1, <3>1
    <3> QED
      BY <3>1, <3>2
  <2>2. CASE ~(i <= Len(b))
    <3>0. i > Len(b)
      BY <2>2
    <3>1. i - Len(b) \in 1..(n - Len(b))
      BY <3>0
    <3>2. (b \o c)[i] = c[i - Len(b)]
      BY <1>1, <3>0
    <3> QED
      BY <1>1, <3>1, <3>2
  <2> QED
    BY <2>1, <2>2
<1> QED
  BY <1>2, <1>3 DEF c

(* Two sequences of the same length that hold their positions are equal.   *)
LEMMA SamePositions ==
  ASSUME NEW b \in Seq(Nat), NEW c \in Seq(Nat), Len(b) = Len(c),
         \A i \in 1..Len(b) : b[i] = i, \A i \in 1..Len(c) : c[i] = i
  PROVE  b = c
BY SMT

(* The initial states satisfy the inductive invariant.                     *)
LEMMA InitIInv == Init => IInv
<1> SUFFICES ASSUME Init PROVE IInv
  OBVIOUS
<1>1. PICK n \in 0..MaxResponse : response = Piece(0, n)
  BY DEF Init
<1>2. n \in Nat /\ n <= MaxResponse
  BY BodyAssumption
<1>3. response \in Seq(Nat) /\ Len(response) = n /\ \A i \in 1..n : response[i] = i
  <2>1. response = [i \in 1..n |-> i]
    BY <1>1, <1>2 DEF Piece
  <2> QED
    BY <1>2, <2>1
<1>4. body = <<>> /\ body \in Seq(Nat) /\ Len(body) = 0
  BY DEF Init
<1>5. TypeOK
  BY <1>3, <1>4, ChunkAssumption DEF Init, TypeOK
<1>6. ReadsFindAFreshBuffer /\ SizeInv
  BY <1>4 DEF Init, ReadsFindAFreshBuffer, SizeInv
<1>7. ResponseInv
  BY <1>2, <1>3 DEF ResponseInv
<1>8. PrefixInv
  BY <1>2, <1>3, <1>4 DEF PrefixInv
<1>9. OkInv
  BY DEF Init, OkInv
<1> QED
  BY <1>5, <1>6, <1>7, <1>8, <1>9 DEF IInv

(* The whole response in one envelope keeps the invariant.                 *)
LEMMA FetchInlineIInv == IInv /\ FetchInline => IInv'
<1> SUFFICES ASSUME IInv, FetchInline PROVE IInv'
  OBVIOUS
<1>1. /\ pc = "fetch" /\ pc' = "done" /\ result' = "ok" /\ body' = response
      /\ mallocOffset' = 0 /\ size' = size /\ limit' = limit
      /\ host' = host /\ response' = response /\ turn' = turn
      /\ Fits(EnvelopeBytes + Len(response))
  BY DEF FetchInline, Ends, callFetchHost, wasmResetAllocator, hostVars
<1>2. Len(response) \in Nat /\ Len(response) <= MaxResponse
  BY DEF IInv, TypeOK, ResponseInv
<1>3. Len(response) <= ArenaCap
  <2>1. mallocOffset \in 0..ArenaCap
    BY DEF IInv, TypeOK
  <2>2. EnvelopeBytes + Len(response) <= MaxSize
    BY <1>2, ReplyAssumption, EnvelopeAssumption, BodyAssumption, MaxSizeAssumption
  <2> DEFINE n == EnvelopeBytes + Len(response)
  <2>3. n \in Nat /\ n > 0
    BY <1>2, EnvelopeAssumption
  <2>4. MallocAt(mallocOffset, n) # 0
    BY <1>1 DEF Fits
  <2>4a. n <= MaxSize
    BY <2>2
  <2> HIDE DEF n
  <2>5. mallocOffset + n <= ArenaCap
    BY <2>1, <2>3, <2>4, <2>4a, ArenaCapAssumption, MaxSizeAssumption, Int32Assumption
       DEF MallocAt, Add32, mallocBase
  <2> QED
    BY <1>2, <2>1, <2>5, EnvelopeAssumption, ArenaCapAssumption DEF n
<1>4. TypeOK'
  BY <1>1, ArenaCapAssumption DEF IInv, TypeOK
<1>5. ReadsFindAFreshBuffer' /\ SizeInv'
  BY <1>1 DEF ReadsFindAFreshBuffer, SizeInv
<1>6. ResponseInv' /\ PrefixInv'
  BY <1>1, <1>2 DEF IInv, ResponseInv, PrefixInv
<1>7. OkInv'
  BY <1>1, <1>3 DEF OkInv
<1> QED
  BY <1>4, <1>5, <1>6, <1>7 DEF IInv

(* Parking the body keeps the invariant: reading starts only for a size    *)
(* within the limit.                                                       *)
LEMMA FetchParkedIInv ==
  ASSUME IInv, NEW n \in -1..(MaxResponse + 1), FetchParked(n)
  PROVE  IInv'
<1>1. /\ pc = "fetch" /\ mallocOffset' = 0 /\ size' = n
      /\ host # "lying" => n = Len(response)
      /\ UNCHANGED <<host, response, limit, body, turn>>
      /\ \/ pc' = "done" /\ result' = "too large"
         \/ ~(n < 0 \/ n > maxFetchBodyBytes) /\ pc' = "read" /\ result' = result
  BY DEF FetchParked, callFetchHost, wasmResetAllocator, hostVars
<1>2. n \in Int
  BY BodyAssumption
<1>3. TypeOK'
  <2>0. result \in Errors \cup {"none", "ok"}
    BY DEF IInv, TypeOK
  <2>1. pc' \in {"fetch", "read", "done"} /\ result' \in Errors \cup {"none", "ok"}
    BY <1>1, <2>0, Zenon DEF Errors, HostErrors
  <2>2. mallocOffset' \in 0..ArenaCap /\ size' \in Int
    <3>1. mallocOffset' = 0 /\ size' = n
      BY <1>1
    <3> QED
      BY <3>1, <1>2, ArenaCapAssumption
  <2> QED
    BY <1>1, <2>1, <2>2 DEF IInv, TypeOK
<1>4. ReadsFindAFreshBuffer'
  BY <1>1 DEF ReadsFindAFreshBuffer
<1>5. Len(body) = 0
  BY <1>1 DEF IInv, SizeInv
<1>6. ResponseInv' /\ PrefixInv'
  BY <1>1 DEF IInv, ResponseInv, PrefixInv
<1>7. OkInv'
  BY <1>1, <1>3 DEF IInv, OkInv, TypeOK
<1>8. SizeInv'
  <2>1. CASE pc' = "done"
    BY <2>1 DEF SizeInv
  <2>2. CASE pc' = "read"
    <3>1. ~(n < 0 \/ n > maxFetchBodyBytes)
      BY <1>1, <2>2
    <3>2. 0 <= n /\ n <= maxFetchBodyBytes
      BY <3>1, <1>2, BodyAssumption
    <3>3. body' = body /\ size' = n /\ (host' # "lying" => n = Len(response'))
      BY <1>1
    <3> QED
      BY <2>2, <3>2, <3>3, <1>5 DEF SizeInv
  <2> QED
    BY <1>1, <2>1, <2>2
<1> QED
  BY <1>3, <1>4, <1>6, <1>7, <1>8 DEF IInv

(* A failed request keeps the invariant.                                   *)
LEMMA FetchFailsIInv ==
  ASSUME IInv, NEW err \in HostErrors, FetchFails(err)
  PROVE  IInv'
<1>1. /\ pc = "fetch" /\ pc' = "done" /\ result' = err
      /\ mallocOffset' = mallocOffset \/ mallocOffset' = 0
      /\ UNCHANGED <<host, response, size, limit, body, turn>>
  BY DEF FetchFails, Ends, callFetchHost, wasmResetAllocator, hostVars
<1>2. result' \in Errors \cup {"none", "ok"} /\ result' # "ok"
  BY <1>1 DEF Errors, HostErrors
<1>3. TypeOK'
  <2>1. mallocOffset' \in 0..ArenaCap
    <3>1. mallocOffset' = mallocOffset \/ mallocOffset' = 0
      BY <1>1
    <3> QED
      BY <3>1, ArenaCapAssumption DEF IInv, TypeOK
  <2> QED
    BY <1>1, <1>2, <2>1 DEF IInv, TypeOK
<1>4. ReadsFindAFreshBuffer' /\ SizeInv' /\ OkInv'
  BY <1>1, <1>2 DEF ReadsFindAFreshBuffer, SizeInv, OkInv
<1>5. ResponseInv' /\ PrefixInv'
  BY <1>1 DEF IInv, ResponseInv, PrefixInv
<1> QED
  BY <1>3, <1>4, <1>5 DEF IInv

(* A failed read keeps the invariant: a retry asks for at least one byte.  *)
LEMMA ReadFailsIInv ==
  ASSUME IInv, NEW err \in HostErrors, ReadFails(err)
  PROVE  IInv'
<1>1. /\ pc = "read" /\ turn' = 1 - turn
      /\ mallocOffset' = mallocOffset \/ mallocOffset' = 0
      /\ UNCHANGED <<host, response, size, body>>
      /\ \/ Retries(err) /\ limit' = limit \div 2 /\ UNCHANGED <<pc, result>>
         \/ pc' = "done" /\ result' = err /\ limit' = limit
  BY DEF ReadFails, Ends, callFetchHost, wasmResetAllocator, hostVars
<1>2. mallocOffset = 0 /\ mallocOffset' = 0
  BY <1>1 DEF IInv, ReadsFindAFreshBuffer
<1>3. limit' \in 1..fetchChunkSize
  <2>1. limit \in 1..fetchChunkSize
    BY DEF IInv, TypeOK
  <2>1a. limit \in Nat /\ minFetchChunkSize \in Nat \ {0} /\ fetchChunkSize \in Nat
    BY <2>1, ChunkAssumption
  <2>2. CASE limit' = limit
    BY <2>1, <2>2
  <2>3. CASE Retries(err) /\ limit' = limit \div 2
    <3>1. limit > minFetchChunkSize
      BY <2>3 DEF Retries
    <3>2. limit >= 2 /\ limit \in Nat
      BY <2>1a, <3>1
    <3>3. limit \div 2 >= 1 /\ limit \div 2 <= limit /\ limit \div 2 \in Nat
      BY <3>2
    <3> QED
      <4>1. limit' = limit \div 2
        BY <2>3
      <4> QED
        BY <2>1, <2>1a, <3>3, <4>1
  <2> QED
    BY <1>1, <2>2, <2>3
<1>4. /\ pc' \in {"read", "done"} /\ (pc' = "read" => result' = result)
      /\ (pc' = "done" => result' = err)
      /\ result' \in Errors \cup {"none", "ok"}
  BY <1>1, Zenon DEF Errors, HostErrors, IInv, TypeOK
<1>5. TypeOK'
  BY <1>1, <1>2, <1>3, <1>4, ArenaCapAssumption DEF IInv, TypeOK
<1>6. ReadsFindAFreshBuffer'
  BY <1>2 DEF ReadsFindAFreshBuffer
<1>7. ResponseInv' /\ PrefixInv' /\ SizeInv'
  <2>1. UNCHANGED <<host, response, size, body>> /\ pc = "read" /\ pc' # "fetch"
    BY <1>1, <1>4
  <2> QED
    BY <2>1 DEF IInv, ResponseInv, PrefixInv, SizeInv
<1>8. OkInv'
  <2>1. result' # "ok" /\ (pc' # "done" => result' = "none")
    BY <1>1, <1>4 DEF IInv, OkInv, HostErrors
  <2> QED
    BY <2>1, <1>5 DEF OkInv, TypeOK
<1> QED
  BY <1>5, <1>6, <1>7, <1>8 DEF IInv

(* A chunk that does not overrun keeps the body a prefix.                  *)
LEMMA ChunkKeepsPrefix ==
  ASSUME IInv, NEW chunk \in Chunks, NEW done \in BOOLEAN, Answers(chunk, done)
  PROVE  /\ chunk \in Seq(Nat)
         /\ host # "lying" =>
              /\ Len(body \o chunk) <= Len(response)
              /\ \A i \in 1..Len(body \o chunk) : (body \o chunk)[i] = i
<1>0. /\ body \in Seq(Nat) /\ response \in Seq(Nat) /\ limit \in 1..fetchChunkSize
      /\ Len(body) \in Nat /\ Len(response) \in Nat
  BY DEF IInv, TypeOK
<1>1. ASSUME NEW n \in Len(body)..Len(response), chunk = Piece(Len(body), n)
      PROVE  /\ chunk \in Seq(Nat)
             /\ host # "lying" =>
                  /\ Len(body \o chunk) <= Len(response)
                  /\ \A i \in 1..Len(body \o chunk) : (body \o chunk)[i] = i
  <2>1. n \in Nat /\ Len(body) <= n /\ n <= Len(response)
    BY <1>0
  <2>2. chunk \in Seq(Nat)
    BY <1>0, <1>1, <2>1, PieceType
  <2>3. ASSUME host # "lying"
        PROVE  /\ Len(body \o chunk) = n
               /\ \A i \in 1..n : (body \o chunk)[i] = i
    <3>1. \A i \in 1..Len(body) : body[i] = i
      BY <2>3 DEF IInv, PrefixInv
    <3> QED
      BY <1>0, <1>1, <2>1, <3>1, AppendPiece
  <2> QED
    BY <2>1, <2>2, <2>3
<1>2. CASE chunk \in Junk
  <2>1. PICK n \in 0..MaxChunk : chunk = [i \in 1..n |-> 0]
    BY <1>2 DEF Junk
  <2>2. chunk \in Seq(Nat)
    BY <2>1, BodyAssumption
  <2>3. CASE host = "lying"
    BY <2>2, <2>3
  <2>4. CASE host = "failing"
    BY <1>1, <2>4 DEF Answers, readOffset
  <2>5. CASE host = "serving"
    <3>1. chunk = Piece(Len(body), ServedEnd)
      BY <2>5 DEF Answers, readOffset
    <3>2. Len(body) <= Len(response)
      BY <2>5 DEF IInv, PrefixInv
    <3>3. ServedEnd \in Len(body)..Len(response)
      BY <1>0, <3>2, ChunkAssumption DEF ServedEnd, readOffset
    <3> QED
      BY <1>1, <3>1, <3>3
  <2> QED
    BY <2>3, <2>4, <2>5 DEF Answers, readOffset
<1>3. CASE \E n \in Len(body)..Len(response) : chunk = Piece(Len(body), n)
  BY <1>1, <1>3
<1> QED
  BY <1>2, <1>3 DEF Chunks, readOffset

(* A delivered chunk keeps the invariant: it ends the transfer with an     *)
(* error, with the whole body, or leaves a longer prefix.                  *)
LEMMA ReadChunkIInv ==
  ASSUME IInv, NEW chunk \in Chunks, NEW done \in BOOLEAN, ReadChunk(chunk, done)
  PROVE  IInv'
<1> DEFINE how == AfterChunk(chunk, done)
<1>1. /\ pc = "read" /\ Answers(chunk, done) /\ turn' = 1 - turn
      /\ mallocOffset' = 0
      /\ body' = IF how = "overrun" THEN body ELSE body \o chunk
      /\ IF how = "none" THEN UNCHANGED <<pc, size, limit, result>> ELSE Ends(how)
      /\ host' = host /\ response' = response
  BY DEF ReadChunk, callFetchHost, wasmResetAllocator, hostVars
<1>2. /\ chunk \in Seq(Nat)
      /\ host # "lying" =>
           /\ Len(body \o chunk) <= Len(response)
           /\ \A i \in 1..Len(body \o chunk) : (body \o chunk)[i] = i
  BY <1>1, ChunkKeepsPrefix
<1>3. /\ body \in Seq(Nat) /\ size \in Int
      /\ Len(body) \in Nat /\ Len(chunk) \in Nat
      /\ Len(body \o chunk) = Len(body) + Len(chunk)
      /\ body \o chunk \in Seq(Nat)
  BY <1>2 DEF IInv, TypeOK
<1>4. /\ how # "overrun" => Len(body) + Len(chunk) <= size
      /\ how = "ok" => Len(body) + Len(chunk) = size
      /\ how \in {"overrun", "short", "ok", "empty chunk", "none"}
  <2>1. CASE Len(body) + Len(chunk) > size
    BY <2>1, <1>3 DEF AfterChunk
  <2>2. CASE ~(Len(body) + Len(chunk) > size)
    <3>1. Len(body) + Len(chunk) <= size
      BY <2>2, <1>3
    <3>2. how = IF done THEN IF Len(body) + Len(chunk) # size THEN "short" ELSE "ok"
                ELSE IF Len(chunk) = 0 THEN "empty chunk" ELSE "none"
      BY <2>2, Zenon DEF AfterChunk
    <3>3. /\ how = "ok" => Len(body) + Len(chunk) = size
          /\ how \in {"overrun", "short", "ok", "empty chunk", "none"}
      BY <3>2, Zenon
    <3> QED
      BY <3>1, <3>3
  <2> QED
    BY <2>1, <2>2
<1> HIDE DEF how
<1>5. /\ size' = size /\ limit' = limit
      /\ how = "none" => pc' = "read" /\ result' = result
      /\ how # "none" => pc' = "done" /\ result' = how
  BY <1>1, Zenon DEF Ends
<1>6. /\ how = "overrun" => body' = body
      /\ how # "overrun" => body' = body \o chunk
  BY <1>1, Zenon
<1>7. /\ size <= maxFetchBodyBytes
      /\ host # "lying" => size = Len(response)
      /\ result = "none"
  BY <1>1 DEF IInv, SizeInv, OkInv
<1>8. TypeOK'
  <2>1. mallocOffset' \in 0..ArenaCap
    <3>1. mallocOffset' = 0
      BY <1>1
    <3> QED
      BY <3>1, ArenaCapAssumption
  <2>2. body' \in Seq(Nat)
    BY <1>3, <1>6
  <2>3. pc' \in {"fetch", "read", "done"} /\ result' \in Errors \cup {"none", "ok"}
    BY <1>4, <1>5, <1>7, Zenon DEF Errors
  <2> QED
    BY <1>1, <1>5, <2>1, <2>2, <2>3 DEF IInv, TypeOK
<1>9. ReadsFindAFreshBuffer' /\ ResponseInv'
  <2>1. mallocOffset' = 0 /\ response' = response
    BY <1>1
  <2> QED
    BY <2>1 DEF IInv, ReadsFindAFreshBuffer, ResponseInv
<1>10. PrefixInv'
  <2>1. host' = host /\ response' = response
    BY <1>1
  <2>2. CASE how = "overrun"
    BY <1>6, <2>1, <2>2 DEF IInv, PrefixInv
  <2>3. CASE how # "overrun"
    BY <1>2, <1>6, <2>1, <2>3 DEF PrefixInv
  <2> QED
    BY <2>2, <2>3
<1>11. SizeInv'
  <2>1. host' = host /\ response' = response
    BY <1>1
  <2>2. CASE how = "none"
    <3>1. body' = body \o chunk /\ Len(body \o chunk) <= size
      BY <1>3, <1>4, <1>6, <2>2
    <3> QED
      BY <1>5, <1>7, <2>1, <2>2, <3>1 DEF SizeInv
  <2>3. CASE how # "none"
    BY <1>5, <2>3 DEF SizeInv
  <2> QED
    BY <2>2, <2>3
<1>12. OkInv'
  <2>1. host' = host /\ response' = response
    BY <1>1
  <2>2. pc' # "done" => result' = "none" /\ mallocOffset' \in 0..ArenaCap
    BY <1>5, <1>7, <1>8 DEF TypeOK
  <2>3. ASSUME result' = "ok"
        PROVE  Len(body') = size
    <3>1. how = "ok"
      BY <2>3, <1>5, <1>7
    <3>2. body' = body \o chunk
      BY <3>1, <1>6
    <3> QED
      BY <3>1, <3>2, <1>3, <1>4
  <2> QED
    BY <1>7, <2>1, <2>2, <2>3 DEF OkInv
<1> QED
  BY <1>8, <1>9, <1>10, <1>11, <1>12 DEF IInv

(* Every step keeps the inductive invariant.                               *)
LEMMA NextIInv == IInv /\ [Next]_vars => IInv'
<1> SUFFICES ASSUME IInv, [Next]_vars PROVE IInv'
  OBVIOUS
<1>1. CASE FetchInline
  BY <1>1, FetchInlineIInv
<1>2. CASE \E n \in -1..(MaxResponse + 1) : FetchParked(n)
  BY <1>2, FetchParkedIInv
<1>3. CASE \E err \in HostErrors : FetchFails(err)
  BY <1>3, FetchFailsIInv
<1>4. CASE \E chunk \in Chunks, done \in BOOLEAN : ReadChunk(chunk, done)
  BY <1>4, ReadChunkIInv
<1>5. CASE \E err \in HostErrors : ReadFails(err)
  BY <1>5, ReadFailsIInv
<1>6. CASE UNCHANGED vars
  BY <1>6 DEF vars, IInv, TypeOK, ReadsFindAFreshBuffer, ResponseInv, PrefixInv, SizeInv, OkInv
<1> QED
  BY <1>1, <1>2, <1>3, <1>4, <1>5, <1>6 DEF Next, Done

(* The inductive invariant holds throughout.                               *)
LEMMA AlwaysIInv == Spec => []IInv
BY InitIInv, NextIInv, PTL DEF Spec

----------------------------------------------------------------------------
(* Every variable keeps its type; limit stays positive.                    *)
THEOREM TypeCorrect == Spec => []TypeOK
<1>1. IInv => TypeOK
  BY DEF IInv
<1> QED
  BY <1>1, AlwaysIInv, PTL

(* Every read of readBodyChunks finds the whole host buffer free.          *)
THEOREM FreshBuffer == Spec => []ReadsFindAFreshBuffer
<1>1. IInv => ReadsFindAFreshBuffer
  BY DEF IInv
<1> QED
  BY <1>1, AlwaysIInv, PTL

(* What readBodyChunks has read is the beginning of the response.          *)
THEOREM ReadsInOrder == Spec => []BodyIsAPrefix
<1>1. IInv => BodyIsAPrefix
  <2> SUFFICES ASSUME IInv PROVE BodyIsAPrefix
    OBVIOUS
  <2>1. pc = "read" => Len(body) <= size
    BY DEF IInv, SizeInv
  <2>2. ASSUME host # "lying" PROVE body = SubSeq(response, 1, Len(body))
    <3> DEFINE first == SubSeq(response, 1, Len(body))
    <3>1. /\ body \in Seq(Nat) /\ response \in Seq(Nat)
          /\ Len(body) <= Len(response)
          /\ \A i \in 1..Len(body) : body[i] = i
          /\ \A i \in 1..Len(response) : response[i] = i
      BY <2>2 DEF IInv, TypeOK, PrefixInv, ResponseInv
    <3>2. first \in Seq(Nat) /\ Len(first) = Len(body)
      BY <3>1
    <3>3. \A i \in 1..Len(body) : first[i] = i
      BY <3>1
    <3> QED
      BY <3>1, <3>2, <3>3, SamePositions
  <2> QED
    BY <2>1, <2>2 DEF BodyIsAPrefix
<1> QED
  BY <1>1, AlwaysIInv, PTL

(* What a success delivers.                                                *)
OkIsWhole ==
  result = "ok" =>
    /\ host # "lying" => body = response
    /\ Len(body) <= (IF maxFetchBodyBytes > ArenaCap THEN maxFetchBodyBytes ELSE ArenaCap)

(* A success holds the whole response, within the size limits.             *)
LEMMA SuccessIsWhole == IInv => OkIsWhole
<1> SUFFICES ASSUME IInv, result = "ok"
             PROVE  /\ host # "lying" => body = response
                    /\ Len(body) <= (IF maxFetchBodyBytes > ArenaCap
                                       THEN maxFetchBodyBytes ELSE ArenaCap)
  BY DEF OkIsWhole
<1>1. /\ body \in Seq(Nat) /\ response \in Seq(Nat)
      /\ Len(body) <= maxFetchBodyBytes \/ Len(body) <= ArenaCap
      /\ host # "lying" => Len(body) = Len(response)
  BY DEF IInv, TypeOK, OkInv
<1>2. ASSUME host # "lying" PROVE body = response
  <2>1. /\ Len(body) = Len(response)
        /\ \A i \in 1..Len(body) : body[i] = i
        /\ \A i \in 1..Len(response) : response[i] = i
    BY <1>1, <1>2 DEF IInv, PrefixInv, ResponseInv
  <2> QED
    BY <1>1, <2>1, SamePositions
<1>3. Len(body) <= (IF maxFetchBodyBytes > ArenaCap THEN maxFetchBodyBytes ELSE ArenaCap)
  BY <1>1, BodyAssumption, ArenaCapAssumption
<1> QED
  BY <1>2, <1>3

(* FetchChunks implements the safety part of FetchSpec: every Fetch has    *)
(* one outcome, and a body it delivers is the whole response.              *)
THEOREM WholeOrError == Spec => WholeBodyOrError
<1>1. Init => Whole!Init
  <2> SUFFICES ASSUME Init PROVE Whole!Init
    OBVIOUS
  <2>1. response \in Seq(Nat) /\ pc = "fetch"
    BY InitIInv DEF IInv, TypeOK, Init
  <2> QED
    BY <2>1 DEF Whole!Init
<1>2. OkIsWhole' /\ [Next]_vars => [Whole!Next]_(Whole!vars)
  <2> SUFFICES ASSUME OkIsWhole', [Next]_vars PROVE [Whole!Next]_(Whole!vars)
    OBVIOUS
  <2>1. host' = host /\ response' = response
    BY DEF Next, vars, Done, FetchInline, FetchParked, FetchFails, ReadChunk, ReadFails, hostVars
  <2>2. CASE pc = "done"
    <3>1. UNCHANGED vars
      BY <2>2 DEF Next, Done, FetchInline, FetchParked, FetchFails, ReadChunk, ReadFails
    <3> QED
      BY <3>1 DEF vars, Whole!vars
  <2>3. CASE pc # "done" /\ pc' # "done"
    BY <2>1, <2>3 DEF Whole!vars
  <2>4. CASE pc # "done" /\ pc' = "done" /\ result' = "ok"
    <3>1. /\ host' # "lying" => body' = response'
          /\ Len(body') <= (IF maxFetchBodyBytes > ArenaCap THEN maxFetchBodyBytes ELSE ArenaCap)
      BY <2>4 DEF OkIsWhole
    <3> QED
      BY <2>1, <2>4, <3>1 DEF Whole!Next, Whole!Deliver
  <2>5. CASE pc # "done" /\ pc' = "done" /\ result' # "ok"
    BY <2>1, <2>5 DEF Whole!Next, Whole!Fail
  <2> QED
    BY <2>2, <2>3, <2>4, <2>5
<1> QED
  BY <1>1, <1>2, AlwaysIInv, SuccessIsWhole, PTL DEF Spec, WholeBodyOrError, Whole!Safety
============================================================================
