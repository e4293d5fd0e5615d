------------------------- MODULE SseHeartbeatProofs -------------------------
(* Proofs about SseHeartbeat, for any number of chunks and any interval. *)
EXTENDS SseHeartbeat, TLAPS

\* While the generator runs, the client is behind the reader by the chunk that
\* next_chunk has and the generator has not handed on.
Behind ==
    taken = IF reader = "chunk" THEN Len(out) + 1 ELSE Len(out)

\* The inductive invariant.
IInv ==
    /\ TypeOK
    /\ ChunksInOrder
    /\ CompleteIsWhole
    /\ gen = "new" => reader = "none"
    /\ gen \in {"new", "wait", "yield"} => Behind
    /\ gen = "yield" /\ hand # Ping => reader = "chunk" /\ hand = taken
    /\ reader = "stop" => upstream = "ended" /\ taken = arrived

\* It holds before the first read.
LEMMA InitIInv == Init => IInv
  BY BoundAssumption, IntervalAssumption, PingAssumption
  DEF Init, IInv, TypeOK, ChunksInOrder, CompleteIsWhole, Behind

\* The next chunk goes behind the ones that were written.
LEMMA AppendNext ==
  ASSUME NEW s \in Seq(Nat), s = [i \in 1..Len(s) |-> i], NEW c, c = Len(s) + 1
  PROVE  Append(s, c) = [i \in 1..Len(Append(s, c)) |-> i]
  <1>1. Len(s) \in Nat /\ Append(s, c) \in Seq(Nat) /\ Len(Append(s, c)) = Len(s) + 1
    OBVIOUS
  <1>2. ASSUME NEW i \in 1..Len(s) + 1 PROVE Append(s, c)[i] = i
    BY <1>1
  <1>3. DOMAIN Append(s, c) = 1..Len(s) + 1
    BY <1>1
  <1> QED
    BY <1>1, <1>2, <1>3

\* Every step keeps the invariant.
LEMMA NextIInv == IInv /\ [Next]_vars => IInv'
  <1> SUFFICES ASSUME IInv, [Next]_vars PROVE IInv'
    OBVIOUS
  <1> USE BoundAssumption, IntervalAssumption, PingAssumption
  <1>0. TypeOK /\ ChunksInOrder /\ CompleteIsWhole /\ Len(out) \in Nat
    BY DEF IInv, TypeOK
  <1>1. CASE Send \/ EndOfStream
    <2>1. /\ UNCHANGED <<taken, conn, client, reader, gen, waited, hand, out, response>>
          /\ upstream = "open"
          /\ upstream' \in {"open", "ended", "failed"}
          /\ arrived' \in arrived..MaxChunks
      BY <1>0, <1>1 DEF Send, EndOfStream, TypeOK
    <2>2. TypeOK'
      BY <1>0, <2>1 DEF TypeOK
    <2>3. ChunksInOrder' /\ CompleteIsWhole'
      BY <1>0, <2>1 DEF ChunksInOrder, CompleteIsWhole
    <2> QED
      BY <1>0, <2>1, <2>2, <2>3 DEF IInv, Behind
  <1>2. CASE ReadChunk \/ ReadStop \/ ReadError
    <2>1. /\ UNCHANGED <<upstream, arrived, client, gen, waited, hand, out, response>>
          /\ reader = "reading" /\ reader' \in {"chunk", "stop", "error"}
          /\ conn' \in BOOLEAN /\ taken' \in 0..arrived
          /\ taken' = IF reader' = "chunk" THEN taken + 1 ELSE taken
          /\ reader' = "stop" => upstream = "ended" /\ taken = arrived
      <3>1. CASE ReadChunk
        BY <1>0, <3>1 DEF ReadChunk, TypeOK
      <3>2. CASE ReadStop
        BY <1>0, <3>2 DEF ReadStop, transport, TypeOK
      <3>3. CASE ReadError
        BY <1>0, <3>3 DEF ReadError, transport, TypeOK
      <3> QED
        BY <1>2, <3>1, <3>2, <3>3
    <2>2. TypeOK'
      BY <1>0, <2>1 DEF TypeOK
    <2>3. ChunksInOrder' /\ CompleteIsWhole'
      BY <1>0, <2>1 DEF ChunksInOrder, CompleteIsWhole
    <2> QED
      BY <1>0, <2>1, <2>2, <2>3 DEF IInv, Behind, TypeOK
  <1>3. CASE Start
    <2>1. TypeOK'
      BY <1>0, <1>3 DEF Start, transport, TypeOK
    <2>2. ChunksInOrder' /\ CompleteIsWhole'
      BY <1>0, <1>3 DEF Start, transport, ChunksInOrder, CompleteIsWhole
    <2> QED
      BY <1>0, <1>3, <2>1, <2>2 DEF Start, transport, IInv, Behind
  <1>4. CASE Timeout \/ Tick
    <2>1. TypeOK'
      BY <1>0, <1>4 DEF Timeout, Tick, transport, TypeOK
    <2>2. ChunksInOrder' /\ CompleteIsWhole'
      BY <1>0, <1>4 DEF Timeout, Tick, transport, ChunksInOrder, CompleteIsWhole
    <2> QED
      BY <1>0, <1>4, <2>1, <2>2 DEF Timeout, Tick, transport, IInv, Behind
  <1>5. CASE GotChunk
    <2>1. taken \in 1..MaxChunks
      BY <1>0, <1>5 DEF GotChunk, IInv, Behind, TypeOK
    <2> QED
      BY <1>0, <1>5, <2>1
      DEF GotChunk, transport, IInv, TypeOK, ChunksInOrder, CompleteIsWhole, Behind
  <1>6. CASE GotStop \/ GotError
    BY <1>0, <1>6
    DEF GotStop, GotError, transport, IInv, TypeOK, ChunksInOrder, CompleteIsWhole,
        Behind
  <1>7. CASE Wrote
    <2>1. /\ UNCHANGED <<transport, conn, client, hand, response>>
          /\ gen = "yield" /\ gen' = "wait" /\ waited' = 0
          /\ response = "streaming"
      BY <1>7 DEF Wrote
    <2>2. CASE hand = Ping
      <3>1. UNCHANGED <<out, reader>>
        BY <1>7, <2>2 DEF Wrote
      <3>2. TypeOK'
        BY <1>0, <2>1, <3>1 DEF transport, TypeOK
      <3>3. ChunksInOrder' /\ CompleteIsWhole'
        BY <1>0, <2>1, <3>1 DEF transport, ChunksInOrder, CompleteIsWhole
      <3> QED
        BY <1>0, <2>1, <3>1, <3>2, <3>3 DEF transport, IInv, Behind
    <2>3. CASE hand # Ping
      <3>1. out' = Append(out, hand) /\ reader' = "reading"
        BY <1>7, <2>3 DEF Wrote
      <3>2. hand = Len(out) + 1 /\ hand = taken /\ hand \in 1..MaxChunks
        BY <1>0, <2>1, <2>3 DEF IInv, Behind, TypeOK
      <3>3. out \in Seq(Nat) /\ out = [i \in 1..Len(out) |-> i]
        BY <1>0 DEF TypeOK, ChunksInOrder
      <3>4. ChunksInOrder'
        BY <3>1, <3>2, <3>3, AppendNext DEF ChunksInOrder
      <3>5. out' \in Seq(1..MaxChunks) /\ Len(out') = Len(out) + 1
        BY <1>0, <3>1, <3>2 DEF TypeOK
      <3>6. TypeOK' /\ CompleteIsWhole'
        BY <1>0, <2>1, <3>1, <3>5 DEF transport, TypeOK, CompleteIsWhole
      <3> QED
        BY <1>0, <2>1, <3>1, <3>2, <3>4, <3>5, <3>6 DEF transport, IInv, Behind
    <2> QED
      BY <2>2, <2>3
  <1>8. CASE Disconnect
    BY <1>0, <1>8
    DEF Disconnect, CancelReader, transport, IInv, TypeOK, ChunksInOrder,
        CompleteIsWhole, Behind
  <1>9. CASE CloseGenerator \/ CleanUp
    BY <1>0, <1>9
    DEF CloseGenerator, CleanUp, CancelReader, transport, IInv, TypeOK,
        ChunksInOrder, CompleteIsWhole, Behind
  <1>10. CASE UNCHANGED vars
    BY <1>10
    DEF vars, transport, IInv, TypeOK, ChunksInOrder, CompleteIsWhole, Behind
  <1> QED
    BY <1>1, <1>2, <1>3, <1>4, <1>5, <1>6, <1>7, <1>8, <1>9, <1>10
    DEF Next, Gateway

\* The invariant of the specification.
THEOREM StreamInvariant == Spec => []IInv
  BY InitIInv, NextIInv, PTL DEF Spec

\* The variables keep their types.
THEOREM StreamTypes == Spec => []TypeOK
  <1>1. IInv => TypeOK
    BY DEF IInv
  <1> QED
    BY StreamInvariant, <1>1, PTL

\* However often a read outlasts the heartbeat interval, no chunk is lost,
\* repeated or overtaken.
THEOREM StreamInOrder == Spec => []ChunksInOrder
  <1>1. IInv => ChunksInOrder
    BY DEF IInv
  <1> QED
    BY StreamInvariant, <1>1, PTL

\* A response that ends properly is the whole answer of the upstream.
THEOREM StreamWhole == Spec => []CompleteIsWhole
  <1>1. IInv => CompleteIsWhole
    BY DEF IInv
  <1> QED
    BY StreamInvariant, <1>1, PTL

-----------------------------------------------------------------------------
(* Refinement *)

Running == {"new", "wait", "yield"}

\* While the generator runs, the response goes on; the connection is open until the
\* reader has found its end, and an error is one of the upstream, behind all chunks.
Attached ==
    gen \in Running =>
        /\ response = "streaming"
        /\ reader \in {"none", "reading", "chunk"} => conn
        /\ reader = "error" => upstream = "failed" /\ taken = arrived

\* Every step keeps that.
LEMMA AttachedStep == IInv /\ Attached /\ [Next]_vars => Attached'
  <1> SUFFICES ASSUME IInv, Attached, [Next]_vars PROVE Attached'
    OBVIOUS
  <1>1. CASE Send \/ EndOfStream
    BY <1>1 DEF Send, EndOfStream, Attached, Running
  <1>2. CASE ReadChunk \/ ReadStop \/ ReadError
    BY <1>2 DEF ReadChunk, ReadStop, ReadError, transport, Attached, Running
  <1>3. CASE Start \/ Timeout \/ Tick \/ GotChunk
    BY <1>3 DEF Start, Timeout, Tick, GotChunk, transport, IInv, Attached, Running
  <1>4. CASE GotStop \/ GotError \/ CloseGenerator
    BY <1>4 DEF GotStop, GotError, CloseGenerator, Attached, Running
  <1>5. CASE Wrote
    BY <1>5 DEF Wrote, transport, IInv, Attached, Running
  <1>6. CASE Disconnect
    BY <1>6 DEF Disconnect, Attached, Running
  <1>7. CASE CleanUp
    BY <1>7 DEF CleanUp, Attached
  <1>8. CASE UNCHANGED vars
    BY <1>8 DEF vars, transport, Attached
  <1> QED
    BY <1>1, <1>2, <1>3, <1>4, <1>5, <1>6, <1>7, <1>8 DEF Next, Gateway

\* The stream starts with nothing sent and nothing written.
LEMMA RefinesInit == Init => Abs!Init
  BY DEF Init, Abs!Init

\* Each step is one of ChunkStream, or none.
LEMMA RefinesStep == IInv /\ Attached /\ [Next]_vars => [Abs!Next]_(Abs!vars)
  <1> SUFFICES ASSUME IInv, Attached, [Next]_vars PROVE [Abs!Next]_(Abs!vars)
    OBVIOUS
  <1>0. TypeOK /\ Len(out) \in Nat
    BY DEF IInv, TypeOK
  <1>1. CASE Send
    BY <1>1 DEF Send, Abs!Next, Abs!Send
  <1>2. CASE EndOfStream
    BY <1>2 DEF EndOfStream, Abs!Next, Abs!EndOfStream
  <1>3. CASE \/ ReadChunk \/ ReadStop \/ ReadError \/ Start \/ Timeout \/ GotChunk
             \/ CloseGenerator \/ Tick
    <2>1. CASE ReadChunk \/ ReadStop \/ ReadError
      BY <2>1 DEF ReadChunk, ReadStop, ReadError, transport, Abs!vars
    <2>2. CASE Start \/ Timeout \/ GotChunk \/ CloseGenerator \/ Tick
      BY <2>2 DEF Start, Timeout, GotChunk, CloseGenerator, Tick, transport, Abs!vars
    <2> QED
      BY <1>3, <2>1, <2>2
  <1>4. CASE Wrote
    <2>1. /\ response = "streaming"
          /\ UNCHANGED <<upstream, arrived, response, client>>
      BY <1>4 DEF Wrote, transport
    <2>2. CASE hand = Ping
      BY <1>4, <2>1, <2>2 DEF Wrote, Abs!vars
    <2>3. CASE hand # Ping
      <3>1. hand = Len(out) + 1 /\ hand = taken
        BY <1>0, <1>4, <2>3 DEF Wrote, IInv, Behind
      <3>2. Len(out) < arrived
        BY <1>0, <3>1 DEF TypeOK
      <3>3. out' = Append(out, Len(out) + 1)
        BY <1>4, <2>3, <3>1 DEF Wrote
      <3> QED
        BY <2>1, <3>2, <3>3 DEF Abs!Next, Abs!Deliver
    <2> QED
      BY <2>2, <2>3
  <1>5. CASE GotStop \/ GotError
    <2>1. /\ UNCHANGED <<upstream, arrived, out, client>>
          /\ gen = "wait" /\ reader \in {"stop", "error"}
          /\ response' = IF reader = "stop" THEN "complete" ELSE "crashed"
      BY <1>5 DEF GotStop, GotError, transport
    <2>2. /\ response = "streaming" /\ taken = arrived /\ Len(out) = taken
          /\ upstream = IF reader = "stop" THEN "ended" ELSE "failed"
      BY <2>1 DEF IInv, Attached, Running, Behind
    <2> QED
      BY <2>1, <2>2 DEF Abs!Next, Abs!Finish
  <1>6. CASE Disconnect
    BY <1>6 DEF Disconnect, transport, Abs!Next, Abs!Leave
  <1>7. CASE CleanUp
    BY <1>7 DEF CleanUp, transport, Abs!Next, Abs!Release
  <1>8. CASE UNCHANGED vars
    BY <1>8 DEF vars, transport, Abs!vars
  <1> QED
    BY <1>1, <1>2, <1>3, <1>4, <1>5, <1>6, <1>7, <1>8 DEF Next, Gateway

\* For any number of chunks and any interval, the generator, its reading task and the
\* response together are the stream that a client may expect.
THEOREM StreamRefines == Spec => ImplementsStream
  <1>1. Init => Attached
    BY DEF Init, Attached
  <1> QED
    BY <1>1, RefinesInit, RefinesStep, AttachedStep, StreamInvariant, PTL
    DEF Spec, Abs!Spec, ImplementsStream

=============================================================================
