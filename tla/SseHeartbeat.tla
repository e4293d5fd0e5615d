---------------------------- MODULE SseHeartbeat ----------------------------
(***************************************************************************)
(* Streaming a text/event-stream answer through the gateway:               *)
(* _stream_with_sse_heartbeat, the task that reads the next chunk of the   *)
(* upstream, the StreamingResponse that writes to the client and watches   *)
(* for its disconnect, and the background task that closes the upstream.   *)
(* They interleave at every await.                                         *)
(***************************************************************************)
EXTENDS Naturals, Sequences

CONSTANTS MaxChunks,  \* bound: chunks the upstream sends
          Interval,   \* SSE_HEARTBEAT_INTERVAL_SECONDS, in ticks
          Ping        \* SSE_HEARTBEAT

ASSUME BoundAssumption == MaxChunks \in Nat
ASSUME IntervalAssumption == Interval \in Nat \ {0}
ASSUME PingAssumption == Ping \notin Nat

VARIABLES
    arrived,   \* chunks the upstream has sent
    upstream,  \* "open", "ended" or "failed"
    conn,      \* TRUE while the upstream connection is open
    client,    \* TRUE while the httpx client is open
    reader,    \* next_chunk: "none", "reading", "chunk", "stop", "error"
    taken,     \* chunks the reader has taken from the connection
    gen,       \* the generator: "new", "wait", "yield", "left", "finished"
    waited,    \* ticks since asyncio.wait began
    hand,      \* what the generator yields: a chunk or Ping
    out,       \* the chunks written to the client
    response   \* "streaming", "complete", "gone" (disconnected), "crashed"

transport == <<upstream, arrived, taken>>
vars == <<transport, conn, client, reader, gen, waited, hand, out, response>>

Init ==
    /\ upstream = "open" /\ arrived = 0 /\ taken = 0
    /\ conn = TRUE /\ client = TRUE
    /\ reader = "none"
    /\ gen = "new"
    /\ waited = 0
    /\ hand = Ping
    /\ out = <<>>
    /\ response = "streaming"

-----------------------------------------------------------------------------
(* The upstream service *)

Send ==
    /\ upstream = "open" /\ arrived < MaxChunks
    /\ arrived' = arrived + 1
    /\ UNCHANGED <<upstream, taken, conn, client, reader, gen, waited, hand, out,
                   response>>

\* The upstream ends its answer, or the connection breaks.
EndOfStream ==
    /\ upstream = "open"
    /\ upstream' \in {"ended", "failed"}
    /\ UNCHANGED <<arrived, taken, conn, client, reader, gen, waited, hand, out,
                   response>>

-----------------------------------------------------------------------------
(* The task next_chunk, anext(chunks) *)

ReadChunk ==
    /\ reader = "reading" /\ conn
    /\ taken < arrived
    /\ taken' = taken + 1
    /\ reader' = "chunk"
    /\ UNCHANGED <<upstream, arrived, conn, client, gen, waited, hand, out, response>>

\* The end of the stream; httpx closes the response.
ReadStop ==
    /\ reader = "reading" /\ conn
    /\ upstream = "ended" /\ taken = arrived
    /\ reader' = "stop"
    /\ conn' = FALSE
    /\ UNCHANGED <<transport, client, gen, waited, hand, out, response>>

\* The connection broke, or the background task has closed it.
ReadError ==
    /\ reader = "reading"
    /\ (upstream = "failed" /\ taken = arrived) \/ ~conn
    /\ reader' = "error"
    /\ conn' = FALSE
    /\ UNCHANGED <<transport, client, gen, waited, hand, out, response>>

-----------------------------------------------------------------------------
(* The generator *)

Start ==
    /\ gen = "new" /\ response = "streaming"
    /\ reader' = "reading"
    /\ gen' = "wait"
    /\ UNCHANGED <<transport, conn, client, waited, hand, out, response>>

\* Fault: no timeout.
TimeoutNever == FALSE /\ UNCHANGED vars

\* Fault: asyncio.wait_for, which cancels the read and raises.
TimeoutRaises ==
    /\ gen = "wait" /\ waited = Interval
    /\ reader = "reading"
    /\ reader' = "none"
    /\ gen' = "finished"
    /\ response' = "crashed"
    /\ UNCHANGED <<transport, conn, client, waited, hand, out>>

\* asyncio.wait timed out with next_chunk not done.
Timeout ==
    /\ gen = "wait" /\ waited = Interval
    /\ reader = "reading"
    /\ hand' = Ping
    /\ gen' = "yield"
    /\ UNCHANGED <<transport, conn, client, reader, waited, out, response>>

GotChunk ==
    /\ gen = "wait" /\ reader = "chunk"
    /\ hand' = taken
    /\ gen' = "yield"
    /\ UNCHANGED <<transport, conn, client, reader, waited, out, response>>

\* StopAsyncIteration
GotStop ==
    /\ gen = "wait" /\ reader = "stop"
    /\ gen' = "finished"
    /\ response' = "complete"
    /\ UNCHANGED <<transport, conn, client, reader, waited, hand, out>>

\* Fault: any exception ends the loop like StopAsyncIteration.
GotErrorQuietly ==
    /\ gen = "wait" /\ reader = "error"
    /\ gen' = "finished"
    /\ response' = "complete"
    /\ UNCHANGED <<transport, conn, client, reader, waited, hand, out>>

\* Another exception goes through StreamingResponse, which then does not run
\* its background task.
GotError ==
    /\ gen = "wait" /\ reader = "error"
    /\ gen' = "finished"
    /\ response' = "crashed"
    /\ UNCHANGED <<transport, conn, client, reader, waited, hand, out>>

\* Fault: a new read after a heartbeat as well, which gives the one under way up.
WroteReading ==
    /\ gen = "yield" /\ response = "streaming"
    /\ out' = IF hand = Ping THEN out ELSE Append(out, hand)
    /\ reader' = "reading"
    /\ gen' = "wait"
    /\ waited' = 0
    /\ UNCHANGED <<transport, conn, client, hand, response>>

\* The client has taken what was yielded.  After a heartbeat the same task is
\* awaited again, after a chunk a new one.
Wrote ==
    /\ gen = "yield" /\ response = "streaming"
    /\ out' = IF hand = Ping THEN out ELSE Append(out, hand)
    /\ reader' = IF hand = Ping THEN reader ELSE "reading"
    /\ gen' = "wait"
    /\ waited' = 0
    /\ UNCHANGED <<transport, conn, client, hand, response>>

\* finally: next_chunk is cancelled unless it is done.
CancelReader == reader' = IF reader = "reading" THEN "none" ELSE reader

\* The client is gone: StreamingResponse cancels its task, in asyncio.wait, in
\* send with the generator suspended, or before the first chunk.
Disconnect ==
    /\ response = "streaming"
    /\ response' = "gone"
    /\ \/ gen = "wait" /\ CancelReader /\ gen' = "finished"
       \/ gen = "yield" /\ gen' = "left" /\ UNCHANGED reader
       \/ gen = "new" /\ gen' = "finished" /\ UNCHANGED reader
    /\ UNCHANGED <<transport, conn, client, waited, hand, out>>

\* A suspended generator that nobody resumes is closed by the event loop.
CloseGenerator ==
    /\ gen = "left"
    /\ CancelReader
    /\ gen' = "finished"
    /\ UNCHANGED <<transport, conn, client, waited, hand, out, response>>

\* Fault: the background task is given only to a response that is complete.
CleanUpComplete ==
    /\ response = "complete" /\ client
    /\ conn' = FALSE
    /\ client' = FALSE
    /\ UNCHANGED <<transport, reader, gen, waited, hand, out, response>>

\* The background task: _close_stream_response.
CleanUp ==
    /\ response \in {"complete", "gone"} /\ client
    /\ conn' = FALSE
    /\ client' = FALSE
    /\ UNCHANGED <<transport, reader, gen, waited, hand, out, response>>

\* The timer of asyncio.wait.
Tick ==
    /\ gen = "wait" /\ waited < Interval
    /\ waited' = waited + 1
    /\ UNCHANGED <<transport, conn, client, reader, gen, hand, out, response>>

-----------------------------------------------------------------------------
Gateway ==
    \/ ReadChunk \/ ReadStop \/ ReadError
    \/ Start \/ Timeout \/ GotChunk \/ GotStop \/ GotError
    \/ CloseGenerator \/ CleanUp

Next == Send \/ EndOfStream \/ Disconnect \/ Wrote \/ Tick \/ Gateway

Spec == Init /\ [][Next]_vars

\* The event loop runs what is ready and time passes; the upstream may be silent
\* for ever, and a client may stop reading.
Fairness == WF_vars(Gateway) /\ WF_vars(Tick)

FairSpec == Spec /\ Fairness

-----------------------------------------------------------------------------
(* Properties *)

\* The types of the variables.
TypeOK ==
    /\ arrived \in 0..MaxChunks /\ taken \in 0..arrived
    /\ upstream \in {"open", "ended", "failed"}
    /\ conn \in BOOLEAN /\ client \in BOOLEAN
    /\ reader \in {"none", "reading", "chunk", "stop", "error"}
    /\ gen \in {"new", "wait", "yield", "left", "finished"}
    /\ waited \in 0..Interval
    /\ hand \in 1..MaxChunks \cup {Ping}
    /\ out \in Seq(1..MaxChunks)
    /\ response \in {"streaming", "complete", "gone", "crashed"}

\* Heartbeats cost no chunk: whatever times out while a chunk is being read, the
\* client has received the first chunks of the upstream, each once, in order.
ChunksInOrder == out = [i \in 1..Len(out) |-> i]

\* A response that ends properly is the whole answer of the upstream: a broken
\* connection never looks like its end.
CompleteIsWhole ==
    response = "complete" => upstream = "ended" /\ Len(out) = arrived

\* The client of a stream that is not over keeps receiving something: chunks or,
\* from a silent upstream, heartbeats.
KeepsAlive ==
    (WF_vars(Wrote) /\ [](response = "streaming")) => []<>(gen = "yield")

\* When the client has gone, or has everything, nothing goes on behind it: the
\* reader stops and the upstream connection and its client are closed.
UpstreamReleased ==
    response \in {"complete", "gone"} ~> reader # "reading" /\ ~conn /\ ~client

-----------------------------------------------------------------------------
(* Refinement *)

Abs == INSTANCE ChunkStream

\* With heartbeats, a reading task and a client that may leave at any moment, the
\* stream is still that of the upstream: only the upstream, or the client, ends it,
\* and a broken one has delivered all that had arrived.
ImplementsStream == Abs!Spec

=============================================================================
