----------------------------- MODULE ChunkStream -----------------------------
(***************************************************************************)
(* What a client may expect of a streamed answer, without the tasks, the   *)
(* heartbeats and the timer of the gateway: the chunks of the upstream,    *)
(* each once and in order, until the upstream ends, or breaks when all it  *)
(* had sent is delivered, or the client itself leaves.                     *)
(***************************************************************************)
EXTENDS Naturals, Sequences

CONSTANT MaxChunks  \* bound: chunks the upstream sends

VARIABLES
    upstream,  \* "open", "ended" or "failed"
    arrived,   \* chunks the upstream has sent
    out,       \* the chunks written to the client
    response,  \* "streaming", "complete", "gone" or "crashed"
    client     \* TRUE while the gateway holds what it opened for the stream

vars == <<upstream, arrived, out, response, client>>

Init ==
    /\ upstream = "open" /\ arrived = 0
    /\ out = <<>>
    /\ response = "streaming"
    /\ client = TRUE

-----------------------------------------------------------------------------
Send ==
    /\ upstream = "open" /\ arrived < MaxChunks
    /\ arrived' = arrived + 1
    /\ UNCHANGED <<upstream, out, response, client>>

EndOfStream ==
    /\ upstream = "open"
    /\ upstream' \in {"ended", "failed"}
    /\ UNCHANGED <<arrived, out, response, client>>

Deliver ==
    /\ response = "streaming" /\ Len(out) < arrived
    /\ out' = Append(out, Len(out) + 1)
    /\ UNCHANGED <<upstream, arrived, response, client>>

\* The end of the answer is that of the upstream, behind all its chunks.
Finish ==
    /\ response = "streaming" /\ Len(out) = arrived
    /\ \/ upstream = "ended" /\ response' = "complete"
       \/ upstream = "failed" /\ response' = "crashed"
    /\ UNCHANGED <<upstream, arrived, out, client>>

Leave ==
    /\ response = "streaming"
    /\ response' = "gone"
    /\ UNCHANGED <<upstream, arrived, out, client>>

Release ==
    /\ response \in {"complete", "gone"} /\ client
    /\ client' = FALSE
    /\ UNCHANGED <<upstream, arrived, out, response>>

Next == Send \/ EndOfStream \/ Deliver \/ Finish \/ Leave \/ Release

Spec == Init /\ [][Next]_vars

=============================================================================
