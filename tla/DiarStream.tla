----------------------------- MODULE DiarStream ----------------------------
(***************************************************************************)
(* wrapper/caps/diar_stream.py, _run_streaming: the incremental path of a   *)
(* diarization session.  Features are recomputed over a window of audio     *)
(* that loses its oldest chunks, and the model, which carries the history   *)
(* in its own state, must be fed every chunk of the session exactly once.   *)
(*                                                                          *)
(* Audio is counted in feature frames (10 ms hops).  The position of the    *)
(* buffer's first frame in the session is a variable of its own, for the    *)
(* code counts dropped chunks and slices the buffer separately.             *)
(***************************************************************************)
EXTENDS Naturals, Sequences

CONSTANTS
    Total,  \* frames the client sends, at most
    Frame,  \* the longest piece of audio it sends
    Step,   \* step_samples
    Chunk,  \* CS
    Right,  \* rc_frames
    Keep    \* keep_chunks

ASSUME StreamSizes == /\ Total \in Nat /\ Frame \in Nat /\ Right \in Nat
                      /\ Step \in Nat \ {0} /\ Chunk \in Nat \ {0} /\ Keep \in Nat \ {0}

VARIABLES
    pc,         \* "recv", "process", "closed" or "failed"
    closing,    \* the receive loop has ended
    since,      \* new_samples
    got,        \* frames received so far
    start,      \* the position of buf[0] in the session
    baseChunks, \* st["base_chunks"]: chunks dropped from the buffer's front
    committed,  \* st["committed"]: chunks fed
    fed         \* what forward_streaming_step was given, call by call

vars == <<pc, closing, since, got, start, baseChunks, committed, fed>>

Lesser(m, n) == IF m < n THEN m ELSE n

Init ==
    /\ pc = "recv" /\ closing = FALSE /\ since = 0 /\ got = 0
    /\ start = 0 /\ baseChunks = 0 /\ committed = 0 /\ fed = <<>>

\* A piece of audio; a step's worth of new audio is processed.
Receive ==
    /\ pc = "recv"
    /\ \E n \in 1 .. Lesser(Frame, Total - got) :
        /\ got' = got + n
        /\ IF since + n >= Step THEN pc' = "process" /\ since' = 0
                                ELSE pc' = "recv" /\ since' = since + n
    /\ UNCHANGED <<closing, start, baseChunks, committed, fed>>

\* stop, or a disconnect: what remains is processed as final.
Stop ==
    /\ pc = "recv" /\ pc' = "process" /\ closing' = TRUE
    /\ UNCHANGED <<since, got, start, baseChunks, committed, fed>>

\* The loader counts chunks from the buffer's front; those before localFed are skipped.
localFed == committed - baseChunks
Heard    == got - start

Feedable_Eager ==
    /\ localFed * Chunk < Heard
    /\ closing \/ (localFed + 1) * Chunk <= Heard

\* A chunk waits for its right context, unless the audio has ended.
Feedable ==
    /\ localFed * Chunk < Heard
    /\ closing \/ (localFed + 1) * Chunk + Right <= Heard

Fed(i) ==
    LET to == Lesser((i + 1) * Chunk, Heard) IN
    [from |-> start + i * Chunk, to |-> start + to, right |-> Lesser(Right, Heard - to)]

Feed ==
    /\ pc = "process" /\ Feedable
    /\ fed' = Append(fed, Fed(localFed)) /\ committed' = committed + 1
    /\ UNCHANGED <<pc, closing, since, got, start, baseChunks>>

Trim_Always ==
    /\ start' = start + (committed - Keep - baseChunks) * Chunk
    /\ baseChunks' = committed - Keep
Trim_Never == UNCHANGED <<start, baseChunks>>

\* The chunks more than Keep behind the frontier leave the buffer.
Trim ==
    IF committed > Keep + baseChunks
    THEN /\ start' = start + (committed - Keep - baseChunks) * Chunk
         /\ baseChunks' = committed - Keep
    ELSE UNCHANGED <<start, baseChunks>>

\* The loop is over: trim, and send the partial or, at the end, the final result.
Processed ==
    /\ pc = "process" /\ ~Feedable /\ Trim
    /\ pc' = IF closing THEN "closed" ELSE "recv"
    /\ UNCHANGED <<closing, since, got, committed, fed>>

\* The model or the socket raises: an error frame, and the session is over.
Fail ==
    /\ pc = "process" /\ pc' = "failed"
    /\ UNCHANGED <<closing, since, got, start, baseChunks, committed, fed>>

Next == Receive \/ Stop \/ Feed \/ Processed \/ Fail

Spec == Init /\ [][Next]_vars
-----------------------------------------------------------------------------
TypeOK ==
    /\ pc \in {"recv", "process", "closed", "failed"} /\ closing \in BOOLEAN
    /\ since \in Nat /\ got \in Nat /\ start \in Nat
    /\ baseChunks \in Nat /\ committed \in Nat
    /\ fed \in Seq([from : Nat, to : Nat, right : Nat])

(***************************************************************************)
(* However the buffer is trimmed and the audio arrives, the model is fed    *)
(* the session's chunks in order, once each, on one grid; none short and    *)
(* none without its right context but at the end; and by the closing frame  *)
(* all that was received has been fed.                                      *)
(***************************************************************************)
OnGrid ==
    /\ Len(fed) = committed
    /\ \A k \in 1 .. Len(fed) :
        /\ fed[k].from = (k - 1) * Chunk
        /\ \/ fed[k].to = k * Chunk
           \/ k = Len(fed) /\ closing /\ fed[k].to = got
        /\ \/ fed[k].right = Right
           \/ closing /\ fed[k].to + Right > got

AllFed == pc = "closed" => \/ got = 0
                           \/ Len(fed) > 0 /\ fed[Len(fed)].to = got

AudioFed == OnGrid /\ AllFed

(***************************************************************************)
(* A session's buffer and what it has not yet fed are bounded however long  *)
(* the session lasts: the trim keeps up with what arrives.                  *)
(***************************************************************************)
BufferBounded ==
    pc # "failed" =>
        /\ Heard < (Keep + 1) * Chunk + Right + (Step - 1) + Frame
        /\ got < (committed + 1) * Chunk + Right + (Step - 1) + Frame
=============================================================================
