----------------------------- MODULE SttStream -----------------------------
(***************************************************************************)
(* wrapper/caps/stt_stream.py: WebSocket recognition sessions and offline   *)
(* transcription jobs on one engine.                                        *)
(*                                                                          *)
(* A session's coroutine gathers audio, feeds it a step at a time to an     *)
(* engine state of its own, and rolls that state (finishes it, keeps its    *)
(* text as a prefix, starts a new one) before the engine's encoder cache    *)
(* fills up.  Each engine call takes _infer_lock, which the sessions share, *)
(* and then, on another thread, _gpu, which the task runner's worker holds  *)
(* for a whole offline job (its gate).                                      *)
(*                                                                          *)
(* Audio is counted in units smaller than a step and identified by its      *)
(* place in what the session receives.  A state's text is abstracted to the *)
(* units it covers: its wording, whose last tokens the engine may revise    *)
(* from one partial to the next, is not modelled.                           *)
(***************************************************************************)
EXTENDS Naturals, Sequences

CONSTANTS
    Sessions,   \* the open WebSockets
    Leavers,    \* those whose client may disconnect at any moment
    Job,        \* the task runner's worker, as a holder of _gpu
    Free,       \* a lock's holder when nobody holds it
    Audio,      \* how many units of audio each client sends: a function on Sessions
    Step,       \* step_ms in units: a function on Sessions
    Roll,       \* roll_samples in units
    Cache,      \* the engine's encoder cache: the units one state may cover
    Jobs,       \* how many offline jobs come
    Segments    \* the most segments a job transcribes

ASSUME ActorAssumption == /\ Leavers \subseteq Sessions
                          /\ Job \notin Sessions /\ Free \notin Sessions \cup {Job}
ASSUME SizeAssumption == /\ Audio \in [Sessions -> Nat]
                         /\ Step \in [Sessions -> Nat \ {0}]
                         /\ Roll \in Nat \ {0} /\ Cache \in Nat
                         /\ Jobs \in Nat /\ Segments \in Nat

VARIABLES
    pc,       \* the coroutine: "recv", "lock", "gpu", "engine", "emit", "final", or over
    call,     \* the engine call it is at, or was last
    cur,      \* the audio of that call
    pend,     \* received and not yet fed
    rcvd,     \* units received so far
    closing,  \* its receive loop has ended
    prefix,   \* the text of the states rolled away
    st,       \* the text of the engine state
    samples, total,  \* the session's two counters
    gone,     \* sessions whose client is no longer there
    infer,    \* _infer_lock's holder
    gpu,      \* _gpu's holder
    tokens,   \* the engine's shared sampling limit: "stream" or "offline"
    job,      \* the worker: "idle", "gated" or "transcribing"
    saved,    \* _offline_transcribe's copy of the limit
    jobs, segs    \* jobs still to come, segments left in this one

callVars == <<pc, call, cur>>
inVars   == <<pend, rcvd, closing>>
textVars == <<prefix, st, samples, total>>
jobVars  == <<tokens, job, saved, jobs, segs>>
vars == <<callVars, inVars, textVars, gone, infer, gpu, jobVars>>

Over == {"closed", "failed", "dropped"}

CallTypeOK ==
    /\ pc \in [Sessions -> {"recv", "lock", "gpu", "engine", "emit", "final"} \cup Over]
    /\ call \in [Sessions -> {"feed", "overflow", "retry", "roll", "finish"}]
    /\ closing \in [Sessions -> BOOLEAN]
    /\ gone \subseteq Leavers
    /\ infer \in Sessions \cup {Free}
    /\ gpu \in Sessions \cup {Job, Free}

AudioTypeOK ==
    /\ cur \in [Sessions -> Seq(Nat)] /\ pend \in [Sessions -> Seq(Nat)]
    /\ prefix \in [Sessions -> Seq(Nat)] /\ st \in [Sessions -> Seq(Nat)]
    /\ rcvd \in [Sessions -> Nat]
    /\ samples \in [Sessions -> Nat] /\ total \in [Sessions -> Nat]

JobTypeOK ==
    /\ tokens \in {"stream", "offline"} /\ saved \in {"stream", "offline"}
    /\ job \in {"idle", "gated", "transcribing"}
    /\ jobs \in 0 .. Jobs /\ segs \in 0 .. Segments

TypeOK == CallTypeOK /\ AudioTypeOK /\ JobTypeOK

Init ==
    /\ pc = [c \in Sessions |-> "recv"] /\ call = [c \in Sessions |-> "feed"]
    /\ cur = [c \in Sessions |-> <<>>] /\ pend = [c \in Sessions |-> <<>>]
    /\ rcvd = [c \in Sessions |-> 0] /\ closing = [c \in Sessions |-> FALSE]
    /\ prefix = [c \in Sessions |-> <<>>] /\ st = [c \in Sessions |-> <<>>]
    /\ samples = [c \in Sessions |-> 0] /\ total = [c \in Sessions |-> 0]
    /\ gone = {} /\ infer = Free /\ gpu = Free
    /\ tokens = "stream" /\ job = "idle" /\ saved = "stream" /\ jobs = Jobs /\ segs = 0

Go(c, to)    == pc' = [pc EXCEPT ![c] = to]
Ask(c, what) == Go(c, "lock") /\ call' = [call EXCEPT ![c] = what]
\* The units after the first m, up to n.
Units(m, n) == [i \in 1 .. n - m |-> m + i]

Covered(c) == prefix[c] \o st[c]
-----------------------------------------------------------------------------
\* The receive loop.

\* The inner loop over what is pending: feed a step while there is one, else receive.
Pump(c, waiting) ==
    /\ IF Len(waiting) >= Step[c]
       THEN /\ Ask(c, "feed")
            /\ cur' = [cur EXCEPT ![c] = SubSeq(waiting, 1, Step[c])]
            /\ pend' = [pend EXCEPT ![c] = SubSeq(waiting, Step[c] + 1, Len(waiting))]
       ELSE /\ Go(c, "recv")
            /\ pend' = [pend EXCEPT ![c] = waiting]
            /\ UNCHANGED <<call, cur>>

\* A frame of audio, of any length.
Receive(c) ==
    /\ pc[c] = "recv" /\ rcvd[c] < Audio[c]
    /\ \E n \in rcvd[c] + 1 .. Audio[c] :
        /\ rcvd' = [rcvd EXCEPT ![c] = n]
        /\ Pump(c, pend[c] \o Units(rcvd[c], n))
    /\ UNCHANGED <<closing, textVars, gone, infer, gpu, jobVars>>

\* stop, or the disconnect: the loop ends and what is pending, less than a step, is fed.
Finalize_DropTail(c) == Ask(c, "finish") /\ UNCHANGED <<cur, pend>>
Finalize(c) ==
    IF pend[c] # <<>>
    THEN /\ Ask(c, "feed")
         /\ cur' = [cur EXCEPT ![c] = pend[c]]
         /\ pend' = [pend EXCEPT ![c] = <<>>]
    ELSE Ask(c, "finish") /\ UNCHANGED <<cur, pend>>

Stop(c) ==
    /\ pc[c] = "recv"
    /\ closing' = [closing EXCEPT ![c] = TRUE]
    /\ Finalize(c)
    /\ UNCHANGED <<rcvd, textVars, gone, infer, gpu, jobVars>>

\* A frame of disconnect is received like any other.
Disconnect(c) == c \in gone /\ Stop(c)

Vanish(c) ==
    /\ c \in Leavers \ gone /\ pc[c] \notin Over
    /\ gone' = gone \cup {c}
    /\ UNCHANGED <<callVars, inVars, textVars, infer, gpu, jobVars>>
-----------------------------------------------------------------------------
\* An engine call: _infer_lock, then _gpu on a thread of the pool, then the engine.

TakeInfer(c) ==
    /\ pc[c] = "lock" /\ infer = Free
    /\ infer' = c /\ Go(c, "gpu")
    /\ UNCHANGED <<call, cur, inVars, textVars, gone, gpu, jobVars>>

TakeGpu(c) ==
    /\ pc[c] = "gpu" /\ gpu = Free
    /\ gpu' = c /\ Go(c, "engine")
    /\ UNCHANGED <<call, cur, inVars, textVars, gone, infer, jobVars>>

Fits(c) == Len(st[c]) + Len(cur[c]) <= Cache

\* Returning or raising, a call leaves both `with` blocks before its coroutine goes on.
Release_KeepGpu(c) == infer' = Free /\ UNCHANGED gpu
Release_KeepInfer(c) == gpu' = Free /\ infer' = IF call[c] = "overflow" THEN c ELSE Free
Release(c) == infer' = Free /\ gpu' = Free

Calling(c, what) == /\ pc[c] = "engine" /\ call[c] \in what /\ Release(c)
                    /\ UNCHANGED <<inVars, gone, jobVars>>

Feed(c) ==
    /\ Calling(c, {"feed", "retry"}) /\ Fits(c)
    /\ st' = [st EXCEPT ![c] = @ \o cur[c]]
    /\ cur' = [cur EXCEPT ![c] = <<>>]
    /\ samples' = [samples EXCEPT ![c] = @ + Len(cur[c])]
    /\ total' = [total EXCEPT ![c] = @ + Len(cur[c])]
    /\ IF closing[c] THEN Ask(c, "finish") ELSE Go(c, "emit") /\ UNCHANGED call
    /\ UNCHANGED prefix

\* The backstop: an overflow, which leaves the state as it was, rolls it and retries once.
Overflow(c) ==
    /\ Calling(c, {"feed"}) /\ ~Fits(c)
    /\ Ask(c, "overflow")
    /\ UNCHANGED <<cur, textVars>>

\* _roll(): the finished state's text joins the prefix and a new state begins.
Fold_LosePrefix(c) == prefix' = [prefix EXCEPT ![c] = st[c]]
Fold(c) == prefix' = [prefix EXCEPT ![c] = @ \o st[c]]

ResetSamples_Never(c) == UNCHANGED samples
ResetSamples(c) == samples' = [samples EXCEPT ![c] = 0]

RollOver(c) ==
    /\ Calling(c, {"overflow", "roll"})
    /\ Fold(c) /\ ResetSamples(c)
    /\ st' = [st EXCEPT ![c] = <<>>]
    /\ IF call[c] = "overflow" THEN Ask(c, "retry") ELSE Go(c, "emit") /\ UNCHANGED call
    /\ UNCHANGED <<cur, total>>

Finish(c) ==
    /\ Calling(c, {"finish"}) /\ Go(c, "final")
    /\ UNCHANGED <<call, cur, textVars>>

\* Any other error of the engine, and an overflow of the retry, ends the session.
Fail(c) ==
    /\ Calling(c, {"feed", "overflow", "retry", "roll", "finish"}) /\ Go(c, "failed")
    /\ UNCHANGED <<call, cur, textVars>>
-----------------------------------------------------------------------------
\* What is sent.  A send to a client that is gone raises and ends the session.

DueRoll_Late(c) == samples[c] > Roll
DueRoll(c) == samples[c] >= Roll

EmitPartial(c) ==
    /\ pc[c] = "emit"
    /\ IF call[c] # "roll" /\ DueRoll(c)
       THEN Ask(c, "roll") /\ UNCHANGED <<cur, pend>>
       ELSE Pump(c, pend[c])
    /\ UNCHANGED <<rcvd, closing, textVars, gone, infer, gpu, jobVars>>

\* final, closed with its audio_seconds, and the close.
EmitClosed(c) ==
    /\ pc[c] = "final" /\ Go(c, "closed")
    /\ UNCHANGED <<call, cur, inVars, textVars, gone, infer, gpu, jobVars>>

EmitFails(c) ==
    /\ pc[c] \in {"emit", "final"} /\ c \in gone /\ Go(c, "dropped")
    /\ UNCHANGED <<call, cur, inVars, textVars, gone, infer, gpu, jobVars>>
-----------------------------------------------------------------------------
\* The task runner's worker: a job holds its gate, _gpu, over all its segments.

GateOpen_Always == TRUE
GateOpen == gpu = Free

JobBegin ==
    /\ job = "idle" /\ jobs > 0 /\ GateOpen
    /\ gpu' = Job /\ job' = "gated" /\ jobs' = jobs - 1
    /\ segs' \in 1 .. Segments
    /\ UNCHANGED <<callVars, inVars, textVars, gone, infer, tokens, saved>>

\* _offline_transcribe() raises the limit, and restores it whether or not the engine raises.
JobTranscribe_PastEnd ==
    /\ job = "gated" /\ job' = "transcribing"
    /\ saved' = tokens /\ tokens' = "offline"
    /\ segs' = segs - 1
    /\ UNCHANGED <<callVars, inVars, textVars, gone, infer, gpu, jobs>>

JobTranscribe ==
    /\ job = "gated" /\ segs > 0 /\ job' = "transcribing"
    /\ saved' = tokens /\ tokens' = "offline"
    /\ segs' = segs - 1
    /\ UNCHANGED <<callVars, inVars, textVars, gone, infer, gpu, jobs>>

Restore_Never == UNCHANGED tokens
Restore == tokens' = saved

JobReturns ==
    /\ job = "transcribing" /\ job' = "gated" /\ Restore
    /\ UNCHANGED <<callVars, inVars, textVars, gone, infer, gpu, saved, jobs, segs>>

\* The last segment is done, a checkpoint noticed a cancel, or a single clip's error got out.
JobEnd ==
    /\ job = "gated" /\ job' = "idle" /\ gpu' = Free /\ segs' = 0
    /\ UNCHANGED <<callVars, inVars, textVars, gone, infer, tokens, saved, jobs>>
-----------------------------------------------------------------------------
Client(c)    == Receive(c) \/ Stop(c) \/ Vanish(c)
Coroutine(c) == Disconnect(c) \/ TakeInfer(c) \/ EmitPartial(c) \/ EmitClosed(c) \/ EmitFails(c)
Thread(c)    == TakeGpu(c) \/ Feed(c) \/ Overflow(c) \/ RollOver(c) \/ Finish(c) \/ Fail(c)
Worker       == JobBegin \/ JobTranscribe \/ JobReturns \/ JobEnd

Next == (\E c \in Sessions : Client(c) \/ Coroutine(c) \/ Thread(c)) \/ Worker

Spec == Init /\ [][Next]_vars

\* Coroutines and threads are scheduled and every engine call ends.  A client need not do
\* anything; what it sends is finite, so a lock the others take over and over is free in
\* the end.
FairSpec ==
    /\ Spec
    /\ WF_vars(Worker)
    /\ \A c \in Sessions : WF_vars(Coroutine(c)) /\ WF_vars(Thread(c))
-----------------------------------------------------------------------------
\* What a session and a job get.

\* The text, the step being fed and what is pending make up the audio received, in order,
\* each unit once: across rolls, overflows and the retry nothing is lost or repeated.
AudioOnce == \A c \in Sessions : Covered(c) \o cur[c] \o pend[c] = Units(0, rcvd[c])

\* A session that ends with `closed` has all its audio in the text, the tail too, and
\* reports its length.
ClosedComplete ==
    \A c \in Sessions : pc[c] = "closed" =>
        Covered(c) = Units(0, rcvd[c]) /\ total[c] = rcvd[c]

\* The counter that decides a roll is what the engine's cache holds, overflows included.
SamplesTrackCache == \A c \in Sessions : samples[c] = Len(st[c])

\* The proactive roll keeps the cache from overflowing (stt_stream.py:41), whatever the
\* frames, as long as a step fits on top of what the roll allows.
RollPreventsOverflow ==
    \A c \in Sessions :
        pc[c] = "engine" /\ call[c] \in {"feed", "retry"} /\ Roll + Step[c] <= Cache + 1
            => Fits(c)

\* Sessions and jobs are in the engine one at a time.
Calls == {c \in Sessions : pc[c] = "engine"} \cup (IF job = "transcribing" THEN {Job} ELSE {})
EngineExclusive == \A x, y \in Calls : x = y

\* No session's step runs with the limit an offline job raised.
TokensOwn == \A c \in Sessions : pc[c] = "engine" => tokens = "stream"

\* A session whose client stops or leaves comes to its end, behind jobs and the other
\* sessions' calls, failed ones included; and every job of the worker gets the engine, and
\* gives it back.
EveryoneEnds == /\ \A c \in Sessions : closing[c] \/ c \in gone ~> pc[c] \in Over
                /\ <>[](jobs = 0 /\ job = "idle")
=============================================================================
