---------------------------- MODULE SpeechStream ----------------------------
(***************************************************************************)
(* wrapper/caps/tts.py: text in, audio out over a WebSocket, next to the    *)
(* task runner's synthesis jobs.                                            *)
(*                                                                          *)
(* A session has three activities: the receive loop, which queues sentences *)
(* and flush marks; the speaker task, which takes them one at a time; and   *)
(* the pump thread _aiter() starts for each sentence, which runs the        *)
(* generator and hands its chunks over a bounded asyncio.Queue.  Every      *)
(* generation, a session's or a job's, holds the one _gen_lock from its     *)
(* first chunk to its last.  POST with stream=true is a session with one    *)
(* sentence.                                                                *)
(***************************************************************************)
EXTENDS Naturals, Sequences, SequencesExt, FiniteSets

CONSTANTS
    Sessions,   \* the open WebSockets
    Leavers,    \* those whose client closes or drops the connection at some point
    Job,        \* the one job the task runner's worker may be running
    Free,       \* _gen_lock's holder when nobody holds it
    Sentences,  \* how many sentences each client sends: a function on Sessions
    Chunks,     \* the most chunks one of its sentences is spoken in: a function on Sessions
    ChanMax,    \* maxsize of the queue in _aiter (8)
    WorkMax     \* maxsize of a session's work queue (256)

ASSUME ActorAssumption == /\ Leavers \subseteq Sessions
                          /\ Job \notin Sessions /\ Free \notin Sessions \cup {Job}
ASSUME SizeAssumption == /\ Sentences \in [Sessions -> Nat] /\ Chunks \in [Sessions -> Nat]
                         /\ ChanMax \in Nat \ {0} /\ WorkMax \in Nat \ {0}

\* n is the sentence an item says or, in a FLUSHED mark, the last one before it.  blank is
\* the empty tail of an input.done; done and error are what the client is told.
Item == [kind : {"say", "blank", "flushed", "error", "done"}, n : Nat]

VARIABLES
    heard,    \* sentences received so far
    puts,     \* what the receive loop is still to put on work: it waits there while work is full
    work,     \* the session's work queue
    open,     \* the handler is still in its receive loop
    spc,      \* the speaker: "get", "listen" or "dead"
    item,     \* ... and the item it is at
    ppc,      \* the pump: "none", "lock", "gen", "put", "error" or "last"
    chan,     \* the queue between pump and speaker
    left,     \* chunks the pump may still generate
    out,      \* what was sent to the client
    gone,     \* sessions whose client is no longer there
    lock,     \* _gen_lock's holder
    job       \* the job: "none", "waiting", "generating" or "done"

recvVars  == <<heard, puts, open>>
speakVars == <<spc, item, out>>
pumpVars  == <<ppc, left>>
vars == <<recvVars, work, speakVars, pumpVars, chan, gone, lock, job>>

TypeOK ==
    /\ heard \in [Sessions -> Nat]
    /\ puts \in [Sessions -> Seq(Item)]
    /\ work \in [Sessions -> Seq(Item)]
    /\ open \in [Sessions -> BOOLEAN]
    /\ spc \in [Sessions -> {"get", "listen", "dead"}]
    /\ item \in [Sessions -> Item]
    /\ ppc \in [Sessions -> {"none", "lock", "gen", "put", "error", "last"}]
    /\ chan \in [Sessions -> Seq({"chunk", "error", "done"})]
    /\ left \in [Sessions -> Nat] /\ \A c \in Sessions : left[c] <= Chunks[c]
    /\ out \in [Sessions -> Seq(Item)]
    /\ gone \subseteq Leavers
    /\ lock \in Sessions \cup {Job, Free}
    /\ job \in {"none", "waiting", "generating", "done"}

Nothing == [kind |-> "blank", n |-> 0]

Init ==
    /\ heard = [c \in Sessions |-> 0]
    /\ puts = [c \in Sessions |-> <<>>]
    /\ work = [c \in Sessions |-> <<>>]
    /\ open = [c \in Sessions |-> TRUE]
    /\ spc = [c \in Sessions |-> "get"]
    /\ item = [c \in Sessions |-> Nothing]
    /\ ppc = [c \in Sessions |-> "none"]
    /\ chan = [c \in Sessions |-> <<>>]
    /\ left = [c \in Sessions |-> 0]
    /\ out = [c \in Sessions |-> <<>>]
    /\ gone = {} /\ lock = Free /\ job = "none"
-----------------------------------------------------------------------------
\* The receive loop.

Receiving(c) == open[c] /\ puts[c] = <<>>

Say(n)   == [kind |-> "say", n |-> n]
Blank(n) == [kind |-> "blank", n |-> n]
Mark(n)  == [kind |-> "flushed", n |-> n]

\* input.text that completes a sentence.
InputText(c) ==
    /\ Receiving(c) /\ heard[c] < Sentences[c]
    /\ heard' = [heard EXCEPT ![c] = @ + 1]
    /\ puts' = [puts EXCEPT ![c] = <<Say(heard[c] + 1)>>]
    /\ UNCHANGED <<open, work, speakVars, pumpVars, chan, gone, lock, job>>

\* input.done: the tail, empty or not, then FLUSHED.  The client sends it at the end.
InputDone_MarkFirst(n) == {<<Mark(n), Say(n)>>}
InputDone(n) == {<<Say(n), Mark(n)>>, <<Blank(n), Mark(n)>>}

Done(c) ==
    /\ Receiving(c) /\ heard[c] + 1 = Sentences[c]
    /\ heard' = [heard EXCEPT ![c] = Sentences[c]]
    /\ \E p \in InputDone(Sentences[c]) : puts' = [puts EXCEPT ![c] = p]
    /\ UNCHANGED <<open, work, speakVars, pumpVars, chan, gone, lock, job>>

Put(c) ==
    /\ open[c] /\ puts[c] # <<>> /\ Len(work[c]) < WorkMax
    /\ work' = [work EXCEPT ![c] = Append(@, Head(puts[c]))]
    /\ puts' = [puts EXCEPT ![c] = Tail(@)]
    /\ UNCHANGED <<heard, open, speakVars, pumpVars, chan, gone, lock, job>>

\* The connection drops; the handler learns of it at its next receive.
Vanish(c) ==
    /\ c \in Leavers \ gone /\ open[c]
    /\ gone' = gone \cup {c}
    /\ UNCHANGED <<recvVars, work, speakVars, pumpVars, chan, lock, job>>

\* The handler returns and cancels the speaker, at whatever await that is.  Nothing tells
\* the pump.
Return(c) ==
    /\ Receiving(c)
    /\ open' = [open EXCEPT ![c] = FALSE]
    /\ gone' = gone \cup {c}
    /\ spc' = [spc EXCEPT ![c] = "dead"]
    /\ UNCHANGED <<heard, puts, work, item, out, pumpVars, chan, lock, job>>

Disconnect_WhenDrained(c) == c \in gone /\ work[c] = <<>> /\ Return(c)
Disconnect(c) == c \in gone /\ Return(c)
Close(c)      == c \in Leavers \ gone /\ Return(c)
-----------------------------------------------------------------------------
\* The speaker.

\* A send reaches the client, or raises because the client is gone.
Sent(c, i)  == out' = [out EXCEPT ![c] = Append(@, i)]
SendFails(c) == c \in gone /\ UNCHANGED out
Dies(c) == spc' = [spc EXCEPT ![c] = "dead"]

Take(c) == /\ spc[c] = "get" /\ work[c] # <<>>
           /\ work' = [work EXCEPT ![c] = Tail(@)]
           /\ item' = [item EXCEPT ![c] = Head(work[c])]

TakeFlushed(c) ==
    /\ Take(c) /\ Head(work[c]).kind = "flushed"
    /\ \/ Sent(c, [Head(work[c]) EXCEPT !.kind = "done"]) /\ UNCHANGED spc
       \/ SendFails(c) /\ Dies(c)
    /\ UNCHANGED <<recvVars, pumpVars, chan, gone, lock, job>>

TakeBlank(c) ==
    /\ Take(c) /\ Head(work[c]).kind = "blank"
    /\ UNCHANGED <<recvVars, spc, out, pumpVars, chan, gone, lock, job>>

\* flush() starts a pump on a queue of its own.  It asks for the lock, unless it fails before
\* it does, as when a setting is no number.
TakeSentence(c) ==
    /\ Take(c) /\ Head(work[c]).kind = "say"
    /\ spc' = [spc EXCEPT ![c] = "listen"]
    /\ \E start \in {"lock", "error"} : ppc' = [ppc EXCEPT ![c] = start]
    /\ chan' = [chan EXCEPT ![c] = <<>>]
    /\ left' = [left EXCEPT ![c] = Chunks[c]]
    /\ UNCHANGED <<recvVars, out, gone, lock, job>>

\* flush() fails before it has a pump, as when the reference voice cannot be had: reported.
TakeRefused(c) ==
    /\ Take(c) /\ Head(work[c]).kind = "say"
    /\ \/ Sent(c, [Head(work[c]) EXCEPT !.kind = "error"]) /\ UNCHANGED spc
       \/ SendFails(c) /\ Dies(c)
    /\ UNCHANGED <<recvVars, pumpVars, chan, gone, lock, job>>

Listening(c, what) == /\ spc[c] = "listen" /\ chan[c] # <<>> /\ Head(chan[c]) = what
                      /\ UNCHANGED <<recvVars, work, item, left, gone, lock, job>>

\* A failed send raises out of flush(), and so does the report of it: the speaker ends.
HearChunk(c) ==
    /\ Listening(c, "chunk")
    /\ chan' = [chan EXCEPT ![c] = Tail(@)]
    /\ \/ Sent(c, item[c]) /\ UNCHANGED spc
       \/ SendFails(c) /\ Dies(c)
    /\ UNCHANGED ppc

HearDone(c) ==
    /\ Listening(c, "done")
    /\ chan' = [chan EXCEPT ![c] = Tail(@)]
    /\ spc' = [spc EXCEPT ![c] = "get"]
    /\ UNCHANGED <<ppc, out>>

\* The generator's failure is reported and the next sentence taken.  The pump's last put
\* finds room in a queue nobody looks at again.
HearError_Fatal(c) ==
    /\ Listening(c, "error")
    /\ chan' = [chan EXCEPT ![c] = <<>>]
    /\ ppc' = [ppc EXCEPT ![c] = "none"]
    /\ Dies(c) /\ UNCHANGED out
HearError(c) ==
    /\ Listening(c, "error")
    /\ chan' = [chan EXCEPT ![c] = <<>>]
    /\ ppc' = [ppc EXCEPT ![c] = "none"]
    /\ \/ /\ Sent(c, [item[c] EXCEPT !.kind = "error"])
          /\ spc' = [spc EXCEPT ![c] = "get"]
       \/ SendFails(c) /\ Dies(c)
-----------------------------------------------------------------------------
\* The pump thread, which holds the lock from the generator's first step to its last.

PStep(c, from, to) == /\ ppc[c] = from /\ ppc' = [ppc EXCEPT ![c] = to]
                      /\ UNCHANGED <<recvVars, work, speakVars, gone, job>>

\* The other end of queue.put(...).result(): the thread waits for room.
Push(c, what) == Len(chan[c]) < ChanMax /\ chan' = [chan EXCEPT ![c] = Append(@, what)]

Acquire(c) ==
    /\ PStep(c, "lock", "gen") /\ lock = Free
    /\ lock' = c
    /\ UNCHANGED <<chan, left>>

Generate_PastEnd(c) ==
    /\ PStep(c, "gen", "put")
    /\ left' = [left EXCEPT ![c] = @ - 1]
    /\ UNCHANGED <<chan, lock>>
Generate(c) ==
    /\ PStep(c, "gen", "put") /\ left[c] > 0
    /\ left' = [left EXCEPT ![c] = @ - 1]
    /\ UNCHANGED <<chan, lock>>

PushChunk_Drop(c) == /\ PStep(c, "put", "gen") /\ UNCHANGED <<left, lock>>
                     /\ chan' = [chan EXCEPT ![c] = IF Len(@) < ChanMax THEN Append(@, "chunk") ELSE @]
PushChunk(c) == PStep(c, "put", "gen") /\ Push(c, "chunk") /\ UNCHANGED <<left, lock>>

\* The generator ends, or raises, and lets go of the lock either way.
Release_NotOnError(c) == lock' = IF ppc'[c] = "error" THEN lock ELSE Free
Release_NotAtEnd(c)   == lock' = IF ppc'[c] = "last" THEN lock ELSE Free
Release(c) == lock' = Free

Exhaust(c) == PStep(c, "gen", "last") /\ Release(c) /\ UNCHANGED <<chan, left>>
Raise(c)   == PStep(c, "gen", "error") /\ Release(c) /\ UNCHANGED <<chan, left>>

PushError(c) == PStep(c, "error", "last") /\ Push(c, "error") /\ UNCHANGED <<left, lock>>
PushDone(c)  == PStep(c, "last", "none") /\ Push(c, "done") /\ UNCHANGED <<left, lock>>

\* A synthesis job on the task worker holds the same lock for its one generation.
JobStep(from, to) == /\ job = from /\ job' = to
                     /\ UNCHANGED <<recvVars, work, speakVars, pumpVars, chan, gone>>
JobArrive == JobStep("none", "waiting") /\ UNCHANGED lock
JobStart  == JobStep("waiting", "generating") /\ lock = Free /\ lock' = Job
JobEnd    == JobStep("generating", "done") /\ lock' = Free
-----------------------------------------------------------------------------
Client(c)  == InputText(c) \/ Done(c) \/ Vanish(c) \/ Close(c)
Receive(c) == Put(c) \/ Disconnect(c)
Speaker(c) == TakeFlushed(c) \/ TakeBlank(c) \/ TakeSentence(c) \/ TakeRefused(c)
              \/ HearChunk(c) \/ HearDone(c) \/ HearError(c)
Pump(c)    == Acquire(c) \/ Generate(c) \/ PushChunk(c) \/ Exhaust(c) \/ Raise(c)
              \/ PushError(c) \/ PushDone(c)
Worker     == JobStart \/ JobEnd

Next == \/ \E c \in Sessions : Client(c) \/ Receive(c) \/ Speaker(c) \/ Pump(c)
        \/ JobArrive \/ Worker

Spec == Init /\ [][Next]_vars

\* The loop runs every ready task and every thread is scheduled.  A lock released over and
\* over is taken by each waiter in the end: sessions and their sentences are finitely many.
FairSpec ==
    /\ Spec
    /\ WF_vars(Worker)
    /\ \A c \in Sessions : WF_vars(Receive(c)) /\ WF_vars(Speaker(c)) /\ WF_vars(Pump(c))
-----------------------------------------------------------------------------
\* What a session gets.

\* Audio, error reports and session.done come in the order the text came in, across the
\* queues and the pumps: nothing of a sentence after the session.done that follows it.
AudioInOrder ==
    \A c \in Sessions : \A i, j \in DOMAIN out[c] :
        i < j => /\ out[c][i].n <= out[c][j].n
                 /\ out[c][i].kind = "done" => out[c][i].n < out[c][j].n

\* Every chunk generated so far of the sentence being spoken is sent, in the queue, or in
\* the pump's hand: a full queue holds the generator back and loses nothing.
NoChunkLost ==
    \A c \in Sessions : spc[c] = "listen" =>
        Chunks[c] - left[c] = Cardinality({i \in DOMAIN out[c] : out[c][i] = item[c]})
                           + Cardinality({i \in DOMAIN chan[c] : chan[c][i] = "chunk"})
                           + (IF ppc[c] = "put" THEN 1 ELSE 0)

\* The pump of an abandoned sentence: its queue is full and nobody will empty it.
Abandoned(c) == ppc[c] = "put" /\ Len(chan[c]) = ChanMax /\ spc[c] = "dead"

\* A generation lets go of the lock, except one whose client left it with more chunks to
\* come than its queue holds.
LockReleased == \A c \in Sessions : lock = c ~> lock # c \/ Abandoned(c)

\* The client was told that sentence n failed, or got every chunk generated of it; or it was
\* the empty tail.
Spoken(c, n) ==
    \/ [kind |-> "error", n |-> n] \in ToSet(out[c])
    \/ /\ item[c] = Say(n) /\ spc[c] = "get"
       /\ Cardinality({i \in DOMAIN out[c] : out[c][i] = Say(n)}) = Chunks[c] - left[c]
    \/ item[c] = Blank(n)

\* A client that stays hears each of its sentences to the end, or that it failed, and the
\* session.done for each mark, unless an abandoned pump keeps the lock from everybody.
AllSpoken ==
    \A c \in Sessions : \A n \in 1 .. Sentences[c] :
        LET Excused == c \in gone \/ \E d \in Sessions : Abandoned(d)
        IN  /\ Say(n) \in ToSet(puts[c]) \/ Blank(n) \in ToSet(puts[c])
                   ~> Spoken(c, n) \/ Excused
            /\ Mark(n) \in ToSet(puts[c])
                   ~> [kind |-> "done", n |-> n] \in ToSet(out[c]) \/ Excused

\* ... and the task runner's job gets its turn.
JobEnds == job = "waiting" ~> job = "done" \/ gone # {}

\* The handler of a dropped connection ends, except one that is putting a sentence on a
\* full queue its dead speaker will not empty.
HandlerEnds ==
    \A c \in Sessions :
        c \in gone ~> ~open[c] \/ (spc[c] = "dead" /\ Len(work[c]) = WorkMax /\ puts[c] # <<>>)

\* "Speak queued sentences in order; a failure on one is reported, not fatal" (tts.py:549):
\* the sentences of a client that stays are spoken, whoever else fails.
FailureNotFatal ==
    \A c \in Sessions \ Leavers : spc[c] = "listen" ~> spc[c] = "get"
=============================================================================
