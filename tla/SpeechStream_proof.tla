-------------------------- MODULE SpeechStream_proof --------------------------
(***************************************************************************)
(* Types, the order of a session's audio, and that no chunk of it is lost,  *)
(* for any sessions, sentences, chunks and queues.                          *)
(***************************************************************************)
EXTENDS SpeechStream, SequenceTheorems, FiniteSetTheorems, TLAPS

USE ActorAssumption, SizeAssumption

-----------------------------------------------------------------------------
\* Types.

LEMMA Rekinded ==
  ASSUME NEW i \in Item, NEW k \in {"say", "blank", "flushed", "error", "done"}
  PROVE  [i EXCEPT !.kind = k] \in Item
BY DEF Item

LEMMA TypeKept == TypeOK /\ [Next]_vars => TypeOK'
<1> SUFFICES ASSUME TypeOK, [Next]_vars PROVE TypeOK'
  OBVIOUS
<1> USE DEF TypeOK, recvVars, speakVars, pumpVars
<1>1. ASSUME NEW c \in Sessions, Client(c) PROVE TypeOK'
  <2>1. CASE InputText(c)
    BY <2>1 DEF InputText, Receiving, Say, Item
  <2>2. CASE Done(c)
    <3>1. InputDone(Sentences[c]) \subseteq Seq(Item)
      BY DEF InputDone, Say, Blank, Mark, Item
    <3> QED
      BY <2>2, <3>1 DEF Done, Receiving
  <2>3. CASE Vanish(c)
    BY <2>3 DEF Vanish
  <2>4. CASE Close(c)
    BY <2>4 DEF Close, Return, Receiving
  <2> QED
    BY <1>1, <2>1, <2>2, <2>3, <2>4 DEF Client
<1>2. ASSUME NEW c \in Sessions, Receive(c) PROVE TypeOK'
  <2>1. CASE Put(c)
    <3>1. Head(puts[c]) \in Item /\ Tail(puts[c]) \in Seq(Item)
      BY <2>1, HeadTailProperties DEF Put
    <3>2. Append(work[c], Head(puts[c])) \in Seq(Item)
      BY <3>1, AppendProperties
    <3> QED
      BY <2>1, <3>1, <3>2 DEF Put
  <2>2. CASE Disconnect(c)
    BY <2>2 DEF Disconnect, Return, Receiving
  <2> QED
    BY <1>2, <2>1, <2>2 DEF Receive
<1>3. ASSUME NEW c \in Sessions, Speaker(c) PROVE TypeOK'
  <2>1. CASE TakeFlushed(c)
    <3>1. Head(work[c]) \in Item /\ Tail(work[c]) \in Seq(Item)
      BY <2>1, HeadTailProperties DEF TakeFlushed, Take
    <3>2. [Head(work[c]) EXCEPT !.kind = "done"] \in Item
      BY <3>1 DEF Item
    <3>3. Append(out[c], [Head(work[c]) EXCEPT !.kind = "done"]) \in Seq(Item)
      BY <3>2, AppendProperties
    <3>4. out' \in [Sessions -> Seq(Item)]
      BY <2>1, <3>3 DEF TakeFlushed, Sent, SendFails
    <3>5. spc' \in [Sessions -> {"get", "listen", "dead"}]
      BY <2>1 DEF TakeFlushed, Dies
    <3> QED
      BY <2>1, <3>1, <3>2, <3>3, <3>4, <3>5 DEF TakeFlushed, Take
  <2>2. CASE TakeBlank(c)
    <3>1. Head(work[c]) \in Item /\ Tail(work[c]) \in Seq(Item)
      BY <2>2, HeadTailProperties DEF TakeBlank, Take
    <3> QED
      BY <2>2, <3>1 DEF TakeBlank, Take
  <2>3. CASE TakeSentence(c)
    <3>1. Head(work[c]) \in Item /\ Tail(work[c]) \in Seq(Item)
      BY <2>3, HeadTailProperties DEF TakeSentence, Take
    <3> QED
      BY <2>3, <3>1 DEF TakeSentence, Take
  <2>7. CASE TakeRefused(c)
    <3>1. Head(work[c]) \in Item /\ Tail(work[c]) \in Seq(Item)
      BY <2>7, HeadTailProperties DEF TakeRefused, Take
    <3>2. [Head(work[c]) EXCEPT !.kind = "error"] \in Item
      BY <3>1, Rekinded
    <3>3. Append(out[c], [Head(work[c]) EXCEPT !.kind = "error"]) \in Seq(Item)
      BY <3>2, AppendProperties
    <3>4. out' \in [Sessions -> Seq(Item)]
      BY <2>7, <3>3 DEF TakeRefused, Sent, SendFails
    <3>5. spc' \in [Sessions -> {"get", "listen", "dead"}]
      BY <2>7 DEF TakeRefused, Dies
    <3> QED
      BY <2>7, <3>1, <3>2, <3>3, <3>4, <3>5 DEF TakeRefused, Take
  <2>4. CASE HearChunk(c)
    <3>1. item[c] \in Item
      OBVIOUS
    <3>2. Append(out[c], item[c]) \in Seq(Item)
      BY <3>1, AppendProperties
    <3>3. out' \in [Sessions -> Seq(Item)]
      BY <2>4, <3>2 DEF HearChunk, Sent, SendFails
    <3>4. spc' \in [Sessions -> {"get", "listen", "dead"}]
      BY <2>4 DEF HearChunk, Dies
    <3>5. chan' \in [Sessions -> Seq({"chunk", "error", "done"})]
      BY <2>4, HeadTailProperties DEF HearChunk, Listening
    <3> QED
      BY <2>4, <3>1, <3>2, <3>3, <3>4, <3>5 DEF HearChunk, Listening
  <2>5. CASE HearDone(c)
    BY <2>5 DEF HearDone, Listening
  <2>6. CASE HearError(c)
    <3>1. item[c] \in Item
      OBVIOUS
    <3>2. [item[c] EXCEPT !.kind = "error"] \in Item
      BY <3>1, Rekinded
    <3>3. Append(out[c], [item[c] EXCEPT !.kind = "error"]) \in Seq(Item)
      BY <3>2, AppendProperties
    <3>4. out' = out \/ out' = [out EXCEPT ![c] = Append(out[c], [item[c] EXCEPT !.kind = "error"])]
      BY <2>6 DEF HearError, Sent, SendFails
    <3>5. out' \in [Sessions -> Seq(Item)]
      BY <3>3, <3>4
    <3>6. spc' \in [Sessions -> {"get", "listen", "dead"}]
      BY <2>6 DEF HearError, Dies
    <3>7. UNCHANGED <<heard, puts, open, work, item, left, gone, lock, job>>
      BY <2>6 DEF HearError, Listening
    <3>8. /\ ppc' \in [Sessions -> {"none", "lock", "gen", "put", "error", "last"}]
          /\ chan' \in [Sessions -> Seq({"chunk", "error", "done"})]
      BY <2>6 DEF HearError
    <3> QED
      BY <2>6, <3>1, <3>2, <3>3, <3>4, <3>5, <3>6, <3>7, <3>8 DEF HearError, Listening
  <2> QED
    BY <1>3, <2>1, <2>2, <2>3, <2>4, <2>5, <2>6, <2>7 DEF Speaker
<1>4. ASSUME NEW c \in Sessions, Pump(c) PROVE TypeOK'
  <2>1. CASE Acquire(c)
    BY <2>1 DEF Acquire, PStep
  <2>2. CASE Generate(c)
    BY <2>2 DEF Generate, PStep
  <2>3. CASE PushChunk(c)
    BY <2>3 DEF PushChunk, PStep, Push
  <2>4. CASE Exhaust(c)
    BY <2>4 DEF Exhaust, PStep, Release
  <2>5. CASE Raise(c)
    BY <2>5 DEF Raise, PStep, Release
  <2>6. CASE PushError(c)
    BY <2>6 DEF PushError, PStep, Push
  <2>7. CASE PushDone(c)
    BY <2>7 DEF PushDone, PStep, Push
  <2> QED
    BY <1>4, <2>1, <2>2, <2>3, <2>4, <2>5, <2>6, <2>7 DEF Pump
<1>5. CASE JobArrive
  BY <1>5 DEF JobArrive, JobStep
<1>6. CASE JobStart
  BY <1>6 DEF JobStart, JobStep
<1>7. CASE JobEnd
  BY <1>7 DEF JobEnd, JobStep
<1>8. CASE UNCHANGED vars
  BY <1>8 DEF vars
<1> QED
  BY <1>1, <1>2, <1>3, <1>4, <1>5, <1>6, <1>7, <1>8 DEF Next, Worker

\* The state stays within its types, whatever the sessions, the client, and the job do.
THEOREM TypeCorrect == Spec => []TypeOK
<1>1. Init => TypeOK
  BY DEF Init, Nothing, Item, TypeOK
<1> QED
  BY <1>1, TypeKept, PTL DEF Spec

-----------------------------------------------------------------------------
\* The order of a session's items, from what the client was sent to what is still to be put.

Items(s) == {s[i] : i \in DOMAIN s}

\* j may follow i: text in order, and nothing of a sentence after the mark that ends it.
Follows(i, j) == i.n <= j.n /\ (i.kind \in {"flushed", "done"} => i.n < j.n)
Ahead(I, J)   == \A i \in I, j \in J : Follows(i, j)
Ordered(s)    == \A a, b \in DOMAIN s : a < b => Follows(s[a], s[b])

\* o was sent, N is what is being spoken, w is on the queue, p is to be put there, and the
\* client has sent h sentences.
Flowing(h, o, N, w, p) ==
    /\ Ordered(o) /\ Ordered(w) /\ Ordered(p)
    /\ Ahead(Items(o), N) /\ Ahead(Items(o), Items(w)) /\ Ahead(Items(o), Items(p))
    /\ Ahead(N, Items(w)) /\ Ahead(N, Items(p)) /\ Ahead(Items(w), Items(p))
    /\ \A i \in Items(o) \cup N \cup Items(w) \cup Items(p) : i.n <= h
    /\ \A i \in N : i.kind = "say"

LEMMA ItemsOf == ASSUME NEW s \in Seq(Item) PROVE Items(s) \subseteq Item
BY DEF Items

LEMMA AppendItems ==
  ASSUME NEW s \in Seq(Item), NEW e \in Item
  PROVE  /\ Append(s, e) \in Seq(Item)
         /\ Items(Append(s, e)) = Items(s) \cup {e}
         /\ Ordered(s) /\ Ahead(Items(s), {e}) => Ordered(Append(s, e))
<1> DEFINE t == Append(s, e)
<1>1. /\ t \in Seq(Item) /\ Len(t) = Len(s) + 1
      /\ \A i \in 1 .. Len(s) : t[i] = s[i]
      /\ t[Len(s) + 1] = e
  BY AppendProperties
<1>2. DOMAIN s = 1 .. Len(s) /\ DOMAIN t = 1 .. Len(s) + 1 /\ Len(s) \in Nat
  BY <1>1
<1> HIDE DEF t
<1>3. Items(t) = Items(s) \cup {e}
  <2>1. ASSUME NEW i \in DOMAIN t PROVE t[i] \in Items(s) \cup {e}
    <3>1. i = Len(s) + 1 \/ i \in 1 .. Len(s)
      BY <1>2
    <3> QED
      BY <3>1, <1>1, <1>2 DEF Items
  <2>2. Len(s) + 1 \in DOMAIN t /\ \A i \in DOMAIN s : i \in DOMAIN t
    BY <1>2
  <2> QED
    BY <2>1, <2>2, <1>1, <1>2 DEF Items
<1>4. ASSUME Ordered(s), Ahead(Items(s), {e}) PROVE Ordered(t)
  <2> SUFFICES ASSUME NEW a \in DOMAIN t, NEW b \in DOMAIN t, a < b PROVE Follows(t[a], t[b])
    BY DEF Ordered
  <2>1. a \in 1 .. Len(s) /\ (b \in 1 .. Len(s) \/ b = Len(s) + 1)
    BY <1>2
  <2>2. s[a] \in Items(s)
    BY <2>1, <1>2 DEF Items
  <2> QED
    BY <2>1, <2>2, <1>1, <1>2, <1>4 DEF Ordered, Ahead
<1> QED
  BY <1>1, <1>3, <1>4 DEF t

LEMMA TailItems ==
  ASSUME NEW s \in Seq(Item), s # <<>>
  PROVE  /\ Head(s) \in Item /\ Tail(s) \in Seq(Item)
         /\ Head(s) \in Items(s) /\ Items(Tail(s)) \subseteq Items(s)
         /\ Ordered(s) => Ordered(Tail(s)) /\ Ahead({Head(s)}, Items(Tail(s)))
<1> DEFINE t == Tail(s)
<1>1. /\ Head(s) \in Item /\ t \in Seq(Item) /\ Len(t) = Len(s) - 1
      /\ \A i \in 1 .. Len(t) : t[i] = s[i + 1]
  BY HeadTailProperties
<1>2. DOMAIN s = 1 .. Len(s) /\ DOMAIN t = 1 .. Len(s) - 1 /\ Len(s) \in Nat \ {0}
      /\ Head(s) = s[1] /\ 1 \in DOMAIN s
  BY <1>1
<1> HIDE DEF t
<1>3. Head(s) \in Items(s)
  BY <1>2 DEF Items
<1>4. \A i \in DOMAIN t : t[i] = s[i + 1] /\ i + 1 \in DOMAIN s
  BY <1>1, <1>2
<1>5. Items(t) \subseteq Items(s)
  BY <1>4 DEF Items
<1>6. ASSUME Ordered(s) PROVE Ordered(t)
  <2> SUFFICES ASSUME NEW a \in DOMAIN t, NEW b \in DOMAIN t, a < b PROVE Follows(t[a], t[b])
    BY DEF Ordered
  <2>1. a + 1 < b + 1
    BY <1>2
  <2> QED
    BY <2>1, <1>4, <1>6 DEF Ordered
<1>7. ASSUME Ordered(s) PROVE Ahead({Head(s)}, Items(t))
  <2> SUFFICES ASSUME NEW i \in DOMAIN t PROVE Follows(Head(s), t[i])
    BY DEF Ahead, Items
  <2>1. 1 < i + 1
    BY <1>2
  <2> QED
    BY <2>1, <1>2, <1>4, <1>7 DEF Ordered
<1> QED
  BY <1>1, <1>3, <1>5, <1>6, <1>7 DEF t

-----------------------------------------------------------------------------
\* What each activity does to the flow.

Typed(h, o, N, w, p) == /\ h \in Nat /\ o \in Seq(Item) /\ w \in Seq(Item) /\ p \in Seq(Item)
                        /\ N \subseteq Item

\* The client's next sentence, alone or with the mark that ends the text.
LEMMA FlowText ==
  ASSUME NEW h, NEW o, NEW N, NEW w, NEW p, Typed(h, o, N, w, <<>>), Flowing(h, o, N, w, <<>>),
         NEW m \in Nat, m = h + 1,
         p \in {<<Say(m)>>} \cup InputDone(m)
  PROVE  Flowing(m, o, N, w, p)
<1>1. Items(o) \subseteq Item /\ Items(w) \subseteq Item /\ Items(<<>>) = {}
  BY ItemsOf DEF Typed, Items
<1>2. /\ \A i \in Items(p) : i.n = m
      /\ Ordered(p)
  <2>1. CASE p = <<Say(m)>>
    BY <2>1 DEF Say, Items, Ordered
  <2>2. CASE p = <<Say(m), Mark(m)>>
    <3>1. DOMAIN p = 1 .. 2 /\ p[1] = Say(m) /\ p[2] = Mark(m)
      BY <2>2
    <3> QED
      BY <3>1 DEF Say, Mark, Items, Ordered, Follows
  <2>3. CASE p = <<Blank(m), Mark(m)>>
    <3>1. DOMAIN p = 1 .. 2 /\ p[1] = Blank(m) /\ p[2] = Mark(m)
      BY <2>3
    <3> QED
      BY <3>1 DEF Blank, Mark, Items, Ordered, Follows
  <2> QED
    BY <2>1, <2>2, <2>3 DEF InputDone
<1>3. \A i \in Items(o) \cup N \cup Items(w) : i.n \in Nat /\ i.n <= h
  BY <1>1 DEF Flowing, Typed, Item
<1>4. Ahead(Items(o), Items(p)) /\ Ahead(N, Items(p)) /\ Ahead(Items(w), Items(p))
  BY <1>2, <1>3 DEF Ahead, Follows, Typed
<1>5. \A i \in Items(o) \cup N \cup Items(w) \cup Items(p) : i.n <= m
  BY <1>2, <1>3 DEF Typed
<1> QED
  BY <1>2, <1>4, <1>5 DEF Flowing

\* put(): from the receive loop to the queue.
LEMMA FlowPut ==
  ASSUME NEW h, NEW o, NEW N, NEW w, NEW p, Typed(h, o, N, w, p), Flowing(h, o, N, w, p),
         p # <<>>
  PROVE  Flowing(h, o, N, Append(w, Head(p)), Tail(p))
<1>1. /\ Head(p) \in Item /\ Head(p) \in Items(p) /\ Items(Tail(p)) \subseteq Items(p)
      /\ Ordered(Tail(p)) /\ Ahead({Head(p)}, Items(Tail(p)))
  BY TailItems DEF Typed, Flowing
<1>2. Ahead(Items(w), {Head(p)})
  BY <1>1 DEF Flowing, Ahead
<1>3. Items(Append(w, Head(p))) = Items(w) \cup {Head(p)} /\ Ordered(Append(w, Head(p)))
  BY <1>1, <1>2, AppendItems DEF Typed, Flowing
<1> QED
  BY <1>1, <1>3 DEF Flowing, Ahead

\* What was being spoken ends, or the next item is taken and dropped.
LEMMA FlowStop ==
  ASSUME NEW h, NEW o, NEW N, NEW w, NEW p, Flowing(h, o, N, w, p)
  PROVE  Flowing(h, o, {}, w, p)
BY DEF Flowing, Ahead

LEMMA FlowDrop ==
  ASSUME NEW h, NEW o, NEW w, NEW p, Typed(h, o, {}, w, p), Flowing(h, o, {}, w, p), w # <<>>
  PROVE  Flowing(h, o, {}, Tail(w), p)
<1>1. Items(Tail(w)) \subseteq Items(w) /\ Ordered(Tail(w))
  BY TailItems DEF Typed, Flowing
<1> QED
  BY <1>1 DEF Flowing, Ahead

\* A sentence is taken to be spoken, ...
LEMMA FlowTake ==
  ASSUME NEW h, NEW o, NEW w, NEW p, Typed(h, o, {}, w, p), Flowing(h, o, {}, w, p), w # <<>>,
         Head(w).kind = "say"
  PROVE  Flowing(h, o, {Head(w)}, Tail(w), p)
<1>1. /\ Head(w) \in Items(w) /\ Items(Tail(w)) \subseteq Items(w)
      /\ Ordered(Tail(w)) /\ Ahead({Head(w)}, Items(Tail(w)))
  BY TailItems DEF Typed, Flowing
<1> QED
  BY <1>1 DEF Flowing, Ahead

\* ... or a mark, which is answered with session.done: all that follows it is of later text.
LEMMA FlowMark ==
  ASSUME NEW h, NEW o, NEW w, NEW p, Typed(h, o, {}, w, p), Flowing(h, o, {}, w, p), w # <<>>,
         Head(w).kind = "flushed"
  PROVE  Flowing(h, Append(o, [Head(w) EXCEPT !.kind = "done"]), {}, Tail(w), p)
<1> DEFINE e == [Head(w) EXCEPT !.kind = "done"]
<1>1. /\ Head(w) \in Item /\ Head(w) \in Items(w) /\ Items(Tail(w)) \subseteq Items(w)
      /\ Ordered(Tail(w)) /\ Ahead({Head(w)}, Items(Tail(w)))
  BY TailItems DEF Typed, Flowing
<1>2. e \in Item /\ e.kind = "done" /\ e.n = Head(w).n
  BY <1>1, Rekinded DEF Item
<1> HIDE DEF e
<1>3. /\ Ahead(Items(o), {e}) /\ Ahead({e}, Items(Tail(w))) /\ Ahead({e}, Items(p))
      /\ e.n <= h
  BY <1>1, <1>2 DEF Flowing, Ahead, Follows
<1>4. Items(Append(o, e)) = Items(o) \cup {e} /\ Ordered(Append(o, e))
  BY <1>2, <1>3, AppendItems DEF Typed, Flowing
<1>5. Flowing(h, Append(o, e), {}, Tail(w), p)
  BY <1>1, <1>3, <1>4 DEF Flowing, Ahead
<1> QED
  BY <1>5 DEF e

\* A chunk of the sentence being spoken is sent, or the report that it failed.
LEMMA FlowSend ==
  ASSUME NEW h, NEW o, NEW i, NEW w, NEW p, Typed(h, o, {i}, w, p), Flowing(h, o, {i}, w, p),
         NEW e \in Item, e.n = i.n, e.kind \in {"say", "error"}
  PROVE  /\ Flowing(h, Append(o, e), {i}, w, p)
         /\ Flowing(h, Append(o, e), {}, w, p)
<1>1. i \in Item /\ i.n \in Nat /\ i.n <= h
  BY DEF Typed, Flowing, Item
<1>2. Ahead(Items(o), {e}) /\ Ahead({e}, {i}) /\ Ahead({e}, Items(w)) /\ Ahead({e}, Items(p))
  BY <1>1 DEF Flowing, Ahead, Follows
<1>3. Items(Append(o, e)) = Items(o) \cup {e} /\ Ordered(Append(o, e))
  BY <1>2, AppendItems DEF Typed, Flowing
<1> QED
  BY <1>1, <1>2, <1>3 DEF Flowing, Ahead

-----------------------------------------------------------------------------
\* The invariant.

Now(c)  == IF spc[c] = "listen" THEN {item[c]} ELSE {}
Flow(c) == Flowing(heard[c], out[c], Now(c), work[c], puts[c])

OrderInv == TypeOK /\ \A c \in Sessions : Flow(c)

LEMMA FlowTyped ==
  ASSUME TypeOK, NEW c \in Sessions
  PROVE  Typed(heard[c], out[c], Now(c), work[c], puts[c])
BY DEF TypeOK, Typed, Now

\* What has no part in a session's flow leaves it alone.
Same(c) == UNCHANGED <<heard[c], out[c], spc[c], item[c], work[c], puts[c]>>

LEMMA FlowSame ==
  ASSUME NEW c \in Sessions, Flow(c), Same(c)
  PROVE  Flow(c)'
BY DEF Flow, Now, Same

\* A step of one session, or of the job, is none of another session's.
LEMMA OthersSame ==
  ASSUME TypeOK, NEW c \in Sessions, Client(c) \/ Receive(c) \/ Speaker(c) \/ Pump(c),
         NEW d \in Sessions, d # c
  PROVE  Same(d)
<1> USE DEF TypeOK, Same, recvVars, speakVars, pumpVars
<1>1. CASE Client(c)
  BY <1>1 DEF Client, InputText, Done, Vanish, Close, Return
<1>2. CASE Receive(c)
  BY <1>2 DEF Receive, Put, Disconnect, Return
<1>3. CASE Speaker(c)
  <2>1. CASE TakeFlushed(c)
    BY <2>1 DEF TakeFlushed, Take, Sent, SendFails, Dies
  <2>2. CASE TakeBlank(c) \/ TakeSentence(c)
    BY <2>2 DEF TakeBlank, TakeSentence, Take
  <2>5. CASE TakeRefused(c)
    BY <2>5 DEF TakeRefused, Take, Sent, SendFails, Dies
  <2>3. CASE HearChunk(c) \/ HearDone(c)
    BY <2>3 DEF HearChunk, HearDone, Listening, Sent, SendFails, Dies
  <2>4. CASE HearError(c)
    BY <2>4 DEF HearError, Listening, Sent, SendFails, Dies
  <2> QED
    BY <1>3, <2>1, <2>2, <2>3, <2>4, <2>5 DEF Speaker
<1>4. CASE Pump(c)
  BY <1>4 DEF Pump, Acquire, Generate, PushChunk, Exhaust, Raise, PushError, PushDone, PStep
<1> QED
  BY <1>1, <1>2, <1>3, <1>4

\* The receive loop: text comes in, is put on the queue, or the handler returns.
LEMMA ReceiveFlows ==
  ASSUME TypeOK, NEW c \in Sessions, Flow(c), Client(c) \/ Receive(c)
  PROVE  Flow(c)'
<1> USE DEF TypeOK, recvVars, speakVars, pumpVars
<1>1. Typed(heard[c], out[c], Now(c), work[c], puts[c])
  BY FlowTyped
<1>2. CASE InputText(c)
  <2>1. /\ puts[c] = <<>> /\ heard'[c] = heard[c] + 1 /\ heard'[c] \in Nat
        /\ puts'[c] = <<Say(heard'[c])>>
        /\ UNCHANGED <<out, spc, item, work>>
    BY <1>2 DEF InputText, Receiving
  <2>2. Flowing(heard'[c], out[c], Now(c), work[c], puts'[c])
    BY <1>1, <2>1, FlowText DEF Flow
  <2> QED
    BY <2>1, <2>2 DEF Flow, Now
<1>3. CASE Done(c)
  <2>1. /\ puts[c] = <<>> /\ heard'[c] = heard[c] + 1 /\ heard'[c] \in Nat
        /\ puts'[c] \in InputDone(heard'[c])
        /\ UNCHANGED <<out, spc, item, work>>
    BY <1>3 DEF Done, Receiving
  <2>2. Flowing(heard'[c], out[c], Now(c), work[c], puts'[c])
    BY <1>1, <2>1, FlowText DEF Flow
  <2> QED
    BY <2>1, <2>2 DEF Flow, Now
<1>4. CASE Put(c)
  <2>1. /\ puts[c] # <<>> /\ puts'[c] = Tail(puts[c])
        /\ work'[c] = Append(work[c], Head(puts[c]))
        /\ UNCHANGED <<heard, out, spc, item>>
    BY <1>4 DEF Put
  <2>2. Flowing(heard[c], out[c], Now(c), work'[c], puts'[c])
    BY <1>1, <2>1, FlowPut DEF Flow
  <2> QED
    BY <2>1, <2>2 DEF Flow, Now
<1>5. CASE Vanish(c)
  <2>1. Same(c)
    BY <1>5 DEF Vanish, Same
  <2> QED
    BY <2>1, FlowSame
<1>6. CASE Return(c)
  <2>1. spc'[c] = "dead" /\ UNCHANGED <<heard, out, work, puts>>
    BY <1>6 DEF Return
  <2> QED
    BY <2>1, FlowStop DEF Flow, Now
<1> QED
  BY <1>2, <1>3, <1>4, <1>5, <1>6 DEF Client, Receive, Close, Disconnect

\* The speaker: what it takes it drops, answers, or speaks; what it hears it sends.
LEMMA SpeakerFlows ==
  ASSUME TypeOK, NEW c \in Sessions, Flow(c), Speaker(c)
  PROVE  Flow(c)'
<1> USE DEF TypeOK, recvVars, speakVars, pumpVars
<1>1. Typed(heard[c], out[c], Now(c), work[c], puts[c])
  BY FlowTyped
<1>2. ASSUME Take(c)
      PROVE  /\ Now(c) = {} /\ work[c] # <<>> /\ work'[c] = Tail(work[c])
             /\ item'[c] = Head(work[c])
  BY <1>2 DEF Take, Now
<1>3. CASE TakeFlushed(c)
  <2>1. /\ Now(c) = {} /\ Now(c)' = {} /\ work[c] # <<>> /\ work'[c] = Tail(work[c])
        /\ Head(work[c]).kind = "flushed" /\ UNCHANGED <<heard, puts>>
    BY <1>2, <1>3 DEF TakeFlushed, Take, Dies, Now
  <2>2. \/ out'[c] = out[c]
        \/ out'[c] = Append(out[c], [Head(work[c]) EXCEPT !.kind = "done"])
    BY <1>3 DEF TakeFlushed, Sent, SendFails
  <2>3. Flowing(heard[c], out'[c], {}, Tail(work[c]), puts[c])
    <3>1. /\ Typed(heard[c], out[c], {}, work[c], puts[c])
          /\ Flowing(heard[c], out[c], {}, work[c], puts[c])
      BY <1>1, <2>1 DEF Flow
    <3>2. Flowing(heard[c], out[c], {}, Tail(work[c]), puts[c])
      BY <2>1, <3>1, FlowDrop
    <3>3. Flowing(heard[c], Append(out[c], [Head(work[c]) EXCEPT !.kind = "done"]), {},
                  Tail(work[c]), puts[c])
      BY <2>1, <3>1, FlowMark
    <3> QED
      BY <2>2, <3>2, <3>3
  <2> QED
    BY <2>1, <2>3 DEF Flow
<1>4. CASE TakeBlank(c)
  <2>1. Now(c)' = {} /\ UNCHANGED <<heard, puts, out>>
    BY <1>4 DEF TakeBlank, Take, Now
  <2>2. Flowing(heard[c], out[c], {}, Tail(work[c]), puts[c])
    BY <1>1, <1>2, <1>4, FlowDrop DEF Flow, TakeBlank
  <2> QED
    BY <1>2, <1>4, <2>1, <2>2 DEF Flow, TakeBlank
<1>5. CASE TakeSentence(c)
  <2>1. /\ Take(c) /\ Head(work[c]).kind = "say"
        /\ Now(c)' = {Head(work[c])} /\ UNCHANGED <<heard, puts, out>>
    BY <1>2, <1>5 DEF TakeSentence, Now
  <2>2. Now(c) = {} /\ work[c] # <<>> /\ work'[c] = Tail(work[c])
    BY <1>2, <2>1
  <2>3. /\ Typed(heard[c], out[c], {}, work[c], puts[c])
        /\ Flowing(heard[c], out[c], {}, work[c], puts[c])
    BY <1>1, <2>2 DEF Flow
  <2>4. Flowing(heard[c], out[c], {Head(work[c])}, Tail(work[c]), puts[c])
    BY <2>1, <2>2, <2>3, FlowTake
  <2> QED
    BY <2>1, <2>2, <2>4 DEF Flow
<1>5a. CASE TakeRefused(c)
  <2> DEFINE e == [Head(work[c]) EXCEPT !.kind = "error"]
  <2>1. /\ Take(c) /\ Head(work[c]).kind = "say" /\ Now(c)' = {} /\ UNCHANGED <<heard, puts>>
        /\ (out'[c] = out[c] \/ out'[c] = Append(out[c], e))
    BY <1>5a DEF TakeRefused, Take, Sent, SendFails, Dies, Now
  <2>2. Head(work[c]) \in Item /\ Tail(work[c]) \in Seq(Item)
    BY <1>2, <2>1, TailItems
  <2>3. e \in Item /\ e.n = Head(work[c]).n /\ e.kind = "error"
    BY <2>2, Rekinded DEF Item
  <2> HIDE DEF e
  <2>4. /\ Typed(heard[c], out[c], {Head(work[c])}, Tail(work[c]), puts[c])
        /\ Flowing(heard[c], out[c], {Head(work[c])}, Tail(work[c]), puts[c])
    <3>1. Typed(heard[c], out[c], {Head(work[c])}, Tail(work[c]), puts[c])
      BY <1>1, <2>2 DEF Typed
    <3>2. Now(c) = {} /\ work[c] # <<>>
      BY <1>2, <2>1
    <3>3. /\ Typed(heard[c], out[c], {}, work[c], puts[c])
          /\ Flowing(heard[c], out[c], {}, work[c], puts[c])
      BY <1>1, <3>2 DEF Flow
    <3>4. Flowing(heard[c], out[c], {Head(work[c])}, Tail(work[c]), puts[c])
      BY <2>1, <3>2, <3>3, FlowTake
    <3> QED
      BY <3>1, <3>4
  <2>5. Flowing(heard[c], out[c], {}, Tail(work[c]), puts[c])
    BY <2>4, FlowStop
  <2>6. Flowing(heard[c], Append(out[c], e), {}, Tail(work[c]), puts[c])
    BY <2>3, <2>4, FlowSend
  <2>7. Flowing(heard[c], out'[c], {}, work'[c], puts[c])
    BY <1>2, <2>1, <2>5, <2>6
  <2> QED
    BY <2>1, <2>7 DEF Flow
<1>6. ASSUME spc[c] = "listen"
      PROVE  Now(c) = {item[c]} /\ item[c] \in Item /\ item[c].kind = "say"
  BY <1>6 DEF Now, Flow, Flowing
<1>7. CASE HearChunk(c)
  <2>1. spc[c] = "listen" /\ UNCHANGED <<heard, puts, work, item>>
    BY <1>7 DEF HearChunk, Listening
  <2>2. \/ out'[c] = out[c] /\ Now(c)' = {}
        \/ out'[c] = Append(out[c], item[c]) /\ Now(c)' = {item[c]}
    BY <1>7, <2>1 DEF HearChunk, Sent, SendFails, Dies, Now
  <2>3. Flowing(heard[c], out'[c], Now(c)', work[c], puts[c])
    <3>1. /\ Typed(heard[c], out[c], {item[c]}, work[c], puts[c])
          /\ Flowing(heard[c], out[c], {item[c]}, work[c], puts[c])
      BY <1>1, <1>6, <2>1 DEF Flow
    <3>2. Flowing(heard[c], out[c], {}, work[c], puts[c])
      BY <3>1, FlowStop
    <3>3. Flowing(heard[c], Append(out[c], item[c]), {item[c]}, work[c], puts[c])
      BY <1>6, <2>1, <3>1, FlowSend
    <3> QED
      BY <2>2, <3>2, <3>3
  <2> QED
    BY <2>1, <2>3 DEF Flow
<1>8. CASE HearDone(c)
  <2>1. Now(c)' = {} /\ UNCHANGED <<heard, puts, work, out>>
    BY <1>8 DEF HearDone, Listening, Now
  <2> QED
    BY <2>1, FlowStop DEF Flow
<1>9. CASE HearError(c)
  <2> DEFINE e == [item[c] EXCEPT !.kind = "error"]
  <2>1. spc[c] = "listen" /\ Now(c)' = {} /\ UNCHANGED <<heard, puts, work, item>>
    BY <1>9 DEF HearError, Listening, Dies, Now
  <2>2. out'[c] = out[c] \/ out'[c] = Append(out[c], e)
    BY <1>9 DEF HearError, Sent, SendFails
  <2>3. e \in Item /\ e.n = item[c].n /\ e.kind = "error"
    BY <1>6, <2>1, Rekinded DEF Item
  <2> HIDE DEF e
  <2>4. Flowing(heard[c], out'[c], {}, work[c], puts[c])
    <3>1. /\ Typed(heard[c], out[c], {item[c]}, work[c], puts[c])
          /\ Flowing(heard[c], out[c], {item[c]}, work[c], puts[c])
      BY <1>1, <1>6, <2>1 DEF Flow
    <3>2. Flowing(heard[c], out[c], {}, work[c], puts[c])
      BY <3>1, FlowStop
    <3>3. Flowing(heard[c], Append(out[c], e), {}, work[c], puts[c])
      BY <2>3, <3>1, FlowSend
    <3> QED
      BY <2>2, <3>2, <3>3
  <2> QED
    BY <2>1, <2>4 DEF Flow
<1> QED
  BY <1>3, <1>4, <1>5, <1>5a, <1>7, <1>8, <1>9 DEF Speaker

LEMMA PumpFlows ==
  ASSUME NEW c \in Sessions, Flow(c), Pump(c)
  PROVE  Flow(c)'
<1>1. Same(c)
  BY DEF Pump, Acquire, Generate, PushChunk, Exhaust, Raise, PushError, PushDone, PStep, Same,
         recvVars, speakVars
<1> QED
  BY <1>1, FlowSame

LEMMA OrderKept == OrderInv /\ [Next]_vars => OrderInv'
<1> SUFFICES ASSUME OrderInv, [Next]_vars PROVE OrderInv'
  OBVIOUS
<1>1. TypeOK'
  BY TypeKept DEF OrderInv
<1>2. ASSUME NEW d \in Sessions PROVE Flow(d)'
  <2>1. TypeOK /\ Flow(d)
    BY DEF OrderInv
  <2>2. ASSUME NEW c \in Sessions, Client(c) \/ Receive(c) \/ Speaker(c) \/ Pump(c)
        PROVE  Flow(d)'
    <3>1. CASE d = c
      BY <2>1, <2>2, <3>1, ReceiveFlows, SpeakerFlows, PumpFlows
    <3>2. CASE d # c
      BY <2>1, <2>2, <3>2, OthersSame, FlowSame
    <3> QED
      BY <3>1, <3>2
  <2>3. CASE JobArrive \/ Worker \/ UNCHANGED vars
    <3>1. Same(d)
      BY <2>3 DEF JobArrive, Worker, JobStart, JobEnd, JobStep, vars, recvVars, speakVars, Same
    <3> QED
      BY <2>1, <3>1, FlowSame
  <2> QED
    BY <2>2, <2>3 DEF Next
<1> QED
  BY <1>1, <1>2 DEF OrderInv

LEMMA OrderInit == Init => OrderInv
<1>1. ASSUME Init PROVE TypeOK
  BY <1>1 DEF Init, Nothing, Item, TypeOK
<1>2. ASSUME Init, NEW c \in Sessions PROVE Flow(c)
  BY <1>2 DEF Init, Flow, Now, Flowing, Ordered, Ahead, Items
<1> QED
  BY <1>1, <1>2 DEF OrderInv

\* For any sessions, sentences, chunks and queue sizes, and whatever fails or leaves: a client
\* hears its text in order, and nothing of a sentence after the session.done that follows it.
THEOREM SpeechInOrder == Spec => []AudioInOrder
<1>1. Init => OrderInv
  BY OrderInit
<1>2. OrderInv => AudioInOrder
  <2> SUFFICES ASSUME OrderInv, NEW c \in Sessions,
                      NEW i \in DOMAIN out[c], NEW j \in DOMAIN out[c], i < j
               PROVE  /\ out[c][i].n <= out[c][j].n
                      /\ out[c][i].kind = "done" => out[c][i].n < out[c][j].n
    BY DEF AudioInOrder
  <2>1. Follows(out[c][i], out[c][j])
    BY DEF OrderInv, Flow, Flowing, Ordered
  <2> QED
    BY <2>1 DEF Follows
<1> QED
  BY <1>1, OrderKept, <1>2, PTL DEF Spec

-----------------------------------------------------------------------------
\* The chunks of the sentence being spoken.

Places(s, e) == {i \in DOMAIN s : s[i] = e}
Count(s, e) == Cardinality(Places(s, e))

\* A queue's elements can be counted.
LEMMA Counted ==
  ASSUME NEW S, NEW s \in Seq(S), NEW e
  PROVE  IsFiniteSet(Places(s, e)) /\ Count(s, e) \in Nat
<1>1. DOMAIN s = 1 .. Len(s) /\ Len(s) \in Nat
  OBVIOUS
<1>2. IsFiniteSet(1 .. Len(s)) /\ Places(s, e) \subseteq 1 .. Len(s)
  BY <1>1, FS_Interval DEF Places
<1>3. IsFiniteSet(Places(s, e))
  BY <1>2, FS_Subset
<1> QED
  BY <1>3, FS_CardinalityType DEF Count

\* One more at the end, ...
LEMMA CountAppend ==
  ASSUME NEW S, NEW s \in Seq(S), NEW x \in S, NEW e
  PROVE  Count(Append(s, x), e) = Count(s, e) + (IF x = e THEN 1 ELSE 0)
<1> DEFINE t == Append(s, x)
<1>1. /\ Len(s) \in Nat /\ DOMAIN s = 1 .. Len(s) /\ DOMAIN t = 1 .. Len(s) + 1
      /\ t[Len(s) + 1] = x /\ Len(s) + 1 \notin DOMAIN s
      /\ \A i \in DOMAIN s : t[i] = s[i]
      /\ \A i : i \in DOMAIN t <=> i = Len(s) + 1 \/ i \in DOMAIN s
  OBVIOUS
<1> HIDE DEF t
<1>2. IsFiniteSet(Places(s, e)) /\ Count(s, e) \in Nat
  BY Counted
<1>3. CASE x = e
  <2>1. Places(t, e) = Places(s, e) \cup {Len(s) + 1} /\ Len(s) + 1 \notin Places(s, e)
    BY <1>1, <1>3 DEF Places
  <2>2. Cardinality(Places(t, e)) = Cardinality(Places(s, e)) + 1
    BY <1>2, <2>1, FS_AddElement
  <2> QED
    BY <1>3, <2>2 DEF Count, t
<1>4. CASE x # e
  <2>1. Places(t, e) = Places(s, e)
    BY <1>1, <1>4 DEF Places
  <2> QED
    BY <1>2, <1>4, <2>1 DEF Count, t
<1> QED
  BY <1>3, <1>4

\* ... or one less at the front.
LEMMA CountTail ==
  ASSUME NEW S, NEW s \in Seq(S), s # <<>>, NEW e
  PROVE  Count(Tail(s), e) = Count(s, e) - (IF Head(s) = e THEN 1 ELSE 0)
<1> DEFINE t == Tail(s)
           rest == Places(s, e) \ {1}
           shift == [i \in Places(t, e) |-> i + 1]
<1>1. /\ t \in Seq(S) /\ Head(s) = s[1] /\ 1 \in DOMAIN s
      /\ \A i \in DOMAIN t : i \in Nat /\ i + 1 \in DOMAIN s /\ i + 1 # 1 /\ t[i] = s[i + 1]
      /\ \A i \in DOMAIN s : i \in Nat /\ (i # 1 => i - 1 \in DOMAIN t /\ t[i - 1] = s[i])
  OBVIOUS
<1> HIDE DEF t
<1>2. /\ IsFiniteSet(Places(s, e)) /\ Count(s, e) \in Nat
      /\ IsFiniteSet(Places(t, e)) /\ Count(t, e) \in Nat
  BY <1>1, Counted
<1>3. shift \in Bijection(Places(t, e), rest)
  <2>1. shift \in [Places(t, e) -> rest]
    BY <1>1 DEF Places
  <2>2. \A i, j \in Places(t, e) : shift[i] = shift[j] => i = j
    <3>1. \A i \in Places(t, e) : i \in Nat
      BY <1>1 DEF Places
    <3> QED
      BY <3>1
  <2>3. \A j \in rest : \E i \in Places(t, e) : shift[i] = j
    <3> SUFFICES ASSUME NEW j \in rest PROVE \E i \in Places(t, e) : shift[i] = j
      OBVIOUS
    <3>1. j - 1 \in Places(t, e) /\ (j - 1) + 1 = j
      BY <1>1 DEF Places
    <3> QED
      BY <3>1
  <2> HIDE DEF shift, rest
  <2> QED
    BY <2>1, <2>2, <2>3 DEF Bijection, Injection, Surjection, IsInjective
<1>4. Cardinality(rest) = Cardinality(Places(t, e))
  <2> HIDE DEF shift, rest
  <2>1. ExistsBijection(Places(t, e), rest)
    BY <1>3 DEF ExistsBijection
  <2> QED
    BY <1>2, <2>1, FS_Bijection DEF Count
<1>5. CASE Head(s) = e
  <2>1. 1 \in Places(s, e)
    BY <1>1, <1>5 DEF Places
  <2>2. Cardinality(rest) = Cardinality(Places(s, e)) - 1
    BY <1>2, <2>1, FS_RemoveElement
  <2> QED
    BY <1>4, <1>5, <2>2 DEF Count, t
<1>6. CASE Head(s) # e
  <2>1. rest = Places(s, e)
    BY <1>1, <1>6 DEF Places
  <2> HIDE DEF rest
  <2> QED
    BY <1>2, <1>4, <1>6, <2>1 DEF Count, t
<1> QED
  BY <1>5, <1>6

\* A sentence is of later text than the one before it, so none comes twice.
Later(i, j) == i.kind = "say" /\ j.kind = "say" => i.n < j.n
Rising(s)   == \A a, b \in DOMAIN s : a < b => Later(s[a], s[b])

\* o was sent, N is what is being spoken, w is on the queue and p is to be put there.
Fresh(o, N, w, p) ==
    /\ Rising(w) /\ Rising(p)
    /\ \A i \in Items(o) \cup N, j \in Items(w) \cup Items(p) : Later(i, j)
    /\ \A i \in Items(w), j \in Items(p) : Later(i, j)

\* What stays of a queue when its head is taken is of later text than the head.
LEMMA RisingTail ==
  ASSUME NEW s \in Seq(Item), s # <<>>, Rising(s)
  PROVE  Rising(Tail(s)) /\ \A j \in Items(Tail(s)) : Later(Head(s), j)
<1> DEFINE t == Tail(s)
<1>1. /\ Head(s) = s[1] /\ 1 \in DOMAIN s
      /\ \A i \in DOMAIN t : i \in Nat /\ i + 1 \in DOMAIN s /\ 1 < i + 1 /\ t[i] = s[i + 1]
  OBVIOUS
<1> HIDE DEF t
<1>2. Rising(t)
  <2> SUFFICES ASSUME NEW a \in DOMAIN t, NEW b \in DOMAIN t, a < b PROVE Later(t[a], t[b])
    BY DEF Rising
  <2>1. a + 1 < b + 1
    BY <1>1
  <2> QED
    BY <1>1, <2>1 DEF Rising
<1>3. \A j \in Items(t) : Later(Head(s), j)
  BY <1>1 DEF Items, Rising
<1> QED
  BY <1>2, <1>3 DEF t

\* What is put on a queue is of later text than what is there.
LEMMA RisingAppend ==
  ASSUME NEW s \in Seq(Item), NEW e \in Item, Rising(s), \A i \in Items(s) : Later(i, e)
  PROVE  Rising(Append(s, e))
<1> DEFINE t == Append(s, e)
<1>1. /\ Len(s) \in Nat /\ DOMAIN s = 1 .. Len(s) /\ DOMAIN t = 1 .. Len(s) + 1
      /\ t[Len(s) + 1] = e /\ \A i \in DOMAIN s : t[i] = s[i]
      /\ \A i \in DOMAIN t : i = Len(s) + 1 \/ i \in DOMAIN s
  OBVIOUS
<1> HIDE DEF t
<1>2. Rising(t)
  <2> SUFFICES ASSUME NEW a \in DOMAIN t, NEW b \in DOMAIN t, a < b PROVE Later(t[a], t[b])
    BY DEF Rising
  <2>1. a \in DOMAIN s
    BY <1>1
  <2>2. CASE b \in DOMAIN s
    BY <1>1, <2>1, <2>2 DEF Rising
  <2>3. CASE b = Len(s) + 1
    BY <1>1, <2>1, <2>3 DEF Items
  <2> QED
    BY <1>1, <2>2, <2>3
<1> QED
  BY <1>2 DEF t

\* The client's next sentence is of later text than all before it.
LEMMA FreshText ==
  ASSUME NEW h \in Nat, NEW o, NEW N, NEW w, NEW m \in Nat, m = h + 1,
         Typed(h, o, N, w, <<>>), Fresh(o, N, w, <<>>),
         \A i \in Items(o) \cup N \cup Items(w) : i.n <= h,
         NEW p, p \in {<<Say(m)>>} \cup InputDone(m)
  PROVE  Fresh(o, N, w, p)
<1>1. Items(o) \subseteq Item /\ Items(w) \subseteq Item /\ N \subseteq Item /\ Items(<<>>) = {}
  BY ItemsOf DEF Typed, Items
<1>2. (\A j \in Items(p) : j.n = m) /\ Rising(p)
  <2>1. CASE p = <<Say(m)>>
    BY <2>1 DEF Say, Items, Rising
  <2>2. CASE p = <<Say(m), Mark(m)>>
    <3>1. DOMAIN p = 1 .. 2 /\ p[1] = Say(m) /\ p[2] = Mark(m)
      BY <2>2
    <3> QED
      BY <3>1 DEF Say, Mark, Items, Rising, Later
  <2>3. CASE p = <<Blank(m), Mark(m)>>
    <3>1. DOMAIN p = 1 .. 2 /\ p[1] = Blank(m) /\ p[2] = Mark(m)
      BY <2>3
    <3> QED
      BY <3>1 DEF Blank, Mark, Items, Rising, Later
  <2> QED
    BY <2>1, <2>2, <2>3 DEF InputDone
<1>3. \A i \in Items(o) \cup N \cup Items(w), j \in Items(p) : Later(i, j)
  BY <1>1, <1>2 DEF Later, Item
<1> QED
  BY <1>1, <1>2, <1>3 DEF Fresh

\* put() moves the first of what is to be put to the end of the queue.
LEMMA FreshPut ==
  ASSUME NEW h, NEW o, NEW N, NEW w, NEW p, Typed(h, o, N, w, p), Fresh(o, N, w, p), p # <<>>
  PROVE  Fresh(o, N, Append(w, Head(p)), Tail(p))
<1>1. /\ Head(p) \in Item /\ Head(p) \in Items(p) /\ Items(Tail(p)) \subseteq Items(p)
      /\ Rising(Tail(p)) /\ \A j \in Items(Tail(p)) : Later(Head(p), j)
  BY TailItems, RisingTail DEF Typed, Fresh
<1>2. Items(Append(w, Head(p))) = Items(w) \cup {Head(p)}
  BY <1>1, AppendItems DEF Typed
<1>3. Rising(Append(w, Head(p)))
  BY <1>1, RisingAppend DEF Typed, Fresh
<1> QED
  BY <1>1, <1>2, <1>3 DEF Fresh

\* The speaker takes the next item, and speaks it if it is a sentence.
LEMMA FreshTake ==
  ASSUME NEW h, NEW o, NEW N, NEW w, NEW p, Typed(h, o, N, w, p), Fresh(o, N, w, p), w # <<>>
  PROVE  Fresh(o, {Head(w)}, Tail(w), p) /\ Fresh(o, {}, Tail(w), p)
<1>1. /\ Head(w) \in Items(w) /\ Items(Tail(w)) \subseteq Items(w)
      /\ Rising(Tail(w)) /\ \A j \in Items(Tail(w)) : Later(Head(w), j)
  BY TailItems, RisingTail DEF Typed, Fresh
<1> QED
  BY <1>1 DEF Fresh

\* What is sent is of the sentence being spoken, or no sentence.
LEMMA FreshSend ==
  ASSUME NEW h, NEW o, NEW N, NEW w, NEW p, Typed(h, o, N, w, p), Fresh(o, N, w, p),
         NEW e \in Item, e \in N \/ e.kind # "say"
  PROVE  Fresh(Append(o, e), N, w, p)
<1>1. Items(Append(o, e)) = Items(o) \cup {e}
  BY AppendItems DEF Typed
<1> QED
  BY <1>1 DEF Fresh, Later

\* Nothing is being spoken any more.
LEMMA FreshStop ==
  ASSUME NEW o, NEW N, NEW w, NEW p, Fresh(o, N, w, p)
  PROVE  Fresh(o, {}, w, p)
BY DEF Fresh

\* NoChunkLost, and what makes it inductive: the sentence taken has not been heard before.
Balance(c) ==
    spc[c] = "listen" =>
        Chunks[c] - left[c] = Count(out[c], item[c]) + Count(chan[c], "chunk")
                              + (IF ppc[c] = "put" THEN 1 ELSE 0)
New(c) == Fresh(out[c], Now(c), work[c], puts[c])

ChunkInv == OrderInv /\ \A c \in Sessions : New(c) /\ Balance(c)

SamePump(c) == UNCHANGED <<ppc[c], chan[c], left[c]>>

LEMMA BalanceSame ==
  ASSUME NEW c \in Sessions, Balance(c), SamePump(c), UNCHANGED out[c],
         UNCHANGED <<spc[c], item[c]>> \/ spc'[c] # "listen"
  PROVE  Balance(c)'
BY DEF Balance, SamePump

LEMMA NewSame ==
  ASSUME NEW c \in Sessions, New(c), Same(c)
  PROVE  New(c)'
BY DEF New, Now, Same

LEMMA OthersPump ==
  ASSUME TypeOK, NEW c \in Sessions, Client(c) \/ Receive(c) \/ Speaker(c) \/ Pump(c),
         NEW d \in Sessions, d # c
  PROVE  SamePump(d)
<1> USE DEF TypeOK, SamePump, recvVars, speakVars, pumpVars
<1>1. CASE Client(c)
  BY <1>1 DEF Client, InputText, Done, Vanish, Close, Return
<1>2. CASE Receive(c)
  BY <1>2 DEF Receive, Put, Disconnect, Return
<1>3. CASE Speaker(c)
  <2>1. CASE TakeFlushed(c) \/ TakeBlank(c) \/ TakeSentence(c) \/ TakeRefused(c)
    BY <2>1 DEF TakeFlushed, TakeBlank, TakeSentence, TakeRefused, Take
  <2>2. CASE HearChunk(c) \/ HearDone(c) \/ HearError(c)
    BY <2>2 DEF HearChunk, HearDone, HearError, Listening
  <2> QED
    BY <1>3, <2>1, <2>2 DEF Speaker
<1>4. CASE Pump(c)
  <2>1. CASE Acquire(c) \/ Generate(c) \/ Exhaust(c) \/ Raise(c)
    BY <2>1 DEF Acquire, Generate, Exhaust, Raise, PStep
  <2>2. CASE PushChunk(c) \/ PushError(c) \/ PushDone(c)
    BY <2>2 DEF PushChunk, PushError, PushDone, PStep, Push
  <2> QED
    BY <1>4, <2>1, <2>2 DEF Pump
<1> QED
  BY <1>1, <1>2, <1>3, <1>4

\* The receive loop leaves the pump and what was sent alone, and what it puts is of later text.
LEMMA ReceiveKeeps ==
  ASSUME TypeOK, NEW c \in Sessions, Flow(c), New(c), Balance(c), Client(c) \/ Receive(c)
  PROVE  New(c)' /\ Balance(c)'
<1> USE DEF TypeOK, recvVars, speakVars, pumpVars
<1>1. Typed(heard[c], out[c], Now(c), work[c], puts[c])
  BY FlowTyped
<1>2. Balance(c)'
  <2>1. SamePump(c) /\ UNCHANGED out[c] /\ (UNCHANGED <<spc[c], item[c]>> \/ spc'[c] # "listen")
    BY DEF Client, Receive, InputText, Done, Vanish, Close, Put, Disconnect, Return, SamePump
  <2> QED
    BY <2>1, BalanceSame
<1>3. CASE InputText(c) \/ Done(c)
  <2>1. /\ puts[c] = <<>> /\ heard'[c] = heard[c] + 1 /\ heard[c] \in Nat /\ heard'[c] \in Nat
        /\ puts'[c] \in {<<Say(heard'[c])>>} \cup InputDone(heard'[c])
        /\ UNCHANGED <<out, spc, item, work>>
    <3>1. CASE InputText(c)
      BY <3>1 DEF InputText, Receiving
    <3>2. CASE Done(c)
      BY <3>2 DEF Done, Receiving
    <3> QED
      BY <1>3, <3>1, <3>2
  <2>2. \A i \in Items(out[c]) \cup Now(c) \cup Items(work[c]) : i.n <= heard[c]
    BY DEF Flow, Flowing
  <2>3. Fresh(out[c], Now(c), work[c], puts'[c])
    BY <1>1, <2>1, <2>2, FreshText DEF New
  <2> QED
    BY <1>2, <2>1, <2>3 DEF New, Now
<1>4. CASE Put(c)
  <2>1. /\ puts[c] # <<>> /\ puts'[c] = Tail(puts[c])
        /\ work'[c] = Append(work[c], Head(puts[c]))
        /\ UNCHANGED <<out, spc, item>>
    BY <1>4 DEF Put
  <2>2. Fresh(out[c], Now(c), work'[c], puts'[c])
    BY <1>1, <2>1, FreshPut DEF New
  <2> QED
    BY <1>2, <2>1, <2>2 DEF New, Now
<1>5. CASE Vanish(c)
  <2>1. Same(c)
    BY <1>5 DEF Vanish, Same
  <2> QED
    BY <1>2, <2>1, NewSame
<1>6. CASE Return(c)
  <2>1. spc'[c] = "dead" /\ UNCHANGED <<out, work, puts>>
    BY <1>6 DEF Return
  <2> QED
    BY <1>2, <2>1, FreshStop DEF New, Now
<1> QED
  BY <1>3, <1>4, <1>5, <1>6 DEF Client, Receive, Close, Disconnect

\* The speaker: the sentence it takes is new, and the chunk it hears it sends.
LEMMA SpeakerKeeps ==
  ASSUME TypeOK, NEW c \in Sessions, Flow(c), New(c), Balance(c), Speaker(c)
  PROVE  New(c)' /\ Balance(c)'
<1> USE DEF TypeOK, recvVars, speakVars, pumpVars
<1>1. Typed(heard[c], out[c], Now(c), work[c], puts[c])
  BY FlowTyped
<1>2. ASSUME Take(c)
      PROVE  /\ Now(c) = {} /\ work[c] # <<>> /\ work'[c] = Tail(work[c])
             /\ item'[c] = Head(work[c]) /\ Head(work[c]) \in Item
             /\ Head(work[c]) \in Items(work[c])
             /\ Fresh(out[c], {Head(work[c])}, Tail(work[c]), puts[c])
             /\ Fresh(out[c], {}, Tail(work[c]), puts[c])
  <2>1. Now(c) = {} /\ work[c] # <<>> /\ work'[c] = Tail(work[c]) /\ item'[c] = Head(work[c])
    BY <1>2 DEF Take, Now
  <2>2. Head(work[c]) \in Item /\ Head(work[c]) \in Items(work[c])
    BY <2>1, TailItems
  <2>3. /\ Fresh(out[c], {Head(work[c])}, Tail(work[c]), puts[c])
        /\ Fresh(out[c], {}, Tail(work[c]), puts[c])
    BY <1>1, <2>1, FreshTake DEF New
  <2> QED
    BY <2>1, <2>2, <2>3
<1>3. CASE TakeFlushed(c)
  <2> DEFINE e == [Head(work[c]) EXCEPT !.kind = "done"]
  <2>1. /\ spc'[c] # "listen" /\ Take(c) /\ UNCHANGED puts
        /\ (out'[c] = out[c] \/ out'[c] = Append(out[c], e))
    BY <1>3 DEF TakeFlushed, Take, Sent, SendFails, Dies
  <2>2. e \in Item /\ e.kind # "say"
    BY <1>2, <2>1, Rekinded DEF Item
  <2> HIDE DEF e
  <2>3. /\ Fresh(out[c], {}, Tail(work[c]), puts[c])
        /\ Typed(heard[c], out[c], {}, Tail(work[c]), puts[c])
    BY <1>1, <1>2, <2>1, TailItems DEF Typed
  <2>4. Fresh(Append(out[c], e), {}, Tail(work[c]), puts[c])
    BY <2>2, <2>3, FreshSend
  <2>5. Fresh(out'[c], {}, work'[c], puts'[c])
    BY <1>2, <2>1, <2>3, <2>4
  <2> QED
    BY <2>1, <2>5 DEF New, Now, Balance
<1>4. CASE TakeBlank(c)
  <2>1. spc'[c] # "listen" /\ Take(c) /\ UNCHANGED <<out, puts>>
    BY <1>4 DEF TakeBlank, Take
  <2>2. Fresh(out'[c], {}, work'[c], puts'[c])
    BY <1>2, <2>1
  <2> QED
    BY <2>1, <2>2 DEF New, Now, Balance
<1>5. CASE TakeSentence(c)
  <2>1. /\ spc'[c] = "listen" /\ ppc'[c] # "put" /\ chan'[c] = <<>> /\ UNCHANGED <<out, puts>>
        /\ left'[c] = Chunks[c] /\ Take(c) /\ Head(work[c]).kind = "say"
    BY <1>5 DEF TakeSentence
  <2>2. Fresh(out'[c], {item'[c]}, work'[c], puts'[c])
    BY <1>2, <2>1
  <2>3. Head(work[c]) \notin Items(out[c])
    <3>1. \A i \in Items(out[c]) : Later(i, Head(work[c]))
      BY <1>2, <2>1 DEF New, Fresh
    <3>2. Head(work[c]).n \in Nat
      BY <1>2, <2>1 DEF Item
    <3>3. ~ Later(Head(work[c]), Head(work[c]))
      BY <2>1, <3>2 DEF Later
    <3> QED
      BY <3>1, <3>3
  <2>4. Places(out[c], Head(work[c])) = {}
    BY <2>3 DEF Places, Items
  <2>5. Count(out[c], Head(work[c])) = 0
    BY <2>4, FS_EmptySet DEF Count
  <2>6. Count(out'[c], item'[c]) = 0
    BY <1>2, <2>1, <2>5
  <2>7. Count(chan'[c], "chunk") = 0
    <3>1. Places(<<>>, "chunk") = {}
      BY DEF Places
    <3> QED
      BY <2>1, <3>1, FS_EmptySet DEF Count
  <2> QED
    BY <2>1, <2>2, <2>6, <2>7 DEF New, Now, Balance
<1>5a. CASE TakeRefused(c)
  <2> DEFINE e == [Head(work[c]) EXCEPT !.kind = "error"]
  <2>1. /\ spc'[c] # "listen" /\ Take(c) /\ UNCHANGED puts
        /\ (out'[c] = out[c] \/ out'[c] = Append(out[c], e))
    BY <1>5a DEF TakeRefused, Take, Sent, SendFails, Dies
  <2>2. e \in Item /\ e.kind # "say"
    BY <1>2, <2>1, Rekinded DEF Item
  <2> HIDE DEF e
  <2>3. /\ Fresh(out[c], {}, Tail(work[c]), puts[c])
        /\ Typed(heard[c], out[c], {}, Tail(work[c]), puts[c])
    BY <1>1, <1>2, <2>1, TailItems DEF Typed
  <2>4. Fresh(Append(out[c], e), {}, Tail(work[c]), puts[c])
    BY <2>2, <2>3, FreshSend
  <2>5. Fresh(out'[c], {}, work'[c], puts'[c])
    BY <1>2, <2>1, <2>3, <2>4
  <2> QED
    BY <2>1, <2>5 DEF New, Now, Balance
<1>6. ASSUME spc[c] = "listen"
      PROVE  Now(c) = {item[c]} /\ item[c] \in Item /\ item[c].kind = "say"
  BY <1>6 DEF Now, Flow, Flowing
<1>7. CASE HearChunk(c)
  <2>1. /\ spc[c] = "listen" /\ UNCHANGED <<puts, work, item, left, ppc>>
        /\ chan[c] # <<>> /\ Head(chan[c]) = "chunk" /\ chan'[c] = Tail(chan[c])
    BY <1>7 DEF HearChunk, Listening
  <2>2. CASE spc'[c] # "listen"
    <3>1. out'[c] = out[c]
      BY <1>7, <2>1, <2>2 DEF HearChunk, SendFails
    <3> QED
      BY <2>1, <2>2, <3>1, FreshStop DEF New, Now, Balance
  <2>3. CASE spc'[c] = "listen"
    <3>1. out'[c] = Append(out[c], item[c])
      BY <1>7, <2>3 DEF HearChunk, Sent, Dies
    <3>2. Fresh(out'[c], {item[c]}, work[c], puts[c])
      <4>1. /\ Typed(heard[c], out[c], {item[c]}, work[c], puts[c])
            /\ Fresh(out[c], {item[c]}, work[c], puts[c])
        BY <1>1, <1>6, <2>1 DEF New
      <4>2. Fresh(Append(out[c], item[c]), {item[c]}, work[c], puts[c])
        BY <1>6, <2>1, <4>1, FreshSend
      <4> QED
        BY <3>1, <4>2
    <3>3. Count(out'[c], item[c]) = Count(out[c], item[c]) + 1
      BY <1>6, <2>1, <3>1, CountAppend
    <3>4. Count(chan'[c], "chunk") = Count(chan[c], "chunk") - 1
      BY <2>1, CountTail
    <3>5. Count(out[c], item[c]) \in Nat /\ Count(chan[c], "chunk") \in Nat
      BY Counted
    <3>7. Count(out'[c], item[c]) + Count(chan'[c], "chunk")
            = Count(out[c], item[c]) + Count(chan[c], "chunk")
      BY <3>3, <3>4, <3>5
    <3> QED
      BY <2>1, <2>3, <3>2, <3>3, <3>4, <3>5, <3>7 DEF New, Now, Balance
  <2> QED
    BY <2>2, <2>3
<1>8. CASE HearDone(c)
  <2>1. spc'[c] # "listen" /\ UNCHANGED <<puts, work, out>>
    BY <1>8 DEF HearDone, Listening
  <2> QED
    BY <2>1, FreshStop DEF New, Now, Balance
<1>9. CASE HearError(c)
  <2> DEFINE e == [item[c] EXCEPT !.kind = "error"]
  <2>1. spc[c] = "listen" /\ spc'[c] # "listen" /\ UNCHANGED <<puts, work>>
    BY <1>9 DEF HearError, Listening, Dies
  <2>2. out'[c] = out[c] \/ out'[c] = Append(out[c], e)
    BY <1>9 DEF HearError, Sent, SendFails
  <2>3. e \in Item /\ e.kind # "say"
    BY <1>6, <2>1, Rekinded DEF Item
  <2> HIDE DEF e
  <2>4. Fresh(Append(out[c], e), Now(c), work[c], puts[c])
    BY <1>1, <2>3, FreshSend DEF New
  <2>5. Fresh(out'[c], {}, work[c], puts[c])
    <3>1. Fresh(out'[c], Now(c), work[c], puts[c])
      BY <2>2, <2>4 DEF New
    <3> QED
      BY <3>1, FreshStop
  <2> QED
    BY <2>1, <2>5 DEF New, Now, Balance
<1> QED
  BY <1>3, <1>4, <1>5, <1>5a, <1>7, <1>8, <1>9 DEF Speaker

\* The pump: a chunk goes from the generator to its hand and from there to the queue.
LEMMA PumpKeeps ==
  ASSUME TypeOK, NEW c \in Sessions, New(c), Balance(c), Pump(c)
  PROVE  New(c)' /\ Balance(c)'
<1> USE DEF TypeOK, recvVars, speakVars, pumpVars
<1>1. Same(c)
  BY DEF Pump, Acquire, Generate, PushChunk, Exhaust, Raise, PushError, PushDone, PStep, Same
<1>2. New(c)'
  BY <1>1, NewSame
<1>3. UNCHANGED <<out[c], spc[c], item[c]>>
  BY <1>1 DEF Same
<1>4. Count(out[c], item[c]) \in Nat /\ Count(chan[c], "chunk") \in Nat
  BY Counted
<1>4a. \A x \in {"chunk", "error", "done"} :
         Count(Append(chan[c], x), "chunk") = Count(chan[c], "chunk") + (IF x = "chunk" THEN 1 ELSE 0)
  <2> DEFINE Kinds == {"chunk", "error", "done"}
  <2>1. chan[c] \in Seq(Kinds)
    OBVIOUS
  <2> HIDE DEF Kinds
  <2>2. \A x \in Kinds :
          Count(Append(chan[c], x), "chunk") = Count(chan[c], "chunk") + (IF x = "chunk" THEN 1 ELSE 0)
    BY <2>1, CountAppend
  <2> QED
    BY <2>2 DEF Kinds
<1>5. CASE Acquire(c)
  <2>1. ppc[c] = "lock" /\ ppc'[c] = "gen" /\ left' = left /\ chan' = chan
    BY <1>5 DEF Acquire, PStep
  <2> QED
    BY <1>2, <1>3, <2>1 DEF Balance
<1>6. CASE Generate(c)
  <2>1. ppc[c] = "gen" /\ ppc'[c] = "put" /\ left'[c] = left[c] - 1 /\ chan' = chan
    BY <1>6 DEF Generate, PStep
  <2> QED
    BY <1>2, <1>3, <1>4, <2>1 DEF Balance
<1>7. CASE PushChunk(c)
  <2>1. /\ ppc[c] = "put" /\ ppc'[c] = "gen" /\ left' = left
        /\ chan'[c] = Append(chan[c], "chunk")
    BY <1>7 DEF PushChunk, PStep, Push
  <2>2. Count(chan'[c], "chunk") = Count(chan[c], "chunk") + 1
    BY <1>4a, <2>1
  <2> QED
    BY <1>2, <1>3, <1>4, <2>1, <2>2 DEF Balance
<1>8. CASE Exhaust(c) \/ Raise(c)
  <2>1. ppc[c] = "gen" /\ ppc'[c] \in {"last", "error"} /\ left' = left /\ chan' = chan
    BY <1>8 DEF Exhaust, Raise, PStep
  <2> QED
    BY <1>2, <1>3, <2>1 DEF Balance
<1>9. CASE PushError(c) \/ PushDone(c)
  <2>1. PICK what \in {"error", "done"} :
           /\ ppc[c] \in {"error", "last"} /\ ppc'[c] \in {"last", "none"} /\ left' = left
           /\ chan'[c] = Append(chan[c], what)
    BY <1>9 DEF PushError, PushDone, PStep, Push
  <2>2. Count(chan'[c], "chunk") = Count(chan[c], "chunk")
    BY <1>4, <1>4a, <2>1
  <2> QED
    BY <1>2, <1>3, <1>4, <2>1, <2>2 DEF Balance
<1> QED
  BY <1>5, <1>6, <1>7, <1>8, <1>9 DEF Pump

LEMMA ChunksKept == ChunkInv /\ [Next]_vars => ChunkInv'
<1> SUFFICES ASSUME ChunkInv, [Next]_vars PROVE ChunkInv'
  OBVIOUS
<1>1. OrderInv'
  BY OrderKept DEF ChunkInv
<1>2. ASSUME NEW d \in Sessions PROVE New(d)' /\ Balance(d)'
  <2>1. TypeOK /\ Flow(d) /\ New(d) /\ Balance(d)
    BY DEF ChunkInv, OrderInv
  <2>2. ASSUME Same(d), SamePump(d) PROVE New(d)' /\ Balance(d)'
    <3>1. UNCHANGED <<out[d], spc[d], item[d]>>
      BY <2>2 DEF Same
    <3> QED
      BY <2>1, <2>2, <3>1, NewSame, BalanceSame
  <2>3. ASSUME NEW c \in Sessions, Client(c) \/ Receive(c) \/ Speaker(c) \/ Pump(c)
        PROVE  New(d)' /\ Balance(d)'
    <3>1. CASE d = c
      BY <2>1, <2>3, <3>1, ReceiveKeeps, SpeakerKeeps, PumpKeeps
    <3>2. CASE d # c
      BY <2>1, <2>2, <2>3, <3>2, OthersSame, OthersPump
    <3> QED
      BY <3>1, <3>2
  <2>4. CASE JobArrive \/ Worker \/ UNCHANGED vars
    <3>1. Same(d) /\ SamePump(d)
      BY <2>4 DEF JobArrive, Worker, JobStart, JobEnd, JobStep, vars, recvVars, speakVars,
                  pumpVars, Same, SamePump
    <3> QED
      BY <2>2, <3>1
  <2> QED
    BY <2>3, <2>4 DEF Next
<1> QED
  BY <1>1, <1>2 DEF ChunkInv

\* For any number of chunks and any size of queue, and whoever leaves: each chunk generated of
\* the sentence being spoken was sent, is on the queue, or is in the pump's hand, once.
THEOREM NoChunkDropped == Spec => []NoChunkLost
<1>1. Init => ChunkInv
  <2>1. ASSUME Init PROVE OrderInv
    BY <2>1, OrderInit
  <2>2. ASSUME Init, NEW c \in Sessions PROVE New(c) /\ Balance(c)
    BY <2>2 DEF Init, New, Now, Balance, Fresh, Rising, Items
  <2> QED
    BY <2>1, <2>2 DEF ChunkInv
<1>2. ChunkInv => NoChunkLost
  BY DEF ChunkInv, Balance, NoChunkLost, Count, Places
<1> QED
  BY <1>1, ChunksKept, <1>2, PTL DEF Spec
===============================================================================
