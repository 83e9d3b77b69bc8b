-------------------------- MODULE DiarStream_proof -------------------------
(***************************************************************************)
(* Proofs about the incremental path of a diarization session.              *)
(*                                                                          *)
(* The positions a session computes are products with Chunk, so the first   *)
(* lemmas are about these, and the steps on positions cite them instead of  *)
(* leaving nonlinear arithmetic to the provers.                             *)
(***************************************************************************)
EXTENDS DiarStream, TLAPS

\* Positions of chunks: n chunks after m chunks.
LEMMA ChunksAdd ==
    ASSUME NEW m \in Nat, NEW n \in Nat
    PROVE  /\ m * Chunk \in Nat
           /\ (m + n) * Chunk = m * Chunk + n * Chunk
           /\ (m + 1) * Chunk = m * Chunk + Chunk
  BY StreamSizes

\* Positions are in the order of the chunks.
LEMMA ChunksOrder ==
    ASSUME NEW m \in Nat, NEW n \in Nat, m < n
    PROVE  m * Chunk + Chunk <= n * Chunk
<1>1. PICK d \in Nat : n = m + 1 + d
  <2>1. n - m - 1 \in Nat /\ n = m + 1 + (n - m - 1)
    OBVIOUS
  <2> QED BY <2>1
<1>2. n * Chunk = (m + 1) * Chunk + d * Chunk
  BY <1>1, ChunksAdd, m + 1 \in Nat
<1> QED BY <1>2, ChunksAdd

\* How far one position or count is ahead of another.
LEMMA Ahead ==
    ASSUME NEW m \in Nat, NEW n \in Nat, m <= n
    PROVE  n - m \in Nat /\ n = m + (n - m)
  OBVIOUS

-----------------------------------------------------------------------------
Call == [from : Nat, to : Nat, right : Nat]

\* Where the buffer starts, and that it starts within what was received.
Place ==
    /\ start = baseChunks * Chunk
    /\ baseChunks <= committed
    /\ start <= got
    /\ committed > 0 => (committed - 1) * Chunk < got

\* OnGrid, strengthened: a chunk is cut short only by the end of the audio.
InOrder ==
    /\ Len(fed) = committed
    /\ \A k \in 1 .. Len(fed) :
        /\ fed[k].from = (k - 1) * Chunk
        /\ fed[k].to <= got
        /\ \/ fed[k].to = k * Chunk
           \/ k = Len(fed) /\ closing /\ fed[k].to = got /\ got < k * Chunk
        /\ \/ fed[k].right = Right
           \/ closing /\ fed[k].to + Right > got

\* What is kept and what is not yet fed, while receiving.
Recent ==
    pc = "recv" =>
        /\ ~closing /\ since < Step
        /\ Heard < (Keep + 1) * Chunk + Right + since
        /\ got < (committed + 1) * Chunk + Right + since

\* Nothing new when a step is processed, unless it is the last.
Quiet == pc = "process" => since = 0 \/ closing

StreamInv == Quiet /\ TypeOK /\ Place /\ InOrder /\ Recent /\ AllFed /\ BufferBounded

-----------------------------------------------------------------------------
\* A session starts with nothing received and nothing fed.
LEMMA StreamInit == Init => StreamInv
<1> SUFFICES ASSUME Init PROVE StreamInv
  OBVIOUS
<1>1. TypeOK
  <2>1. <<>> \in Seq(Call)
    OBVIOUS
  <2> QED BY <2>1 DEF Init, TypeOK, Call
<1>2. Place
  BY StreamSizes DEF Init, Place
<1>3. InOrder
  BY DEF Init, InOrder
<1>4. (Keep + 1) * Chunk >= Chunk /\ (committed + 1) * Chunk = Chunk
  BY StreamSizes, ChunksAdd DEF Init
<1>5. Quiet /\ Recent /\ AllFed /\ BufferBounded
  <2>1. Keep * Chunk \in Nat /\ (Keep + 1) * Chunk \in Nat
    BY StreamSizes, ChunksAdd
  <2> QED BY <1>4, <2>1, StreamSizes DEF Init, Quiet, Recent, AllFed, BufferBounded, Heard
<1> QED BY <1>1, <1>2, <1>3, <1>5 DEF StreamInv

(***************************************************************************)
(* Receive: positions stay, and one piece of audio is what Recent leaves    *)
(* room for.                                                                *)
(***************************************************************************)
LEMMA StreamReceive == StreamInv /\ Receive => StreamInv'
<1> SUFFICES ASSUME StreamInv, Receive PROVE StreamInv'
  OBVIOUS
<1> USE StreamSizes DEF StreamInv, Heard
<1>1. PICK n \in 1 .. Lesser(Frame, Total - got) :
        /\ got' = got + n
        /\ IF since + n >= Step THEN pc' = "process" /\ since' = 0
                                ELSE pc' = "recv" /\ since' = since + n
  BY DEF Receive
<1>2. n \in Nat /\ n >= 1 /\ n <= Frame
  BY <1>1 DEF Lesser, TypeOK
<1>3. /\ UNCHANGED <<closing, start, baseChunks, committed, fed>>
      /\ pc = "recv"
  BY DEF Receive
<1>4. TypeOK'
  BY <1>1, <1>2, <1>3 DEF TypeOK
<1>5. Place'
  <2>1. baseChunks * Chunk \in Nat /\ (committed > 0 => (committed - 1) * Chunk \in Nat)
    BY ChunksAdd DEF TypeOK
  <2> QED BY <1>1, <1>2, <1>3, <2>1 DEF Place, TypeOK
<1>6. InOrder'
  <2>1. \A k \in 1 .. Len(fed) : fed[k].to \in Nat /\ fed[k].to <= got
    <3>1. fed \in Seq(Call)
      BY DEF TypeOK, Call
    <3>2. \A k \in 1 .. Len(fed) : fed[k] \in Call
      BY <3>1
    <3> QED BY <3>2 DEF InOrder, Call
  <2>2. ~closing /\ got \in Nat
    BY <1>3 DEF Recent, TypeOK
  <2>3. \A k \in 1 .. Len(fed) : fed[k].to <= got'
    BY <1>1, <1>2, <2>1, <2>2
  <2> QED BY <1>3, <2>2, <2>3 DEF InOrder
<1>7. (Keep + 1) * Chunk \in Nat /\ (committed + 1) * Chunk \in Nat
  BY ChunksAdd DEF TypeOK
<1>8. Quiet' /\ Recent' /\ AllFed' /\ BufferBounded'
  BY <1>1, <1>2, <1>3, <1>7 DEF Quiet, Recent, AllFed, BufferBounded, TypeOK
<1> QED BY <1>4, <1>5, <1>6, <1>8

\* Stop only ends the receiving: what Recent bounds, BufferBounded does.
LEMMA StreamStop == StreamInv /\ Stop => StreamInv'
<1> SUFFICES ASSUME StreamInv, Stop PROVE StreamInv'
  OBVIOUS
<1> USE StreamSizes DEF StreamInv, Stop, Heard
<1>1. TypeOK' /\ Place'
  BY DEF TypeOK, Place
<1>2. InOrder'
  BY DEF InOrder, Recent
<1>3. Quiet' /\ Recent' /\ AllFed' /\ BufferBounded'
  BY DEF Quiet, Recent, AllFed, BufferBounded
<1> QED BY <1>1, <1>2, <1>3

\* An error ends the session and leaves what was fed as it is.
LEMMA StreamFail == StreamInv /\ Fail => StreamInv'
<1> SUFFICES ASSUME StreamInv, Fail PROVE StreamInv'
  OBVIOUS
<1> USE DEF StreamInv, Fail
<1>1. TypeOK' /\ Place' /\ InOrder'
  BY DEF TypeOK, Place, InOrder
<1>2. Quiet' /\ Recent' /\ AllFed' /\ BufferBounded'
  BY DEF Quiet, Recent, AllFed, BufferBounded, Heard
<1> QED BY <1>1, <1>2

(***************************************************************************)
(* Feed: the chunk is the next of the session's grid, whatever the buffer   *)
(* has lost.                                                                *)
(***************************************************************************)
LEMMA NextChunk ==
    ASSUME StreamInv, Feedable
    PROVE  LET f == Fed(localFed) IN
           /\ f \in Call
           /\ committed * Chunk < got
           /\ f.from = committed * Chunk
           /\ f.to = Lesser((committed + 1) * Chunk, got)
           /\ f.right = Lesser(Right, got - f.to)
           /\ closing \/ (committed + 1) * Chunk + Right <= got
<1> USE StreamSizes DEF StreamInv
<1> DEFINE c == committed
           l == committed - baseChunks
           f == Fed(localFed)
<1>1. l \in Nat /\ baseChunks \in Nat /\ c \in Nat /\ c = baseChunks + l /\ localFed = l
  BY DEF TypeOK, Place, localFed
<1>2. /\ baseChunks * Chunk \in Nat /\ l * Chunk \in Nat
      /\ c * Chunk = baseChunks * Chunk + l * Chunk
      /\ (c + 1) * Chunk = c * Chunk + Chunk
      /\ (l + 1) * Chunk = l * Chunk + Chunk
  BY <1>1, ChunksAdd
<1>3. start = baseChunks * Chunk /\ start <= got /\ start \in Nat /\ got \in Nat
  BY DEF Place, TypeOK
<1>4. c * Chunk < got
  BY <1>1, <1>2, <1>3 DEF Feedable, Heard
<1>5. closing \/ (c + 1) * Chunk + Right <= got
  BY <1>1, <1>2, <1>3 DEF Feedable, Heard
<1>6. f.from = c * Chunk
  BY <1>1, <1>2, <1>3 DEF Fed
<1>7. f.to = Lesser((c + 1) * Chunk, got)
  BY <1>1, <1>2, <1>3 DEF Fed, Lesser, Heard
<1>8. f.right = Lesser(Right, got - f.to)
  BY <1>1, <1>2, <1>3 DEF Fed, Lesser, Heard
<1>9. f \in Call
  <2>1. f.from \in Nat /\ f.to \in Nat /\ f.to <= got
    BY <1>2, <1>3, <1>6, <1>7 DEF Lesser
  <2>2. f.right \in Nat
    BY <2>1, <1>3, <1>8 DEF Lesser
  <2> QED BY <2>1, <2>2 DEF Fed, Call
<1> QED BY <1>4, <1>5, <1>6, <1>7, <1>8, <1>9

\* Feeding the next chunk of the grid, and why a short chunk is the last one.
LEMMA StreamFeed == StreamInv /\ Feed => StreamInv'
<1> SUFFICES ASSUME StreamInv, Feed PROVE StreamInv'
  OBVIOUS
<1> USE StreamSizes DEF StreamInv
<1> DEFINE f == Fed(localFed)
<1>1. /\ fed' = Append(fed, f) /\ committed' = committed + 1
      /\ UNCHANGED <<pc, closing, since, got, start, baseChunks>>
      /\ pc = "process" /\ Feedable
  BY DEF Feed
<1>2. /\ f \in Call
      /\ committed * Chunk < got
      /\ f.from = committed * Chunk
      /\ f.to = Lesser((committed + 1) * Chunk, got)
      /\ f.right = Lesser(Right, got - f.to)
      /\ closing \/ (committed + 1) * Chunk + Right <= got
  BY <1>1, NextChunk
<1> HIDE DEF f
<1>3. fed \in Seq(Call) /\ committed \in Nat /\ got \in Nat /\ Len(fed) = committed
  BY DEF TypeOK, Call, InOrder
<1>4. /\ fed' \in Seq(Call) /\ Len(fed') = committed + 1
      /\ \A k \in 1 .. committed : fed'[k] = fed[k]
      /\ fed'[committed + 1] = f
  BY <1>1, <1>2, <1>3
<1>5. TypeOK'
  BY <1>1, <1>3, <1>4 DEF TypeOK, Call
<1>6. Place'
  BY <1>1, <1>2, <1>3 DEF Place, TypeOK
<1>7. /\ committed * Chunk \in Nat
      /\ (committed + 1) * Chunk = committed * Chunk + Chunk
      /\ (committed + 1 + 1) * Chunk = (committed + 1) * Chunk + Chunk
  BY <1>3, ChunksAdd
<1>8. InOrder'
  <2> DEFINE Good(c, k) ==
        /\ c.from = (k - 1) * Chunk
        /\ c.to <= got
        /\ \/ c.to = k * Chunk
           \/ k = committed + 1 /\ closing /\ c.to = got /\ got < k * Chunk
        /\ c.right = Right \/ (closing /\ c.to + Right > got)
  <2>1. ASSUME NEW k \in 1 .. Len(fed) PROVE Good(fed'[k], k)
    <3>1. fed'[k] = fed[k]
      BY <1>3, <1>4
    <3>2. /\ fed[k].from = (k - 1) * Chunk /\ fed[k].to <= got
          /\ fed[k].to = k * Chunk \/ (k = committed /\ got < k * Chunk)
          /\ fed[k].right = Right \/ (closing /\ fed[k].to + Right > got)
      BY <1>3 DEF InOrder
    <3>3. ~(k = committed /\ got < k * Chunk)
      <4>1. committed * Chunk < got /\ committed * Chunk \in Nat /\ got \in Nat
        BY <1>2, <1>3, <1>7
      <4> QED
        BY <4>1
    <3> QED
      BY <3>1, <3>2, <3>3
  <2>2. Good(f, committed + 1)
    <3>1. committed + 1 - 1 = committed
      BY <1>3
    <3> QED BY <3>1, <1>2, <1>3, <1>7 DEF Lesser
  <2> HIDE DEF Good
  <2>3. ASSUME NEW k \in 1 .. Len(fed') PROVE Good(fed'[k], k)
    <3>1. CASE k \in 1 .. Len(fed)
      BY <2>1, <3>1
    <3>2. CASE k = committed + 1
      BY <2>2, <1>4, <3>2
    <3> QED BY <3>1, <3>2, <1>3, <1>4
  <2> QED BY <1>1, <1>4, <2>3 DEF InOrder, Good
<1>9. Quiet' /\ Recent' /\ AllFed' /\ BufferBounded'
  <2>1. Heard' = Heard
    BY <1>1 DEF Heard
  <2> QED BY <1>1, <1>3, <1>7, <2>1 DEF Quiet, Recent, AllFed, BufferBounded
<1> QED BY <1>5, <1>6, <1>8, <1>9

(***************************************************************************)
(* Processed: at least one fed chunk stays in the buffer, so the trim never *)
(* cuts into what is not yet fed; and no chunk that could be fed is left.   *)
(***************************************************************************)
LEMMA StreamProcessed == StreamInv /\ Processed => StreamInv'
<1> SUFFICES ASSUME StreamInv, Processed PROVE StreamInv'
  OBVIOUS
<1> USE StreamSizes DEF StreamInv
<1>1. /\ UNCHANGED <<closing, since, got, committed, fed>>
      /\ pc = "process" /\ ~Feedable /\ Trim
      /\ pc' = IF closing THEN "closed" ELSE "recv"
  BY DEF Processed
<1>2. committed \in Nat /\ baseChunks \in Nat /\ start \in Nat /\ got \in Nat /\ since \in Nat
  BY DEF TypeOK
<1>3. /\ baseChunks' \in Nat /\ baseChunks <= baseChunks'
      /\ baseChunks' <= committed /\ committed - baseChunks' <= Keep
      /\ baseChunks' = baseChunks \/ baseChunks' < committed
  <2>1. CASE committed > Keep + baseChunks
    BY <1>1, <1>2, <2>1 DEF Trim, Place
  <2>2. CASE ~(committed > Keep + baseChunks)
    BY <1>1, <1>2, <2>2 DEF Trim, Place
  <2> QED BY <2>1, <2>2
<1>16. start' = start + (baseChunks' - baseChunks) * Chunk
  <2>1. CASE committed > Keep + baseChunks
    <3>1. committed - Keep - baseChunks = baseChunks' - baseChunks
      BY <1>1, <1>2, <2>1 DEF Trim
    <3> QED BY <1>1, <2>1, <3>1 DEF Trim
  <2>2. CASE ~(committed > Keep + baseChunks)
    <3>1. baseChunks' - baseChunks = 0 /\ start' = start
      BY <1>1, <1>2, <2>2 DEF Trim
    <3> QED BY <1>2, <3>1
  <2> QED BY <2>1, <2>2
<1>4. start' = baseChunks' * Chunk /\ start' \in Nat /\ start <= start'
  <2> DEFINE d == baseChunks' - baseChunks
  <2>1. d \in Nat /\ baseChunks' = baseChunks + d
    BY <1>2, <1>3, Ahead
  <2>2. /\ baseChunks' * Chunk = baseChunks * Chunk + d * Chunk
        /\ baseChunks * Chunk \in Nat /\ d * Chunk \in Nat
    BY <2>1, <1>2, ChunksAdd
  <2> QED BY <2>2, <1>16 DEF Place
<1>5. start' <= got
  <2>1. CASE baseChunks' = baseChunks
    BY <2>1, <1>4 DEF Place
  <2>2. CASE baseChunks' < committed
    <3> DEFINE last == committed - 1
    <3>0. last \in Nat /\ baseChunks' <= last /\ committed > 0
      BY <2>2, <1>2, <1>3
    <3> HIDE DEF last
    <3>1. baseChunks' * Chunk <= last * Chunk /\ last * Chunk \in Nat
      <4>1. CASE baseChunks' = last
        BY <4>1, <3>0, ChunksAdd
      <4>2. CASE baseChunks' < last
        <5>1. baseChunks' * Chunk + Chunk <= last * Chunk
          BY <4>2, <3>0, <1>3, ChunksOrder
        <5>2. baseChunks' * Chunk \in Nat /\ last * Chunk \in Nat
          BY <3>0, <1>3, ChunksAdd
        <5> QED BY <5>1, <5>2
      <4>3. baseChunks' = last \/ baseChunks' < last
        BY <3>0, <1>3
      <4> QED BY <4>1, <4>2, <4>3
    <3>2. last * Chunk < got
      BY <3>0 DEF Place, last
    <3> QED BY <3>1, <3>2, <1>2, <1>4
  <2> QED BY <2>1, <2>2, <1>3
<1>6. TypeOK'
  BY <1>1, <1>3, <1>4 DEF TypeOK
<1>7. Place'
  BY <1>1, <1>3, <1>4, <1>5 DEF Place
<1>8. InOrder'
  BY <1>1 DEF InOrder
\* The position of the frontier, from either front of the buffer.
<1>9. /\ committed * Chunk \in Nat
      /\ (committed + 1) * Chunk = committed * Chunk + Chunk
      /\ committed * Chunk = start + localFed * Chunk
      /\ (localFed + 1) * Chunk = localFed * Chunk + Chunk
      /\ localFed * Chunk \in Nat
  <2>1. localFed \in Nat /\ committed = baseChunks + localFed
    BY <1>2 DEF localFed, Place
  <2> QED BY <2>1, <1>2, ChunksAdd DEF Place
<1>10. got <= committed * Chunk \/ (~closing /\ got < (committed + 1) * Chunk + Right)
  BY <1>1, <1>2, <1>9 DEF Feedable, Heard, Place
<1>11. committed * Chunk <= start' + Keep * Chunk
  <2> DEFINE k == committed - baseChunks'
  <2>1. k \in Nat /\ committed = baseChunks' + k /\ k <= Keep
    BY <1>2, <1>3, Ahead
  <2>2. committed * Chunk = start' + k * Chunk
    BY <2>1, <1>3, <1>4, ChunksAdd
  <2>3. k * Chunk <= Keep * Chunk /\ k * Chunk \in Nat /\ Keep * Chunk \in Nat
    <3>1. CASE k = Keep
      BY <3>1, <2>1, ChunksAdd
    <3>2. CASE k < Keep
      BY <3>2, <2>1, ChunksOrder, ChunksAdd
    <3> QED BY <3>1, <3>2, <2>1
  <2> QED BY <2>2, <2>3, <1>4
<1>12. (Keep + 1) * Chunk = Keep * Chunk + Chunk /\ Keep * Chunk \in Nat
  BY ChunksAdd
<1>13. Recent'
  <2> SUFFICES ASSUME pc' = "recv" PROVE Recent'
    BY DEF Recent
  <2>1. ~closing /\ since = 0
    BY <1>1 DEF Quiet
  <2>2. got < (committed + 1) * Chunk + Right
    BY <1>2, <1>9, <1>10
  <2>3. got - start' < (Keep + 1) * Chunk + Right
    BY <1>2, <1>4, <1>9, <1>11, <1>12, <2>2
  <2> QED BY <1>1, <2>1, <2>2, <2>3, <1>2, <1>4, <1>9, <1>12 DEF Recent, Heard
<1>14. BufferBounded'
  <2>1. got < (committed + 1) * Chunk + Right + (Step - 1) + Frame
    BY <1>1 DEF BufferBounded
  <2>2. got - start' < (Keep + 1) * Chunk + Right + (Step - 1) + Frame
    BY <1>2, <1>4, <1>9, <1>11, <1>12, <2>1
  <2> QED BY <1>1, <2>1, <2>2 DEF BufferBounded, Heard
<1>15. AllFed'
  <2>1. CASE ~closing
    BY <2>1, <1>1 DEF AllFed
  <2>2. CASE closing
    <3>1. got <= committed * Chunk
      BY <2>2, <1>10
    <3>2. CASE committed = 0
      BY <3>1, <3>2, <1>1, <1>2 DEF AllFed
    <3>3. CASE committed > 0
      <4>1. Len(fed) = committed /\ committed \in 1 .. Len(fed)
        BY <3>3, <1>2 DEF InOrder
      <4>2. fed[committed].to = got
        <5>1. /\ fed[committed].to <= got
              /\ fed[committed].to = committed * Chunk \/ fed[committed].to = got
          BY <4>1 DEF InOrder
        <5> QED BY <5>1, <3>1, <1>2, <1>9
      <4> QED BY <4>1, <4>2, <3>3, <1>1 DEF AllFed
    <3> QED BY <3>2, <3>3, <1>2
  <2> QED BY <2>1, <2>2
<1> QED BY <1>1, <1>6, <1>7, <1>8, <1>13, <1>14, <1>15 DEF Quiet

\* Every step keeps the invariant, one case per action.
LEMMA StreamStep == StreamInv /\ [Next]_vars => StreamInv'
<1> SUFFICES ASSUME StreamInv, [Next]_vars PROVE StreamInv'
  OBVIOUS
<1>1. CASE Receive
  BY <1>1, StreamReceive
<1>2. CASE Stop
  BY <1>2, StreamStop
<1>3. CASE Feed
  BY <1>3, StreamFeed
<1>4. CASE Processed
  BY <1>4, StreamProcessed
<1>5. CASE Fail
  BY <1>5, StreamFail
<1>6. CASE UNCHANGED vars
  BY <1>6 DEF vars, StreamInv, Quiet, TypeOK, Place, InOrder, Recent, AllFed, BufferBounded, Heard
<1> QED BY <1>1, <1>2, <1>3, <1>4, <1>5, <1>6 DEF Next

-----------------------------------------------------------------------------
(***************************************************************************)
(* Whatever the sizes of chunk, context, step and window, the model is fed  *)
(* a session's audio in order, once, and all of it by the closing frame.    *)
(***************************************************************************)
THEOREM AudioAlwaysFed == Spec => []AudioFed
<1>1. StreamInv => AudioFed
  BY DEF StreamInv, InOrder, AudioFed, OnGrid
<1> QED BY <1>1, StreamInit, StreamStep, PTL DEF Spec

(***************************************************************************)
(* Whatever these sizes, the buffer of a session is bounded, however long   *)
(* the session lasts.                                                       *)
(***************************************************************************)
THEOREM BufferAlwaysBounded == Spec => []BufferBounded
<1>1. StreamInv => BufferBounded
  BY DEF StreamInv
<1> QED BY <1>1, StreamInit, StreamStep, PTL DEF Spec
=============================================================================
