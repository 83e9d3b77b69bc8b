--------------------------- MODULE SttStream_proof ---------------------------
(***************************************************************************)
(* Proofs about SttStream, for any sessions, steps, roll and cache.         *)
(***************************************************************************)
EXTENDS SttStream, SequenceTheorems, TLAPS

\* Text, audio in hand and pending audio can be regrouped.
LEMMA ConcatNat ==
  \A s, t, u \in Seq(Nat) : (s \o t) \o u = s \o (t \o u)
<1>1. ASSUME NEW s \in Seq(Nat), NEW t \in Seq(Nat), NEW u \in Seq(Nat)
      PROVE  (s \o t) \o u = s \o (t \o u)
  BY SMTT(30)
<1> QED
  BY <1>1

-----------------------------------------------------------------------------
\* Type correctness, one part of TypeOK at a time.

\* Sessions start with everything empty.
LEMMA TypeInit == Init => TypeOK
  BY ActorAssumption, SizeAssumption DEF Init, TypeOK, CallTypeOK, AudioTypeOK, JobTypeOK

\* Where the coroutines are, who holds the locks, and who left.
LEMMA CallTypeNext == CallTypeOK /\ [Next]_vars => CallTypeOK'
<1> SUFFICES ASSUME CallTypeOK, [Next]_vars PROVE CallTypeOK'
  OBVIOUS
<1> USE DEF CallTypeOK, Over, callVars, inVars, textVars, jobVars
<1>1. ASSUME NEW c \in Sessions, Receive(c) PROVE CallTypeOK'
  BY <1>1 DEF Receive, Pump, Ask, Go
<1>2. ASSUME NEW c \in Sessions, Stop(c) PROVE CallTypeOK'
  BY <1>2 DEF Stop, Finalize, Ask, Go
<1>3. ASSUME NEW c \in Sessions, Vanish(c) PROVE CallTypeOK'
  BY <1>3 DEF Vanish
<1>4. ASSUME NEW c \in Sessions, TakeInfer(c) PROVE CallTypeOK'
  BY <1>4 DEF TakeInfer, Go
<1>5. ASSUME NEW c \in Sessions, TakeGpu(c) PROVE CallTypeOK'
  BY <1>5 DEF TakeGpu, Go
<1>6. ASSUME NEW c \in Sessions, Feed(c) PROVE CallTypeOK'
  BY <1>6 DEF Feed, Calling, Release, Ask, Go
<1>7. ASSUME NEW c \in Sessions, Overflow(c) PROVE CallTypeOK'
  BY <1>7 DEF Overflow, Calling, Release, Ask, Go
<1>8. ASSUME NEW c \in Sessions, RollOver(c) PROVE CallTypeOK'
  BY <1>8 DEF RollOver, Calling, Release, Fold, ResetSamples, Ask, Go
<1>9. ASSUME NEW c \in Sessions, Finish(c) PROVE CallTypeOK'
  BY <1>9 DEF Finish, Calling, Release, Go
<1>10. ASSUME NEW c \in Sessions, Fail(c) PROVE CallTypeOK'
  BY <1>10 DEF Fail, Calling, Release, Go
<1>11. ASSUME NEW c \in Sessions, EmitPartial(c) PROVE CallTypeOK'
  BY <1>11 DEF EmitPartial, Pump, Ask, Go
<1>12. ASSUME NEW c \in Sessions, EmitClosed(c) PROVE CallTypeOK'
  BY <1>12 DEF EmitClosed, Go
<1>13. ASSUME NEW c \in Sessions, EmitFails(c) PROVE CallTypeOK'
  BY <1>13 DEF EmitFails, Go
<1>14. CASE JobBegin
  BY <1>14 DEF JobBegin, GateOpen
<1>15. CASE JobTranscribe
  BY <1>15 DEF JobTranscribe
<1>16. CASE JobReturns
  BY <1>16 DEF JobReturns, Restore
<1>17. CASE JobEnd
  BY <1>17 DEF JobEnd
<1>18. CASE UNCHANGED vars
  BY <1>18 DEF vars
<1> QED
  BY <1>1, <1>2, <1>3, <1>4, <1>5, <1>6, <1>7, <1>8, <1>9, <1>10, <1>11, <1>12, <1>13,
     <1>14, <1>15, <1>16, <1>17, <1>18
     DEF Next, Client, Disconnect, Coroutine, Thread, Worker

\* The worker's place and the jobs and segments it has left.
LEMMA JobTypeNext == JobTypeOK /\ [Next]_vars => JobTypeOK'
<1> SUFFICES ASSUME JobTypeOK, [Next]_vars PROVE JobTypeOK'
  OBVIOUS
<1> USE SizeAssumption DEF JobTypeOK, callVars, inVars, textVars, jobVars
<1>1. ASSUME NEW c \in Sessions, Receive(c) PROVE JobTypeOK'
  BY <1>1 DEF Receive, Pump, Ask, Go
<1>2. ASSUME NEW c \in Sessions, Stop(c) PROVE JobTypeOK'
  BY <1>2 DEF Stop, Finalize, Ask, Go
<1>3. ASSUME NEW c \in Sessions, Vanish(c) PROVE JobTypeOK'
  BY <1>3 DEF Vanish
<1>4. ASSUME NEW c \in Sessions, TakeInfer(c) PROVE JobTypeOK'
  BY <1>4 DEF TakeInfer, Go
<1>5. ASSUME NEW c \in Sessions, TakeGpu(c) PROVE JobTypeOK'
  BY <1>5 DEF TakeGpu, Go
<1>6. ASSUME NEW c \in Sessions, Feed(c) PROVE JobTypeOK'
  BY <1>6 DEF Feed, Calling, Release, Ask, Go
<1>7. ASSUME NEW c \in Sessions, Overflow(c) PROVE JobTypeOK'
  BY <1>7 DEF Overflow, Calling, Release, Ask, Go
<1>8. ASSUME NEW c \in Sessions, RollOver(c) PROVE JobTypeOK'
  BY <1>8 DEF RollOver, Calling, Release, Fold, ResetSamples, Ask, Go
<1>9. ASSUME NEW c \in Sessions, Finish(c) PROVE JobTypeOK'
  BY <1>9 DEF Finish, Calling, Release, Go
<1>10. ASSUME NEW c \in Sessions, Fail(c) PROVE JobTypeOK'
  BY <1>10 DEF Fail, Calling, Release, Go
<1>11. ASSUME NEW c \in Sessions, EmitPartial(c) PROVE JobTypeOK'
  BY <1>11 DEF EmitPartial, Pump, Ask, Go
<1>12. ASSUME NEW c \in Sessions, EmitClosed(c) PROVE JobTypeOK'
  BY <1>12 DEF EmitClosed, Go
<1>13. ASSUME NEW c \in Sessions, EmitFails(c) PROVE JobTypeOK'
  BY <1>13 DEF EmitFails, Go
<1>14. CASE JobBegin
  BY <1>14 DEF JobBegin, GateOpen
<1>15. CASE JobTranscribe
  BY <1>15 DEF JobTranscribe
<1>16. CASE JobReturns
  BY <1>16 DEF JobReturns, Restore
<1>17. CASE JobEnd
  BY <1>17 DEF JobEnd
<1>18. CASE UNCHANGED vars
  BY <1>18 DEF vars
<1> QED
  BY <1>1, <1>2, <1>3, <1>4, <1>5, <1>6, <1>7, <1>8, <1>9, <1>10, <1>11, <1>12, <1>13,
     <1>14, <1>15, <1>16, <1>17, <1>18
     DEF Next, Client, Disconnect, Coroutine, Thread, Worker

\* A run of units, and its length.
LEMMA UnitsType ==
  ASSUME NEW m \in Nat, NEW n \in Nat
  PROVE  Units(m, n) \in Seq(Nat) /\ (m <= n => Len(Units(m, n)) = n - m)
  BY DEF Units

\* Part of a sequence of units is one.
LEMMA SubSeqType ==
  ASSUME NEW s \in Seq(Nat), NEW m \in Nat \ {0}, NEW n \in 0 .. Len(s)
  PROVE  SubSeq(s, m, n) \in Seq(Nat)
<1>1. \A i \in m .. n : s[i] \in Nat
  BY ElementOfSeq
<1> QED
  BY <1>1, SubSeqProperties

\* The inner loop leaves sequences of units in cur and pend.
LEMMA PumpType ==
  ASSUME NEW c \in Sessions, NEW w \in Seq(Nat), Pump(c, w),
         cur \in [Sessions -> Seq(Nat)], pend \in [Sessions -> Seq(Nat)]
  PROVE  cur' \in [Sessions -> Seq(Nat)] /\ pend' \in [Sessions -> Seq(Nat)]
<1>1. CASE Len(w) >= Step[c]
  <2>1. Step[c] \in 0 .. Len(w) /\ Step[c] + 1 \in Nat \ {0} /\ Len(w) \in 0 .. Len(w)
    BY <1>1, SizeAssumption
  <2>2. SubSeq(w, 1, Step[c]) \in Seq(Nat) /\ SubSeq(w, Step[c] + 1, Len(w)) \in Seq(Nat)
    BY <2>1, SubSeqType
  <2> QED
    BY <1>1, <2>2 DEF Pump
<1>2. CASE ~(Len(w) >= Step[c])
  BY <1>2 DEF Pump
<1> QED
  BY <1>1, <1>2

\* What was fed, is in hand and pending.
LEMMA AudioTypeNext == AudioTypeOK /\ [Next]_vars => AudioTypeOK'
<1> SUFFICES ASSUME AudioTypeOK, [Next]_vars PROVE AudioTypeOK'
  OBVIOUS
<1> USE DEF AudioTypeOK, callVars, inVars, textVars, jobVars
<1>1. ASSUME NEW c \in Sessions, Receive(c) PROVE AudioTypeOK'
  <2>1. PICK n \in rcvd[c] + 1 .. Audio[c] :
               rcvd' = [rcvd EXCEPT ![c] = n] /\ Pump(c, pend[c] \o Units(rcvd[c], n))
    BY <1>1 DEF Receive
  <2>2. pend[c] \in Seq(Nat) /\ Units(rcvd[c], n) \in Seq(Nat)
    <3>1. rcvd[c] \in Nat /\ Audio[c] \in Nat
      BY SizeAssumption
    <3>2. n \in Nat
      BY <3>1
    <3> QED BY <3>1, <3>2, UnitsType
  <2>3. pend[c] \o Units(rcvd[c], n) \in Seq(Nat)
    BY <2>2, ConcatProperties
  <2>4. cur' \in [Sessions -> Seq(Nat)] /\ pend' \in [Sessions -> Seq(Nat)]
    BY <2>1, <2>3, PumpType
  <2>5. rcvd' \in [Sessions -> Nat]
    BY <2>1
  <2> QED
    BY <2>4, <2>5, <1>1 DEF Receive
<1>2. ASSUME NEW c \in Sessions, Stop(c) PROVE AudioTypeOK'
  <2>1. cur' \in [Sessions -> Seq(Nat)] /\ pend' \in [Sessions -> Seq(Nat)]
    <3>1. CASE pend[c] # <<>>
      <4>1. cur' = [cur EXCEPT ![c] = pend[c]] /\ pend' = [pend EXCEPT ![c] = <<>>]
        BY <1>2, <3>1 DEF Stop, Finalize
      <4> QED BY <4>1, EmptySeq
    <3>2. CASE pend[c] = <<>>
      BY <1>2, <3>2 DEF Stop, Finalize
    <3> QED BY <3>1, <3>2
  <2> QED
    BY <1>2, <2>1 DEF Stop
<1>3. ASSUME NEW c \in Sessions, Vanish(c) PROVE AudioTypeOK'
  BY <1>3 DEF Vanish
<1>4. ASSUME NEW c \in Sessions, TakeInfer(c) PROVE AudioTypeOK'
  BY <1>4 DEF TakeInfer, Go
<1>5. ASSUME NEW c \in Sessions, TakeGpu(c) PROVE AudioTypeOK'
  BY <1>5 DEF TakeGpu, Go
<1>6. ASSUME NEW c \in Sessions, Feed(c) PROVE AudioTypeOK'
  <2>1. st[c] \o cur[c] \in Seq(Nat) /\ Len(cur[c]) \in Nat
    BY ConcatProperties, LenProperties
  <2> QED
    BY <1>6, <2>1, SMTT(20) DEF Feed, Calling
<1>7. ASSUME NEW c \in Sessions, Overflow(c) PROVE AudioTypeOK'
  BY <1>7 DEF Overflow, Calling, Release, Ask, Go
<1>8. ASSUME NEW c \in Sessions, RollOver(c) PROVE AudioTypeOK'
  BY <1>8 DEF RollOver, Calling, Release, Fold, ResetSamples, Ask, Go
<1>9. ASSUME NEW c \in Sessions, Finish(c) PROVE AudioTypeOK'
  BY <1>9 DEF Finish, Calling, Release, Go
<1>10. ASSUME NEW c \in Sessions, Fail(c) PROVE AudioTypeOK'
  BY <1>10 DEF Fail, Calling, Release, Go
<1>11. ASSUME NEW c \in Sessions, EmitPartial(c) PROVE AudioTypeOK'
  <2>1. cur' \in [Sessions -> Seq(Nat)] /\ pend' \in [Sessions -> Seq(Nat)]
    <3>1. CASE call[c] # "roll" /\ DueRoll(c)
      BY <1>11, <3>1 DEF EmitPartial
    <3>2. CASE ~(call[c] # "roll" /\ DueRoll(c))
      <4>1. Pump(c, pend[c]) /\ pend[c] \in Seq(Nat)
        BY <1>11, <3>2 DEF EmitPartial
      <4> QED BY <4>1, PumpType
    <3> QED BY <3>1, <3>2
  <2> QED
    BY <1>11, <2>1 DEF EmitPartial
<1>12. ASSUME NEW c \in Sessions, EmitClosed(c) PROVE AudioTypeOK'
  BY <1>12 DEF EmitClosed, Go
<1>13. ASSUME NEW c \in Sessions, EmitFails(c) PROVE AudioTypeOK'
  BY <1>13 DEF EmitFails, Go
<1>14. CASE JobBegin
  BY <1>14 DEF JobBegin, GateOpen
<1>15. CASE JobTranscribe
  BY <1>15 DEF JobTranscribe
<1>16. CASE JobReturns
  BY <1>16 DEF JobReturns, Restore
<1>17. CASE JobEnd
  BY <1>17 DEF JobEnd
<1>18. CASE UNCHANGED vars
  BY <1>18 DEF vars
<1> QED
  BY <1>1, <1>2, <1>3, <1>4, <1>5, <1>6, <1>7, <1>8, <1>9, <1>10, <1>11, <1>12, <1>13,
     <1>14, <1>15, <1>16, <1>17, <1>18
     DEF Next, Client, Disconnect, Coroutine, Thread, Worker

\* Every reachable state has its type: what a session still has to feed and has fed are
\* sequences, the locks have one holder, the jobs and segments left stay in their bounds.
THEOREM TypeCorrect == Spec => []TypeOK
<1>1. TypeOK /\ [Next]_vars => TypeOK'
  BY CallTypeNext, JobTypeNext, AudioTypeNext DEF TypeOK
<1> QED
  BY <1>1, TypeInit, PTL DEF Spec

-----------------------------------------------------------------------------
\* The locks.

\* Whoever is past a lock holds it, and the limit is raised only while a job holds _gpu.
LockInv ==
    /\ \A c \in Sessions : pc[c] \in {"gpu", "engine"} => infer = c
    /\ \A c \in Sessions : pc[c] = "engine" => gpu = c
    /\ job # "idle" => gpu = Job
    /\ saved = "stream"
    /\ tokens = "offline" => job = "transcribing"

\* A caller in the engine holds both locks and a job holds the gate, at every step.
LEMMA LockNext == CallTypeOK /\ JobTypeOK /\ LockInv /\ [Next]_vars => LockInv'
<1> SUFFICES ASSUME CallTypeOK, JobTypeOK, LockInv, [Next]_vars PROVE LockInv'
  OBVIOUS
<1> USE ActorAssumption DEF CallTypeOK, JobTypeOK, LockInv, Over, callVars, inVars, textVars, jobVars
<1>1. ASSUME NEW c \in Sessions, Receive(c) PROVE LockInv'
  BY <1>1 DEF Receive, Pump, Ask, Go
<1>2. ASSUME NEW c \in Sessions, Stop(c) PROVE LockInv'
  BY <1>2 DEF Stop, Finalize, Ask, Go
<1>3. ASSUME NEW c \in Sessions, Vanish(c) PROVE LockInv'
  BY <1>3 DEF Vanish
<1>4. ASSUME NEW c \in Sessions, TakeInfer(c) PROVE LockInv'
  BY <1>4 DEF TakeInfer, Go
<1>5. ASSUME NEW c \in Sessions, TakeGpu(c) PROVE LockInv'
  BY <1>5 DEF TakeGpu, Go
<1>6. ASSUME NEW c \in Sessions, Feed(c) PROVE LockInv'
  BY <1>6 DEF Feed, Calling, Release, Ask, Go
<1>7. ASSUME NEW c \in Sessions, Overflow(c) PROVE LockInv'
  BY <1>7 DEF Overflow, Calling, Release, Ask, Go
<1>8. ASSUME NEW c \in Sessions, RollOver(c) PROVE LockInv'
  BY <1>8 DEF RollOver, Calling, Release, Fold, ResetSamples, Ask, Go
<1>9. ASSUME NEW c \in Sessions, Finish(c) PROVE LockInv'
  BY <1>9 DEF Finish, Calling, Release, Go
<1>10. ASSUME NEW c \in Sessions, Fail(c) PROVE LockInv'
  BY <1>10 DEF Fail, Calling, Release, Go
<1>11. ASSUME NEW c \in Sessions, EmitPartial(c) PROVE LockInv'
  BY <1>11 DEF EmitPartial, Pump, Ask, Go
<1>12. ASSUME NEW c \in Sessions, EmitClosed(c) PROVE LockInv'
  BY <1>12 DEF EmitClosed, Go
<1>13. ASSUME NEW c \in Sessions, EmitFails(c) PROVE LockInv'
  BY <1>13 DEF EmitFails, Go
<1>14. CASE JobBegin
  BY <1>14 DEF JobBegin, GateOpen
<1>15. CASE JobTranscribe
  BY <1>15 DEF JobTranscribe
<1>16. CASE JobReturns
  BY <1>16 DEF JobReturns, Restore
<1>17. CASE JobEnd
  BY <1>17 DEF JobEnd
<1>18. CASE UNCHANGED vars
  BY <1>18 DEF vars
<1> QED
  BY <1>1, <1>2, <1>3, <1>4, <1>5, <1>6, <1>7, <1>8, <1>9, <1>10, <1>11, <1>12, <1>13,
     <1>14, <1>15, <1>16, <1>17, <1>18
     DEF Next, Client, Disconnect, Coroutine, Thread, Worker

\* Sessions and jobs are never in the engine together, and no session's call runs with the
\* limit a job raised.
THEOREM EngineSafe == Spec => [](EngineExclusive /\ TokensOwn)
<1>1. Init => LockInv
  BY DEF Init, LockInv
<1>2. CallTypeOK /\ JobTypeOK /\ LockInv => EngineExclusive /\ TokensOwn
  BY ActorAssumption DEF CallTypeOK, JobTypeOK, LockInv, EngineExclusive, Calls, TokensOwn
<1>3. Spec => [](CallTypeOK /\ JobTypeOK)
  BY TypeCorrect, PTL DEF TypeOK
<1> QED
  BY <1>1, <1>2, <1>3, LockNext, PTL DEF Spec

-----------------------------------------------------------------------------
\* The audio.

\* Consecutive runs of units make one run.
LEMMA UnitsAdd ==
  ASSUME NEW m \in Nat, NEW n \in Nat, m <= n
  PROVE  Units(0, m) \o Units(m, n) = Units(0, n)
<1> DEFINE s == Units(0, m)
           t == Units(m, n)
<1>1. /\ s \in Seq(Nat) /\ Len(s) = m /\ \A i \in 1 .. m : s[i] = i
      /\ t \in Seq(Nat) /\ Len(t) = n - m /\ \A i \in 1 .. n - m : t[i] = m + i
      /\ Units(0, n) \in Seq(Nat) /\ Len(Units(0, n)) = n
      /\ \A i \in 1 .. n : Units(0, n)[i] = i
  <2>1. s \in Seq(Nat) /\ Len(s) = m - 0
    BY UnitsType
  <2>2. t \in Seq(Nat) /\ Len(t) = n - m
    BY UnitsType
  <2>3. Units(0, n) \in Seq(Nat) /\ Len(Units(0, n)) = n - 0
    BY UnitsType
  <2> QED
    BY <2>1, <2>2, <2>3 DEF Units
<1> HIDE DEF s, t
<1>2. /\ s \o t \in Seq(Nat) /\ Len(s \o t) = n
      /\ \A i \in 1 .. n : (s \o t)[i] = IF i <= m THEN s[i] ELSE t[i - m]
  BY <1>1
<1>3. ASSUME NEW i \in 1 .. n PROVE (s \o t)[i] = Units(0, n)[i]
  <2>1. CASE i <= m
    <3>1. i \in 1 .. m
      BY <2>1
    <3> QED BY <1>1, <1>2, <2>1, <3>1
  <2>2. CASE ~(i <= m)
    <3>1. i - m \in 1 .. n - m /\ m + (i - m) = i
      BY <2>2
    <3> QED BY <1>1, <1>2, <2>2, <3>1
  <2> QED BY <2>1, <2>2
<1>4. s \o t = Units(0, n)
  BY <1>1, <1>2, <1>3, SeqEqual
<1> QED
  BY <1>4 DEF s, t

\* The inner loop takes the next step off the front of what waits, or nothing.
LEMMA PumpSplits ==
  ASSUME NEW c \in Sessions, NEW w \in Seq(Nat), Pump(c, w), AudioTypeOK, cur[c] = <<>>
  PROVE  /\ cur'[c] \o pend'[c] = w
         /\ \A d \in Sessions \ {c} : cur'[d] = cur[d] /\ pend'[d] = pend[d]
<1>1. CASE Len(w) >= Step[c]
  <2>1. /\ 1 \in 1 .. Len(w) + 1 /\ Step[c] \in 1 - 1 .. Len(w)
        /\ Len(w) \in Step[c] .. Len(w)
    BY <1>1, LenProperties, SizeAssumption
  <2>2. SubSeq(w, 1, Step[c]) \o SubSeq(w, Step[c] + 1, Len(w)) = SubSeq(w, 1, Len(w))
    BY <2>1, ConcatAdjacentSubSeq
  <2>3. SubSeq(w, 1, Len(w)) = w
    BY SubSeqFull
  <2> QED
    BY <1>1, <2>2, <2>3 DEF Pump, AudioTypeOK
<1>2. CASE ~(Len(w) >= Step[c])
  BY <1>2, ConcatEmptySeq DEF Pump, AudioTypeOK
<1> QED
  BY <1>1, <1>2

Asking(c) == pc[c] \in {"lock", "gpu", "engine"}

\* Where a coroutine may be with audio in hand or pending, and where it has closed its loop.
PlaceInv ==
    /\ \A c \in Sessions : pc[c] \in {"recv", "emit", "final", "closed"} => cur[c] = <<>>
    /\ \A c \in Sessions : Asking(c) /\ call[c] \in {"roll", "finish"} => cur[c] = <<>>
    /\ \A c \in Sessions : closing[c] => pend[c] = <<>>
    /\ \A c \in Sessions : pc[c] \in {"recv", "emit"} => ~closing[c]
    /\ \A c \in Sessions : Asking(c) /\ call[c] = "roll" => ~closing[c]
    /\ \A c \in Sessions : Asking(c) /\ call[c] = "finish" => closing[c]
    /\ \A c \in Sessions : pc[c] \in {"final", "closed"} => closing[c]

\* What a coroutine is about to do agrees with what it has in hand and with closing.
LEMMA PlaceNext == CallTypeOK /\ AudioTypeOK /\ PlaceInv /\ [Next]_vars => PlaceInv'
<1> SUFFICES ASSUME CallTypeOK, AudioTypeOK, PlaceInv, [Next]_vars PROVE PlaceInv'
  OBVIOUS
<1> USE DEF CallTypeOK, PlaceInv, Asking, Over, callVars, inVars, textVars, jobVars
<1>0. DOMAIN cur = Sessions /\ DOMAIN pend = Sessions
  BY DEF AudioTypeOK
<1>1. ASSUME NEW c \in Sessions, Receive(c) PROVE PlaceInv'
  <2>1. \A w : Pump(c, w) /\ closing' = closing => PlaceInv'
    <3> SUFFICES ASSUME NEW w, Pump(c, w), closing' = closing PROVE PlaceInv'
      OBVIOUS
    <3>1. CASE Len(w) >= Step[c]
      <4> DEFINE s == SubSeq(w, 1, Step[c])
                 u == SubSeq(w, Step[c] + 1, Len(w))
      <4>1. /\ pc' = [pc EXCEPT ![c] = "lock"] /\ call' = [call EXCEPT ![c] = "feed"]
            /\ cur' = [cur EXCEPT ![c] = s] /\ pend' = [pend EXCEPT ![c] = u]
        BY <3>1 DEF Pump, Ask, Go
      <4> HIDE DEF s, u
      <4> QED
        BY <1>0, <1>1, <4>1 DEF Receive, EmitPartial
    <3>2. CASE ~(Len(w) >= Step[c])
      BY <1>0, <1>1, <3>2 DEF Pump, Go, Receive, EmitPartial
    <3> QED BY <3>1, <3>2
  <2> QED BY <1>1, <2>1 DEF Receive
<1>2. ASSUME NEW c \in Sessions, Stop(c) PROVE PlaceInv'
  <2>0. pc[c] = "recv" /\ closing' = [closing EXCEPT ![c] = TRUE] /\ pc' = [pc EXCEPT ![c] = "lock"]
    BY <1>2 DEF Stop, Finalize, Ask, Go
  <2>1. CASE pend[c] # <<>>
    <3>1. /\ call' = [call EXCEPT ![c] = "feed"]
          /\ cur' = [cur EXCEPT ![c] = pend[c]] /\ pend' = [pend EXCEPT ![c] = <<>>]
      BY <1>2, <2>1 DEF Stop, Finalize, Ask
    <3> QED BY <1>0, <2>0, <3>1
  <2>2. CASE pend[c] = <<>>
    <3>1. call' = [call EXCEPT ![c] = "finish"] /\ cur' = cur /\ pend' = pend
      BY <1>2, <2>2 DEF Stop, Finalize, Ask
    <3> QED BY <1>0, <2>0, <2>2, <3>1
  <2> QED BY <2>1, <2>2
<1>3. ASSUME NEW c \in Sessions, Vanish(c) PROVE PlaceInv'
  BY <1>3 DEF Vanish
<1>4. ASSUME NEW c \in Sessions, TakeInfer(c) PROVE PlaceInv'
  BY <1>4 DEF TakeInfer, Go
<1>5. ASSUME NEW c \in Sessions, TakeGpu(c) PROVE PlaceInv'
  BY <1>5 DEF TakeGpu, Go
<1>6. ASSUME NEW c \in Sessions, Feed(c) PROVE PlaceInv'
  <2>1. CASE closing[c]
    BY <1>0, <1>6, <2>1 DEF Feed, Calling, Ask, Go
  <2>2. CASE ~closing[c]
    BY <1>0, <1>6, <2>2 DEF Feed, Calling, Go
  <2> QED BY <2>1, <2>2
<1>7. ASSUME NEW c \in Sessions, Overflow(c) PROVE PlaceInv'
  BY <1>7 DEF Overflow, Calling, Release, Ask, Go
<1>8. ASSUME NEW c \in Sessions, RollOver(c) PROVE PlaceInv'
  <2>1. CASE call[c] = "overflow"
    BY <1>8, <2>1 DEF RollOver, Calling, Ask, Go
  <2>2. CASE call[c] # "overflow"
    BY <1>8, <2>2 DEF RollOver, Calling, Go
  <2> QED BY <2>1, <2>2
<1>9. ASSUME NEW c \in Sessions, Finish(c) PROVE PlaceInv'
  BY <1>9 DEF Finish, Calling, Release, Go
<1>10. ASSUME NEW c \in Sessions, Fail(c) PROVE PlaceInv'
  BY <1>10 DEF Fail, Calling, Release, Go
<1>11. ASSUME NEW c \in Sessions, EmitPartial(c) PROVE PlaceInv'
  <2>1. \A w : Pump(c, w) /\ closing' = closing => PlaceInv'
    <3> SUFFICES ASSUME NEW w, Pump(c, w), closing' = closing PROVE PlaceInv'
      OBVIOUS
    <3>1. CASE Len(w) >= Step[c]
      <4> DEFINE s == SubSeq(w, 1, Step[c])
                 u == SubSeq(w, Step[c] + 1, Len(w))
      <4>1. /\ pc' = [pc EXCEPT ![c] = "lock"] /\ call' = [call EXCEPT ![c] = "feed"]
            /\ cur' = [cur EXCEPT ![c] = s] /\ pend' = [pend EXCEPT ![c] = u]
        BY <3>1 DEF Pump, Ask, Go
      <4> HIDE DEF s, u
      <4> QED
        BY <1>0, <1>11, <4>1 DEF Receive, EmitPartial
    <3>2. CASE ~(Len(w) >= Step[c])
      BY <1>0, <1>11, <3>2 DEF Pump, Go, Receive, EmitPartial
    <3> QED BY <3>1, <3>2
  <2>2. CASE call[c] # "roll" /\ DueRoll(c)
    BY <1>11, <2>2 DEF EmitPartial, Ask, Go
  <2>3. CASE ~(call[c] # "roll" /\ DueRoll(c))
    BY <1>11, <2>1, <2>3 DEF EmitPartial
  <2> QED BY <2>2, <2>3
<1>12. ASSUME NEW c \in Sessions, EmitClosed(c) PROVE PlaceInv'
  BY <1>12 DEF EmitClosed, Go
<1>13. ASSUME NEW c \in Sessions, EmitFails(c) PROVE PlaceInv'
  BY <1>13 DEF EmitFails, Go
<1>14. CASE JobBegin
  BY <1>14 DEF JobBegin, GateOpen
<1>15. CASE JobTranscribe
  BY <1>15 DEF JobTranscribe
<1>16. CASE JobReturns
  BY <1>16 DEF JobReturns, Restore
<1>17. CASE JobEnd
  BY <1>17 DEF JobEnd
<1>18. CASE UNCHANGED vars
  BY <1>18 DEF vars
<1> QED
  BY <1>1, <1>2, <1>3, <1>4, <1>5, <1>6, <1>7, <1>8, <1>9, <1>10, <1>11, <1>12, <1>13,
     <1>14, <1>15, <1>16, <1>17, <1>18
     DEF Next, Client, Disconnect, Coroutine, Thread, Worker

Count == \A c \in Sessions : total[c] = Len(Covered(c))

\* Every step keeps what is covered, in hand and pending together, in order.
LEMMA AudioNext ==
  AudioTypeOK /\ AudioTypeOK' /\ PlaceInv /\ AudioOnce /\ Count /\ [Next]_vars
    => (AudioOnce /\ Count)'
<1> SUFFICES ASSUME AudioTypeOK, AudioTypeOK', PlaceInv, AudioOnce, Count, [Next]_vars PROVE (AudioOnce /\ Count)'
  OBVIOUS
<1> USE DEF callVars, inVars, textVars, jobVars
<1>1. ASSUME NEW c \in Sessions, Receive(c) PROVE (AudioOnce /\ Count)'
  <2>1. ASSUME NEW w \in Seq(Nat), Pump(c, w), cur[c] = <<>>
        PROVE  Covered(c) \o cur'[c] \o pend'[c] = Covered(c) \o w
    <3>1. Covered(c) \in Seq(Nat) /\ cur'[c] \in Seq(Nat) /\ pend'[c] \in Seq(Nat)
      BY ConcatProperties DEF Covered, AudioTypeOK
    <3>2. Covered(c) \o cur'[c] \o pend'[c] = Covered(c) \o (cur'[c] \o pend'[c])
      BY <3>1, ConcatNat, Zenon
    <3> QED BY <2>1, <3>2, PumpSplits
  <2>2. PICK n \in rcvd[c] + 1 .. Audio[c] :
               rcvd' = [rcvd EXCEPT ![c] = n] /\ Pump(c, pend[c] \o Units(rcvd[c], n))
    BY <1>1 DEF Receive
  <2>3. rcvd[c] \in Nat /\ n \in Nat /\ rcvd[c] <= n
    <3>1. rcvd[c] \in Nat /\ Audio[c] \in Nat
      BY SizeAssumption DEF AudioTypeOK
    <3> QED BY <3>1
  <2>4. pc[c] = "recv" /\ UNCHANGED <<prefix, st, total>>
    BY <1>1 DEF Receive
  <2>5. cur[c] = <<>>
    BY <2>4 DEF PlaceInv
  <2>6. /\ Covered(c) \in Seq(Nat) /\ pend[c] \in Seq(Nat)
        /\ Units(rcvd[c], n) \in Seq(Nat) /\ pend[c] \o Units(rcvd[c], n) \in Seq(Nat)
    BY <2>3, UnitsType, ConcatProperties DEF Covered, AudioTypeOK
  <2>7. Covered(c) \o (pend[c] \o Units(rcvd[c], n)) = Units(0, n)
    <3>1. Covered(c) \o pend[c] = Units(0, rcvd[c])
      BY <2>5, <2>6, ConcatEmptySeq DEF AudioOnce
    <3>2. Covered(c) \o (pend[c] \o Units(rcvd[c], n)) = (Covered(c) \o pend[c]) \o Units(rcvd[c], n)
      BY <2>6, ConcatNat, Zenon
    <3> QED BY <2>3, <3>1, <3>2, UnitsAdd
  <2>8. /\ Covered(c)' \o cur'[c] \o pend'[c] = Units(0, rcvd'[c])
        /\ total'[c] = Len(Covered(c)')
    <3>1. Covered(c) \o cur'[c] \o pend'[c] = Units(0, n)
      BY <2>1, <2>2, <2>5, <2>6, <2>7
    <3>2. Covered(c)' = Covered(c) /\ total'[c] = total[c] /\ rcvd'[c] = n
      BY <2>2, <2>4 DEF Covered, AudioTypeOK
    <3> QED BY <3>1, <3>2 DEF Count
  <2>9. ASSUME NEW d \in Sessions \ {c}
        PROVE  /\ Covered(d)' \o cur'[d] \o pend'[d] = Units(0, rcvd'[d])
               /\ total'[d] = Len(Covered(d)')
    <3>1. Covered(d)' = Covered(d) /\ total'[d] = total[d] /\ rcvd'[d] = rcvd[d]
      BY <2>2, <2>4 DEF Covered, AudioTypeOK
    <3>2. cur'[d] = cur[d] /\ pend'[d] = pend[d]
      BY <2>2, <2>5, <2>6, PumpSplits
    <3> QED BY <3>1, <3>2 DEF AudioOnce, Count
  <2> QED BY <2>8, <2>9 DEF AudioOnce, Count
<1>2. ASSUME NEW c \in Sessions, Stop(c) PROVE (AudioOnce /\ Count)'
  <2>1. pc[c] = "recv" /\ UNCHANGED <<prefix, st, total, rcvd>>
    BY <1>2 DEF Stop
  <2>2. cur[c] = <<>> /\ Covered(c) \in Seq(Nat) /\ pend[c] \in Seq(Nat)
    BY <2>1, ConcatProperties DEF PlaceInv, Covered, AudioTypeOK
  <2>3. CASE pend[c] # <<>>
    <3>1. cur' = [cur EXCEPT ![c] = pend[c]] /\ pend' = [pend EXCEPT ![c] = <<>>]
      BY <1>2, <2>3 DEF Stop, Finalize
    <3>2. cur'[c] = pend[c] /\ pend'[c] = <<>>
      BY <3>1 DEF AudioTypeOK
    <3>3. Covered(c) \o pend[c] \in Seq(Nat)
      BY <2>2, ConcatProperties
    <3>4. Covered(c) \o cur'[c] \o pend'[c] = Covered(c) \o cur[c] \o pend[c]
      BY <2>2, <3>2, <3>3, ConcatEmptySeq
    <3>5. \A d \in Sessions \ {c} : cur'[d] = cur[d] /\ pend'[d] = pend[d]
      BY <3>1 DEF AudioTypeOK
    <3>6. \A d \in Sessions : Covered(d)' = Covered(d)
      BY <2>1 DEF Covered
    <3> QED BY <2>1, <3>4, <3>5, <3>6 DEF AudioOnce, Count
  <2>4. CASE pend[c] = <<>>
    BY <1>2, <2>1, <2>4 DEF Stop, Finalize, AudioOnce, Count, Covered
  <2> QED BY <2>3, <2>4
<1>3. ASSUME NEW c \in Sessions, Vanish(c) PROVE (AudioOnce /\ Count)'
  BY <1>3 DEF Vanish, AudioOnce, Count, Covered
<1>4. ASSUME NEW c \in Sessions, TakeInfer(c) PROVE (AudioOnce /\ Count)'
  BY <1>4 DEF TakeInfer, Go, AudioOnce, Count, Covered
<1>5. ASSUME NEW c \in Sessions, TakeGpu(c) PROVE (AudioOnce /\ Count)'
  BY <1>5 DEF TakeGpu, Go, AudioOnce, Count, Covered
<1>6. ASSUME NEW c \in Sessions, Feed(c) PROVE (AudioOnce /\ Count)'
  <2>1. /\ st' = [st EXCEPT ![c] = st[c] \o cur[c]] /\ cur' = [cur EXCEPT ![c] = <<>>]
        /\ total' = [total EXCEPT ![c] = total[c] + Len(cur[c])]
        /\ UNCHANGED <<prefix, pend, rcvd>>
    BY <1>6 DEF Feed, Calling
  <2>2. prefix[c] \in Seq(Nat) /\ st[c] \in Seq(Nat) /\ cur[c] \in Seq(Nat)
    BY DEF AudioTypeOK
  <2>3. Covered(c)' = Covered(c) \o cur[c] /\ cur'[c] = <<>>
    <3>1. Covered(c)' = prefix[c] \o (st[c] \o cur[c])
      BY <2>1 DEF Covered, AudioTypeOK
    <3>2. cur'[c] = <<>>
      BY <2>1 DEF AudioTypeOK
    <3> QED BY <2>2, <3>1, <3>2, ConcatNat DEF Covered
  <2>4. Covered(c) \in Seq(Nat) /\ Covered(c) \o cur[c] \in Seq(Nat)
    BY <2>2, ConcatProperties DEF Covered
  <2>5. Covered(c)' \o cur'[c] = Covered(c) \o cur[c]
    BY <2>3, <2>4, ConcatEmptySeq
  <2>6. total'[c] = Len(Covered(c)')
    <3>1. Len(Covered(c) \o cur[c]) = Len(Covered(c)) + Len(cur[c])
      BY <2>2, <2>4, ConcatProperties
    <3>2. total'[c] = total[c] + Len(cur[c])
      BY <2>1 DEF AudioTypeOK
    <3> QED BY <2>3, <3>1, <3>2 DEF Count
  <2>7. ASSUME NEW d \in Sessions \ {c}
        PROVE  Covered(d)' = Covered(d) /\ cur'[d] = cur[d] /\ total'[d] = total[d]
    BY <2>1 DEF Covered, AudioTypeOK
  <2> QED BY <2>1, <2>5, <2>6, <2>7 DEF AudioOnce, Count
<1>7. ASSUME NEW c \in Sessions, Overflow(c) PROVE (AudioOnce /\ Count)'
  BY <1>7 DEF Overflow, Calling, Release, Ask, Go, AudioOnce, Count, Covered
<1>8. ASSUME NEW c \in Sessions, RollOver(c) PROVE (AudioOnce /\ Count)'
  <2>1. /\ prefix' = [prefix EXCEPT ![c] = prefix[c] \o st[c]] /\ st' = [st EXCEPT ![c] = <<>>]
        /\ UNCHANGED <<cur, pend, rcvd, total>>
    BY <1>8 DEF RollOver, Calling, Fold
  <2>2. prefix[c] \in Seq(Nat) /\ st[c] \in Seq(Nat) /\ prefix[c] \o st[c] \in Seq(Nat)
    BY ConcatProperties DEF AudioTypeOK
  <2>3. Covered(c)' = (prefix[c] \o st[c]) \o <<>>
    BY <2>1 DEF Covered, AudioTypeOK
  <2>4. Covered(c)' = Covered(c)
    BY <2>2, <2>3, ConcatEmptySeq DEF Covered
  <2>5. ASSUME NEW d \in Sessions \ {c} PROVE Covered(d)' = Covered(d)
    BY <2>1 DEF Covered, AudioTypeOK
  <2> QED BY <2>1, <2>4, <2>5 DEF AudioOnce, Count
<1>9. ASSUME NEW c \in Sessions, Finish(c) PROVE (AudioOnce /\ Count)'
  BY <1>9 DEF Finish, Calling, Release, Go, AudioOnce, Count, Covered
<1>10. ASSUME NEW c \in Sessions, Fail(c) PROVE (AudioOnce /\ Count)'
  BY <1>10 DEF Fail, Calling, Release, Go, AudioOnce, Count, Covered
<1>11. ASSUME NEW c \in Sessions, EmitPartial(c) PROVE (AudioOnce /\ Count)'
  <2>1. ASSUME NEW w \in Seq(Nat), Pump(c, w), cur[c] = <<>>
        PROVE  Covered(c) \o cur'[c] \o pend'[c] = Covered(c) \o w
    <3>1. Covered(c) \in Seq(Nat) /\ cur'[c] \in Seq(Nat) /\ pend'[c] \in Seq(Nat)
      BY ConcatProperties DEF Covered, AudioTypeOK
    <3>2. Covered(c) \o cur'[c] \o pend'[c] = Covered(c) \o (cur'[c] \o pend'[c])
      BY <3>1, ConcatNat, Zenon
    <3> QED BY <2>1, <3>2, PumpSplits
  <2>2. pc[c] = "emit" /\ UNCHANGED <<prefix, st, total, rcvd>>
    BY <1>11 DEF EmitPartial
  <2>3. cur[c] = <<>> /\ Covered(c) \in Seq(Nat) /\ pend[c] \in Seq(Nat)
    BY <2>2, ConcatProperties DEF PlaceInv, Covered, AudioTypeOK
  <2>4. CASE call[c] # "roll" /\ DueRoll(c)
    BY <1>11, <2>2, <2>4 DEF EmitPartial, AudioOnce, Count, Covered
  <2>5. CASE ~(call[c] # "roll" /\ DueRoll(c))
    <3>1. Pump(c, pend[c])
      BY <1>11, <2>5 DEF EmitPartial
    <3>0. Covered(c) \o cur[c] = Covered(c)
      BY <2>3, ConcatEmptySeq
    <3>2. Covered(c) \o cur'[c] \o pend'[c] = Covered(c) \o cur[c] \o pend[c]
      BY <2>1, <2>3, <3>0, <3>1
    <3>3. \A d \in Sessions \ {c} : cur'[d] = cur[d] /\ pend'[d] = pend[d]
      BY <2>3, <3>1, PumpSplits
    <3>4. \A d \in Sessions : Covered(d)' = Covered(d)
      BY <2>2 DEF Covered
    <3> QED BY <2>2, <3>2, <3>3, <3>4 DEF AudioOnce, Count
  <2> QED BY <2>4, <2>5
<1>12. ASSUME NEW c \in Sessions, EmitClosed(c) PROVE (AudioOnce /\ Count)'
  BY <1>12 DEF EmitClosed, Go, AudioOnce, Count, Covered
<1>13. ASSUME NEW c \in Sessions, EmitFails(c) PROVE (AudioOnce /\ Count)'
  BY <1>13 DEF EmitFails, Go, AudioOnce, Count, Covered
<1>14. CASE JobBegin
  BY <1>14 DEF JobBegin, GateOpen, AudioOnce, Count, Covered
<1>15. CASE JobTranscribe
  BY <1>15 DEF JobTranscribe, AudioOnce, Count, Covered
<1>16. CASE JobReturns
  BY <1>16 DEF JobReturns, Restore, AudioOnce, Count, Covered
<1>17. CASE JobEnd
  BY <1>17 DEF JobEnd, AudioOnce, Count, Covered
<1>18. CASE UNCHANGED vars
  BY <1>18 DEF vars, AudioOnce, Count, Covered
<1> QED
  BY <1>1, <1>2, <1>3, <1>4, <1>5, <1>6, <1>7, <1>8, <1>9, <1>10, <1>11, <1>12, <1>13,
     <1>14, <1>15, <1>16, <1>17, <1>18
     DEF Next, Client, Disconnect, Coroutine, Thread, Worker

\* Where the audio is, and how much of it was counted, belong together.
LEMMA AudioPlaced == Spec => [](PlaceInv /\ AudioOnce /\ Count)
<1>1. Init => PlaceInv /\ AudioOnce /\ Count
  <2> SUFFICES ASSUME Init PROVE PlaceInv /\ AudioOnce /\ Count
    OBVIOUS
  <2>1. PlaceInv
    BY DEF Init, PlaceInv, Asking
  <2>2. Units(0, 0) = <<>>
    <3>1. Units(0, 0) \in Seq(Nat) /\ Len(Units(0, 0)) = 0
      BY UnitsType
    <3> QED BY <3>1, EmptySeq
  <2>3. <<>> \o <<>> = <<>> /\ Len(<<>>) = 0
    OBVIOUS
  <2>4. ASSUME NEW c \in Sessions
        PROVE  /\ prefix[c] = <<>> /\ st[c] = <<>> /\ cur[c] = <<>> /\ pend[c] = <<>>
               /\ rcvd[c] = 0 /\ total[c] = 0
    BY DEF Init
  <2> QED BY <2>1, <2>2, <2>3, <2>4 DEF AudioOnce, Count, Covered
<1>2. TypeOK /\ TypeOK' /\ PlaceInv /\ AudioOnce /\ Count /\ [Next]_vars
        => (PlaceInv /\ AudioOnce /\ Count)'
  BY PlaceNext, AudioNext DEF TypeOK
<1>3. Spec => []TypeOK
  BY TypeCorrect
<1> QED
  BY <1>1, <1>2, <1>3, PTL DEF Spec

\* For any frames, steps, rolls, overflows and failures: what a session received is in its
\* text, in hand or pending, in order and once.
THEOREM AudioNeverLost == Spec => []AudioOnce
  BY AudioPlaced, PTL

\* For any frames, steps, rolls and overflows: `closed` is sent for all the audio received,
\* the tail too, and with its length.
THEOREM ClosedHasAll == Spec => []ClosedComplete
<1>1. TypeOK /\ PlaceInv /\ AudioOnce /\ Count => ClosedComplete
  <2> SUFFICES ASSUME TypeOK, PlaceInv, AudioOnce, Count, NEW c \in Sessions, pc[c] = "closed"
               PROVE  Covered(c) = Units(0, rcvd[c]) /\ total[c] = rcvd[c]
    BY DEF ClosedComplete
  <2>1. cur[c] = <<>> /\ pend[c] = <<>>
    BY DEF PlaceInv
  <2>2. Covered(c) \in Seq(Nat) /\ rcvd[c] \in Nat
    BY ConcatProperties DEF TypeOK, AudioTypeOK, Covered
  <2>3. Covered(c) = Units(0, rcvd[c])
    BY <2>1, <2>2, ConcatEmptySeq DEF AudioOnce
  <2>4. Len(Units(0, rcvd[c])) = rcvd[c]
    <3>1. \A n \in Nat : 0 <= n => Len(Units(0, n)) = n - 0
      BY UnitsType
    <3> QED BY <2>2, <3>1
  <2> QED BY <2>2, <2>3, <2>4 DEF Count
<1> QED
  BY <1>1, TypeCorrect, AudioPlaced, PTL

-----------------------------------------------------------------------------
\* The encoder cache.

\* A session only receives, and only feeds, with the counter below the roll and at most a
\* step in hand; the one call made above it is the roll of an overflow.
CacheInv ==
    /\ \A c \in Sessions : samples[c] = Len(st[c])
    /\ \A c \in Sessions : pc[c] = "recv" => samples[c] < Roll /\ Len(pend[c]) < Step[c]
    /\ \A c \in Sessions : pc[c] = "emit" /\ call[c] = "roll" => samples[c] = 0
    /\ \A c \in Sessions : Asking(c) /\ call[c] \in {"feed", "overflow", "retry"}
                             => Len(cur[c]) <= Step[c]
    /\ \A c \in Sessions : Asking(c) /\ call[c] \in {"feed", "retry"} => samples[c] < Roll

\* The inner loop takes at most a step, and leaves less than one when it goes to receive.
LEMMA PumpCache ==
  ASSUME NEW c \in Sessions, NEW w \in Seq(Nat), Pump(c, w), CallTypeOK, AudioTypeOK
  PROVE  /\ \/ /\ pc' = [pc EXCEPT ![c] = "lock"] /\ call' = [call EXCEPT ![c] = "feed"]
               /\ Len(cur'[c]) <= Step[c]
            \/ /\ pc' = [pc EXCEPT ![c] = "recv"] /\ call' = call
               /\ Len(pend'[c]) < Step[c]
         /\ \A d \in Sessions \ {c} : cur'[d] = cur[d] /\ pend'[d] = pend[d]
<1>0. Step[c] \in Nat \ {0} /\ Len(w) \in Nat
  BY SizeAssumption, LenProperties
<1>1. CASE Len(w) >= Step[c]
  <2>1. SubSeq(w, 1, Step[c]) \in Seq(Nat) /\ Len(SubSeq(w, 1, Step[c])) = Step[c]
    <3>1. 1 \in 1 .. Len(w) + 1 /\ Step[c] \in 1 - 1 .. Len(w)
      BY <1>0, <1>1
    <3>2. Len(SubSeq(w, 1, Step[c])) = Step[c] - 1 + 1
      BY <1>0, <1>1, <3>1, SubSeqProperties
    <3>3. SubSeq(w, 1, Step[c]) \in Seq(Nat)
      BY <1>0, <3>1, SubSeqType
    <3> QED BY <1>0, <3>2, <3>3
  <2> DEFINE s == SubSeq(w, 1, Step[c])
             u == SubSeq(w, Step[c] + 1, Len(w))
  <2>2. /\ pc' = [pc EXCEPT ![c] = "lock"] /\ call' = [call EXCEPT ![c] = "feed"]
        /\ cur' = [cur EXCEPT ![c] = s] /\ pend' = [pend EXCEPT ![c] = u]
    BY <1>1 DEF Pump, Ask, Go
  <2>3. Len(s) = Step[c]
    BY <2>1
  <2> HIDE DEF s, u
  <2> QED BY <1>0, <2>2, <2>3 DEF AudioTypeOK
<1>2. CASE ~(Len(w) >= Step[c])
  BY <1>0, <1>2 DEF Pump, Go, AudioTypeOK
<1> QED
  BY <1>1, <1>2

\* The counter follows the engine's cache, and a call is made below the roll.
LEMMA CacheNext ==
  CallTypeOK /\ AudioTypeOK /\ AudioTypeOK' /\ CacheInv /\ [Next]_vars => CacheInv'
<1> SUFFICES ASSUME CallTypeOK, AudioTypeOK, AudioTypeOK', CacheInv, [Next]_vars PROVE CacheInv'
  OBVIOUS
<1> USE DEF CacheInv, Asking, Over, callVars, inVars, textVars, jobVars
<1>a. DOMAIN pc = Sessions /\ DOMAIN call = Sessions /\ DOMAIN cur = Sessions
      /\ DOMAIN pend = Sessions /\ DOMAIN st = Sessions /\ DOMAIN samples = Sessions
  BY DEF CallTypeOK, AudioTypeOK
<1>b. Roll \in Nat \ {0} /\ \A c \in Sessions : Step[c] \in Nat \ {0}
  BY SizeAssumption
<1>c. \A c \in Sessions : samples[c] \in Nat
  BY DEF AudioTypeOK
<1>d. \A c \in Sessions, w \in Seq(Nat) :
        Pump(c, w) /\ UNCHANGED <<st, samples>> /\ samples[c] < Roll => CacheInv'
  <2> SUFFICES ASSUME NEW c \in Sessions, NEW w \in Seq(Nat), Pump(c, w),
                      UNCHANGED <<st, samples>>, samples[c] < Roll
               PROVE  CacheInv'
    OBVIOUS
  <2>1. CASE /\ pc' = [pc EXCEPT ![c] = "lock"] /\ call' = [call EXCEPT ![c] = "feed"]
             /\ Len(cur'[c]) <= Step[c]
    <3>1. \A d \in Sessions \ {c} : cur'[d] = cur[d] /\ pend'[d] = pend[d]
      BY PumpCache
    <3> QED BY <1>a, <2>1, <3>1
  <2>2. CASE /\ pc' = [pc EXCEPT ![c] = "recv"] /\ call' = call
             /\ Len(pend'[c]) < Step[c]
    <3>1. \A d \in Sessions \ {c} : cur'[d] = cur[d] /\ pend'[d] = pend[d]
      BY PumpCache
    <3> QED BY <1>a, <2>2, <3>1
  <2> QED BY <2>1, <2>2, PumpCache
<1>1. ASSUME NEW c \in Sessions, Receive(c) PROVE CacheInv'
  <2>1. PICK n \in rcvd[c] + 1 .. Audio[c] : Pump(c, pend[c] \o Units(rcvd[c], n))
    BY <1>1 DEF Receive
  <2>2. rcvd[c] \in Nat /\ n \in Nat /\ pend[c] \in Seq(Nat)
    <3>1. rcvd[c] \in Nat /\ pend[c] \in Seq(Nat)
      BY Zenon DEF AudioTypeOK
    <3>2. Audio[c] \in Nat
      BY SizeAssumption
    <3> QED
      BY ONLY <2>1, <3>1, <3>2
  <2>3. pend[c] \o Units(rcvd[c], n) \in Seq(Nat)
    <3>1. Units(rcvd[c], n) \in Seq(Nat)
      BY <2>2, UnitsType
    <3> QED
      BY <2>2, <3>1, SMTT(30)
  <2>4. UNCHANGED <<st, samples>> /\ samples[c] < Roll
    BY <1>1 DEF Receive
  <2> QED BY <1>d, <2>1, <2>3, <2>4
<1>2. ASSUME NEW c \in Sessions, Stop(c) PROVE CacheInv'
  <2>1. /\ pc[c] = "recv" /\ pc' = [pc EXCEPT ![c] = "lock"] /\ UNCHANGED <<st, samples>>
        /\ Len(pend[c]) < Step[c] /\ samples[c] < Roll
    BY <1>2 DEF Stop, Finalize, Ask, Go
  <2>2. CASE pend[c] # <<>>
    <3>1. /\ call' = [call EXCEPT ![c] = "feed"]
          /\ cur' = [cur EXCEPT ![c] = pend[c]] /\ pend' = [pend EXCEPT ![c] = <<>>]
      BY <1>2, <2>2 DEF Stop, Finalize, Ask
    <3>2. Len(pend[c]) \in Nat
      BY LenProperties DEF AudioTypeOK
    <3> QED BY <1>a, <1>b, <2>1, <3>1, <3>2
  <2>3. CASE pend[c] = <<>>
    <3>1. call' = [call EXCEPT ![c] = "finish"] /\ cur' = cur /\ pend' = pend
      BY <1>2, <2>3 DEF Stop, Finalize, Ask
    <3> QED BY <1>a, <2>1, <3>1
  <2> QED BY <2>2, <2>3
<1>3. ASSUME NEW c \in Sessions, Vanish(c) PROVE CacheInv'
  BY <1>3 DEF Vanish
<1>4. ASSUME NEW c \in Sessions, TakeInfer(c) PROVE CacheInv'
  BY <1>4, <1>a DEF TakeInfer, Go
<1>5. ASSUME NEW c \in Sessions, TakeGpu(c) PROVE CacheInv'
  BY <1>5, <1>a DEF TakeGpu, Go
<1>6. ASSUME NEW c \in Sessions, Feed(c) PROVE CacheInv'
  <2>1. /\ st' = [st EXCEPT ![c] = st[c] \o cur[c]] /\ cur' = [cur EXCEPT ![c] = <<>>]
        /\ samples' = [samples EXCEPT ![c] = samples[c] + Len(cur[c])] /\ pend' = pend
    BY <1>6 DEF Feed, Calling
  <2>2. samples'[c] = Len(st'[c])
    <3>1. Len(st[c] \o cur[c]) = Len(st[c]) + Len(cur[c])
      BY ConcatProperties DEF AudioTypeOK
    <3> QED BY <1>a, <2>1, <3>1
  <2>3. \/ pc' = [pc EXCEPT ![c] = "lock"] /\ call' = [call EXCEPT ![c] = "finish"]
        \/ pc' = [pc EXCEPT ![c] = "emit"] /\ call' = call /\ call[c] # "roll"
    BY <1>6 DEF Feed, Calling, Ask, Go
  <2>4. \A d \in Sessions \ {c} : /\ st'[d] = st[d] /\ samples'[d] = samples[d]
                                  /\ cur'[d] = cur[d] /\ pc'[d] = pc[d] /\ call'[d] = call[d]
    BY <1>a, <2>1, <2>3
  <2>5. \/ pc'[c] = "lock" /\ call'[c] = "finish"
        \/ pc'[c] = "emit" /\ call'[c] # "roll"
    BY <1>a, <2>3
  <2> QED BY <2>1, <2>2, <2>4, <2>5
<1>7. ASSUME NEW c \in Sessions, Overflow(c) PROVE CacheInv'
  BY <1>7, <1>a DEF Overflow, Calling, Ask, Go
<1>8. ASSUME NEW c \in Sessions, RollOver(c) PROVE CacheInv'
  <2>1. /\ st' = [st EXCEPT ![c] = <<>>] /\ samples' = [samples EXCEPT ![c] = 0]
        /\ UNCHANGED <<cur, pend>> /\ pc[c] = "engine"
    BY <1>8 DEF RollOver, Calling, ResetSamples
  <2>2. samples'[c] = 0 /\ st'[c] = <<>> /\ Len(<<>>) = 0
    BY <1>a, <2>1
  <2>3. CASE call[c] = "overflow"
    <3>1. pc' = [pc EXCEPT ![c] = "lock"] /\ call' = [call EXCEPT ![c] = "retry"]
      BY <1>8, <2>3 DEF RollOver, Ask, Go
    <3> QED BY <1>a, <1>b, <2>1, <2>2, <2>3, <3>1
  <2>4. CASE call[c] # "overflow"
    <3>1. pc' = [pc EXCEPT ![c] = "emit"] /\ call' = call
      BY <1>8, <2>4 DEF RollOver, Go
    <3> QED BY <1>a, <2>1, <2>2, <3>1
  <2> QED BY <2>3, <2>4
<1>9. ASSUME NEW c \in Sessions, Finish(c) PROVE CacheInv'
  BY <1>9, <1>a DEF Finish, Calling, Go
<1>10. ASSUME NEW c \in Sessions, Fail(c) PROVE CacheInv'
  BY <1>10, <1>a DEF Fail, Calling, Go
<1>11. ASSUME NEW c \in Sessions, EmitPartial(c) PROVE CacheInv'
  <2>1. pc[c] = "emit" /\ UNCHANGED <<st, samples>> /\ pend[c] \in Seq(Nat)
    BY <1>11 DEF EmitPartial, AudioTypeOK
  <2>2. CASE call[c] # "roll" /\ DueRoll(c)
    <3>1. /\ pc' = [pc EXCEPT ![c] = "lock"] /\ call' = [call EXCEPT ![c] = "roll"]
          /\ UNCHANGED <<cur, pend>>
      BY <1>11, <2>2 DEF EmitPartial, Ask, Go
    <3> QED BY <1>a, <2>1, <3>1
  <2>3. CASE ~(call[c] # "roll" /\ DueRoll(c))
    <3>1. Pump(c, pend[c])
      BY <1>11, <2>3 DEF EmitPartial
    <3>2. samples[c] < Roll
      BY <1>b, <1>c, <2>1, <2>3 DEF DueRoll
    <3> QED BY <1>d, <2>1, <3>1, <3>2
  <2> QED BY <2>2, <2>3
<1>12. ASSUME NEW c \in Sessions, EmitClosed(c) PROVE CacheInv'
  BY <1>12, <1>a DEF EmitClosed, Go
<1>13. ASSUME NEW c \in Sessions, EmitFails(c) PROVE CacheInv'
  BY <1>13, <1>a DEF EmitFails, Go
<1>14. CASE JobBegin
  BY <1>14 DEF JobBegin
<1>15. CASE JobTranscribe
  BY <1>15 DEF JobTranscribe
<1>16. CASE JobReturns
  BY <1>16 DEF JobReturns
<1>17. CASE JobEnd
  BY <1>17 DEF JobEnd
<1>18. CASE UNCHANGED vars
  BY <1>18 DEF vars
<1> QED
  BY <1>1, <1>2, <1>3, <1>4, <1>5, <1>6, <1>7, <1>8, <1>9, <1>10, <1>11, <1>12, <1>13,
     <1>14, <1>15, <1>16, <1>17, <1>18
     DEF Next, Client, Disconnect, Coroutine, Thread, Worker

\* The counter is what the engine's cache holds, and a roll size that leaves room for one
\* step is enough: no call but those of an engine that refuses for its own reasons overflows.
THEOREM CacheNeverOverflows == Spec => [](SamplesTrackCache /\ RollPreventsOverflow)
<1>1. Init => CacheInv
  <2> SUFFICES ASSUME Init, NEW c \in Sessions
               PROVE  /\ samples[c] = 0 /\ Len(st[c]) = 0 /\ Len(pend[c]) = 0 /\ pc[c] = "recv"
                      /\ 0 < Roll /\ 0 < Step[c]
    BY DEF CacheInv, Asking
  <2>1. Roll \in Nat \ {0} /\ Step[c] \in Nat \ {0}
    BY SizeAssumption
  <2> QED BY <2>1 DEF Init
<1>2. TypeOK /\ CacheInv => SamplesTrackCache /\ RollPreventsOverflow
  <2> SUFFICES ASSUME TypeOK, CacheInv, NEW c \in Sessions, pc[c] = "engine",
                      call[c] \in {"feed", "retry"}, Roll + Step[c] <= Cache + 1
               PROVE  Fits(c)
    BY DEF CacheInv, SamplesTrackCache, RollPreventsOverflow
  <2>1. samples[c] < Roll /\ Len(cur[c]) <= Step[c] /\ samples[c] = Len(st[c])
    BY DEF CacheInv, Asking
  <2>2. Len(cur[c]) \in Nat /\ Len(st[c]) \in Nat
    BY LenProperties DEF TypeOK, AudioTypeOK
  <2>3. Roll \in Nat /\ Cache \in Nat /\ Step[c] \in Nat
    BY SizeAssumption
  <2>4. \A a, b, r, p, k \in Nat : a < r /\ b <= p /\ r + p <= k + 1 => a + b <= k
    OBVIOUS
  <2>5. Len(st[c]) < Roll /\ Len(cur[c]) <= Step[c]
    BY <2>1
  <2>6. Len(st[c]) + Len(cur[c]) <= Cache
    BY <2>2, <2>3, <2>4, <2>5
  <2> QED BY <2>6 DEF Fits
<1>3. TypeOK /\ TypeOK' /\ CacheInv /\ [Next]_vars => CacheInv'
  BY CacheNext DEF TypeOK
<1>4. Spec => []TypeOK
  BY TypeCorrect
<1> QED
  BY <1>1, <1>2, <1>3, <1>4, PTL DEF Spec

=============================================================================
