----------------------------- MODULE Jobs_proof -----------------------------
(***************************************************************************)
(* No temporary file outlives its request, a job that succeeds has skipped  *)
(* nothing, and progress counts what its stage has: for any requests,       *)
(* batches, clips and windows.                                              *)
(***************************************************************************)
EXTENDS Jobs, FiniteSetTheorems, TLAPS

Places == {"new", "read", "decode", "decoding", "spill", "dispatch", "queued", "open", "next",
           "files", "engine", "drop", "close", "settle"} \cup Over
Temps  == {"upload", "decode", "whole", "ref1", "ref2"}

TempTypes ==
    /\ at \in [Requests -> Places]
    /\ files \in [Requests -> SUBSET Temps]
    /\ half \in [Requests -> SUBSET Temps]
    /\ res \in [Requests -> {"none", "ok", "error", "canceled"}]
    /\ need \in [Requests -> 0 .. 2]

\* From its last unit on, a job knows how it ends.
Decided == \A r \in Requests : at[r] \in {"drop", "close", "settle"} => res[r] # "none"

\* The files a request may have where it is, but for those whose write failed.
MayHold(place) ==
    CASE place = "decoding"                    -> {"decode"}
      [] place \in {"dispatch", "raised", "queued", "open", "settle"} -> {"upload"}
      [] place \in {"next", "close"}           -> {"upload", "whole"}
      [] place \in {"files", "engine", "drop"} -> {"upload", "whole", "ref1", "ref2"}
      [] OTHER                                 -> {}

Held == \A r \in Requests : files[r] \subseteq half[r] \cup MayHold(at[r])

TempInv == TempTypes /\ Decided /\ Held
-----------------------------------------------------------------------------
LEMMA RefFiles == ToSet(Refs) = {"ref1", "ref2"}
  BY DEF ToSet, Refs

\* The file UnitWrites takes is one of the two.
LEMMA NextFile ==
    ASSUME TempInv, NEW r \in Requests, Missing(r) # {}
    PROVE  Refs[CHOOSE i \in Missing(r) : \A j \in Missing(r) : i <= j] \in {"ref1", "ref2"}
  <1>1. Missing(r) \subseteq {1, 2}
    BY DEF TempInv, TempTypes, Missing
  <1>2. \E i \in Missing(r) : \A j \in Missing(r) : i <= j
    BY <1>1
  <1>3. (CHOOSE i \in Missing(r) : \A j \in Missing(r) : i <= j) \in {1, 2}
    BY <1>1, <1>2
  <1>4. Refs[1] = "ref1" /\ Refs[2] = "ref2"
    BY DEF Refs
  <1>5. QED
    BY <1>3, <1>4

\* The handler, and a DELETE: what a refusal leaves nobody else removes.
LEMMA HandlerKeeps ==
    ASSUME TempInv, NEW r \in Requests, Handler(r) \/ Cancel(r)
    PROVE  TempInv'
  <1> USE DEF TempInv, TempTypes, Decided, Held, MayHold, Places, Over, Outcomes, Temps,
              Go, Keeps, formVars, jobVars
  <1>1. CASE Ask(r)
    BY <1>1 DEF Ask, NoFile
  <1>2. CASE Read(r)
    BY <1>2 DEF Read, NoFile
  <1>3. CASE DecodeInMemory(r)
    BY <1>3 DEF DecodeInMemory, NoFile
  <1>4. CASE DecodeWrites(r)
    BY <1>4 DEF DecodeWrites, Write, WriteFails
  <1>5. CASE DecodeEnds(r)
    BY <1>5 DEF DecodeEnds, Unlink
  <1>6. CASE Spill(r)
    BY <1>6 DEF Spill, Write, WriteFails
  <1>7. CASE DispatchBusy(r)
    BY <1>7 DEF DispatchBusy, Unlink
  <1>8. CASE Dispatch(r)
    BY <1>8 DEF Dispatch, NoFile
  <1>8a. CASE DispatchRaises(r)
    BY <1>8a DEF DispatchRaises, NoFile
  <1>9. CASE CancelQueued(r)
    BY <1>9 DEF CancelQueued, Unlink
  <1>10. CASE CancelRunning(r)
    BY <1>10 DEF CancelRunning, NoFile
  <1>11. QED
    BY <1>1, <1>2, <1>3, <1>4, <1>5, <1>6, <1>7, <1>8, <1>8a, <1>9, <1>10
    DEF Handler, Cancel

\* The job: the unit's files go at its end, its own with it, the upload when it is settled.
LEMMA JobKeeps ==
    ASSUME TempInv, NEW r \in Requests, Job(r)
    PROVE  TempInv'
  <1> USE DEF TempInv, TempTypes, Decided, Held, MayHold, Places, Over, Outcomes, Temps,
              Go, Keeps, formVars, jobVars
  <1>1. CASE JobStart(r)
    BY <1>1 DEF JobStart, NoFile
  <1>2. CASE JobOpen(r)
    BY <1>2 DEF JobOpen, Res, NoFile, Write, WriteFails
  <1>3. CASE JobNext(r)
    BY <1>3 DEF JobNext, Res, NoFile
  <1>4. CASE JobFinish(r)
    BY <1>4 DEF JobFinish, Res, NoFile
  <1>5. CASE UnitEmpty(r)
    BY <1>5 DEF UnitEmpty, NoFile
  <1>6. CASE UnitWrites(r)
    <2> DEFINE f == Refs[CHOOSE i \in Missing(r) : \A j \in Missing(r) : i <= j]
    <2>1. f \in {"ref1", "ref2"}
      BY <1>6, NextFile DEF UnitWrites
    <2> HIDE DEF f
    <2>2. CASE Write(r, f) /\ UNCHANGED <<at, res>>
      BY <1>6, <2>1, <2>2 DEF UnitWrites, Write
    <2>3. CASE (Write(r, f) \/ WriteFails(r, f)) /\ Go(r, "drop") /\ Res(r, "error")
      BY <1>6, <2>1, <2>3 DEF UnitWrites, Write, WriteFails, Res
    <2>4. QED
      BY <1>6, <2>2, <2>3 DEF UnitWrites, f
  <1>7. CASE UnitBegins(r)
    BY <1>7 DEF UnitBegins, Res, NoFile
  <1>8. CASE EngineWorks(r)
    BY <1>8 DEF EngineWorks, Res, NoFile, Engine
  <1>9. CASE EngineRaises(r)
    BY <1>9 DEF EngineRaises, Res, NoFile, Engine
  <1>10. CASE EngineStops(r)
    BY <1>10 DEF EngineStops, Res, NoFile, Engine
  <1>11. CASE Hook(r)
    BY <1>11 DEF Hook, NoFile
  <1>12. CASE EngineRetries(r)
    BY <1>12 DEF EngineRetries, NoFile
  <1>13. CASE UnitDrops(r)
    BY <1>13, RefFiles DEF UnitDrops, Unlink, Dropped
  <1>14. CASE JobClose(r)
    BY <1>14 DEF JobClose, Unlink
  <1>15. CASE JobSettle(r)
    BY <1>15 DEF JobSettle, Unlink, Settled
  <1>16. QED
    BY <1>1, <1>2, <1>3, <1>4, <1>5, <1>6, <1>7, <1>8, <1>9, <1>10, <1>11, <1>12, <1>13, <1>14, <1>15
    DEF Job

LEMMA NextKeeps == TempInv /\ [Next]_vars => TempInv'
  <1> SUFFICES ASSUME TempInv, [Next]_vars
               PROVE  TempInv'
    OBVIOUS
  <1>1. CASE Load
    BY <1>1 DEF Load, TempInv, TempTypes, Decided, Held, formVars, jobVars
  <1>2. CASE \E r \in Requests : Handler(r) \/ Cancel(r) \/ Job(r)
    BY <1>2, HandlerKeeps, JobKeeps
  <1>3. CASE UNCHANGED vars
    BY <1>3 DEF vars, TempInv, TempTypes, Decided, Held, formVars, jobVars
  <1>4. QED
    BY <1>1, <1>2, <1>3 DEF Next

LEMMA TempInit == Init => TempInv
  BY DEF Init, TempInv, TempTypes, Decided, Held, MayHold, Places

\* For any number of requests, any batches, clips and windows: a request that was refused,
\* failed, was canceled or is done leaves none of its files, except one whose write failed
\* and, where submit() raised, its upload.
THEOREM TempsAlwaysRemoved == Spec => []TempsRemoved
  <1>1. TempInv => TempsRemoved
    BY DEF TempInv, Held, TempsRemoved, Stranded, MayHold, Over, Outcomes
  <1>2. QED
    BY TempInit, NextKeeps, <1>1, PTL DEF Spec
-----------------------------------------------------------------------------
\* Enhance's windows as functions of the clip's length and the plan.
HopOf(w)        == IF w[1] - w[2] > 1 THEN w[1] - w[2] ELSE 1
WholeOf(n, w)   == w[1] <= 0 \/ n <= w[1]
EndOf(p, n, w)  == IF WholeOf(n, w) \/ p + w[1] > n THEN n ELSE p + w[1]
CountOf(n, w)   == IF WholeOf(n, w) THEN 1
                   ELSE -((0 - (IF n - w[1] > 1 THEN n - w[1] ELSE 1)) \div HopOf(w)) + 1
WeightedOf(p, n, w) ==
    LET end == EndOf(p, n, w)
        r   == IF w[2] < end - p THEN w[2] ELSE end - p
    IN  {j \in p .. end - 1 :
            /\ p > 0 /\ w[2] > 0 => j > p
            /\ end < n /\ r > 1 => j < end - 1}

\* The samples the windows up to the last have given a weight: all of them before its end,
\* but for the one where its fade out is at zero.
Covered(s, n, w) ==
    LET e == EndOf(s[Len(s)], n, w)
    IN  \A j \in 0 .. e - 1 :
            (e < n /\ w[2] > 1 => j < e - 1)
                => \E i \in 1 .. Len(s) : j \in WeightedOf(s[i], n, w)

Tiled(s, n, w) ==
    /\ \A i \in 1 .. Len(s) : s[i] = (i - 1) * HopOf(w)
    /\ \A i \in 1 .. Len(s) - 1 : ~WholeOf(n, w) /\ s[i] + w[1] < n
    /\ s # <<>> => Covered(s, n, w)

Numbered(s, n) == Len(s) <= n /\ \A i \in 1 .. Len(s) : s[i] = i

RowsGood(s, n, w, u) ==
    s \in Seq(Nat) /\ IF u = "window" THEN Tiled(s, n, w) ELSE Numbered(s, n)

Finished(s, n, w, u) ==
    IF u = "window" THEN s # <<>> /\ EndOf(s[Len(s)], n, w) >= n ELSE Len(s) = n

NextRow(s, w, u) ==
    IF u = "window" THEN (IF s = <<>> THEN 0 ELSE s[Len(s)] + HopOf(w)) ELSE Len(s) + 1

Plan(w) == w \in Nat \X Nat /\ (w[1] > 0 => w[2] < w[1] \/ w[1] > 2)

LEMMA HopPositive == ASSUME NEW w, Plan(w) PROVE HopOf(w) \in Nat \ {0}
  BY DEF Plan, HopOf

LEMMA NoRows ==
    ASSUME NEW n \in Nat, NEW w, NEW u
    PROVE  RowsGood(<<>>, n, w, u)
  BY DEF RowsGood, Tiled, Numbered

\* The first window reaches from the first sample.
LEMMA FirstWindow ==
    ASSUME NEW n \in Nat, NEW w, Plan(w)
    PROVE  Tiled(<<0>>, n, w)
  <1>1. HopOf(w) \in Nat /\ w[1] \in Nat /\ w[2] \in Nat
    BY HopPositive DEF Plan
  <1>2. Len(<<0>>) = 1 /\ <<0>>[1] = 0 /\ (1 - 1) * HopOf(w) = 0
    BY <1>1
  <1>3. ASSUME NEW j \in 0 .. EndOf(0, n, w) - 1,
               EndOf(0, n, w) < n /\ w[2] > 1 => j < EndOf(0, n, w) - 1
        PROVE  j \in WeightedOf(0, n, w)
    BY <1>1, <1>3 DEF WeightedOf, EndOf, WholeOf
  <1>4. Covered(<<0>>, n, w)
    BY <1>2, <1>3 DEF Covered
  <1>5. QED
    BY <1>2, <1>4 DEF Tiled

\* The next one begins before the samples that have no weight yet.
LEMMA NextWindowCovers ==
    ASSUME NEW n \in Nat, NEW w, Plan(w), NEW p \in Nat, ~WholeOf(n, w), p + w[1] < n,
           NEW j \in 0 .. EndOf(p + HopOf(w), n, w) - 1,
           EndOf(p + HopOf(w), n, w) < n /\ w[2] > 1 => j < EndOf(p + HopOf(w), n, w) - 1,
           ~(j < p + w[1] /\ (w[2] > 1 => j < p + w[1] - 1))
    PROVE  j \in WeightedOf(p + HopOf(w), n, w)
  <1>1. w[1] \in Nat \ {0} /\ w[2] \in Nat /\ (w[2] < w[1] \/ w[1] > 2)
    BY DEF Plan, WholeOf
  <1>2. HopOf(w) \in Nat \ {0}
    BY HopPositive
  <1>3. j >= p + HopOf(w) /\ (w[2] > 0 => j > p + HopOf(w))
    BY <1>1 DEF HopOf
  <1>4. QED
    BY <1>1, <1>2, <1>3 DEF WeightedOf, EndOf

LEMMA WindowAdded ==
    ASSUME NEW n \in Nat, NEW w, Plan(w), NEW s \in Seq(Nat), s # <<>>, Tiled(s, n, w),
           ~(EndOf(s[Len(s)], n, w) >= n)
    PROVE  Tiled(Append(s, s[Len(s)] + HopOf(w)), n, w)
  <1> DEFINE p == s[Len(s)]
             h == HopOf(w)
             t == Append(s, p + h)
  <1>1. h \in Nat \ {0} /\ w[1] \in Nat /\ w[2] \in Nat
    BY HopPositive DEF Plan
  <1>2. Len(s) \in Nat \ {0} /\ p \in Nat /\ p = (Len(s) - 1) * h
    BY DEF Tiled
  <1>3. ~WholeOf(n, w) /\ p + w[1] < n /\ EndOf(p, n, w) = p + w[1]
    BY <1>1, <1>2 DEF EndOf
  <1>4. /\ Len(t) = Len(s) + 1 /\ t # <<>> /\ t[Len(t)] = p + h
        /\ \A i \in 1 .. Len(s) : t[i] = s[i]
    <2> HIDE DEF p, h
    <2> QED BY <1>1, <1>2
  <1>5. p + h = Len(s) * h
    <2> HIDE DEF p, h
    <2> QED BY <1>1, <1>2
  <1>6. \A i \in 1 .. Len(t) : t[i] = (i - 1) * h
    <2>1. \A i \in 1 .. Len(s) : s[i] = (i - 1) * h
      BY DEF Tiled
    <2>2. TAKE i \in 1 .. Len(t)
    <2>3. CASE i = Len(t)
      BY <2>3, <1>4, <1>5, <1>2
    <2>4. CASE i # Len(t)
      BY <2>4, <1>4, <2>1, <1>2
    <2>5. QED
      BY <2>3, <2>4
  <1>7. \A i \in 1 .. Len(t) - 1 : ~WholeOf(n, w) /\ t[i] + w[1] < n
    <2>1. \A i \in 1 .. Len(s) - 1 : s[i] + w[1] < n
      BY DEF Tiled
    <2>2. TAKE i \in 1 .. Len(t) - 1
    <2>3. i \in 1 .. Len(s) /\ t[i] = s[i]
      BY <1>2, <1>4
    <2>4. QED
      BY <2>1, <2>3, <1>3, <1>2
  <1>8. ASSUME NEW j \in 0 .. EndOf(p + h, n, w) - 1,
               EndOf(p + h, n, w) < n /\ w[2] > 1 => j < EndOf(p + h, n, w) - 1
        PROVE  \E i \in 1 .. Len(t) : j \in WeightedOf(t[i], n, w)
    <2>1. EndOf(p + h, n, w) \in Int /\ j \in Nat
      BY <1>1, <1>2 DEF EndOf
    <2>2. CASE j < p + w[1] /\ (w[2] > 1 => j < p + w[1] - 1)
      <3>1. Covered(s, n, w)
        BY DEF Tiled
      <3>2. j \in 0 .. EndOf(p, n, w) - 1 /\ (w[2] > 1 => j < EndOf(p, n, w) - 1)
        <4>1. j \in Nat /\ p \in Nat /\ w[1] \in Nat /\ EndOf(p, n, w) = p + w[1]
          BY <2>1, <1>1, <1>2, <1>3
        <4> HIDE DEF p, h, t
        <4> QED
          BY ONLY <4>1, <2>2, SMTT(20)
      <3>3. PICK i \in 1 .. Len(s) : j \in WeightedOf(s[i], n, w)
        BY <3>1, <3>2 DEF Covered
      <3>4. i \in 1 .. Len(t) /\ t[i] = s[i]
        BY <1>4, <1>2
      <3>5. QED
        BY <3>3, <3>4
    <2>3. CASE ~(j < p + w[1] /\ (w[2] > 1 => j < p + w[1] - 1))
      <3>1. j \in WeightedOf(p + h, n, w)
        BY <2>3, <1>2, <1>3, <1>8, NextWindowCovers
      <3>2. QED
        BY <3>1, <1>4, <1>2
    <2>4. QED
      BY <2>2, <2>3
  <1>9. Covered(t, n, w)
    <2> HIDE DEF p, h, t
    <2> QED BY <1>4, <1>8 DEF Covered
  <1>10. QED
    <2> HIDE DEF p, t
    <2> QED BY <1>6, <1>7, <1>9 DEF Tiled, p, t

\* A unit that is over keeps the results in order.
LEMMA RowAdded ==
    ASSUME NEW n \in Nat, NEW w, Plan(w), NEW u, NEW s, RowsGood(s, n, w, u),
           ~Finished(s, n, w, u)
    PROVE  RowsGood(Append(s, NextRow(s, w, u)), n, w, u)
  <1>1. s \in Seq(Nat) /\ Len(s) \in Nat
    BY DEF RowsGood
  <1>2. CASE u # "window"
    BY <1>1, <1>2 DEF RowsGood, Numbered, Finished, NextRow
  <1>3. CASE u = "window" /\ s = <<>>
    <2>1. Append(s, NextRow(s, w, u)) = <<0>>
      BY <1>3 DEF NextRow
    <2>2. QED
      BY <2>1, <1>3, FirstWindow DEF RowsGood
  <1>4. CASE u = "window" /\ s # <<>>
    <2>1. NextRow(s, w, u) = s[Len(s)] + HopOf(w) /\ NextRow(s, w, u) \in Nat
      BY <1>1, <1>4, HopPositive DEF NextRow
    <2>2. Tiled(Append(s, NextRow(s, w, u)), n, w)
      BY <1>1, <1>4, <2>1, WindowAdded DEF RowsGood, Finished
    <2>3. QED
      BY <1>1, <1>4, <2>1, <2>2 DEF RowsGood
  <1>5. QED
    BY <1>2, <1>3, <1>4

LEMMA PassAdded ==
    ASSUME NEW n \in Nat, NEW w, NEW u, u # "window"
    PROVE  RowsGood([i \in 1 .. n |-> i], n, w, u)
  BY DEF RowsGood, Numbered

\* A division rounded up.
LEMMA CountRounds ==
    ASSUME NEW n \in Nat, NEW w, Plan(w), ~WholeOf(n, w)
    PROVE  /\ CountOf(n, w) \in Nat /\ CountOf(n, w) > 1
           /\ (CountOf(n, w) - 2) * HopOf(w) < n - w[1]
           /\ n - w[1] <= (CountOf(n, w) - 1) * HopOf(w)
  <1> DEFINE d == n - w[1]
             h == HopOf(w)
             z == (0 - d) \div h
  <1>1. d \in Nat \ {0} /\ h \in Nat \ {0}
    BY HopPositive DEF WholeOf, Plan
  <1>2. z \in Int /\ z * h <= 0 - d /\ 0 - d < z * h + h
    <2> HIDE DEF d, h
    <2> QED BY <1>1
  <1>3. CountOf(n, w) = (0 - z) + 1
    <2>1. (IF n - w[1] > 1 THEN n - w[1] ELSE 1) = d
      BY <1>1 DEF Plan
    <2>2. CountOf(n, w) = -z + 1
      BY <2>1 DEF CountOf
    <2> HIDE DEF z
    <2>3. QED
      BY <2>2, <1>2
  <1> HIDE DEF d, h, z
  <1>4. z < 0
    BY <1>1, <1>2
  <1>5. (0 - z - 1) * h = (0 - z * h) - h /\ (0 - z) * h = 0 - z * h /\ z * h \in Int
    BY <1>1, <1>2
  <1>6. CountOf(n, w) \in Nat /\ CountOf(n, w) > 1 /\ CountOf(n, w) - 2 = 0 - z - 1 /\ CountOf(n, w) - 1 = 0 - z
    BY <1>2, <1>3, <1>4
  <1>7. (0 - z - 1) * h < d /\ d <= (0 - z) * h
    BY <1>1, <1>2, <1>5
  <1>8. QED
    BY <1>6, <1>7 DEF d, h

LEMMA MoreHops ==
    ASSUME NEW a \in Nat, NEW b \in Nat, NEW h \in Nat, a <= b
    PROVE  a * h <= b * h
  OBVIOUS

LEMMA CountsWindows ==
    ASSUME NEW n \in Nat, NEW w, Plan(w), NEW s \in Seq(Nat), Tiled(s, n, w)
    PROVE  /\ CountOf(n, w) \in Nat
           /\ Len(s) <= CountOf(n, w)
           /\ Finished(s, n, w, "window") => Len(s) = CountOf(n, w)
  <1> DEFINE m == Len(s)
             c == CountOf(n, w)
             h == HopOf(w)
  <1>1. m \in Nat /\ h \in Nat \ {0} /\ w[1] \in Nat
    BY HopPositive DEF Plan
  <1>2. CASE WholeOf(n, w)
    <2>1. c = 1
      BY <1>2 DEF CountOf
    <2>2. m <= 1
      <3> SUFFICES ASSUME m > 1 PROVE FALSE
        BY <1>1
      <3>1. 1 \in 1 .. Len(s) - 1
        BY <1>1
      <3>2. QED
        BY <3>1, <1>2 DEF Tiled
    <2>3. Finished(s, n, w, "window") => m # 0
      BY DEF Finished
    <2> HIDE DEF m, c
    <2>4. c \in Nat /\ m <= c /\ (m # 0 => m = c)
      BY <2>1, <2>2, <1>1
    <2>5. QED
      BY <2>3, <2>4 DEF m, c
  <1>3. CASE ~WholeOf(n, w)
    <2>1. c \in Nat /\ c > 1 /\ (c - 2) * h < n - w[1] /\ n - w[1] <= (c - 1) * h
      BY <1>3, CountRounds
    <2>2. m > 1 => (m - 2) * h < n - w[1]
      <3> SUFFICES ASSUME m > 1 PROVE (m - 2) * h < n - w[1]
        OBVIOUS
      <3>1. m - 1 \in 1 .. Len(s) - 1 /\ m - 1 \in 1 .. Len(s) /\ (m - 1) - 1 = m - 2
        BY <1>1
      <3>2. s[m - 1] = (m - 2) * h /\ s[m - 1] + w[1] < n /\ s[m - 1] \in Nat
        BY <3>1 DEF Tiled
      <3>3. QED
        BY <3>2, <1>1
    <2>3. Finished(s, n, w, "window") => m > 0 /\ n - w[1] <= (m - 1) * h
      <3> SUFFICES ASSUME Finished(s, n, w, "window") PROVE m > 0 /\ n - w[1] <= (m - 1) * h
        OBVIOUS
      <3>1. m > 0 /\ EndOf(s[m], n, w) >= n
        BY <1>1 DEF Finished
      <3>2. s[m] = (m - 1) * h /\ s[m] \in Nat
        BY <3>1, <1>1 DEF Tiled
      <3>3. QED
        BY <3>1, <3>2, <1>1, <1>3 DEF EndOf
    <2> HIDE DEF m, c, h
    <2>4. m <= c
      <3> SUFFICES ASSUME m > c PROVE FALSE
        BY <1>1, <2>1
      <3>1. (c - 1) * h <= (m - 2) * h
        BY <1>1, <2>1, MoreHops
      <3>2. (c - 1) * h \in Int /\ (m - 2) * h \in Int
        BY <1>1, <2>1
      <3>3. QED
        BY <3>1, <3>2, <2>1, <2>2, <1>1
    <2>5. Finished(s, n, w, "window") => m >= c
      <3> SUFFICES ASSUME Finished(s, n, w, "window"), m < c PROVE FALSE
        BY <1>1, <2>1
      <3>1. (m - 1) * h <= (c - 2) * h
        BY <1>1, <2>1, <2>3, MoreHops
      <3>2. (c - 2) * h \in Int /\ (m - 1) * h \in Int /\ n - w[1] \in Int
        BY <1>1, <2>1
      <3>3. n - w[1] <= (m - 1) * h /\ (c - 2) * h < n - w[1]
        BY <2>1, <2>3
      <3>4. QED
        BY <3>1, <3>2, <3>3
    <2>6. QED
      BY <2>1, <2>4, <2>5, <1>1 DEF m, c
  <1>4. QED
    BY <1>2, <1>3

\* What a clip's windows cover when all of them are done.
LEMMA AllCovered ==
    ASSUME NEW n \in Nat, NEW w, Plan(w), NEW s \in Seq(Nat), Tiled(s, n, w),
           Finished(s, n, w, "window"), NEW j \in 0 .. n - 1
    PROVE  \E i \in 1 .. Len(s) : j \in WeightedOf(s[i], n, w)
  <1>1. EndOf(s[Len(s)], n, w) = n
    <2>1. s[Len(s)] \in Nat /\ w[1] \in Nat
      BY DEF Finished, Plan
    <2>2. QED
      BY <2>1 DEF Finished, EndOf
  <1>2. Covered(s, n, w)
    BY DEF Tiled, Finished
  <1>3. QED
    BY <1>1, <1>2 DEF Covered
-----------------------------------------------------------------------------
\* The routes, and what a request's route makes of it; none of this changes.
Names == UNION Modules
Kinds == {"one", "segments", "items", "pass", "window"}

Kind(name)       == Route[name].units
CountsOf(name)   == Kind(name) # "one" /\ name # "dialogue"
TotalOf(n, w, u) == IF u = "window" THEN CountOf(n, w) ELSE n

Form ==
    /\ routes \in Modules /\ window \in WindowPlans
    /\ route \in [Requests -> routes] /\ size \in [Requests -> Nat] /\ need \in [Requests -> Nat]
    /\ \A r \in Requests : size[r] \in Sizes(Route[route[r]]) /\ need[r] \in Route[route[r]].files

LEMMA RouteNames ==
    ASSUME NEW name \in Names
    PROVE  name \in {"whisper", "whisper_batch", "align", "align_batch", "stt", "stt_batch", "diar", "vad",
                     "embed", "enhance", "tts", "tts_batch", "sound_fx", "sound_fx_batch", "dialogue"}
  BY DEF Names, Modules, WhisperRoutes, AlignRoutes, SttRoutes, TtsRoutes, SoundFxRoutes

LEMMA RouteKinds ==
    /\ \A name \in Names : Kind(name) \in Kinds /\ (Route[name].whole => name = "whisper_batch")
    /\ Kind("diar") = "one" /\ Kind("whisper_batch") = "segments" /\ Kind("dialogue") = "pass"
  <1> USE DEF Kind, Kinds, Route
  <1>1. /\ Kind("whisper") = "one" /\ ~Route["whisper"].whole
        /\ Kind("whisper_batch") = "segments"
        /\ Kind("align") = "one" /\ ~Route["align"].whole
        /\ Kind("align_batch") = "segments" /\ ~Route["align_batch"].whole
    BY DEF Whisper, WhisperBatch, Align, AlignBatch, Segmented, Plain
  <1>2. /\ Kind("stt") = "one" /\ ~Route["stt"].whole
        /\ Kind("stt_batch") = "segments" /\ ~Route["stt_batch"].whole
        /\ Kind("diar") = "one" /\ ~Route["diar"].whole
        /\ Kind("vad") = "one" /\ ~Route["vad"].whole
        /\ Kind("embed") = "one" /\ ~Route["embed"].whole
        /\ Kind("enhance") = "window" /\ ~Route["enhance"].whole
    BY DEF Stt, SttBatch, Diar, Vad, Embed, Enhance, Segmented, Plain
  <1>3. /\ Kind("tts") = "one" /\ ~Route["tts"].whole
        /\ Kind("tts_batch") = "items" /\ ~Route["tts_batch"].whole
        /\ Kind("sound_fx") = "one" /\ ~Route["sound_fx"].whole
        /\ Kind("sound_fx_batch") = "pass" /\ ~Route["sound_fx_batch"].whole
        /\ Kind("dialogue") = "pass" /\ ~Route["dialogue"].whole
    BY DEF Tts, TtsBatch, SoundFx, SoundFxBatch, Dialogue, Plain
  <1> HIDE DEF Kind, Route
  <1>4. QED
    BY <1>1, <1>2, <1>3, RouteNames

LEMMA Forms ==
    ASSUME Form, NEW r \in Requests
    PROVE  /\ route[r] \in Names /\ Kind(route[r]) \in Kinds
           /\ size[r] \in Nat /\ (Kind(route[r]) = "one" => size[r] = 1)
           /\ Plan(window)
           /\ Windows(r) <=> Kind(route[r]) = "window"
           /\ Counts(r) <=> CountsOf(route[r])
           /\ Total(r) = TotalOf(size[r], window, Kind(route[r]))
  <1>1. route[r] \in Names
    BY DEF Form, Names
  <1>2. Kind(route[r]) \in Kinds
    BY <1>1, RouteKinds
  <1>3. size[r] \in Nat /\ (Kind(route[r]) = "one" => size[r] = 1)
    BY DEF Form, Sizes, Kind
  <1>4. Plan(window)
    BY JobAssumption, PlanAssumption DEF Form, Plan
  <1>5. Windows(r) <=> Kind(route[r]) = "window"
    BY DEF Windows, Of, Kind
  <1>6. Counts(r) <=> CountsOf(route[r])
    BY DEF Counts, CountsOf, Of, Kind
  <1>7. Total(r) = TotalOf(size[r], window, Kind(route[r]))
    BY <1>5 DEF Total, TotalOf, WindowCount, CountOf, Whole, WholeOf, Chunk, Overlap, Hop, HopOf
  <1>8. QED
    BY <1>1, <1>2, <1>3, <1>4, <1>5, <1>6, <1>7

LEMMA Results ==
    ASSUME Form, NEW r \in Requests, rows[r] \in Seq(Nat)
    PROVE  /\ AllDone(r) <=> Finished(rows[r], size[r], window, Kind(route[r]))
           /\ Rows(r) = IF Kind(route[r]) = "pass" THEN [i \in 1 .. size[r] |-> i]
                        ELSE Append(rows[r], NextRow(rows[r], window, Kind(route[r])))
  <1>1. Windows(r) <=> Kind(route[r]) = "window"
    BY Forms
  <1>2. rows[r] # <<>> => Last(rows[r]) = rows[r][Len(rows[r])]
    BY DEF Last
  <1>3. AllDone(r) <=> Finished(rows[r], size[r], window, Kind(route[r]))
    BY <1>1, <1>2 DEF AllDone, AllWindows, Finished, End, EndOf, Whole, WholeOf, Chunk
  <1>4. Rows(r) = IF Kind(route[r]) = "pass" THEN [i \in 1 .. size[r] |-> i]
                  ELSE Append(rows[r], NextRow(rows[r], window, Kind(route[r])))
    BY <1>1, <1>2 DEF Rows, NextRow, NextWindow, Hop, HopOf, Chunk, Overlap, Of, Kind
  <1>5. QED
    BY <1>3, <1>4
-----------------------------------------------------------------------------
\* Progress.
Stages  == {"none", "decode", "work", "encode", "done", "segmentation", "speaker_counting", "embeddings"}
Reports == [stage : Stages, done : Nat \cup {Absent}, total : Nat \cup {Absent}]

Reported(p, stage, done, total) ==
    LET q == StageCounts(p, stage)
    IN  [q EXCEPT !.done = IF done = Absent THEN @ ELSE done,
                  !.total = IF total = Absent THEN @ ELSE total]

\* A report of work counts the results there are; another, the units of its own stage.
Honest(p, s, n, w, name) ==
    /\ p \in Reports
    /\ p.stage = "work" => /\ CountsOf(name)
                           /\ p.done = Len(s) /\ p.total = TotalOf(n, w, Kind(name))
    /\ p.stage # "work" /\ p.total # Absent => p.total \in UnitsOf(p.stage) /\ p.done \in 0 .. p.total

LEMMA ReportIs ==
    ASSUME NEW r, NEW stage, NEW done, NEW total, Report(r, stage, done, total)
    PROVE  prog' = [prog EXCEPT ![r] = Reported(prog[r], stage, done, total)]
  BY DEF Report, Reported

LEMMA TotalReplaced ==
    ASSUME NEW a, NEW b, NEW c, NEW t
    PROVE  [[stage |-> a, done |-> b, total |-> c] EXCEPT !.total = t]
                = [stage |-> a, done |-> b, total |-> t]
  OBVIOUS

LEMMA Replaced ==
    ASSUME NEW q \in Reports, NEW d, NEW t
    PROVE  [q EXCEPT !.done = d, !.total = t] = [stage |-> q.stage, done |-> d, total |-> t]
  <1> DEFINE x == [q EXCEPT !.done = d]
  <1>1. x = [stage |-> q.stage, done |-> d, total |-> q.total]
    BY DEF Reports
  <1>2. [q EXCEPT !.done = d, !.total = t] = [x EXCEPT !.total = t]
    BY Zenon
  <1> HIDE DEF x
  <1>3. [x EXCEPT !.total = t] = [stage |-> q.stage, done |-> d, total |-> t]
    BY <1>1, TotalReplaced
  <1>4. QED
    BY <1>2, <1>3

LEMMA ReportWork ==
    ASSUME NEW p \in Reports, NEW d \in Nat, NEW t \in Nat
    PROVE  Reported(p, "work", d, t) = [stage |-> "work", done |-> d, total |-> t]
  <1>1. StageCounts(p, "work") \in Reports /\ StageCounts(p, "work").stage = "work"
    BY DEF StageCounts, Reports, Stages
  <1>2. d # Absent /\ t # Absent
    BY DEF Absent
  <1>3. QED
    BY <1>1, <1>2, Replaced DEF Reported

LEMMA ReportStage ==
    ASSUME NEW p, NEW s, NEW n, NEW w, NEW name, Honest(p, s, n, w, name),
           NEW stage \in Stages \ {"work"}
    PROVE  Honest(Reported(p, stage, Absent, Absent), s, n, w, name)
  <1>1. p \in Reports
    BY DEF Honest
  <1>2. Reported(p, stage, Absent, Absent) = StageCounts(p, stage)
    BY <1>1 DEF Reported, StageCounts, Reports
  <1>3. CASE p.stage = stage
    BY <1>2, <1>3 DEF StageCounts
  <1>4. CASE p.stage # stage
    <2>1. Reported(p, stage, Absent, Absent) = [stage |-> stage, done |-> Absent, total |-> Absent]
      BY <1>2, <1>4 DEF StageCounts
    <2>2. QED
      BY <2>1 DEF Honest, Reports
  <1>5. QED
    BY <1>3, <1>4

LEMMA ReportUnits ==
    ASSUME NEW p \in Reports, NEW s, NEW n, NEW w, NEW name,
           NEW stage \in Stages \ {"work"}, NEW total \in UnitsOf(stage), NEW done \in 0 .. 2, done <= total
    PROVE  Honest(Reported(p, stage, done, total), s, n, w, name)
  <1>1. total \in Nat
    BY DEF UnitsOf
  <1>2. done # Absent /\ total # Absent /\ done \in 0 .. total
    BY <1>1 DEF Absent
  <1>3. StageCounts(p, stage) \in Reports /\ StageCounts(p, stage).stage = stage
    BY DEF StageCounts, Reports
  <1>4. Reported(p, stage, done, total) = [stage |-> stage, done |-> done, total |-> total]
    BY <1>2, <1>3, Replaced DEF Reported
  <1>5. QED
    BY <1>1, <1>2, <1>4 DEF Honest, Reports
-----------------------------------------------------------------------------
\* The invariant of the work.
Working == {"open", "next", "files", "engine", "drop", "close", "settle"}
Early   == {"new", "read", "decode", "decoding", "spill", "dispatch", "queued", "open"}

WorkTypes ==
    /\ ready \in BOOLEAN /\ line \in Seq(Requests)
    /\ cancel \in [Requests -> BOOLEAN] /\ again \in [Requests -> BOOLEAN]
    /\ rows \in [Requests -> Seq(Nat)] /\ prog \in [Requests -> Reports]

\* The line is of those queued or at work, each there once; who is at work heads it.
LineInv ==
    /\ \A i, j \in 1 .. Len(line) : line[i] = line[j] => i = j
    /\ \A i \in 1 .. Len(line) : at[line[i]] \in Working \cup {"queued"}
    /\ \A r \in Requests : at[r] \in Working => line # <<>> /\ line[1] = r

RowsInv ==
    \A r \in Requests : /\ RowsGood(rows[r], size[r], window, Kind(route[r]))
                        /\ at[r] \in Early => rows[r] = <<>>

\* A unit begins only if one is left, and a job ends well only if none is.
DoneInv ==
    \A r \in Requests :
        /\ at[r] \in {"files", "engine", "drop"} => ~Finished(rows[r], size[r], window, Kind(route[r]))
        /\ (at[r] \in {"close", "settle"} /\ res[r] = "ok") \/ at[r] = "succeeded"
               => Finished(rows[r], size[r], window, Kind(route[r]))

ProgInv ==
    \A r \in Requests :
        /\ Honest(prog[r], rows[r], size[r], window, route[r])
        /\ CountsOf(route[r]) /\ ( \/ at[r] \in {"next", "files", "engine", "drop"}
                                   \/ at[r] = "open" /\ Kind(route[r]) # "window" )
               => prog[r].stage = "work"

WorkInv == Form /\ WorkTypes /\ LineInv /\ RowsInv /\ DoneInv /\ ProgInv
-----------------------------------------------------------------------------
\* What a step of a request leaves alone.
LEMMA Fixed ==
    ASSUME NEW r, Handler(r) \/ Cancel(r) \/ Job(r)
    PROVE  UNCHANGED <<routes, window, ready, route, size, need>>
  <1> USE DEF Keeps, formVars
  <1>1. CASE Handler(r)
    BY <1>1 DEF Handler, Ask, Read, DecodeInMemory, DecodeWrites, DecodeEnds, Spill,
               DispatchBusy, DispatchRaises, Dispatch
  <1>2. CASE Cancel(r)
    BY <1>2 DEF Cancel, CancelQueued, CancelRunning
  <1>3. CASE JobStart(r) \/ JobOpen(r) \/ JobNext(r) \/ JobFinish(r) \/ UnitEmpty(r)
    BY <1>3 DEF JobStart, JobOpen, JobNext, JobFinish, UnitEmpty
  <1>4. CASE UnitWrites(r) \/ UnitBegins(r) \/ EngineWorks(r) \/ EngineRaises(r) \/ EngineStops(r)
    BY <1>4 DEF UnitWrites, UnitBegins, EngineWorks, EngineRaises, EngineStops, Engine
  <1>5. CASE Hook(r) \/ EngineRetries(r) \/ UnitDrops(r) \/ JobClose(r) \/ JobSettle(r)
    BY <1>5 DEF Hook, EngineRetries, UnitDrops, JobClose, JobSettle
  <1>6. QED
    BY <1>1, <1>2, <1>3, <1>4, <1>5 DEF Job

LEMMA FormKeeps ==
    ASSUME Form, UNCHANGED <<routes, window, route, size, need>>
    PROVE  Form'
  BY DEF Form

LEMMA RemovedAt ==
    ASSUME NEW S, NEW q \in Seq(S), NEW k \in 1 .. Len(q)
    PROVE  /\ RemoveAt(q, k) \in Seq(S) /\ Len(RemoveAt(q, k)) = Len(q) - 1
           /\ \A i \in 1 .. Len(q) - 1 : RemoveAt(q, k)[i] = IF i < k THEN q[i] ELSE q[i + 1]
  <1> DEFINE a == SubSeq(q, 1, k - 1)
             b == SubSeq(q, k + 1, Len(q))
  <1>1. Len(q) \in Nat /\ k \in Nat \ {0} /\ k <= Len(q)
    OBVIOUS
  <1>2. a \in Seq(S) /\ Len(a) = k - 1 /\ \A i \in 1 .. k - 1 : a[i] = q[i]
    BY <1>1
  <1>3. b \in Seq(S) /\ Len(b) = Len(q) - k /\ \A i \in 1 .. Len(q) - k : b[i] = q[k + i]
    BY <1>1
  <1>4. RemoveAt(q, k) = a \o b
    BY DEF RemoveAt
  <1> HIDE DEF a, b
  <1>5. /\ a \o b \in Seq(S) /\ Len(a \o b) = Len(a) + Len(b)
        /\ \A i \in 1 .. Len(a) + Len(b) : (a \o b)[i] = IF i <= Len(a) THEN a[i] ELSE b[i - Len(a)]
    <2>1. a \in Seq(S) /\ b \in Seq(S)
      BY <1>2, <1>3
    <2>2. a \o b \in Seq(S) /\ Len(a \o b) = Len(a) + Len(b)
      BY <2>1
    <2>3. \A i \in 1 .. Len(a) + Len(b) : (a \o b)[i] = IF i <= Len(a) THEN a[i] ELSE b[i - Len(a)]
      BY <2>1
    <2>4. QED
      BY <2>2, <2>3
  <1>6. ASSUME NEW i \in 1 .. Len(q) - 1
        PROVE  (a \o b)[i] = IF i < k THEN q[i] ELSE q[i + 1]
    BY <1>1, <1>2, <1>3, <1>5
  <1>7. QED
    BY <1>1, <1>2, <1>3, <1>4, <1>5, <1>6

\* A request moves, and the line stays as it is.
LEMMA LineStays ==
    ASSUME WorkTypes, TempTypes, LineInv, NEW r \in Requests, NEW to, line' = line,
           at' = [at EXCEPT ![r] = to],
           at[r] \in Working \cup {"queued"} => to \in Working \cup {"queued"},
           to \in Working => at[r] \in Working
    PROVE  LineInv'
  BY DEF WorkTypes, TempTypes, LineInv

\* The results stay as they are.
LEMMA RowsStay ==
    ASSUME TempTypes, RowsInv, UNCHANGED <<window, route, size>>, rows' = rows,
           NEW r \in Requests, NEW to, at' = [at EXCEPT ![r] = to], to \in Early => at[r] \in Early
    PROVE  RowsInv'
  BY DEF TempTypes, RowsInv

\* The handler moves requests on, none of them into a job.
LEMMA HandlerWorks ==
    ASSUME TempInv, WorkInv, NEW r \in Requests, Handler(r) \/ Cancel(r)
    PROVE  WorkInv'
  <1> DEFINE Moved(from, to) == /\ at[r] \in from /\ at' = [at EXCEPT ![r] = to]
                                /\ UNCHANGED <<cancel, res, again, rows, prog>>
             A == {"new", "read", "decode", "decoding", "spill", "dispatch"}
             B == A \cup {"400", "500", "503", "raised"}
  <1> USE DEF TempInv, WorkInv
  <1>1. UNCHANGED <<routes, window, ready, route, size, need>> /\ Form'
    BY Fixed, FormKeeps
  <1>2. \/ line' = line /\ \E to \in B : Moved(A, to)
        \/ Dispatch(r) \/ CancelQueued(r) \/ CancelRunning(r)
    <2> USE DEF Go, Keeps, jobVars
    <2>1. CASE Ask(r) \/ Read(r)
      BY <2>1 DEF Ask, Read
    <2>2. CASE DecodeInMemory(r) \/ DecodeWrites(r) \/ DecodeEnds(r)
      BY <2>2 DEF DecodeInMemory, DecodeWrites, DecodeEnds
    <2>3. CASE Spill(r) \/ DispatchBusy(r) \/ DispatchRaises(r)
      BY <2>3 DEF Spill, DispatchBusy, DispatchRaises
    <2>4. QED
      BY <2>1, <2>2, <2>3 DEF Handler, Cancel
  <1>3. ASSUME line' = line, NEW to \in B, Moved(A, to)
        PROVE  WorkInv'
    <2>1. WorkTypes'
      BY <1>1, <1>3 DEF WorkTypes, Dispatch
    <2>2. LineInv'
      BY <1>3, LineStays DEF Working
    <2>3. RowsInv'
      BY <1>1, <1>3, RowsStay DEF Early
    <2>4. DoneInv'
      BY <1>1, <1>3 DEF DoneInv, TempTypes
    <2>5. ProgInv'
      BY <1>1, <1>3 DEF ProgInv, TempTypes
    <2>6. QED
      BY <1>1, <2>1, <2>2, <2>3, <2>4, <2>5
  <1>4. CASE Dispatch(r)
    <2>1. /\ at[r] = "dispatch" /\ at' = [at EXCEPT ![r] = "queued"] /\ line' = Append(line, r)
          /\ UNCHANGED <<cancel, res, again, rows, prog>>
      BY <1>4 DEF Dispatch, Go, jobVars
    <2>2. WorkTypes'
      BY <1>4, <2>1 DEF WorkTypes, Dispatch, Keeps
    <2>3. LineInv'
      <3>1. /\ Len(line) \in Nat /\ Len(line') = Len(line) + 1 /\ line'[Len(line) + 1] = r
            /\ \A i \in 1 .. Len(line) : line'[i] = line[i] /\ line[i] \in Requests
        BY <2>1 DEF WorkTypes
      <3>2. \A i \in 1 .. Len(line) : line[i] # r
        BY <2>1 DEF LineInv, Working
      <3>3. /\ at'[r] = "queued" /\ "queued" \notin Working
            /\ \A s \in Requests : s # r => at'[s] = at[s]
        BY <2>1 DEF TempTypes, Working
      <3>4. \A i, j \in 1 .. Len(line') : line'[i] = line'[j] => i = j
        BY <3>1, <3>2 DEF LineInv
      <3>5. \A i \in 1 .. Len(line') : at'[line'[i]] \in Working \cup {"queued"}
        BY <3>1, <3>2, <3>3 DEF LineInv
      <3>6. \A s \in Requests : at'[s] \in Working => line' # <<>> /\ line'[1] = s
        <4>1. TAKE s \in Requests
        <4>2. SUFFICES ASSUME at'[s] \in Working PROVE line' # <<>> /\ line'[1] = s
          OBVIOUS
        <4>3. at[s] \in Working
          BY <3>3, <4>2
        <4>4. line # <<>> /\ line[1] = s
          BY <4>3 DEF LineInv
        <4>5. 1 \in 1 .. Len(line)
          BY <4>4 DEF WorkTypes
        <4>6. line'[1] = s /\ Len(line') # 0
          BY <4>4, <4>5, <3>1
        <4>7. QED
          BY <4>6
      <3>7. QED
        BY <3>4, <3>5, <3>6 DEF LineInv
    <2>4. RowsInv'
      BY <1>1, <2>1, RowsStay DEF Early
    <2>5. DoneInv'
      BY <1>1, <2>1 DEF DoneInv, TempTypes
    <2>6. ProgInv'
      BY <1>1, <2>1 DEF ProgInv, TempTypes
    <2>7. QED
      BY <1>1, <2>2, <2>3, <2>4, <2>5, <2>6
  <1>5. CASE CancelQueued(r)
    <2>1. /\ at[r] = "queued" /\ at' = [at EXCEPT ![r] = "canceled"]
          /\ UNCHANGED <<ready, cancel, res, again, rows, prog>>
      BY <1>5 DEF CancelQueued, Go, jobVars, Keeps
    <2>2. PICK k \in 1 .. Len(line) : line[k] = r /\ line' = RemoveAt(line, k)
      <3>1. \E i \in DOMAIN line : line[i] = r /\ line' = RemoveAt(line, i)
        BY <1>5, Zenon DEF CancelQueued
      <3>2. DOMAIN line = 1 .. Len(line)
        BY DEF WorkTypes
      <3>3. QED
        BY <3>1, <3>2, Zenon
    <2>3. /\ Len(line) \in Nat /\ Len(line') = Len(line) - 1 /\ line' \in Seq(Requests)
          /\ \A i \in 1 .. Len(line) - 1 : line'[i] = IF i < k THEN line[i] ELSE line[i + 1]
      <3>1. line \in Seq(Requests)
        BY DEF WorkTypes
      <3>2. /\ RemoveAt(line, k) \in Seq(Requests) /\ Len(RemoveAt(line, k)) = Len(line) - 1
            /\ \A i \in 1 .. Len(line) - 1 : RemoveAt(line, k)[i] = IF i < k THEN line[i] ELSE line[i + 1]
        BY <3>1, <2>2, RemovedAt
      <3>3. Len(line) \in Nat
        BY <3>1
      <3>4. QED
        BY <3>2, <3>3, <2>2
    <2>4. WorkTypes'
      BY <2>1, <2>3 DEF WorkTypes
    <2>5. LineInv'
      <3>1. \A i, j \in 1 .. Len(line') : line'[i] = line'[j] => i = j
        BY <2>3 DEF LineInv
      <3>2. \A i \in 1 .. Len(line') : line'[i] # r /\ line'[i] \in Requests /\ at[line'[i]] \in Working \cup {"queued"}
        <4>1. TAKE i \in 1 .. Len(line')
        <4>2. i \in 1 .. Len(line) /\ i + 1 \in 1 .. Len(line) /\ line'[i] = IF i < k THEN line[i] ELSE line[i + 1]
          BY <2>3
        <4>3. PICK m \in 1 .. Len(line) : m # k /\ line'[i] = line[m]
          BY <4>2, <2>2
        <4>4. line[m] # r
          BY <4>3, <2>2 DEF LineInv
        <4>5. QED
          BY <4>3, <4>4 DEF LineInv, WorkTypes
      <3>3. \A i \in 1 .. Len(line') : at'[line'[i]] \in Working \cup {"queued"}
        BY <3>2, <2>1 DEF TempTypes
      <3>4. \A s \in Requests : at'[s] \in Working => line' # <<>> /\ line'[1] = s
        <4>1. TAKE s \in Requests
        <4>2. SUFFICES ASSUME at'[s] \in Working PROVE line' # <<>> /\ line'[1] = s
          OBVIOUS
        <4>3. at[s] \in Working /\ s # r
          BY <2>1, <4>2 DEF TempTypes, Working
        <4>4. line[1] = s
          BY <4>3 DEF LineInv
        <4>5. k # 1 /\ Len(line) > 1
          BY <4>3, <4>4, <2>2, <2>3
        <4>6. line'[1] = s /\ Len(line') > 0
          BY <4>4, <4>5, <2>3
        <4>7. QED
          BY <4>6, <2>3
      <3>5. QED
        BY <3>1, <3>3, <3>4 DEF LineInv
    <2>6. RowsInv'
      BY <1>1, <2>1, RowsStay DEF Early
    <2>7. DoneInv'
      BY <1>1, <2>1 DEF DoneInv, TempTypes
    <2>8. ProgInv'
      BY <1>1, <2>1 DEF ProgInv, TempTypes
    <2>9. QED
      BY <1>1, <2>4, <2>5, <2>6, <2>7, <2>8
  <1>6. CASE CancelRunning(r)
    <2>1. UNCHANGED <<ready, line, at, res, again, rows, prog>> /\ cancel' = [cancel EXCEPT ![r] = TRUE]
      BY <1>6 DEF CancelRunning, Keeps, jobVars
    <2>2. WorkTypes' /\ LineInv'
      BY <2>1 DEF WorkTypes, LineInv
    <2>3. RowsInv' /\ DoneInv' /\ ProgInv'
      BY <1>1, <2>1 DEF RowsInv, DoneInv, ProgInv
    <2>4. QED
      BY <1>1, <2>2, <2>3
  <1>7. QED
    BY <1>2, <1>3, <1>4, <1>5, <1>6

LEMMA TotalNat ==
    ASSUME NEW n \in Nat, NEW w, Plan(w), NEW u
    PROVE  TotalOf(n, w, u) \in Nat
  <1>1. CountOf(n, w) \in Nat
    <2>1. CASE WholeOf(n, w)
      BY <2>1 DEF CountOf
    <2>2. QED
      BY <2>1, CountRounds
  <1>2. QED
    BY <1>1 DEF TotalOf

LEMMA WorkHonest ==
    ASSUME NEW s \in Seq(Nat), NEW n \in Nat, NEW w, Plan(w), NEW name, CountsOf(name), NEW p \in Reports
    PROVE  /\ Honest(Reported(p, "work", Len(s), TotalOf(n, w, Kind(name))), s, n, w, name)
           /\ Reported(p, "work", Len(s), TotalOf(n, w, Kind(name))).stage = "work"
  <1>1. Len(s) \in Nat /\ TotalOf(n, w, Kind(name)) \in Nat
    BY TotalNat
  <1>2. Reported(p, "work", Len(s), TotalOf(n, w, Kind(name)))
            = [stage |-> "work", done |-> Len(s), total |-> TotalOf(n, w, Kind(name))]
    BY <1>1, ReportWork
  <1>3. QED
    BY <1>1, <1>2 DEF Honest, Reports, Stages

\* The counts of a stage outlive the results they were not about.
LEMMA StillHonest ==
    ASSUME NEW p, NEW s, NEW t, NEW n, NEW w, NEW name, Honest(p, s, n, w, name), ~CountsOf(name)
    PROVE  Honest(p, t, n, w, name)
  BY DEF Honest

LEMMA ProgMoves ==
    ASSUME WorkInv, TempTypes, UNCHANGED <<window, size, route>>,
           NEW r \in Requests, NEW x, prog' = [prog EXCEPT ![r] = x],
           \A s \in Requests : s # r => rows'[s] = rows[s] /\ at'[s] = at[s],
           Honest(x, rows'[r], size[r], window, route[r]),
           CountsOf(route[r]) /\ ( \/ at'[r] \in {"next", "files", "engine", "drop"}
                                   \/ at'[r] = "open" /\ Kind(route[r]) # "window" )
               => x.stage = "work"
    PROVE  ProgInv' /\ prog' \in [Requests -> Reports]
  <1>1. prog'[r] = x /\ \A s \in Requests : s # r => prog'[s] = prog[s]
    BY DEF WorkInv, WorkTypes
  <1>2. x \in Reports
    BY DEF Honest
  <1>3. ProgInv'
    BY <1>1 DEF WorkInv, ProgInv
  <1>4. QED
    BY <1>2, <1>3 DEF WorkInv, WorkTypes

\* A unit that is over has its row, and progress says so if it counts.
LEMMA UnitAdds ==
    ASSUME TempInv, WorkInv, NEW r \in Requests, ~AllDone(r), UnitEnds(r),
           UNCHANGED <<window, size, route>>, at' = [at EXCEPT ![r] = "next"]
    PROVE  /\ rows' \in [Requests -> Seq(Nat)] /\ prog' \in [Requests -> Reports]
           /\ \A s \in Requests : s # r => rows'[s] = rows[s]
           /\ RowsInv' /\ ProgInv'
  <1> DEFINE x == Rows(r)
  <1>1. Form /\ WorkTypes /\ rows[r] \in Seq(Nat) /\ prog[r] \in Reports /\ RowsInv /\ ProgInv
    BY DEF WorkInv, WorkTypes
  <1>2. /\ size[r] \in Nat /\ Plan(window) /\ (Counts(r) <=> CountsOf(route[r]))
        /\ Total(r) = TotalOf(size[r], window, Kind(route[r]))
    BY <1>1, Forms
  <1>3. RowsGood(x, size[r], window, Kind(route[r])) /\ x \in Seq(Nat)
    <2>1. RowsGood(rows[r], size[r], window, Kind(route[r]))
      BY <1>1 DEF RowsInv
    <2>2. ~Finished(rows[r], size[r], window, Kind(route[r]))
      BY <1>1, Results
    <2>3. CASE Kind(route[r]) = "pass"
      <3>1. x = [i \in 1 .. size[r] |-> i]
        BY <1>1, <2>3, Results
      <3>2. RowsGood(x, size[r], window, Kind(route[r]))
        BY <3>1, <2>3, <1>2, PassAdded
      <3>3. QED
        BY <3>2 DEF RowsGood
    <2>4. CASE Kind(route[r]) # "pass"
      <3>1. x = Append(rows[r], NextRow(rows[r], window, Kind(route[r])))
        BY <1>1, <2>4, Results
      <3>2. RowsGood(x, size[r], window, Kind(route[r]))
        BY <3>1, <2>1, <2>2, <1>2, RowAdded
      <3>3. QED
        BY <3>2 DEF RowsGood
    <2>5. QED
      BY <2>3, <2>4
  <1>4. rows' = [rows EXCEPT ![r] = x]
    BY DEF UnitEnds
  <1>5. rows'[r] = x /\ \A s \in Requests : s # r => rows'[s] = rows[s]
    BY <1>1, <1>4 DEF WorkTypes
  <1>6. at'[r] = "next" /\ \A s \in Requests : s # r => at'[s] = at[s]
    BY DEF TempInv, TempTypes
  <1>7. ProgInv' /\ prog' \in [Requests -> Reports]
    <2>1. CASE Counts(r)
      <3>1. Report(r, "work", Len(x), Total(r))
        BY <2>1 DEF UnitEnds
      <3>2. prog' = [prog EXCEPT ![r] = Reported(prog[r], "work", Len(x), TotalOf(size[r], window, Kind(route[r])))]
        BY <3>1, <1>2, ReportIs
      <3>3. /\ Honest(Reported(prog[r], "work", Len(x), TotalOf(size[r], window, Kind(route[r]))),
                      x, size[r], window, route[r])
            /\ Reported(prog[r], "work", Len(x), TotalOf(size[r], window, Kind(route[r]))).stage = "work"
        BY <1>1, <1>2, <1>3, <2>1, WorkHonest
      <3> HIDE DEF x
      <3>4. QED
        BY <3>2, <3>3, <1>5, <1>6, ProgMoves DEF TempInv
    <2>2. CASE ~Counts(r)
      <3>1. prog' = prog
        BY <2>2 DEF UnitEnds
      <3>2. Honest(prog[r], rows[r], size[r], window, route[r])
        BY <1>1 DEF ProgInv
      <3>3. Honest(prog[r], x, size[r], window, route[r])
        BY <3>2, <2>2, <1>2, StillHonest
      <3>4. prog' = [prog EXCEPT ![r] = prog[r]]
        BY <3>1, <1>1 DEF WorkTypes
      <3> HIDE DEF x
      <3>5. QED
        BY <3>3, <3>4, <2>2, <1>2, <1>5, <1>6, ProgMoves DEF TempInv
    <2>3. QED
      BY <2>1, <2>2
  <1>8. RowsInv'
    BY <1>1, <1>3, <1>5, <1>6 DEF RowsInv, Early
  <1>9. rows' \in [Requests -> Seq(Nat)]
    BY <1>1, <1>3, <1>4 DEF WorkTypes
  <1>10. QED
    BY <1>5, <1>7, <1>8, <1>9

\* The job is announced, and opened.
LEMMA JobBegins ==
    ASSUME TempInv, WorkInv, NEW r \in Requests, JobStart(r) \/ JobOpen(r)
    PROVE  WorkInv'
  <1> USE DEF TempInv, WorkInv
  <1>1. UNCHANGED <<routes, window, ready, route, size, need>> /\ Form'
    BY Fixed, FormKeeps DEF Job
  <1>2. /\ Form /\ WorkTypes /\ rows[r] \in Seq(Nat) /\ prog[r] \in Reports
        /\ Honest(prog[r], rows[r], size[r], window, route[r])
    BY DEF WorkTypes, ProgInv
  <1>3. /\ size[r] \in Nat /\ Plan(window) /\ (Counts(r) <=> CountsOf(route[r]))
        /\ (Windows(r) <=> Kind(route[r]) = "window")
        /\ Total(r) = TotalOf(size[r], window, Kind(route[r]))
    BY Forms
  <1>4. Len(<<>>) = 0 /\ (rows[r] = <<>> => Len(rows[r]) = 0)
    OBVIOUS
  <1>5. CASE JobStart(r)
    <2>1. /\ at[r] = "queued" /\ at' = [at EXCEPT ![r] = "open"] /\ line # <<>> /\ line[1] = r
          /\ UNCHANGED <<line, cancel, res, again, rows>>
      BY <1>5 DEF JobStart, Go
    <2>2. rows[r] = <<>>
      BY <2>1 DEF RowsInv, Early
    <2>3. \A s \in Requests : s # r => rows'[s] = rows[s] /\ at'[s] = at[s]
      BY <2>1 DEF TempTypes
    <2>4. ProgInv' /\ prog' \in [Requests -> Reports]
      <3>1. CASE Counts(r) /\ ~Windows(r)
        <4> DEFINE x == Reported(prog[r], "work", Len(rows[r]), TotalOf(size[r], window, Kind(route[r])))
        <4>1. Report(r, "work", 0, Total(r))
          BY <1>5, <3>1 DEF JobStart
        <4>2. prog' = [prog EXCEPT ![r] = x]
          BY <4>1, <2>2, <1>3, <1>4, ReportIs
        <4>3. Honest(x, rows[r], size[r], window, route[r]) /\ x.stage = "work"
          BY <1>2, <1>3, <3>1, WorkHonest
        <4> HIDE DEF x
        <4>4. QED
          BY <4>2, <4>3, <2>1, <2>3, <1>1, ProgMoves
      <3>2. CASE ~(Counts(r) /\ ~Windows(r))
        <4> DEFINE x == Reported(prog[r], "decode", Absent, Absent)
        <4>1. Report(r, "decode", Absent, Absent)
          BY <1>5, <3>2 DEF JobStart
        <4>2. prog' = [prog EXCEPT ![r] = x]
          BY <4>1, ReportIs
        <4>3. Honest(x, rows[r], size[r], window, route[r])
          BY <1>2, ReportStage DEF Stages
        <4>4. at'[r] = "open"
          BY <2>1 DEF TempTypes
        <4> HIDE DEF x
        <4>5. QED
          BY <4>2, <4>3, <4>4, <2>1, <2>3, <1>1, <1>3, <3>2, ProgMoves
      <3>3. QED
        BY <3>1, <3>2
    <2>5. WorkTypes'
      BY <2>1, <2>4, <1>1 DEF WorkTypes
    <2>6. LineInv'
      <3>1. \A s \in Requests : s # r => at[s] \notin Working
        BY <2>1 DEF LineInv
      <3>2. QED
        BY <3>1, <2>1 DEF LineInv, WorkTypes, TempTypes, Working
    <2>7. RowsInv'
      BY <1>1, <2>1, RowsStay DEF Early
    <2>8. DoneInv'
      BY <1>1, <2>1 DEF DoneInv, TempTypes
    <2>9. QED
      BY <1>1, <2>4, <2>5, <2>6, <2>7, <2>8
  <1>6. CASE JobOpen(r)
    <2>1. /\ at[r] = "open" /\ UNCHANGED <<line, cancel, again, rows>>
          /\ \/ at' = [at EXCEPT ![r] = "next"] /\ res' = res
             \/ (\E to \in {"close", "settle"} : at' = [at EXCEPT ![r] = to])
                /\ res' = [res EXCEPT ![r] = "error"]
      BY <1>6 DEF JobOpen, Go, Res
    <2>2. PICK to \in {"next", "close", "settle"} :
              /\ at' = [at EXCEPT ![r] = to]
              /\ IF to = "next" THEN res' = res ELSE res' = [res EXCEPT ![r] = "error"]
      BY <2>1
    <2>3. rows[r] = <<>>
      BY <2>1 DEF RowsInv, Early
    <2>4. at'[r] = to /\ \A s \in Requests : s # r => rows'[s] = rows[s] /\ at'[s] = at[s]
      BY <2>1, <2>2 DEF TempTypes
    <2>5. ProgInv' /\ prog' \in [Requests -> Reports]
      <3>1. CASE Windows(r) /\ to = "next"
        <4> DEFINE x == Reported(prog[r], "work", Len(rows[r]), TotalOf(size[r], window, Kind(route[r])))
        <4>1. Report(r, "work", 0, Total(r))
          BY <1>6, <2>4, <3>1 DEF JobOpen
        <4>2. prog' = [prog EXCEPT ![r] = x]
          BY <4>1, <2>3, <1>3, <1>4, ReportIs
        <4>3. CountsOf(route[r])
          <5>1. route[r] # "dialogue"
            BY <1>3, <3>1, RouteKinds
          <5>2. QED
            BY <5>1, <1>3, <3>1 DEF CountsOf
        <4>4. Honest(x, rows[r], size[r], window, route[r]) /\ x.stage = "work"
          BY <1>2, <1>3, <4>3, WorkHonest
        <4> HIDE DEF x
        <4>5. QED
          BY <4>2, <4>4, <2>1, <2>4, <1>1, ProgMoves
      <3>2. CASE ~(Windows(r) /\ to = "next")
        <4>1. prog' = prog
          BY <1>6, <2>4, <3>2 DEF JobOpen
        <4>2. prog' = [prog EXCEPT ![r] = prog[r]]
          BY <4>1 DEF WorkTypes
        <4>3. to = "next" => (CountsOf(route[r]) => prog[r].stage = "work")
          BY <3>2, <2>1, <1>3 DEF ProgInv
        <4>4. QED
          BY <4>2, <4>3, <2>1, <2>2, <2>4, <1>1, <1>2, ProgMoves
      <3>3. QED
        BY <3>1, <3>2
    <2>6. WorkTypes'
      BY <2>1, <2>5, <1>1 DEF WorkTypes
    <2>7. LineInv'
      BY <2>1, <2>2, LineStays DEF Working
    <2>8. RowsInv'
      BY <1>1, <2>1, <2>2, RowsStay DEF Early
    <2>9. DoneInv'
      <3>1. to # "next" => res'[r] = "error"
        BY <2>2 DEF TempTypes
      <3>2. \A s \in Requests : s # r => res'[s] = res[s]
        BY <2>2 DEF TempTypes
      <3>3. QED
        BY <1>1, <2>1, <2>4, <3>1, <3>2 DEF DoneInv
    <2>10. QED
      BY <1>1, <2>5, <2>6, <2>7, <2>8, <2>9
  <1>7. QED
    BY <1>5, <1>6

\* Between the opening and the end a job moves with its results and its progress as they are.
LEMMA JobMoves ==
    ASSUME TempInv, WorkInv, NEW r \in Requests, Job(r),
           UNCHANGED <<line, cancel, rows, prog>>, again' \in [Requests -> BOOLEAN],
           NEW to \in Working \ {"open"}, at' = [at EXCEPT ![r] = to], at[r] \in Working \ {"open"},
           NEW o, res' = [res EXCEPT ![r] = o],
           to \in {"files", "engine", "drop"} => ~Finished(rows[r], size[r], window, Kind(route[r])),
           to \in {"close", "settle"} /\ o = "ok" => Finished(rows[r], size[r], window, Kind(route[r])),
           to \in {"next", "files", "engine", "drop"} => at[r] \in {"next", "files", "engine", "drop"}
    PROVE  WorkInv'
  <1> USE DEF TempInv, WorkInv
  <1>1. UNCHANGED <<routes, window, ready, route, size, need>> /\ Form'
    BY Fixed, FormKeeps
  <1>2. /\ at'[r] = to /\ res'[r] = o
        /\ \A s \in Requests : s # r => at'[s] = at[s] /\ res'[s] = res[s]
    BY DEF TempTypes
  <1>3. WorkTypes'
    BY <1>1 DEF WorkTypes
  <1>4. LineInv'
    BY LineStays
  <1>5. RowsInv'
    BY <1>1, RowsStay DEF Early, Working
  <1>6. DoneInv'
    BY <1>1, <1>2 DEF DoneInv, Working
  <1>7. ProgInv'
    BY <1>1, <1>2 DEF ProgInv, Working
  <1>8. QED
    BY <1>1, <1>3, <1>4, <1>5, <1>6, <1>7

LEMMA JobWorks ==
    ASSUME TempInv, WorkInv, NEW r \in Requests, Job(r)
    PROVE  WorkInv'
  <1> USE DEF TempInv, WorkInv
  <1>0. /\ {"close", "files", "drop", "engine", "next"} \subseteq Working \ {"open"}
        /\ "error" # "ok" /\ "none" # "ok" /\ "canceled" # "ok"
    BY DEF Working
  <1>1. UNCHANGED <<routes, window, ready, route, size, need>> /\ Form'
    BY Fixed, FormKeeps
  <1>2. /\ Form /\ WorkTypes /\ rows[r] \in Seq(Nat) /\ prog[r] \in Reports
        /\ Honest(prog[r], rows[r], size[r], window, route[r])
    BY DEF WorkTypes, ProgInv
  <1>3. /\ size[r] \in Nat /\ Plan(window) /\ (Counts(r) <=> CountsOf(route[r]))
        /\ (Windows(r) <=> Kind(route[r]) = "window")
    BY Forms
  <1>4. AllDone(r) <=> Finished(rows[r], size[r], window, Kind(route[r]))
    BY <1>2, Results
  <1>5. res = [res EXCEPT ![r] = res[r]] /\ at = [at EXCEPT ![r] = at[r]]
    BY DEF TempTypes
  <1>6. CASE JobStart(r) \/ JobOpen(r)
    BY <1>6, JobBegins
  <1>7. CASE JobNext(r)
    <2>1. PICK to \in {"close", "files"}, o \in {"canceled", "none"} :
              at' = [at EXCEPT ![r] = to] /\ res' = [res EXCEPT ![r] = o]
      BY <1>7 DEF JobNext, Go, Res
    <2>2. /\ at[r] = "next" /\ ~AllDone(r) /\ again' = [again EXCEPT ![r] = FALSE]
          /\ UNCHANGED <<line, cancel, rows, prog>>
      BY <1>7 DEF JobNext
    <2>3. again' \in [Requests -> BOOLEAN]
      BY <2>2 DEF WorkTypes
    <2>4. QED
      BY <1>4, <2>1, <2>2, <2>3, <1>0, JobMoves
  <1>8. CASE JobFinish(r)
    <2>1. /\ at[r] = "next" /\ AllDone(r) /\ at' = [at EXCEPT ![r] = "close"]
          /\ UNCHANGED <<line, cancel, again, rows>>
      BY <1>8 DEF JobFinish, Go
    <2>2. \A s \in Requests : s # r => at'[s] = at[s] /\ res'[s] = res[s]
      BY <1>8, <2>1 DEF JobFinish, Res, TempTypes
    <2>3. at'[r] = "close"
      BY <2>1 DEF TempTypes
    <2>4. ProgInv' /\ prog' \in [Requests -> Reports]
      <3>1. CASE Windows(r)
        <4> DEFINE x == Reported(prog[r], "encode", Absent, Absent)
        <4>1. prog' = [prog EXCEPT ![r] = x]
          BY <1>8, <3>1, ReportIs DEF JobFinish
        <4>2. Honest(x, rows[r], size[r], window, route[r])
          BY <1>2, ReportStage DEF Stages
        <4> HIDE DEF x
        <4>3. QED
          BY <4>1, <4>2, <2>1, <2>2, <2>3, <1>1, ProgMoves
      <3>2. CASE ~Windows(r)
        <4>1. prog' = [prog EXCEPT ![r] = prog[r]]
          BY <1>8, <3>2 DEF JobFinish, WorkTypes
        <4>2. QED
          BY <4>1, <2>1, <2>2, <2>3, <1>1, <1>2, ProgMoves
      <3>3. QED
        BY <3>1, <3>2
    <2>5. WorkTypes'
      BY <1>1, <2>1, <2>4 DEF WorkTypes
    <2>6. LineInv'
      BY <2>1, LineStays DEF Working
    <2>7. RowsInv'
      BY <1>1, <2>1, RowsStay DEF Early
    <2>8. DoneInv'
      BY <1>1, <1>4, <2>1, <2>2, <2>3 DEF DoneInv
    <2>9. QED
      BY <1>1, <2>4, <2>5, <2>6, <2>7, <2>8
  <1>9. CASE UnitEmpty(r)
    <2>1. /\ at[r] = "next" /\ ~AllDone(r) /\ UnitEnds(r)
          /\ UNCHANGED <<line, at, cancel, res, again>>
      BY <1>9 DEF UnitEmpty
    <2>2. /\ rows' \in [Requests -> Seq(Nat)] /\ prog' \in [Requests -> Reports]
          /\ \A s \in Requests : s # r => rows'[s] = rows[s]
          /\ RowsInv' /\ ProgInv'
      BY <2>1, <1>1, <1>5, UnitAdds
    <2>3. WorkTypes' /\ LineInv'
      BY <1>1, <2>1, <2>2 DEF WorkTypes, LineInv
    <2>4. DoneInv'
      BY <1>1, <2>1, <2>2 DEF DoneInv
    <2>5. QED
      BY <1>1, <2>2, <2>3, <2>4
  <1>10. CASE UnitWrites(r)
    <2>1. /\ at[r] = "files" /\ UNCHANGED <<line, cancel, again, rows, prog>>
          /\ \/ UNCHANGED <<at, res>>
             \/ at' = [at EXCEPT ![r] = "drop"] /\ res' = [res EXCEPT ![r] = "error"]
      BY <1>10 DEF UnitWrites, Go, Res
    <2>2. ~Finished(rows[r], size[r], window, Kind(route[r])) /\ again' \in [Requests -> BOOLEAN]
      BY <2>1 DEF DoneInv, WorkTypes
    <2>3. CASE UNCHANGED <<at, res>>
      BY <1>5, <2>1, <2>2, <2>3, <1>0, JobMoves
    <2>4. CASE at' = [at EXCEPT ![r] = "drop"] /\ res' = [res EXCEPT ![r] = "error"]
      BY <2>1, <2>2, <2>4, <1>0, JobMoves
    <2>5. QED
      BY <2>1, <2>3, <2>4
  <1>11. CASE UnitBegins(r)
    <2>1. /\ at[r] = "files" /\ UNCHANGED <<line, cancel, again, rows, prog>>
          /\ \/ at' = [at EXCEPT ![r] = "drop"] /\ res' = [res EXCEPT ![r] = "error"]
             \/ at' = [at EXCEPT ![r] = "engine"] /\ res' = res
      BY <1>11 DEF UnitBegins, Go, Res
    <2>2. ~Finished(rows[r], size[r], window, Kind(route[r])) /\ again' \in [Requests -> BOOLEAN]
      BY <2>1 DEF DoneInv, WorkTypes
    <2>3. CASE at' = [at EXCEPT ![r] = "engine"] /\ res' = res
      <3>1. res' = [res EXCEPT ![r] = res[r]]
        BY <1>5, <2>3
      <3>2. "engine" \in Working \ {"open"} /\ at[r] \in Working \ {"open"} /\ "engine" \notin {"close", "settle"}
        BY <1>0, <2>1
      <3>3. QED
        BY <3>1, <3>2, <2>1, <2>2, <2>3, JobMoves
    <2>4. CASE at' = [at EXCEPT ![r] = "drop"] /\ res' = [res EXCEPT ![r] = "error"]
      BY <2>1, <2>2, <2>4, <1>0, JobMoves
    <2>5. QED
      BY <2>1, <2>3, <2>4
  <1>12. CASE EngineWorks(r) \/ EngineRaises(r) \/ EngineStops(r)
    <2>1. PICK o : Engine(r, o)
      BY <1>12 DEF EngineWorks, EngineRaises, EngineStops
    <2>2. /\ at[r] = "engine" /\ at' = [at EXCEPT ![r] = "drop"] /\ res' = [res EXCEPT ![r] = o]
          /\ UNCHANGED <<line, cancel, again, rows, prog>>
      BY <2>1 DEF Engine, Go, Res
    <2>3. ~Finished(rows[r], size[r], window, Kind(route[r])) /\ again' \in [Requests -> BOOLEAN]
      BY <2>2 DEF DoneInv, WorkTypes
    <2>4. QED
      BY <2>2, <2>3, <1>0, JobMoves
  <1>13. CASE Hook(r)
    <2>1. route[r] = "diar" /\ UNCHANGED <<line, at, cancel, res, again, rows>>
      BY <1>13 DEF Hook
    <2>2. PICK x : /\ prog' = [prog EXCEPT ![r] = x]
                   /\ Honest(x, rows[r], size[r], window, route[r])
      <3>1. PICK stage \in {"segmentation", "speaker_counting", "embeddings"} :
                \/ Report(r, stage, Absent, Absent)
                \/ \E total \in UnitsOf(stage), done \in 0 .. 2 : done <= total /\ Report(r, stage, done, total)
        BY <1>13 DEF Hook
      <3>2. stage \in Stages \ {"work"}
        BY DEF Stages
      <3>3. CASE Report(r, stage, Absent, Absent)
        BY <3>2, <3>3, <1>2, ReportIs, ReportStage
      <3>4. ASSUME NEW total \in UnitsOf(stage), NEW done \in 0 .. 2, done <= total,
                   Report(r, stage, done, total)
            PROVE  \E x : /\ prog' = [prog EXCEPT ![r] = x]
                          /\ Honest(x, rows[r], size[r], window, route[r])
        BY <3>2, <3>4, <1>2, ReportIs, ReportUnits
      <3>5. QED
        BY <3>1, <3>3, <3>4
    <2>3. ~CountsOf(route[r])
      BY <2>1, RouteKinds DEF CountsOf
    <2>4. ProgInv' /\ prog' \in [Requests -> Reports]
      BY <2>1, <2>2, <2>3, <1>1, ProgMoves
    <2>5. WorkTypes' /\ LineInv'
      BY <1>1, <2>1, <2>4 DEF WorkTypes, LineInv
    <2>6. RowsInv' /\ DoneInv'
      BY <1>1, <2>1 DEF RowsInv, DoneInv
    <2>7. QED
      BY <1>1, <2>4, <2>5, <2>6
  <1>14. CASE EngineRetries(r)
    <2>1. /\ at[r] = "engine" /\ UNCHANGED <<line, at, cancel, res, rows, prog>>
          /\ again' = [again EXCEPT ![r] = TRUE]
      BY <1>14 DEF EngineRetries
    <2>2. ~Finished(rows[r], size[r], window, Kind(route[r])) /\ again' \in [Requests -> BOOLEAN]
      BY <2>1 DEF DoneInv, WorkTypes
    <2>3. QED
      BY <1>5, <2>1, <2>2, <1>0, JobMoves
  <1>15. CASE UnitDrops(r)
    <2>1. at[r] = "drop" /\ UNCHANGED <<line, cancel, again>>
      BY <1>15 DEF UnitDrops
    <2>2. ~AllDone(r) /\ again' \in [Requests -> BOOLEAN]
      BY <2>1, <1>4 DEF DoneInv, WorkTypes
    <2>3. CASE res[r] = "ok" \/ (res[r] = "error" /\ Of(r).isolates)
      <3>1. UnitEnds(r) /\ at' = [at EXCEPT ![r] = "next"] /\ res' = res
        BY <1>15, <2>3 DEF UnitDrops, Go
      <3>2. /\ rows' \in [Requests -> Seq(Nat)] /\ prog' \in [Requests -> Reports]
            /\ \A s \in Requests : s # r => rows'[s] = rows[s]
            /\ RowsInv' /\ ProgInv'
        BY <3>1, <2>2, <1>1, UnitAdds
      <3>3. WorkTypes'
        BY <1>1, <2>1, <3>2 DEF WorkTypes
      <3>4. LineInv'
        BY <2>1, <3>1, LineStays DEF Working
      <3>5. at'[r] = "next" /\ \A s \in Requests : s # r => at'[s] = at[s]
        BY <3>1 DEF TempTypes
      <3>6. DoneInv'
        BY <1>1, <3>1, <3>2, <3>5 DEF DoneInv
      <3>7. QED
        BY <1>1, <3>2, <3>3, <3>4, <3>6
    <2>4. CASE ~(res[r] = "ok" \/ (res[r] = "error" /\ Of(r).isolates))
      <3>1. at' = [at EXCEPT ![r] = "close"] /\ UNCHANGED <<res, rows, prog>> /\ res[r] # "ok"
        BY <1>15, <2>4 DEF UnitDrops, Go
      <3>2. PICK o : o # "ok" /\ res' = [res EXCEPT ![r] = o]
        BY <1>5, <3>1
      <3>3. "close" \in Working \ {"open"} /\ at[r] \in Working \ {"open"}
        BY <1>0, <2>1
      <3>4. UNCHANGED <<line, cancel, rows, prog>> /\ again' \in [Requests -> BOOLEAN]
        BY <3>1, <2>1, <2>2
      <3>5. "close" \notin {"files", "engine", "drop"} /\ "close" \notin {"next", "files", "engine", "drop"}
        OBVIOUS
      <3>6. at' = [at EXCEPT ![r] = "close"]
        BY <3>1
      <3>7. QED
        BY <3>2, <3>3, <3>4, <3>5, <3>6, JobMoves
    <2>5. QED
      BY <2>3, <2>4
  <1>16. CASE JobClose(r)
    <2>1. /\ at[r] = "close" /\ at' = [at EXCEPT ![r] = "settle"]
          /\ UNCHANGED <<line, cancel, res, again, rows>>
      BY <1>16 DEF JobClose, Go
    <2>2. at'[r] = "settle" /\ \A s \in Requests : s # r => at'[s] = at[s]
      BY <2>1 DEF TempTypes
    <2>3. ProgInv' /\ prog' \in [Requests -> Reports]
      <3>1. CASE Report(r, "done", Absent, Absent)
        <4> DEFINE x == Reported(prog[r], "done", Absent, Absent)
        <4>1. prog' = [prog EXCEPT ![r] = x]
          BY <3>1, ReportIs
        <4>2. Honest(x, rows[r], size[r], window, route[r])
          BY <1>2, ReportStage DEF Stages
        <4> HIDE DEF x
        <4>3. QED
          BY <4>1, <4>2, <2>1, <2>2, <1>1, ProgMoves
      <3>2. CASE prog' = prog
        <4>1. prog' = [prog EXCEPT ![r] = prog[r]]
          BY <3>2 DEF WorkTypes
        <4>2. QED
          BY <4>1, <2>1, <2>2, <1>1, <1>2, ProgMoves
      <3>3. QED
        BY <1>16, <3>1, <3>2 DEF JobClose
    <2>4. WorkTypes'
      BY <1>1, <2>1, <2>3 DEF WorkTypes
    <2>5. LineInv'
      BY <2>1, LineStays DEF Working
    <2>6. RowsInv'
      BY <1>1, <2>1, RowsStay DEF Early
    <2>7. DoneInv'
      BY <1>1, <2>1, <2>2 DEF DoneInv
    <2>8. QED
      BY <1>1, <2>3, <2>4, <2>5, <2>6, <2>7
  <1>17. CASE JobSettle(r)
    <2>1. /\ at[r] = "settle" /\ at' = [at EXCEPT ![r] = Settled(res[r])] /\ line' = Tail(line)
          /\ UNCHANGED <<cancel, res, again, rows, prog>>
      BY <1>17 DEF JobSettle, Go, jobVars
    <2>2. /\ Settled(res[r]) \notin Early \cup Working \cup {"queued"}
          /\ Settled(res[r]) = "succeeded" => res[r] = "ok"
      BY <2>1 DEF Settled, Decided, TempTypes, Early, Working
    <2>3. at'[r] = Settled(res[r]) /\ \A s \in Requests : s # r => at'[s] = at[s]
      BY <2>1 DEF TempTypes
    <2>4. line # <<>> /\ line[1] = r /\ line \in Seq(Requests) /\ Len(line) \in Nat \ {0}
      BY <2>1 DEF LineInv, WorkTypes, Working
    <2>5. /\ line' \in Seq(Requests) /\ Len(line') = Len(line) - 1
          /\ \A i \in 1 .. Len(line) - 1 : line'[i] = line[i + 1]
      BY <2>1, <2>4
    <2>6. WorkTypes'
      BY <1>1, <2>1, <2>5 DEF WorkTypes
    <2>7. LineInv'
      <3>1. \A i \in 1 .. Len(line') : i \in 1 .. Len(line) - 1 /\ i + 1 \in 1 .. Len(line) /\ line'[i] = line[i + 1]
        BY <2>4, <2>5
      <3>2. \A i, j \in 1 .. Len(line') : line'[i] = line'[j] => i = j
        BY <3>1, <2>4, <2>5 DEF LineInv
      <3>3. ASSUME NEW i \in 1 .. Len(line')
            PROVE  line'[i] # r /\ at'[line'[i]] \in Working \cup {"queued"}
        <4>1. i + 1 \in 1 .. Len(line) /\ 1 \in 1 .. Len(line) /\ line'[i] = line[i + 1] /\ i + 1 # 1
          BY <3>1, <2>4
        <4>2. line'[i] # r
          BY <4>1, <2>4 DEF LineInv
        <4>3. line[i + 1] \in Requests /\ at[line[i + 1]] \in Working \cup {"queued"}
          BY <4>1, <2>4 DEF LineInv
        <4>4. QED
          BY <4>1, <4>2, <4>3, <2>3
      <3>4. \A s \in Requests : at'[s] \notin Working
        BY <2>2, <2>3, <2>4 DEF LineInv
      <3>5. QED
        BY <3>2, <3>3, <3>4 DEF LineInv
    <2>8. RowsInv'
      BY <1>1, <2>1, <2>2, <2>3 DEF RowsInv
    <2>9. DoneInv'
      BY <1>1, <2>1, <2>2, <2>3 DEF DoneInv, Working
    <2>10. ProgInv'
      BY <1>1, <2>1, <2>2, <2>3 DEF ProgInv, Working
    <2>11. QED
      BY <1>1, <2>6, <2>7, <2>8, <2>9, <2>10
  <1>18. QED
    BY <1>6, <1>7, <1>8, <1>9, <1>10, <1>11, <1>12, <1>13, <1>14, <1>15, <1>16, <1>17
    DEF Job

\* Nothing is shown of a job before its time: the whole invariant.
LEMMA WorkKeeps == TempInv /\ WorkInv /\ [Next]_vars => WorkInv'
  <1> SUFFICES ASSUME TempInv, WorkInv, [Next]_vars
               PROVE  WorkInv'
    OBVIOUS
  <1>1. CASE Load
    BY <1>1 DEF Load, WorkInv, Form, WorkTypes, LineInv, RowsInv, DoneInv, ProgInv, formVars, jobVars
  <1>2. CASE \E r \in Requests : Handler(r) \/ Cancel(r) \/ Job(r)
    BY <1>2, HandlerWorks, JobWorks
  <1>3. CASE UNCHANGED vars
    BY <1>3 DEF vars, WorkInv, Form, WorkTypes, LineInv, RowsInv, DoneInv, ProgInv, formVars, jobVars
  <1>4. QED
    BY <1>1, <1>2, <1>3 DEF Next

LEMMA WorkInit == Init => WorkInv
  <1> SUFFICES ASSUME Init
               PROVE  WorkInv
    OBVIOUS
  <1>1. Form
    <2>1. \A r \in Requests : size[r] \in Nat /\ need[r] \in Nat
      <3>1. size \in [Requests -> 0 .. MaxItems + MaxSamples] /\ need \in [Requests -> 0 .. 2]
        BY DEF Init
      <3>2. 0 .. MaxItems + MaxSamples \subseteq Nat /\ 0 .. 2 \subseteq Nat
        BY JobAssumption
      <3>3. QED
        BY <3>1, <3>2
    <2>2. window \in WindowPlans
      BY JobAssumption DEF Init
    <2>3. size \in [Requests -> Nat] /\ need \in [Requests -> Nat]
      BY <2>1 DEF Init
    <2>4. QED
      BY <2>2, <2>3 DEF Form, Init, Of
  <1>2. WorkTypes
    <2>1. <<>> \in Seq(Nat) /\ <<>> \in Seq(Requests)
      OBVIOUS
    <2>2. [stage |-> "none", done |-> Absent, total |-> Absent] \in Reports
      BY DEF Reports, Stages
    <2>3. QED
      BY <2>1, <2>2 DEF Init, WorkTypes
  <1>3. LineInv
    BY DEF Init, LineInv, Working
  <1>4. RowsInv
    <2>1. ASSUME NEW r \in Requests
          PROVE  RowsGood(rows[r], size[r], window, Kind(route[r])) /\ rows[r] = <<>>
      <3>1. size[r] \in Nat /\ rows[r] = <<>>
        BY <1>1 DEF Form, Init
      <3>2. QED
        BY <3>1, NoRows
    <2>2. QED
      BY <2>1 DEF RowsInv
  <1>5. DoneInv
    BY DEF Init, DoneInv
  <1>6. ProgInv
    BY <1>2 DEF Init, ProgInv, Honest, WorkTypes
  <1>7. QED
    BY <1>1, <1>2, <1>3, <1>4, <1>5, <1>6 DEF WorkInv

-----------------------------------------------------------------------------
LEMMA LineBounded ==
    ASSUME WorkTypes, LineInv
    PROVE  Len(line) <= Cardinality(Requests)
  <1>1. line \in Seq(Requests) /\ Len(line) \in Nat
    BY DEF WorkTypes
  <1>2. line \in [1 .. Len(line) -> Requests]
    BY <1>1
  <1>3. line \in Injection(1 .. Len(line), Requests)
    BY <1>2 DEF LineInv, Injection, IsInjective
  <1>4. Cardinality(1 .. Len(line)) = Len(line)
    <2> DEFINE n == Len(line)
    <2>1. 1 \in Int /\ n \in Int
      BY <1>1
    <2> HIDE DEF n
    <2>2. Cardinality(1 .. n) = IF 1 > n THEN 0 ELSE n - 1 + 1
      BY <2>1, FS_Interval, Zenon
    <2>3. n \in Nat
      BY <1>1 DEF n
    <2>4. Cardinality(1 .. n) = n
      BY <2>2, <2>3
    <2>5. QED
      BY <2>4 DEF n
  <1>5. QED
    BY <1>3, <1>4, JobAssumption, FS_Injection

LEMMA RowsWithin ==
    ASSUME WorkInv, NEW r \in Requests
    PROVE  Len(rows[r]) <= Total(r)
  <1>1. Form /\ rows[r] \in Seq(Nat) /\ RowsGood(rows[r], size[r], window, Kind(route[r]))
    BY DEF WorkInv, WorkTypes, RowsInv
  <1>2. size[r] \in Nat /\ Plan(window) /\ Total(r) = TotalOf(size[r], window, Kind(route[r]))
    BY <1>1, Forms
  <1>3. CASE Kind(route[r]) = "window"
    <2>1. Tiled(rows[r], size[r], window)
      BY <1>1, <1>3 DEF RowsGood
    <2>2. QED
      BY <2>1, <1>1, <1>2, <1>3, CountsWindows DEF TotalOf
  <1>4. CASE Kind(route[r]) # "window"
    BY <1>1, <1>2, <1>4 DEF RowsGood, Numbered, TotalOf
  <1>5. QED
    BY <1>3, <1>4

LEMMA TypesFollow == TempInv /\ WorkInv => TypeOK
  <1> SUFFICES ASSUME TempInv, WorkInv
               PROVE  TypeOK
    OBVIOUS
  <1> USE DEF TempInv, WorkInv
  <1>1. Len(line) <= Cardinality(Requests)
    BY LineBounded
  <1>2. ASSUME NEW r \in Requests
        PROVE  /\ route[r] \in routes /\ size[r] \in Sizes(Of(r)) /\ need[r] \in Of(r).files
               /\ Len(rows[r]) <= (IF Of(r).units = "window" THEN WindowCount(size[r]) ELSE size[r])
               /\ \A i \in DOMAIN rows[r] : rows[r][i] \in Nat
               /\ prog[r].done >= Absent /\ prog[r].total >= Absent
    <2>1. route[r] \in routes /\ size[r] \in Sizes(Of(r)) /\ need[r] \in Of(r).files
      BY DEF Form, Of
    <2>2. Len(rows[r]) <= Total(r)
      BY RowsWithin
    <2>3. rows[r] \in Seq(Nat) /\ prog[r] \in Reports
      BY DEF WorkTypes
    <2>4. \A i \in DOMAIN rows[r] : rows[r][i] \in Nat
      BY <2>3
    <2>5. prog[r].done >= Absent /\ prog[r].total >= Absent
      BY <2>3 DEF Reports, Absent
    <2>6. QED
      BY <2>1, <2>2, <2>4, <2>5 DEF Total, Windows
  <1>3. \A r \in Requests : files[r] \subseteq Temps /\ half[r] \subseteq Temps
    BY DEF TempTypes
  <1>4. {"upload", "decode", "whole"} \cup ToSet(Refs) = Temps
    BY RefFiles DEF Temps
  <1>5. QED
    BY <1>1, <1>2, <1>4 DEF TypeOK, TempTypes, WorkTypes, Form, Places

\* A job that succeeded has been through all of its units.
LEMMA SkipsNothing == TempInv /\ WorkInv => NothingSkipped
  <1> SUFFICES ASSUME TempInv, WorkInv, NEW r \in Requests, at[r] = "succeeded"
               PROVE  IF Of(r).units = "window"
                      THEN /\ Len(rows[r]) = WindowCount(size[r])
                           /\ 0 .. size[r] - 1 \subseteq
                                  UNION {Weighted(rows[r][i], size[r]) : i \in DOMAIN rows[r]}
                      ELSE rows[r] = [i \in 1 .. size[r] |-> i]
    BY DEF NothingSkipped
  <1> USE DEF WorkInv
  <1>1. /\ Form /\ rows[r] \in Seq(Nat) /\ RowsGood(rows[r], size[r], window, Kind(route[r]))
        /\ Finished(rows[r], size[r], window, Kind(route[r]))
    BY DEF WorkTypes, RowsInv, DoneInv
  <1>2. size[r] \in Nat /\ Plan(window) /\ (Of(r).units = "window" <=> Kind(route[r]) = "window")
    BY <1>1, Forms DEF Of, Kind
  <1>3. CASE Kind(route[r]) = "window"
    <2>1. Tiled(rows[r], size[r], window) /\ Finished(rows[r], size[r], window, "window")
      BY <1>1, <1>3 DEF RowsGood
    <2>2. Len(rows[r]) = CountOf(size[r], window)
      BY <2>1, <1>1, <1>2, CountsWindows
    <2>3. CountOf(size[r], window) = WindowCount(size[r])
      BY DEF WindowCount, CountOf, Whole, WholeOf, Chunk, Overlap, Hop, HopOf
    <2>4. ASSUME NEW j \in 0 .. size[r] - 1
          PROVE  \E i \in DOMAIN rows[r] : j \in Weighted(rows[r][i], size[r])
      <3>1. PICK i \in 1 .. Len(rows[r]) : j \in WeightedOf(rows[r][i], size[r], window)
        BY <2>1, <1>1, <1>2, AllCovered
      <3>2. WeightedOf(rows[r][i], size[r], window) = Weighted(rows[r][i], size[r])
        BY DEF Weighted, WeightedOf, End, EndOf, Whole, WholeOf, Chunk, Overlap
      <3>3. i \in DOMAIN rows[r]
        BY <1>1
      <3>4. QED
        BY <3>1, <3>2, <3>3
    <2>5. QED
      BY <1>2, <1>3, <2>2, <2>3, <2>4
  <1>4. CASE Kind(route[r]) # "window"
    <2>1. Len(rows[r]) = size[r] /\ \A i \in 1 .. Len(rows[r]) : rows[r][i] = i
      BY <1>1, <1>4 DEF RowsGood, Numbered, Finished
    <2>2. rows[r] = [i \in 1 .. Len(rows[r]) |-> rows[r][i]]
      BY <1>1
    <2>3. rows[r] = [i \in 1 .. size[r] |-> i]
      BY <2>1, <2>2
    <2>4. QED
      BY <2>3, <1>2, <1>4
  <1>5. QED
    BY <1>3, <1>4

LEMMA CountsHonestly == TempInv /\ WorkInv => ProgressHonest
  <1> SUFFICES ASSUME TempInv, WorkInv, NEW r \in Requests
               PROVE  /\ prog[r].done # Absent /\ prog[r].total # Absent => prog[r].done <= prog[r].total
                      /\ prog[r].total # Absent =>
                             prog[r].total \in (IF prog[r].stage = "work" THEN {Total(r)}
                                                                          ELSE UnitsOf(prog[r].stage))
                      /\ at[r] = "next" /\ Counts(r) => prog[r].done = Len(rows[r])
    BY DEF ProgressHonest
  <1>1. /\ Form /\ Honest(prog[r], rows[r], size[r], window, route[r])
        /\ at[r] = "next" /\ CountsOf(route[r]) => prog[r].stage = "work"
    BY DEF WorkInv, ProgInv
  <1>2. Total(r) = TotalOf(size[r], window, Kind(route[r])) /\ (Counts(r) <=> CountsOf(route[r]))
    BY <1>1, Forms
  <1>3. Len(rows[r]) <= Total(r)
    BY RowsWithin
  <1>4. CASE prog[r].stage = "work"
    BY <1>1, <1>2, <1>3, <1>4 DEF Honest
  <1>5. CASE prog[r].stage # "work"
    <2>1. prog[r].total # Absent => prog[r].total \in UnitsOf(prog[r].stage) /\ prog[r].done \in 0 .. prog[r].total
      BY <1>1, <1>5 DEF Honest
    <2>2. QED
      BY <2>1, <1>1, <1>2, <1>5
  <1>6. QED
    BY <1>4, <1>5

\* Every request is where its handler, its job or its end leaves it, the line is no longer
\* than the requests, and no job has more results than it has units.
THEOREM JobsTypeCorrect == Spec => []TypeOK
  <1>1. QED
    BY TempInit, WorkInit, NextKeeps, WorkKeeps, TypesFollow, PTL DEF Spec

\* A job that succeeds has gone through all of its units once, in order, and an enhanced clip
\* is covered: for any number of items, any length of clip, and any windows and overlap in
\* which a sample can have a weight.
THEOREM NothingEverSkipped == Spec => []NothingSkipped
  <1>1. QED
    BY TempInit, WorkInit, NextKeeps, WorkKeeps, SkipsNothing, PTL DEF Spec

\* Progress never shows the counts of one stage under the name of another, nor more done than
\* there is, and between two units it shows the results there are.
THEOREM ProgressAlwaysHonest == Spec => []ProgressHonest
  <1>1. QED
    BY TempInit, WorkInit, NextKeeps, WorkKeeps, CountsHonestly, PTL DEF Spec
====
