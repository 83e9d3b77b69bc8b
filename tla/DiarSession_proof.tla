-------------------------- MODULE DiarSession_proof -------------------------
(***************************************************************************)
(* Proofs about a diarization session on either path, for any people,       *)
(* audio, window, tail and step.  On the incremental path the invariant is  *)
(* the one of DiarStream_proof; on the window path it says what is frozen,  *)
(* what the tail keeps, and whose the labels are.                           *)
(***************************************************************************)
EXTENDS DiarSession, DiarStream_proof, FiniteSetTheorems

-----------------------------------------------------------------------------
\* T has the turns of units a to b of H: every one, once, and under a label of its own.
Exact(T, H, a, b) ==
    /\ \A s \in T : s.unit \in a .. b /\ s.person \in H[s.unit]
    /\ \A u \in a .. b : \A p \in H[u] : \E s \in T : s.unit = u /\ s.person = p
    /\ \A s, t \in T : s.unit = t.unit => (s.person = t.person <=> s.label = t.label)

\* How much of the window is a tail: all but the first has one.
Overlap == IF baseOffset = 0 THEN 0 ELSE Lap

\* The sizes of the window, and when it is diarized.
LoopInv ==
    /\ Windowed!TypeOK
    /\ baseOffset + Overlap <= Len(heard)
    /\ pc = "recv" => ~closing /\ since < StepW /\ Len(heard) - baseOffset < Window + since
    /\ pc = "label" => since = 0 \/ closing
    /\ Len(heard) - baseOffset < Window + (StepW - 1) + Piece

\* What is frozen, and what is kept of the tail's labels.
KeptInv ==
    /\ Exact(frozen, heard, 1, baseOffset)
    /\ Exact(overlapRef, heard, baseOffset + 1, baseOffset + Overlap)

\* Labels are handed out one by one; two speakers of a window never have the same.
NameInv ==
    /\ \A p, q \in DOMAIN winMap : winMap[p] = winMap[q] => p = q
    /\ \A p \in DOMAIN winMap : winMap[p] < canon
    /\ \A r \in frozen \cup overlapRef : r.label < canon
    /\ \A r, s \in overlapRef : r.person = s.person <=> r.label = s.label

\* A tail that tells its speakers apart gives each its label again.
TellsInv ==
    Windowed!Separable =>
        \A p \in DOMAIN winMap : \A r \in overlapRef : r.person = p <=> winMap[p] = r.label

\* Of the turns in F and the speakers named in W, those with one label are one person.
OneEach(F, W) == /\ \A r, s \in F : r.label = s.label => r.person = s.person
                 /\ \A r \in F : \A p \in DOMAIN W : r.label = W[p] => r.person = p
OwnerInv == Windowed!NoCrosstalk => OneEach(frozen \cup overlapRef, winMap)

\* The last timeline: what was rolled since it was sent, and what was not.
SentInv ==
    /\ \A s \in sent : \/ s \in frozen \cup overlapRef
                       \/ /\ s.unit > baseOffset /\ s.person \in DOMAIN winMap
                          /\ s.label = winMap[s.person]
    /\ \A s, t \in sent : Windowed!SameLabels(s, t)
    /\ pc = "closed" /\ Len(heard) >= Least => Exact(sent, heard, 1, Len(heard))

WindowInv == LoopInv /\ KeptInv /\ NameInv /\ TellsInv /\ OwnerInv /\ SentInv

-----------------------------------------------------------------------------
\* Timelines: one part after another, one cut in two, and one as more audio comes.

LEMMA ExactJoin ==
  ASSUME NEW S, NEW T, NEW H, NEW m \in Nat, NEW n \in Nat, m <= n,
         Exact(S, H, 1, m), Exact(T, H, m + 1, n)
  PROVE  Exact(S \cup T, H, 1, n)
<1>1. /\ \A u \in 1 .. m : u \in 1 .. n /\ u \notin m + 1 .. n
      /\ \A u \in m + 1 .. n : u \in 1 .. n
      /\ \A u \in 1 .. n : u \in 1 .. m \/ u \in m + 1 .. n
  OBVIOUS
<1>2. \A s \in S \cup T : s.unit \in 1 .. n /\ s.person \in H[s.unit]
  BY <1>1 DEF Exact
<1>3. \A u \in 1 .. n : \A p \in H[u] : \E s \in S \cup T : s.unit = u /\ s.person = p
  BY <1>1 DEF Exact
<1>4. \A s, t \in S \cup T : s.unit = t.unit => (s.person = t.person <=> s.label = t.label)
  <2>1. \A s \in S, t \in T : s.unit # t.unit
    BY <1>1 DEF Exact
  <2> QED
    BY <2>1 DEF Exact
<1> QED
  BY <1>2, <1>3, <1>4 DEF Exact

LEMMA ExactCut ==
  ASSUME NEW T, NEW H, NEW m \in Nat, NEW k \in Nat, NEW n \in Nat, m <= k, k <= n,
         Exact(T, H, m + 1, n)
  PROVE  /\ Exact({s \in T : s.unit <= k}, H, m + 1, k)
         /\ Exact({s \in T : s.unit > k}, H, k + 1, n)
<1>1. /\ \A u \in m + 1 .. n : u <= k <=> u \in m + 1 .. k
      /\ \A u \in m + 1 .. n : u > k <=> u \in k + 1 .. n
      /\ \A u \in m + 1 .. k : u \in m + 1 .. n
      /\ \A u \in k + 1 .. n : u \in m + 1 .. n
  OBVIOUS
<1>2. Exact({s \in T : s.unit <= k}, H, m + 1, k)
  BY <1>1 DEF Exact
<1>3. Exact({s \in T : s.unit > k}, H, k + 1, n)
  BY <1>1 DEF Exact
<1> QED
  BY <1>2, <1>3

LEMMA ExactStays ==
  ASSUME NEW T, NEW H, NEW G, NEW a, NEW b, Exact(T, H, a, b), \A u \in a .. b : G[u] = H[u]
  PROVE  Exact(T, G, a, b)
BY DEF Exact

-----------------------------------------------------------------------------
\* The window.

LEMMA Sizes ==
  ASSUME LoopInv
  PROVE  /\ since \in Nat /\ Len(heard) \in Nat /\ baseOffset \in Nat /\ Overlap \in Nat
         /\ canon \in Nat
         /\ baseOffset <= Len(heard) /\ baseOffset + Overlap <= Len(heard)
         /\ Lap \in Nat /\ 1 <= Lap /\ Lap + StepW <= Window /\ Window \in Nat /\ StepW \in Nat
         /\ Piece \in Nat /\ Least \in Nat /\ Least <= StepW /\ Least <= Lap /\ 1 <= StepW
         /\ Overlap = 0 \/ Overlap = Lap
BY WindowAssumption DEF LoopInv, Windowed!TypeOK, Overlap

LEMMA Joined ==
  ASSUME NEW S, NEW s \in Seq(S), NEW t \in Seq(S)
  PROVE  /\ s \o t \in Seq(S) /\ Len(s \o t) = Len(s) + Len(t)
         /\ \A u \in 1 .. Len(s) : (s \o t)[u] = s[u]
OBVIOUS

\* A piece of audio is put after what was heard.
LEMMA Received ==
  ASSUME LoopInv, Windowed!Receive
  PROVE  \E n \in 1 .. Piece :
            /\ n \in Nat /\ Len(heard') = Len(heard) + n /\ heard' \in Seq(SUBSET People)
            /\ \A u \in 1 .. Len(heard) : heard'[u] = heard[u]
            /\ IF since + n >= StepW THEN pc' = "label" /\ since' = 0
                                     ELSE pc' = "recv" /\ since' = since + n
<1>1. PICK n \in 1 .. Piece : \E piece \in [1 .. n -> SUBSET People] :
        /\ Len(heard) + n <= Units
        /\ heard' = heard \o piece
        /\ IF since + n >= StepW THEN pc' = "label" /\ since' = 0
                                 ELSE pc' = "recv" /\ since' = since + n
  BY DEF Windowed!Receive
<1>2. PICK piece \in [1 .. n -> SUBSET People] : heard' = heard \o piece
  BY <1>1
<1>3. n \in Nat
  BY <1>1, WindowAssumption
<1>4. heard \in Seq(SUBSET People)
  BY DEF LoopInv, Windowed!TypeOK
<1>5. piece \in Seq(SUBSET People) /\ Len(piece) = n
  BY <1>3
<1>6. /\ heard' \in Seq(SUBSET People) /\ Len(heard') = Len(heard) + n
      /\ \A u \in 1 .. Len(heard) : heard'[u] = heard[u]
  BY <1>2, <1>4, <1>5, Joined
<1> QED
  BY <1>1, <1>3, <1>6

\* The window's turns carry the labels of its speakers.
LEMMA CurrentLabels ==
  ASSUME LoopInv, Windowed!Nameless = {}
  PROVE  /\ Windowed!Current \subseteq Windowed!Turn
         /\ \A s \in Windowed!Current : /\ s.unit \in baseOffset + 1 .. Len(heard)
                                        /\ s.person \in heard[s.unit]
                                        /\ s.person \in DOMAIN winMap
                                        /\ s.label = winMap[s.person]
<1> SUFFICES ASSUME NEW s \in Windowed!Current
             PROVE  /\ s \in Windowed!Turn
                    /\ s.unit \in baseOffset + 1 .. Len(heard) /\ s.person \in heard[s.unit]
                    /\ s.person \in DOMAIN winMap /\ s.label = winMap[s.person]
  OBVIOUS
<1>1. PICK p \in Windowed!Speakers :
        s \in [unit : Windowed!Spoken(p), person : {p}, label : {winMap[p]}]
  BY DEF Windowed!Current
<1>2. p \in People /\ p \in DOMAIN winMap
  BY <1>1 DEF Windowed!Nameless, Windowed!Speakers
<1>3. winMap[p] \in Nat
  BY <1>2 DEF LoopInv, Windowed!TypeOK, Windowed!Range
<1>4. s.unit \in Windowed!Spoken(p) /\ s.person = p /\ s.label = winMap[p]
  BY <1>1
<1>5. s.unit \in baseOffset + 1 .. Len(heard) /\ p \in heard[s.unit]
  BY <1>4 DEF Windowed!Spoken, Windowed!Active
<1>6. s.unit \in Nat
  BY <1>5, Sizes
<1> QED
  BY <1>1, <1>2, <1>3, <1>4, <1>5, <1>6 DEF Windowed!Turn

\* ... and are all there, when there is enough audio to diarize.
LEMMA CurrentExact ==
  ASSUME LoopInv, NameInv, Windowed!Nameless = {}, Len(heard) - baseOffset >= Least
  PROVE  Exact(Windowed!Current, heard, baseOffset + 1, Len(heard))
<1>1. \A s, t \in Windowed!Current : s.person = t.person <=> s.label = t.label
  BY CurrentLabels DEF NameInv
<1>2. ASSUME NEW u \in baseOffset + 1 .. Len(heard), NEW p \in heard[u]
      PROVE  \E s \in Windowed!Current : s.unit = u /\ s.person = p
  <2>1. p \in People
    <3>1. u \in 1 .. Len(heard)
      BY <1>2, Sizes
    <3> QED
      BY <1>2, <3>1 DEF LoopInv, Windowed!TypeOK
  <2>2. u \in Windowed!Spoken(p)
    BY <1>2, Sizes DEF Windowed!Spoken, Windowed!Active
  <2>3. p \in Windowed!Speakers
    BY <2>1, <2>2 DEF Windowed!Speakers
  <2> DEFINE s == [unit |-> u, person |-> p, label |-> winMap[p]]
  <2>4. s \in [unit : Windowed!Spoken(p), person : {p}, label : {winMap[p]}]
    BY <2>2
  <2>5. s \in Windowed!Current
    BY <2>3, <2>4 DEF Windowed!Current
  <2> QED
    BY <2>5
<1> QED
  BY <1>1, <1>2, CurrentLabels DEF Exact

\* A roll: the window is cut where the tail begins.
LEMMA Rolled ==
  ASSUME LoopInv, Windowed!Partial, Len(heard) - baseOffset >= Window
  PROVE  LET boundary == Len(heard) - Lap IN
         /\ boundary \in Nat /\ baseOffset < boundary /\ boundary <= Len(heard)
         /\ baseOffset' = boundary /\ Overlap' = Lap /\ boundary + Lap = Len(heard)
         /\ frozen' = frozen \cup {s \in Windowed!Current : s.unit <= boundary}
         /\ overlapRef' = {s \in Windowed!Current : s.unit > boundary}
         /\ winMap' = <<>>
BY Sizes DEF Windowed!Partial, Windowed!Roll, Overlap

LEMMA NotRolled ==
  ASSUME LoopInv, Windowed!Partial, ~(Len(heard) - baseOffset >= Window)
  PROVE  UNCHANGED <<baseOffset, frozen, overlapRef, winMap>> /\ Len(heard) - baseOffset < Window
BY Sizes DEF Windowed!Partial, Windowed!Roll

-----------------------------------------------------------------------------
\* Types and sizes.

LEMMA LoopReceive == LoopInv /\ Windowed!Receive => LoopInv'
<1> SUFFICES ASSUME LoopInv, Windowed!Receive PROVE LoopInv'
  OBVIOUS
<1>1. PICK n \in 1 .. Piece :
         /\ n \in Nat /\ Len(heard') = Len(heard) + n /\ heard' \in Seq(SUBSET People)
         /\ IF since + n >= StepW THEN pc' = "label" /\ since' = 0
                                  ELSE pc' = "recv" /\ since' = since + n
  BY Received
<1>2. n <= Piece
  BY <1>1, Sizes
<1>3. /\ pc = "recv"
      /\ UNCHANGED <<closing, baseOffset, frozen, overlapRef, winMap, canon, sent>>
  BY DEF Windowed!Receive
<1>4. Windowed!TypeOK'
  <2>1. pc' \in {"recv", "label"} /\ since' \in Nat
    BY <1>1, Sizes
  <2> QED
    BY <1>1, <1>3, <2>1 DEF LoopInv, Windowed!TypeOK, Windowed!Turn, Windowed!Range
<1>5. Overlap' = Overlap
  BY <1>3 DEF Overlap
<1>6. baseOffset + Overlap <= Len(heard')
  BY <1>1, Sizes
<1>7. Len(heard) - baseOffset < Window + since /\ since < StepW /\ ~closing
  BY <1>3 DEF LoopInv
<1>8. /\ Len(heard') = Len(heard) + n /\ n \in Nat
      /\ since \in Nat /\ Len(heard) \in Nat /\ baseOffset \in Nat
      /\ Window \in Nat /\ StepW \in Nat /\ Piece \in Nat
  BY <1>1, Sizes
<1>9. /\ Len(heard') - baseOffset < Window + (StepW - 1) + Piece
      /\ since + n < StepW => Len(heard') - baseOffset < Window + (since + n)
  BY <1>2, <1>7, <1>8
<1>11. pc' = "recv" => since' < StepW /\ Len(heard') - baseOffset < Window + since'
  <2>1. pc' = "recv" => since' = since + n /\ since + n < StepW
    BY <1>1, <1>8
  <2> QED
    BY <1>9, <2>1
<1>10. pc' = "label" => since' = 0
  BY <1>1
<1> QED
  BY <1>3, <1>4, <1>5, <1>6, <1>7, <1>9, <1>10, <1>11 DEF LoopInv

LEMMA LoopPartial == LoopInv /\ Windowed!Partial => LoopInv'
<1> SUFFICES ASSUME LoopInv, Windowed!Partial PROVE LoopInv'
  OBVIOUS
<1>1. /\ pc = "label" /\ ~closing /\ pc' = "recv" /\ UNCHANGED <<closing, since, heard, canon>>
      /\ sent' = frozen \cup Windowed!Current
  BY DEF Windowed!Partial, Windowed!Send
<1>2. Windowed!Current \subseteq Windowed!Turn
  BY CurrentLabels DEF Windowed!Partial
<1>3. since = 0
  BY <1>1 DEF LoopInv
<1>4. CASE Len(heard) - baseOffset >= Window
  <2>1. Windowed!TypeOK'
    BY <1>1, <1>2, <1>4, Rolled DEF LoopInv, Windowed!TypeOK, Windowed!Turn, Windowed!Range
  <2> QED
    <3>1. baseOffset' + Overlap' = Len(heard) /\ Len(heard) - baseOffset' = Lap
      BY <1>4, Rolled, Sizes
    <3>2. Lap < Window /\ Lap < Window + (StepW - 1) + Piece
      BY Sizes
    <3> QED
      BY <1>1, <1>3, <2>1, <3>1, <3>2, Sizes DEF LoopInv
<1>5. CASE ~(Len(heard) - baseOffset >= Window)
  <2>1. Windowed!TypeOK'
    BY <1>1, <1>2, <1>5, NotRolled DEF LoopInv, Windowed!TypeOK, Windowed!Turn
  <2> QED
    BY <1>1, <1>3, <1>5, <2>1, NotRolled, Sizes DEF LoopInv, Overlap
<1> QED
  BY <1>4, <1>5

LEMMA LoopRest ==
  ASSUME LoopInv, \/ Windowed!Stop \/ Windowed!Final \/ Windowed!Fail
                  \/ \E p \in People : Windowed!Relabel(p)
  PROVE  LoopInv'
<1>1. CASE Windowed!Stop
  BY <1>1, Sizes DEF LoopInv, Overlap, Windowed!Stop, Windowed!TypeOK, Windowed!Turn
<1>2. CASE Windowed!Final
  <2>1. Windowed!Current \subseteq Windowed!Turn
    BY <1>2, CurrentLabels DEF Windowed!Final
  <2> QED
    BY <1>2, <2>1, Sizes DEF LoopInv, Overlap, Windowed!Final, Windowed!Send, Windowed!TypeOK,
                             Windowed!Turn
<1>3. CASE Windowed!Fail
  BY <1>3, Sizes DEF LoopInv, Overlap, Windowed!Fail, Windowed!TypeOK, Windowed!Turn
<1>4. ASSUME NEW p \in People, Windowed!Relabel(p) PROVE LoopInv'
  <2>1. PICK l : /\ Windowed!Name(p, l)
                 /\ \/ l \in Windowed!Best(p) /\ canon' = canon
                    \/ l = canon /\ canon' = canon + 1
    BY <1>4 DEF Windowed!Relabel, Windowed!NewLabel
  <2>2. l \in Nat
    <3>1. ASSUME l \in Windowed!Best(p) PROVE \E r \in overlapRef : l = r.label
      BY <3>1 DEF Windowed!Best, Windowed!Candidates
    <3>2. \A r \in overlapRef : r.label \in Nat
      BY DEF LoopInv, Windowed!TypeOK, Windowed!Turn
    <3> QED
      BY <2>1, <3>1, <3>2, Sizes
  <2>3. DOMAIN winMap' \subseteq People /\ Windowed!Range(winMap)' \subseteq Nat
    BY <2>1, <2>2 DEF Windowed!Name, LoopInv, Windowed!TypeOK, Windowed!Range
  <2>4. UNCHANGED <<pc, closing, since, heard, baseOffset, frozen, overlapRef, sent>>
    BY <1>4 DEF Windowed!Relabel
  <2>5. Windowed!TypeOK'
    <3>1. canon' \in Nat
      BY <2>1, Sizes
    <3> QED
      BY <2>3, <2>4, <3>1 DEF LoopInv, Windowed!TypeOK, Windowed!Turn
  <2> QED
    BY <2>4, <2>5 DEF LoopInv, Overlap
<1> QED
  BY <1>1, <1>2, <1>3, <1>4

-----------------------------------------------------------------------------
\* What is frozen and what the tail keeps.

\* The module instantiated counts as this one does.
LEMMA SameSize == \A S : Windowed!Cardinality(S) = Cardinality(S)
BY DEF Windowed!Cardinality, Cardinality

KeptVars == <<heard, baseOffset, frozen, overlapRef>>

LEMMA KeptSame == KeptInv /\ UNCHANGED KeptVars => KeptInv'
BY DEF KeptInv, KeptVars, Overlap

\* Which steps have no part in it.
LEMMA KeptQuiet ==
  ASSUME \/ Windowed!Stop \/ Windowed!Final \/ Windowed!Fail
         \/ \E p \in People : Windowed!Relabel(p)
  PROVE  UNCHANGED KeptVars
BY DEF Windowed!Stop, Windowed!Final, Windowed!Fail, Windowed!Relabel, KeptVars

LEMMA KeptReceive == LoopInv /\ KeptInv /\ Windowed!Receive => KeptInv'
<1> SUFFICES ASSUME LoopInv, KeptInv, Windowed!Receive PROVE KeptInv'
  OBVIOUS
<1>1. UNCHANGED <<baseOffset, frozen, overlapRef, Overlap>>
  BY DEF Windowed!Receive, Overlap
<1>2. \A u \in 1 .. Len(heard) : heard'[u] = heard[u]
  BY Received
<1>3. /\ \A u \in 1 .. baseOffset : heard'[u] = heard[u]
      /\ \A u \in baseOffset + 1 .. baseOffset + Overlap : heard'[u] = heard[u]
  BY <1>2, Sizes
<1>4. Exact(frozen, heard', 1, baseOffset)
  BY <1>3, ExactStays DEF KeptInv
<1>5. Exact(overlapRef, heard', baseOffset + 1, baseOffset + Overlap)
  BY <1>3, ExactStays DEF KeptInv
<1> QED
  BY <1>1, <1>4, <1>5 DEF KeptInv

LEMMA KeptPartial == LoopInv /\ KeptInv /\ NameInv /\ Windowed!Partial => KeptInv'
<1> SUFFICES ASSUME LoopInv, KeptInv, NameInv, Windowed!Partial PROVE KeptInv'
  OBVIOUS
<1>1. UNCHANGED heard /\ Windowed!Nameless = {}
  BY DEF Windowed!Partial
<1>2. CASE Len(heard) - baseOffset >= Window
  <2> DEFINE boundary == Len(heard) - Lap
             older == {s \in Windowed!Current : s.unit <= boundary}
             tail == {s \in Windowed!Current : s.unit > boundary}
  <2>1. /\ boundary \in Nat /\ baseOffset < boundary /\ boundary <= Len(heard)
        /\ baseOffset' = boundary /\ Overlap' = Lap /\ boundary + Lap = Len(heard)
        /\ frozen' = frozen \cup older /\ overlapRef' = tail
    BY <1>2, Rolled
  <2>2. Exact(Windowed!Current, heard, baseOffset + 1, Len(heard))
    <3>1. Len(heard) - baseOffset >= Least
      BY <1>2, Sizes
    <3> QED
      BY <1>1, <3>1, CurrentExact
  <2> HIDE DEF boundary
  <2>3. /\ Exact(older, heard, baseOffset + 1, boundary)
        /\ Exact(tail, heard, boundary + 1, Len(heard))
    <3>1. /\ baseOffset \in Nat /\ boundary \in Nat /\ Len(heard) \in Nat
          /\ baseOffset <= boundary /\ boundary <= Len(heard)
      BY <2>1, Sizes
    <3> QED
      BY <2>2, <3>1, ExactCut
  <2> HIDE DEF older, tail
  <2>4. Exact(frozen \cup older, heard, 1, boundary)
    <3>1. baseOffset \in Nat /\ boundary \in Nat /\ baseOffset <= boundary
      BY <2>1, Sizes
    <3>2. Exact(frozen, heard, 1, baseOffset)
      BY DEF KeptInv
    <3> QED
      BY <2>3, <3>1, <3>2, ExactJoin
  <2> QED
    BY <1>1, <2>1, <2>3, <2>4 DEF KeptInv
<1>3. CASE ~(Len(heard) - baseOffset >= Window)
  BY <1>1, <1>3, NotRolled, KeptSame DEF KeptVars
<1> QED
  BY <1>2, <1>3

-----------------------------------------------------------------------------
\* Labels.

\* A speaker is given a label of the tail, of somebody heard where this one is, or a new one.
LEMMA Relabelled ==
  ASSUME LoopInv, NEW p \in People, Windowed!Relabel(p)
  PROVE  \E l \in Nat :
           /\ p \notin DOMAIN winMap /\ DOMAIN winMap' = DOMAIN winMap \cup {p}
           /\ winMap'[p] = l /\ \A q \in DOMAIN winMap : winMap'[q] = winMap[q]
           /\ \/ /\ canon' = canon /\ l \in Windowed!Best(p)
                 /\ \A q \in DOMAIN winMap : winMap[q] # l
                 /\ \E r \in overlapRef : r.label = l /\ p \in heard[r.unit]
              \/ canon' = canon + 1 /\ l = canon /\ Windowed!Best(p) = {}
<1>1. PICK l : /\ Windowed!Name(p, l)
               /\ \/ l \in Windowed!Best(p) /\ canon' = canon
                  \/ l = canon /\ canon' = canon + 1 /\ Windowed!Best(p) = {}
  BY DEF Windowed!Relabel, Windowed!NewLabel
<1>2. p \notin DOMAIN winMap
  BY DEF Windowed!Relabel, Windowed!Nameless
<1>3. /\ DOMAIN winMap' = DOMAIN winMap \cup {p}
      /\ winMap'[p] = l /\ \A q \in DOMAIN winMap : winMap'[q] = winMap[q]
  BY <1>1, <1>2 DEF Windowed!Name
<1>4. ASSUME l \in Windowed!Best(p)
      PROVE  /\ l \in Nat /\ \A q \in DOMAIN winMap : winMap[q] # l
             /\ \E r \in overlapRef : r.label = l /\ p \in heard[r.unit]
  <2>1. Windowed!Shared(p, l) > 0 /\ \A q \in DOMAIN winMap : winMap[q] # l
    BY <1>4 DEF Windowed!Best, Windowed!Candidates, Windowed!Range
  <2>2. {r \in overlapRef : r.label = l /\ r.unit \in Windowed!Spoken(p)} # {}
    BY <2>1, SameSize, FS_EmptySet DEF Windowed!Shared
  <2>3. PICK r \in overlapRef : r.label = l /\ r.unit \in Windowed!Spoken(p)
    BY <2>2
  <2>4. p \in heard[r.unit]
    BY <2>3 DEF Windowed!Spoken
  <2>5. l \in Nat
    BY <2>3 DEF LoopInv, Windowed!TypeOK, Windowed!Turn
  <2> QED
    BY <2>1, <2>3, <2>4, <2>5
<1>5. l \in Nat
  BY <1>1, <1>4, Sizes
<1> QED
  BY <1>1, <1>2, <1>3, <1>4, <1>5

LEMMA NameRelabel ==
  ASSUME LoopInv, NameInv, NEW p \in People, Windowed!Relabel(p)
  PROVE  NameInv'
<1>1. PICK l \in Nat :
           /\ p \notin DOMAIN winMap /\ DOMAIN winMap' = DOMAIN winMap \cup {p}
           /\ winMap'[p] = l /\ \A q \in DOMAIN winMap : winMap'[q] = winMap[q]
           /\ \/ /\ canon' = canon /\ \A q \in DOMAIN winMap : winMap[q] # l
                 /\ \E r \in overlapRef : r.label = l
              \/ canon' = canon + 1 /\ l = canon
  BY Relabelled
<1>2. UNCHANGED <<frozen, overlapRef>> /\ canon \in Nat
  BY Sizes DEF Windowed!Relabel
<1>3. /\ \A q \in DOMAIN winMap : winMap[q] \in Nat
      /\ \A r \in frozen \cup overlapRef : r.label \in Nat
  BY DEF LoopInv, Windowed!TypeOK, Windowed!Turn, Windowed!Range
<1>4. l < canon' /\ \A q \in DOMAIN winMap : winMap[q] # l
  BY <1>1, <1>2, <1>3 DEF NameInv
<1>5. \A q \in DOMAIN winMap' : winMap'[q] < canon'
  BY <1>1, <1>2, <1>3, <1>4 DEF NameInv
<1>6. \A q, s \in DOMAIN winMap' : winMap'[q] = winMap'[s] => q = s
  BY <1>1, <1>4 DEF NameInv
<1>7. \A r \in frozen' \cup overlapRef' : r.label < canon'
  BY <1>1, <1>2, <1>3 DEF NameInv
<1> QED
  BY <1>2, <1>5, <1>6, <1>7 DEF NameInv

LEMMA NamePartial == LoopInv /\ NameInv /\ Windowed!Partial => NameInv'
<1> SUFFICES ASSUME LoopInv, NameInv, Windowed!Partial PROVE NameInv'
  OBVIOUS
<1>1. UNCHANGED canon /\ Windowed!Nameless = {}
  BY DEF Windowed!Partial
<1>2. CASE Len(heard) - baseOffset >= Window
  <2>1. /\ frozen' \subseteq frozen \cup Windowed!Current /\ overlapRef' \subseteq Windowed!Current
        /\ DOMAIN winMap' = {}
    BY <1>2, Rolled
  <2>2. /\ \A s \in Windowed!Current : s.label < canon
        /\ \A s, t \in Windowed!Current : s.person = t.person <=> s.label = t.label
    BY <1>1, CurrentLabels DEF NameInv
  <2> QED
    BY <1>1, <2>1, <2>2 DEF NameInv
<1>3. CASE ~(Len(heard) - baseOffset >= Window)
  BY <1>1, <1>3, NotRolled DEF NameInv
<1> QED
  BY <1>2, <1>3

LabelVars == <<frozen, overlapRef, winMap, canon>>

LEMMA LabelsQuiet ==
  ASSUME Windowed!Receive \/ Windowed!Stop \/ Windowed!Final \/ Windowed!Fail
  PROVE  UNCHANGED LabelVars
BY DEF Windowed!Receive, Windowed!Stop, Windowed!Final, Windowed!Fail, LabelVars

LEMMA LabelsSame ==
  ASSUME UNCHANGED LabelVars
  PROVE  (NameInv => NameInv') /\ (TellsInv => TellsInv')
<1>1. NameInv => NameInv'
  BY DEF NameInv, LabelVars
<1>2. Windowed!Separable' = Windowed!Separable
  BY DEF LabelVars, Windowed!Separable, Windowed!InTail
<1>3. TellsInv => TellsInv'
  BY <1>2 DEF TellsInv, LabelVars
<1> QED
  BY <1>1, <1>3

-----------------------------------------------------------------------------
\* The overlap with the tail.

\* Turns of different units are as many as their units.
LEMMA TurnsOfUnits ==
  ASSUME NEW T, NEW a, NEW n, a \in Nat, n \in Nat, \A s \in T : s.unit \in a .. n,
         \A s, t \in T : s.unit = t.unit => s = t
  PROVE  /\ IsFiniteSet(T) /\ IsFiniteSet({s.unit : s \in T})
         /\ Cardinality(T) = Cardinality({s.unit : s \in T})
<1> DEFINE units == {s.unit : s \in T}
           f == [s \in T |-> s.unit]
<1>1. IsFiniteSet(units)
  <2>1. units \subseteq a .. n
    OBVIOUS
  <2> HIDE DEF units
  <2> QED
    <3>1. IsFiniteSet(a .. n)
      BY FS_Interval
    <3> QED
      BY <2>1, <3>1, FS_Subset
<1>2. /\ f \in [T -> units] /\ \A s, t \in T : f[s] = f[t] => s = t
      /\ \A u \in units : \E s \in T : f[s] = u
  OBVIOUS
<1> HIDE DEF f, units
<1>3. f \in Bijection(T, units) /\ f \in Injection(T, units)
  BY <1>2 DEF Bijection, Injection, Surjection, IsInjective
<1>4. ExistsBijection(T, units)
  BY <1>3 DEF ExistsBijection
<1>5. IsFiniteSet(T)
  BY <1>1, <1>3, FS_Injection
<1> QED
  BY <1>1, <1>4, <1>5, FS_Bijection DEF units

\* The turns of the tail: where they are, who is heard there, and that there is one of each.
LEMMA TailTurns ==
  ASSUME LoopInv, KeptInv, NameInv
  PROVE  /\ baseOffset + 1 \in Nat /\ baseOffset + Overlap \in Nat
         /\ baseOffset + Overlap <= Len(heard)
         /\ \A t \in overlapRef : t.unit \in baseOffset + 1 .. baseOffset + Overlap
                                 /\ t.person \in heard[t.unit]
         /\ \A u \in baseOffset + 1 .. baseOffset + Overlap : \A q \in heard[u] :
                \E t \in overlapRef : t.unit = u /\ t.person = q
         /\ \A t, v \in overlapRef : t.label = v.label /\ t.unit = v.unit => t = v
<1>1. /\ \A t \in overlapRef : t.unit \in baseOffset + 1 .. baseOffset + Overlap
                                 /\ t.person \in heard[t.unit]
      /\ \A u \in baseOffset + 1 .. baseOffset + Overlap : \A q \in heard[u] :
                \E t \in overlapRef : t.unit = u /\ t.person = q
  BY DEF KeptInv, Exact
<1>2. \A t, v \in overlapRef : t.label = v.label /\ t.unit = v.unit => t = v
  <2>1. \A t, v \in overlapRef : t.label = v.label => t.person = v.person
    BY DEF NameInv
  <2>2. overlapRef \subseteq Windowed!Turn
    BY DEF LoopInv, Windowed!TypeOK
  <2> QED
    BY <2>1, <2>2 DEF Windowed!Turn
<1> QED
  BY <1>1, <1>2, Sizes

LEMMA TailWithin ==
  ASSUME LoopInv, KeptInv, NameInv, NEW r \in overlapRef
  PROVE  /\ r.unit \in baseOffset + 1 .. Len(heard) /\ r.unit \in 1 .. Len(heard)
         /\ r.person \in heard[r.unit]
<1>1. r.unit \in baseOffset + 1 .. baseOffset + Overlap /\ r.person \in heard[r.unit]
  BY TailTurns
<1>2. /\ baseOffset \in Nat /\ Overlap \in Nat /\ Len(heard) \in Nat
      /\ baseOffset + Overlap <= Len(heard)
  BY Sizes
<1>3. r.unit \in baseOffset + 1 .. Len(heard) /\ r.unit \in 1 .. Len(heard)
  BY <1>1, <1>2
<1> QED
  BY <1>1, <1>3

\* What a speaker of the tail shares with its own label.
LEMMA OwnShare ==
  ASSUME LoopInv, KeptInv, NameInv, NEW p \in People, Windowed!Spoken(p) # {},
         NEW r \in overlapRef, r.person = p
  PROVE  Windowed!Shared(p, r.label) \in Nat /\ Windowed!Shared(p, r.label) > 0
<1> DEFINE A == {t \in overlapRef : t.label = r.label /\ t.unit \in Windowed!Spoken(p)}
<1>1. /\ \A t \in A : t.unit \in baseOffset + 1 .. baseOffset + Overlap
      /\ \A t, v \in A : t.unit = v.unit => t = v
      /\ baseOffset + 1 \in Nat /\ baseOffset + Overlap \in Nat
  BY TailTurns
<1>2. r \in A
  <2>1. r.unit \in baseOffset + 1 .. Len(heard) /\ p \in heard[r.unit]
    BY TailWithin
  <2> QED
    BY <2>1 DEF Windowed!Spoken, Windowed!Active
<1>3. Windowed!Shared(p, r.label) = Cardinality(A)
  BY SameSize DEF Windowed!Shared
<1> HIDE DEF A
<1>4. IsFiniteSet(A)
  BY <1>1, TurnsOfUnits
<1>5. Cardinality(A) \in Nat /\ Cardinality(A) # 0
  BY <1>2, <1>4, FS_CardinalityType, FS_EmptySet
<1> QED
  BY <1>3, <1>5

\* A speaker of a tail that tells its speakers apart shares more of it with its own label than
\* with any other.
LEMMA OwnTail ==
  ASSUME LoopInv, KeptInv, NameInv, Windowed!Separable,
         NEW p \in People, Windowed!Spoken(p) # {},
         NEW r \in overlapRef, r.person = p, NEW s \in overlapRef, s.label # r.label
  PROVE  /\ Windowed!Shared(p, r.label) \in Nat /\ Windowed!Shared(p, s.label) \in Nat
         /\ Windowed!Shared(p, s.label) < Windowed!Shared(p, r.label)
<1> DEFINE A == {t \in overlapRef : t.label = r.label /\ t.unit \in Windowed!Spoken(p)}
           B == {t \in overlapRef : t.label = s.label /\ t.unit \in Windowed!Spoken(p)}
           lastUnit == baseOffset + Overlap
<1>1. /\ \A t \in overlapRef : t.unit \in baseOffset + 1 .. lastUnit
      /\ \A t \in overlapRef : t.person \in heard[t.unit]
      /\ \A u \in baseOffset + 1 .. lastUnit : \A q \in heard[u] :
           \E t \in overlapRef : t.unit = u /\ t.person = q
      /\ \A t, v \in overlapRef : t.label = v.label /\ t.unit = v.unit => t = v
      /\ baseOffset + 1 \in Nat /\ lastUnit \in Nat /\ lastUnit <= Len(heard)
  BY TailTurns
<1> HIDE DEF lastUnit
<1>2. \A u \in baseOffset + 1 .. lastUnit : u \in Windowed!Spoken(p) <=> p \in heard[u]
  <2>1. Windowed!Spoken(p) = {u \in baseOffset + 1 .. Len(heard) : p \in heard[u]}
    BY DEF Windowed!Spoken, Windowed!Active
  <2>2. \A u \in baseOffset + 1 .. lastUnit : u \in baseOffset + 1 .. Len(heard)
    BY <1>1, Sizes
  <2> QED
    BY <2>1, <2>2
<1>4. s.person # p
  BY DEF NameInv
<1>5. {t.unit : t \in A} = Windowed!InTail(p)
  BY <1>1, <1>2 DEF NameInv, Windowed!InTail
<1>6. {t.unit : t \in B} \subseteq Windowed!InTail(p) \cap Windowed!InTail(s.person)
  BY <1>1, <1>2 DEF NameInv, Windowed!InTail
<1>7. PICK u \in Windowed!InTail(p) : u \notin Windowed!InTail(s.person)
  BY <1>4 DEF Windowed!Separable
<1>8. /\ IsFiniteSet({t.unit : t \in A}) /\ Cardinality(A) = Cardinality({t.unit : t \in A})
      /\ Cardinality(B) = Cardinality({t.unit : t \in B})
  <2>1. /\ \A t \in A : t.unit \in baseOffset + 1 .. lastUnit
        /\ \A t, v \in A : t.unit = v.unit => t = v
        /\ \A t \in B : t.unit \in baseOffset + 1 .. lastUnit
        /\ \A t, v \in B : t.unit = v.unit => t = v
    BY <1>1
  <2> HIDE DEF A, B
  <2> QED
    BY <1>1, <2>1, TurnsOfUnits
<1> DEFINE X == {t.unit : t \in A}
           Y == {t.unit : t \in B}
<1>9. IsFiniteSet(X) /\ u \in X /\ Y \subseteq X \ {u}
  BY <1>5, <1>6, <1>7, <1>8
<1>10. Cardinality(A) = Cardinality(X) /\ Cardinality(B) = Cardinality(Y)
  BY <1>8
<1>11. Windowed!Shared(p, r.label) = Cardinality(A) /\ Windowed!Shared(p, s.label) = Cardinality(B)
  BY SameSize DEF Windowed!Shared
<1> HIDE DEF A, B, X, Y
<1>12. IsFiniteSet(X \ {u}) /\ Cardinality(X \ {u}) = Cardinality(X) - 1
  BY <1>9, FS_RemoveElement
<1>13. IsFiniteSet(Y) /\ Cardinality(Y) <= Cardinality(X \ {u})
  BY <1>9, <1>12, FS_Subset
<1>14. Cardinality(X) \in Nat /\ Cardinality(Y) \in Nat
  BY <1>9, <1>13, FS_CardinalityType
<1> QED
  BY <1>10, <1>11, <1>12, <1>13, <1>14

\* So it is given its label again.
LEMMA TellsRelabel ==
  ASSUME LoopInv, KeptInv, NameInv, TellsInv, NEW p \in People, Windowed!Relabel(p)
  PROVE  TellsInv'
<1>1. PICK l \in Nat :
           /\ p \notin DOMAIN winMap /\ DOMAIN winMap' = DOMAIN winMap \cup {p}
           /\ winMap'[p] = l /\ \A q \in DOMAIN winMap : winMap'[q] = winMap[q]
           /\ \/ /\ canon' = canon /\ l \in Windowed!Best(p)
                 /\ \A q \in DOMAIN winMap : winMap[q] # l
                 /\ \E r \in overlapRef : r.label = l /\ p \in heard[r.unit]
              \/ canon' = canon + 1 /\ l = canon /\ Windowed!Best(p) = {}
  BY Relabelled
<1>2. UNCHANGED overlapRef /\ Windowed!Spoken(p) # {}
  BY DEF Windowed!Relabel, Windowed!Nameless, Windowed!Speakers
<1>3. Windowed!Separable' = Windowed!Separable
  BY <1>2 DEF Windowed!Separable, Windowed!InTail
<1> SUFFICES ASSUME Windowed!Separable, NEW r \in overlapRef PROVE r.person = p <=> l = r.label
  BY <1>1, <1>2, <1>3 DEF TellsInv
<1>4. ASSUME NEW t \in overlapRef, t.person = p PROVE l = t.label
  <2>1. ASSUME NEW s \in overlapRef, s.label # t.label
        PROVE  /\ Windowed!Shared(p, t.label) \in Nat /\ Windowed!Shared(p, s.label) \in Nat
               /\ Windowed!Shared(p, s.label) < Windowed!Shared(p, t.label)
    BY <1>2, <1>4, <2>1, OwnTail
  <2>2. Windowed!Shared(p, t.label) \in Nat /\ Windowed!Shared(p, t.label) > 0
    BY <1>2, <1>4, OwnShare
  <2>3. t.label \in Windowed!Candidates(p)
    BY <1>1, <1>4, <2>2 DEF TellsInv, Windowed!Candidates, Windowed!Range
  <2>4. \A m \in Windowed!Candidates(p) : \E s \in overlapRef : s.label = m
    BY DEF Windowed!Candidates
  <2>5. t.label \in Windowed!Best(p)
    BY <2>1, <2>2, <2>3, <2>4 DEF Windowed!Best
  <2>6. l \in Windowed!Best(p)
    BY <1>1, <2>5
  <2>7. /\ \E s \in overlapRef : s.label = l
        /\ Windowed!Shared(p, t.label) <= Windowed!Shared(p, l)
    BY <2>3, <2>4, <2>6 DEF Windowed!Best
  <2> QED
    BY <2>1, <2>2, <2>7
<1>5. ASSUME l = r.label PROVE r.person = p
  <2>1. r.label < canon /\ canon \in Nat /\ r.label \in Nat
    BY Sizes DEF NameInv, LoopInv, Windowed!TypeOK, Windowed!Turn
  <2>2. PICK s \in overlapRef : s.label = l /\ p \in heard[s.unit]
    BY <1>1, <1>5, <2>1
  <2>3. PICK t \in overlapRef : t.person = p
    BY <2>2 DEF KeptInv, Exact
  <2>4. l = t.label
    BY <1>4, <2>3
  <2> QED
    BY <1>5, <2>3, <2>4 DEF NameInv
<1> QED
  BY <1>4, <1>5

LEMMA TellsPartial == LoopInv /\ TellsInv /\ Windowed!Partial => TellsInv'
<1> SUFFICES ASSUME LoopInv, TellsInv, Windowed!Partial PROVE TellsInv'
  OBVIOUS
<1>1. CASE Len(heard) - baseOffset >= Window
  <2>1. DOMAIN winMap' = {}
    BY <1>1, Rolled
  <2> QED
    BY <2>1 DEF TellsInv
<1>2. CASE ~(Len(heard) - baseOffset >= Window)
  <2>1. UNCHANGED LabelVars
    BY <1>2, NotRolled DEF Windowed!Partial, LabelVars
  <2> QED
    BY <2>1, LabelsSame
<1> QED
  BY <1>1, <1>2

-----------------------------------------------------------------------------
\* Whose the labels are, when people never talk at the same time.

LEMMA Alone ==
  ASSUME LoopInv, Windowed!NoCrosstalk, NEW u \in 1 .. Len(heard),
         NEW p \in heard[u], NEW q \in heard[u]
  PROVE  p = q
<1>1. heard[u] \subseteq People
  BY DEF LoopInv, Windowed!TypeOK
<1>2. IsFiniteSet(heard[u]) /\ Cardinality(heard[u]) \in Nat
  BY <1>1, WindowAssumption, FS_Subset, FS_CardinalityType
<1>3. Cardinality(heard[u]) <= 1
  BY SameSize DEF Windowed!NoCrosstalk
<1>4. Cardinality(heard[u]) = 1
  BY <1>2, <1>3, FS_EmptySet
<1>5. PICK x : heard[u] = {x}
  BY <1>2, <1>4, FS_Singleton
<1> QED
  BY <1>5

\* What is heard later makes no crosstalk of what was heard before.
LEMMA CrosstalkStays == LoopInv /\ Windowed!Receive /\ Windowed!NoCrosstalk' => Windowed!NoCrosstalk
<1> SUFFICES ASSUME LoopInv, Windowed!Receive, Windowed!NoCrosstalk', NEW u \in 1 .. Len(heard)
             PROVE  Windowed!Cardinality(heard[u]) <= 1
  BY DEF Windowed!NoCrosstalk
<1>1. u \in 1 .. Len(heard') /\ heard'[u] = heard[u]
  BY Received, Sizes
<1> QED
  BY <1>1 DEF Windowed!NoCrosstalk

LEMMA OwnerSame ==
  ASSUME OwnerInv, UNCHANGED LabelVars, Windowed!NoCrosstalk' => Windowed!NoCrosstalk
  PROVE  OwnerInv'
BY DEF OwnerInv, OneEach, LabelVars

LEMMA OwnerQuiet ==
  ASSUME LoopInv, OwnerInv, Windowed!Receive \/ Windowed!Stop \/ Windowed!Final \/ Windowed!Fail
  PROVE  OwnerInv'
<1>1. UNCHANGED LabelVars
  BY LabelsQuiet
<1>2. Windowed!NoCrosstalk' => Windowed!NoCrosstalk
  <2>1. CASE Windowed!Receive
    BY <2>1, CrosstalkStays
  <2>2. CASE Windowed!Stop \/ Windowed!Final \/ Windowed!Fail
    BY <2>2 DEF Windowed!Stop, Windowed!Final, Windowed!Fail, Windowed!NoCrosstalk
  <2> QED
    BY <2>1, <2>2
<1> QED
  BY <1>1, <1>2, OwnerSame

LEMMA OwnerRelabel ==
  ASSUME LoopInv, KeptInv, NameInv, OwnerInv, NEW p \in People, Windowed!Relabel(p)
  PROVE  OwnerInv'
<1>1. PICK l \in Nat :
           /\ p \notin DOMAIN winMap /\ DOMAIN winMap' = DOMAIN winMap \cup {p}
           /\ winMap'[p] = l /\ \A q \in DOMAIN winMap : winMap'[q] = winMap[q]
           /\ \/ \E r \in overlapRef : r.label = l /\ p \in heard[r.unit]
              \/ l = canon
  BY Relabelled
<1>2. UNCHANGED <<heard, frozen, overlapRef>>
  BY DEF Windowed!Relabel
<1>3. Windowed!NoCrosstalk' = Windowed!NoCrosstalk
  BY <1>2 DEF Windowed!NoCrosstalk
<1> SUFFICES ASSUME Windowed!NoCrosstalk, NEW s \in frozen \cup overlapRef, s.label = l
             PROVE  s.person = p
  BY <1>1, <1>2, <1>3 DEF OwnerInv, OneEach
<1>4. CASE l = canon
  <2>1. s.label < canon /\ canon \in Nat
    BY Sizes DEF NameInv
  <2> QED
    BY <1>4, <2>1
<1>5. ASSUME NEW r \in overlapRef, r.label = l, p \in heard[r.unit] PROVE s.person = p
  <2>1. r.unit \in 1 .. Len(heard) /\ r.person \in heard[r.unit]
    BY TailWithin
  <2>2. r.person = p
    BY <1>5, <2>1, Alone
  <2>3. s.person = r.person
    BY <1>5 DEF OwnerInv, OneEach
  <2> QED
    BY <2>2, <2>3
<1> QED
  BY <1>1, <1>4, <1>5

LEMMA OwnerPartial == LoopInv /\ NameInv /\ OwnerInv /\ Windowed!Partial => OwnerInv'
<1> SUFFICES ASSUME LoopInv, NameInv, OwnerInv, Windowed!Partial PROVE OwnerInv'
  OBVIOUS
<1>1. UNCHANGED <<heard, canon>> /\ Windowed!Nameless = {}
  BY DEF Windowed!Partial
<1>2. Windowed!NoCrosstalk' = Windowed!NoCrosstalk
  BY <1>1 DEF Windowed!NoCrosstalk
<1>3. CASE Len(heard) - baseOffset >= Window
  <2>1. /\ frozen' \cup overlapRef' \subseteq frozen \cup Windowed!Current
        /\ DOMAIN winMap' = {}
    BY <1>3, Rolled
  <2>2. \A s \in Windowed!Current : s.person \in DOMAIN winMap /\ s.label = winMap[s.person]
    BY <1>1, CurrentLabels
  <2>3. Windowed!NoCrosstalk =>
          \A r, s \in frozen \cup Windowed!Current : r.label = s.label => r.person = s.person
    BY <2>2 DEF OwnerInv, OneEach, NameInv
  <2> QED
    BY <1>2, <2>1, <2>3 DEF OwnerInv, OneEach
<1>4. CASE ~(Len(heard) - baseOffset >= Window)
  <2>1. UNCHANGED LabelVars
    BY <1>1, <1>4, NotRolled DEF LabelVars
  <2> QED
    BY <1>2, <2>1, OwnerSame
<1> QED
  BY <1>3, <1>4

-----------------------------------------------------------------------------
\* The timeline sent.

\* What is sent has one label for each turn.
LEMMA SentOnce ==
  ASSUME LoopInv, KeptInv, Windowed!Nameless = {},
         NEW s \in frozen \cup Windowed!Current, NEW t \in frozen \cup Windowed!Current
  PROVE  Windowed!SameLabels(s, t)
<1>1. \A x \in frozen : x.unit \in 1 .. baseOffset
  BY DEF KeptInv, Exact
<1>2. \A x \in Windowed!Current : /\ x.unit \in baseOffset + 1 .. Len(heard)
                                  /\ x.label = winMap[x.person]
  BY CurrentLabels
<1>3. \A x \in frozen, y \in Windowed!Current : x.unit # y.unit
  <2>1. \A i \in 1 .. baseOffset, j \in baseOffset + 1 .. Len(heard) : i # j
    BY Sizes
  <2> QED
    BY <1>1, <1>2, <2>1
<1>4. \A x, y \in frozen : x.unit = y.unit /\ x.person = y.person => x.label = y.label
  BY DEF KeptInv, Exact
<1> QED
  BY <1>2, <1>3, <1>4 DEF Windowed!SameLabels

LEMMA SentRelabel ==
  ASSUME LoopInv, SentInv, NEW p \in People, Windowed!Relabel(p)
  PROVE  SentInv'
<1>1. DOMAIN winMap \subseteq DOMAIN winMap' /\ \A q \in DOMAIN winMap : winMap'[q] = winMap[q]
  BY Relabelled
<1>2. pc = "label" /\ UNCHANGED <<pc, heard, baseOffset, frozen, overlapRef, sent>>
  BY DEF Windowed!Relabel
<1>3. \A s \in sent : \/ s \in frozen \cup overlapRef
                      \/ /\ s.unit > baseOffset /\ s.person \in DOMAIN winMap'
                         /\ s.label = winMap'[s.person]
  BY <1>1 DEF SentInv
<1> QED
  BY <1>2, <1>3 DEF SentInv, Windowed!SameLabels

LEMMA SentQuiet ==
  ASSUME SentInv, Windowed!Receive \/ Windowed!Stop \/ Windowed!Fail
  PROVE  SentInv'
<1>1. pc' # "closed" /\ UNCHANGED <<baseOffset, frozen, overlapRef, winMap, sent>>
  BY DEF Windowed!Receive, Windowed!Stop, Windowed!Fail
<1> QED
  BY <1>1 DEF SentInv, Windowed!SameLabels

LEMMA SentPartial == LoopInv /\ KeptInv /\ SentInv /\ Windowed!Partial => SentInv'
<1> SUFFICES ASSUME LoopInv, KeptInv, SentInv, Windowed!Partial PROVE SentInv'
  OBVIOUS
<1>1. pc' = "recv" /\ Windowed!Nameless = {} /\ sent' = frozen \cup Windowed!Current
  BY DEF Windowed!Partial, Windowed!Send
<1>2. \A s, t \in sent' : Windowed!SameLabels(s, t)
  BY <1>1, SentOnce
<1>3. \A s \in Windowed!Current : /\ s.unit \in baseOffset + 1 .. Len(heard)
                                  /\ s.person \in DOMAIN winMap /\ s.label = winMap[s.person]
  BY <1>1, CurrentLabels
<1>4. CASE Len(heard) - baseOffset >= Window
  <2> DEFINE boundary == Len(heard) - Lap
  <2>1. /\ frozen' = frozen \cup {s \in Windowed!Current : s.unit <= boundary}
        /\ overlapRef' = {s \in Windowed!Current : s.unit > boundary} /\ boundary \in Nat
    BY <1>4, Rolled
  <2>2. \A s \in Windowed!Current : s.unit <= boundary \/ s.unit > boundary
    BY <1>3, <2>1, Sizes
  <2>3. sent' \subseteq frozen' \cup overlapRef'
    BY <1>1, <2>1, <2>2
  <2> QED
    BY <1>1, <1>2, <2>3 DEF SentInv, Windowed!SameLabels
<1>5. CASE ~(Len(heard) - baseOffset >= Window)
  <2>1. UNCHANGED <<baseOffset, frozen, overlapRef, winMap>>
    BY <1>5, NotRolled
  <2>2. \A s \in Windowed!Current : s.unit > baseOffset
    BY <1>3, Sizes
  <2> QED
    BY <1>1, <1>2, <1>3, <2>1, <2>2 DEF SentInv, Windowed!SameLabels
<1> QED
  BY <1>4, <1>5

LEMMA SentFinal == LoopInv /\ KeptInv /\ NameInv /\ SentInv /\ Windowed!Final => SentInv'
<1> SUFFICES ASSUME LoopInv, KeptInv, NameInv, SentInv, Windowed!Final PROVE SentInv'
  OBVIOUS
<1>1. /\ Windowed!Nameless = {} /\ sent' = frozen \cup Windowed!Current
      /\ UNCHANGED <<heard, baseOffset, frozen, overlapRef, winMap>>
  BY DEF Windowed!Final, Windowed!Send
<1>2. \A s, t \in sent' : Windowed!SameLabels(s, t)
  BY <1>1, SentOnce
<1>3. \A s \in Windowed!Current : /\ s.unit \in baseOffset + 1 .. Len(heard)
                                  /\ s.person \in DOMAIN winMap /\ s.label = winMap[s.person]
  BY <1>1, CurrentLabels
<1>4. \A s \in Windowed!Current : s.unit > baseOffset
  BY <1>3, Sizes
<1>5. ASSUME Len(heard) >= Least PROVE Exact(sent', heard, 1, Len(heard))
  <2>1. Len(heard) - baseOffset >= Least
    BY <1>5, Sizes DEF Overlap
  <2>2. Exact(Windowed!Current, heard, baseOffset + 1, Len(heard))
    BY <1>1, <2>1, CurrentExact
  <2>3. Exact(frozen, heard, 1, baseOffset)
    BY DEF KeptInv
  <2>4. Exact(frozen \cup Windowed!Current, heard, 1, Len(heard))
    BY <2>2, <2>3, ExactJoin, Sizes
  <2> QED
    BY <1>1, <2>4
<1> QED
  BY <1>1, <1>2, <1>3, <1>4, <1>5 DEF SentInv, Windowed!SameLabels

-----------------------------------------------------------------------------
\* Every step of the window path keeps its invariant.

LEMMA WindowKept == WindowInv /\ Windowed!Next => WindowInv'
<1> SUFFICES ASSUME WindowInv, Windowed!Next PROVE WindowInv'
  OBVIOUS
<1>1. LoopInv /\ KeptInv /\ NameInv /\ TellsInv /\ OwnerInv /\ SentInv
  BY DEF WindowInv
<1>2. CASE Windowed!Receive
  <2>1. LoopInv' /\ KeptInv'
    BY <1>1, <1>2, LoopReceive, KeptReceive
  <2>2. NameInv' /\ TellsInv'
    BY <1>1, <1>2, LabelsQuiet, LabelsSame
  <2> QED
    BY <1>1, <1>2, <2>1, <2>2, OwnerQuiet, SentQuiet DEF WindowInv
<1>3. CASE Windowed!Stop \/ Windowed!Final \/ Windowed!Fail
  <2>1. LoopInv' /\ KeptInv'
    BY <1>1, <1>3, LoopRest, KeptQuiet, KeptSame
  <2>2. NameInv' /\ TellsInv'
    BY <1>1, <1>3, LabelsQuiet, LabelsSame
  <2>3. OwnerInv' /\ SentInv'
    BY <1>1, <1>3, OwnerQuiet, SentQuiet, SentFinal
  <2> QED
    BY <2>1, <2>2, <2>3 DEF WindowInv
<1>4. ASSUME NEW p \in People, Windowed!Relabel(p) PROVE WindowInv'
  <2>1. LoopInv' /\ KeptInv'
    BY <1>1, <1>4, LoopRest, KeptQuiet, KeptSame
  <2>2. NameInv' /\ TellsInv'
    BY <1>1, <1>4, NameRelabel, TellsRelabel
  <2>3. OwnerInv' /\ SentInv'
    BY <1>1, <1>4, OwnerRelabel, SentRelabel
  <2> QED
    BY <2>1, <2>2, <2>3 DEF WindowInv
<1>5. CASE Windowed!Partial
  <2>1. LoopInv' /\ KeptInv'
    BY <1>1, <1>5, LoopPartial, KeptPartial
  <2>2. NameInv' /\ TellsInv'
    BY <1>1, <1>5, NamePartial, TellsPartial
  <2>3. OwnerInv' /\ SentInv'
    BY <1>1, <1>5, OwnerPartial, SentPartial
  <2> QED
    BY <2>1, <2>2, <2>3 DEF WindowInv
<1> QED
  BY <1>2, <1>3, <1>4, <1>5 DEF Windowed!Next

-----------------------------------------------------------------------------
\* A complete timeline counts as it should.

LEMMA Counts ==
  ASSUME NEW T, NEW P, IsFiniteSet(P), {s.person : s \in T} = P,
         \A s, t \in T : s.person = t.person => s = t,
         \A s, t \in T : s.label = t.label => s = t
  PROVE  Cardinality(T) = Cardinality(P) /\ Cardinality({s.label : s \in T}) = Cardinality(P)
<1> DEFINE L == {s.label : s \in T}
           f == [s \in T |-> s.person]
           g == [s \in T |-> s.label]
<1>1. f \in [T -> P] /\ (\A s, t \in T : f[s] = f[t] => s = t) /\ \A p \in P : \E s \in T : f[s] = p
  OBVIOUS
<1>2. g \in [T -> L] /\ (\A s, t \in T : g[s] = g[t] => s = t) /\ \A l \in L : \E s \in T : g[s] = l
  OBVIOUS
<1> HIDE DEF L, f, g
<1>3. f \in Injection(T, P) /\ f \in Bijection(T, P) /\ g \in Bijection(T, L)
  BY <1>1, <1>2 DEF Bijection, Injection, Surjection, IsInjective
<1>4. ExistsBijection(T, P) /\ ExistsBijection(T, L)
  BY <1>3 DEF ExistsBijection
<1>5. IsFiniteSet(T)
  BY <1>3, FS_Injection
<1>6. Cardinality(T) = Cardinality(P)
  BY <1>4, <1>5, FS_Bijection
<1>7. Cardinality(T) = Cardinality(L)
  BY <1>4, <1>5, FS_Bijection
<1> QED
  BY <1>6, <1>7 DEF L

LEMMA ClosedComplete == WindowInv => Windowed!TimelineComplete
<1> SUFFICES ASSUME WindowInv, pc = "closed", Len(heard) >= Least, NEW u \in 1 .. Len(heard)
             PROVE  LET turns == {s \in sent : s.unit = u} IN
                    /\ {s.person : s \in turns} = heard[u]
                    /\ Windowed!Cardinality({s.label : s \in turns})
                         = Windowed!Cardinality(heard[u])
                    /\ Windowed!Cardinality(turns) = Windowed!Cardinality(heard[u])
  BY DEF Windowed!TimelineComplete
<1> DEFINE turns == {s \in sent : s.unit = u}
<1>1. LoopInv /\ Exact(sent, heard, 1, Len(heard))
  BY DEF WindowInv, SentInv
<1>2. {s.person : s \in turns} = heard[u]
  BY <1>1 DEF Exact
<1>3. \A s, t \in turns : (s.person = t.person <=> s.label = t.label)
  BY <1>1 DEF Exact
<1>4. \A s, t \in turns : s.person = t.person /\ s.label = t.label => s = t
  <2>1. turns \subseteq Windowed!Turn
    BY <1>1 DEF LoopInv, Windowed!TypeOK
  <2> QED
    BY <2>1 DEF Windowed!Turn
<1>5. IsFiniteSet(heard[u])
  <2>1. heard[u] \subseteq People
    BY <1>1 DEF LoopInv, Windowed!TypeOK
  <2> QED
    BY <2>1, WindowAssumption, FS_Subset
<1> HIDE DEF turns
<1>6. /\ Cardinality(turns) = Cardinality(heard[u])
      /\ Cardinality({s.label : s \in turns}) = Cardinality(heard[u])
  <2>1. /\ \A s, t \in turns : s.person = t.person => s = t
        /\ \A s, t \in turns : s.label = t.label => s = t
    BY <1>3, <1>4
  <2> QED
    BY <1>2, <1>5, <2>1, Counts
<1> QED
  BY <1>2, <1>6, SameSize DEF turns

\* Who is named in the last timeline.
LEMMA SentOwners == WindowInv => Windowed!OnePersonPerLabel
<1> SUFFICES ASSUME WindowInv, Windowed!NoCrosstalk, NEW s \in sent, NEW t \in sent,
                    s.label = t.label
             PROVE  s.person = t.person
  BY DEF Windowed!OnePersonPerLabel
<1>1. \A x \in sent : x \in frozen \cup overlapRef
                      \/ (x.person \in DOMAIN winMap /\ x.label = winMap[x.person])
  BY DEF WindowInv, SentInv
<1>2. OneEach(frozen \cup overlapRef, winMap)
  BY DEF WindowInv, OwnerInv
<1>3. \A p, q \in DOMAIN winMap : winMap[p] = winMap[q] => p = q
  BY DEF WindowInv, NameInv
<1> QED
  BY <1>1, <1>2, <1>3 DEF OneEach

\* A timeline sent next to the last one.
LEMMA NextLabels ==
  ASSUME WindowInv, Windowed!Next, NEW s \in sent, NEW t \in sent'
  PROVE  Windowed!SameLabels(s, t) \/ (Windowed!Relabelled(s) /\ ~Windowed!Separable)
<1>1. CASE sent' = sent
  BY <1>1 DEF WindowInv, SentInv
<1>2. CASE Windowed!Partial \/ Windowed!Final
  <2> SUFFICES ASSUME s.unit = t.unit, s.person = t.person,
                      ~(Windowed!Relabelled(s) /\ ~Windowed!Separable)
               PROVE  s.label = t.label
    BY DEF Windowed!SameLabels
  <2>1. Windowed!Nameless = {} /\ sent' = frozen \cup Windowed!Current
    BY <1>2 DEF Windowed!Partial, Windowed!Final, Windowed!Send
  <2>2. /\ \A x \in frozen : x.unit \in 1 .. baseOffset
        /\ \A x, y \in frozen : x.unit = y.unit /\ x.person = y.person => x.label = y.label
        /\ \A x \in overlapRef : x.unit \in baseOffset + 1 .. baseOffset + Overlap
    BY DEF WindowInv, KeptInv, Exact
  <2>3. \A x \in Windowed!Current : /\ x.unit \in baseOffset + 1 .. Len(heard)
                                    /\ x.person \in DOMAIN winMap /\ x.label = winMap[x.person]
    BY <2>1, CurrentLabels DEF WindowInv
  <2>4. /\ baseOffset \in Nat /\ Overlap \in Nat /\ Len(heard) \in Nat
        /\ Overlap = 0 \/ Overlap = Lap
    BY Sizes DEF WindowInv
  <2>5. s \in frozen \cup overlapRef
        \/ (s.unit > baseOffset /\ s.person \in DOMAIN winMap /\ s.label = winMap[s.person])
    BY DEF WindowInv, SentInv
  <2>6. CASE s \in frozen
    <3>1. t \in frozen
      BY <2>1, <2>2, <2>3, <2>4, <2>6
    <3> QED
      BY <2>2, <2>6, <3>1
  <2>7. CASE s \in overlapRef
    <3>1. t \in Windowed!Current
      BY <2>1, <2>2, <2>4, <2>7
    <3>2. Windowed!Separable
      BY <2>2, <2>4, <2>7 DEF Windowed!Relabelled
    <3>3. t.person \in DOMAIN winMap /\ t.label = winMap[t.person]
      BY <2>3, <3>1
    <3> QED
      BY <2>7, <3>2, <3>3 DEF WindowInv, TellsInv
  <2>8. CASE s.unit > baseOffset /\ s.person \in DOMAIN winMap /\ s.label = winMap[s.person]
    <3>1. t \in Windowed!Current
      BY <2>1, <2>2, <2>4, <2>8
    <3> QED
      BY <2>3, <2>8, <3>1
  <2> QED
    BY <2>5, <2>6, <2>7, <2>8
<1> QED
  BY <1>1, <1>2 DEF Windowed!Next, Windowed!Receive, Windowed!Stop, Windowed!Relabel, Windowed!Fail

-----------------------------------------------------------------------------
\* The session: the path not taken keeps what it started with.

StreamIdle == got = 0 /\ start = 0 /\ baseChunks = 0 /\ committed = 0 /\ fed = <<>>
WindowIdle == /\ heard = <<>> /\ baseOffset = 0 /\ frozen = {} /\ overlapRef = {}
              /\ winMap = <<>> /\ canon = 0 /\ sent = {}

SessionInv ==
    /\ path \in {"untested", "stream", "window"}
    /\ path = "untested" => pc = "recv" /\ closing = FALSE /\ since = 0
    /\ path # "stream" => StreamIdle
    /\ path # "window" => WindowIdle
    /\ path = "stream" => StreamInv
    /\ path = "window" => WindowInv

LEMMA WindowStart == Windowed!Init => WindowInv
<1> SUFFICES ASSUME Windowed!Init PROVE WindowInv
  OBVIOUS
<1>1. /\ pc = "recv" /\ closing = FALSE /\ since = 0 /\ heard = <<>> /\ baseOffset = 0
      /\ frozen = {} /\ overlapRef = {} /\ DOMAIN winMap = {} /\ canon = 0 /\ sent = {}
      /\ Len(heard) = 0 /\ Overlap = 0
  BY DEF Windowed!Init, Overlap
<1>2. LoopInv
  <2>1. Windowed!TypeOK
    <3>1. heard \in Seq(SUBSET People)
      BY <1>1
    <3> QED
      BY <1>1, <3>1 DEF Windowed!TypeOK, Windowed!Range
  <2> QED
    BY <1>1, <2>1, WindowAssumption DEF LoopInv
<1>3. KeptInv
  BY <1>1 DEF KeptInv, Exact
<1>4. NameInv /\ TellsInv /\ OwnerInv /\ SentInv
  BY <1>1 DEF NameInv, TellsInv, OwnerInv, OneEach, SentInv
<1> QED
  BY <1>2, <1>3, <1>4 DEF WindowInv

LEMMA WindowStays ==
  ASSUME WindowInv, UNCHANGED <<loopVars, windowVars>>
  PROVE  WindowInv'
<1>1. UNCHANGED <<pc, closing, since, heard, baseOffset, frozen, overlapRef, winMap, canon, sent>>
  BY DEF loopVars, windowVars
<1>2. LoopInv' /\ KeptInv'
  BY <1>1 DEF WindowInv, LoopInv, KeptInv, Overlap, Windowed!TypeOK, Windowed!Turn, Windowed!Range
<1>3. NameInv' /\ TellsInv'
  BY <1>1, LabelsSame DEF WindowInv, LabelVars
<1>4. OwnerInv'
  BY <1>1, OwnerSame DEF WindowInv, LabelVars, Windowed!NoCrosstalk
<1>5. SentInv'
  BY <1>1 DEF WindowInv, SentInv, Windowed!SameLabels
<1> QED
  BY <1>2, <1>3, <1>4, <1>5 DEF WindowInv

LEMMA SessionStart == SessionInit => SessionInv
BY DEF SessionInit, SessionInv, Init, Windowed!Init, StreamIdle, WindowIdle

LEMMA SessionStep == SessionInv /\ [SessionNext]_sessionVars => SessionInv'
<1> SUFFICES ASSUME SessionInv, [SessionNext]_sessionVars PROVE SessionInv'
  OBVIOUS
<1>1. CASE SelfTest
  <2>1. /\ path = "untested" /\ path' \in {"stream", "window"}
        /\ UNCHANGED <<loopVars, streamVars, windowVars>>
    BY <1>1 DEF SelfTest
  <2>2. Init /\ Windowed!Init
    BY <2>1 DEF SessionInv, StreamIdle, WindowIdle, Init, Windowed!Init
  <2>3. StreamInv /\ WindowInv
    BY <2>2, StreamInit, WindowStart
  <2>4. StreamIdle' /\ WindowIdle'
    BY <2>1 DEF SessionInv, StreamIdle, WindowIdle, streamVars, windowVars
  <2>5. StreamInv'
    BY <2>1, <2>3, StreamStep DEF vars, loopVars, streamVars
  <2>6. WindowInv'
    BY <2>1, <2>3, WindowStays
  <2> QED
    BY <2>1, <2>4, <2>5, <2>6 DEF SessionInv
<1>2. CASE RunStreaming
  <2>1. path = "stream" /\ path' = path /\ UNCHANGED windowVars /\ StreamInv'
    BY <1>2, StreamStep DEF RunStreaming, SessionInv
  <2> QED
    BY <2>1 DEF SessionInv, WindowIdle, windowVars
<1>3. CASE RunWindow
  <2>1. path = "window" /\ path' = path /\ UNCHANGED streamVars /\ WindowInv'
    BY <1>3, WindowKept DEF RunWindow, SessionInv
  <2> QED
    BY <2>1 DEF SessionInv, StreamIdle, streamVars
<1>4. CASE UNCHANGED sessionVars
  <2>1. UNCHANGED <<path, loopVars, streamVars, windowVars>>
    BY <1>4 DEF sessionVars
  <2>2. StreamInv => StreamInv'
    BY <2>1, StreamStep DEF vars, loopVars, streamVars
  <2>3. WindowInv => WindowInv'
    BY <2>1, WindowStays
  <2> QED
    BY <2>1, <2>2, <2>3 DEF SessionInv, StreamIdle, WindowIdle, loopVars, streamVars, windowVars
<1> QED
  BY <1>1, <1>2, <1>3, <1>4 DEF SessionNext

-----------------------------------------------------------------------------
\* What a session promises.

\* Whatever the path and the client, the state stays within its types.
THEOREM SessionTypeCorrect == SessionSpec => []SessionTypeOK
<1>1. SessionInv => SessionTypeOK
  <2>1. ASSUME SessionInv, path = "window" PROVE Windowed!TypeOK
    BY <2>1 DEF SessionInv, WindowInv, LoopInv
  <2>2. ASSUME SessionInv, path = "stream" PROVE TypeOK
    BY <2>2 DEF SessionInv, StreamInv
  <2>3. ASSUME SessionInv, path = "untested" PROVE TypeOK
    BY <2>3, StreamInit DEF SessionInv, StreamIdle, Init, StreamInv
  <2> QED
    BY <2>1, <2>2, <2>3 DEF SessionTypeOK, SessionInv
<1> QED
  BY <1>1, SessionStart, SessionStep, PTL DEF SessionSpec

\* The incremental path, where a session takes it, feeds the model as DiarStream promises.
THEOREM SessionFeeds == SessionSpec => []AudioFed
<1>1. SessionInv => AudioFed
  <2>1. ASSUME SessionInv, path = "stream" PROVE AudioFed
    BY <2>1 DEF SessionInv, StreamInv, InOrder, AudioFed, OnGrid
  <2>2. ASSUME SessionInv, path # "stream" PROVE AudioFed
    BY <2>2 DEF SessionInv, StreamIdle, AudioFed, OnGrid, AllFed
  <2> QED
    BY <2>1, <2>2
<1> QED
  BY <1>1, SessionStart, SessionStep, PTL DEF SessionSpec

\* For any sizes of window, tail, step, chunk and context, a session keeps no more audio than
\* these and one piece allow, however long it lasts.
THEOREM SessionBounded == SessionSpec => []MemoryBounded
<1>1. SessionInv => BufferBounded
  <2>1. ASSUME SessionInv, path = "stream" PROVE BufferBounded
    BY <2>1 DEF SessionInv, StreamInv
  <2>2. ASSUME SessionInv, path # "stream" PROVE BufferBounded
    <3>1. /\ Keep * Chunk \in Nat /\ (Keep + 1) * Chunk = Keep * Chunk + Chunk
          /\ (0 + 1) * Chunk = Chunk
      BY StreamSizes, ChunksAdd
    <3>2. /\ got = 0 /\ committed = 0 /\ Heard = 0
      BY <2>2 DEF SessionInv, StreamIdle, Heard
    <3> QED
      BY <3>1, <3>2, StreamSizes DEF BufferBounded
  <2> QED
    BY <2>1, <2>2
<1>2. SessionInv => Windowed!WindowBounded
  <2>1. ASSUME SessionInv, path = "window" PROVE Windowed!WindowBounded
    BY <2>1 DEF SessionInv, WindowInv, LoopInv, Windowed!WindowBounded
  <2>2. ASSUME SessionInv, path # "window" PROVE Windowed!WindowBounded
    <3>1. Len(heard) = 0 /\ baseOffset = 0
      BY <2>2 DEF SessionInv, WindowIdle
    <3> QED
      BY <3>1, WindowAssumption DEF Windowed!WindowBounded
  <2> QED
    BY <2>1, <2>2
<1> QED
  BY <1>1, <1>2, SessionStart, SessionStep, PTL DEF SessionSpec, MemoryBounded

\* Whatever is rolled away and whoever talks over whom, the timeline a session closes with has
\* every turn once, and those who talk at the same time under different labels.
THEOREM TimelineAlwaysComplete == SessionSpec => []TimelineComplete
<1>1. SessionInv => TimelineComplete
  BY ClosedComplete DEF SessionInv, TimelineComplete
<1> QED
  BY <1>1, SessionStart, SessionStep, PTL DEF SessionSpec

\* Without crosstalk no two people are ever given one label, however many rolls lie between.
THEOREM OneLabelOnePerson == SessionSpec => []OnePersonPerLabel
<1>1. SessionInv => OnePersonPerLabel
  <2>1. ASSUME SessionInv, path = "window" PROVE Windowed!OnePersonPerLabel
    BY <2>1, SentOwners DEF SessionInv
  <2>2. ASSUME SessionInv, path # "window" PROVE Windowed!OnePersonPerLabel
    BY <2>2 DEF SessionInv, WindowIdle, Windowed!OnePersonPerLabel
  <2> QED
    BY <2>1, <2>2 DEF OnePersonPerLabel
<1> QED
  BY <1>1, SessionStart, SessionStep, PTL DEF SessionSpec

\* From one message to the next a turn keeps its label, but for one of the tail whose speaker
\* somebody else covers there.
THEOREM LabelsAlwaysStable == SessionSpec => LabelsStable
<1> DEFINE Stable == \A s \in sent, t \in sent' \ sent :
                       Windowed!SameLabels(s, t) \/ (Windowed!Relabelled(s) /\ ~Windowed!Separable)
<1>1. SessionInv /\ [SessionNext]_sessionVars => [Stable]_(Windowed!vars)
  <2> SUFFICES ASSUME SessionInv, [SessionNext]_sessionVars PROVE Stable \/ UNCHANGED Windowed!vars
    OBVIOUS
  <2>1. CASE RunWindow
    BY <2>1, NextLabels DEF RunWindow, SessionInv
  <2>2. CASE RunStreaming
    <3>1. sent = {}
      BY <2>2 DEF RunStreaming, SessionInv, WindowIdle
    <3> QED
      BY <3>1
  <2>3. CASE SelfTest \/ UNCHANGED sessionVars
    BY <2>3 DEF SelfTest, sessionVars, loopVars, windowVars, Windowed!vars
  <2> QED
    BY <2>1, <2>2, <2>3 DEF SessionNext
<1> QED
  BY <1>1, SessionStart, SessionStep, PTL DEF SessionSpec, LabelsStable, Windowed!LabelsStable
=============================================================================
