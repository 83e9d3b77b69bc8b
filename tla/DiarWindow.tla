----------------------------- MODULE DiarWindow ----------------------------
(***************************************************************************)
(* wrapper/caps/diar_stream.py, _run_window: the fallback path of a         *)
(* diarization session.  The last window of audio is diarized anew at every *)
(* step; when it has grown too long its older part is frozen and a tail is  *)
(* kept, by which the next window's speakers are given their labels again.  *)
(*                                                                          *)
(* Audio is counted in units longer than the gap _merge_segments bridges,   *)
(* so that a timeline is a set of turns: who is labelled how in which unit. *)
(* The engine is taken to hear every window right and to number its local   *)
(* speakers in order of arrival; a local speaker is then a person.  A turn  *)
(* carries its person so that properties can speak of it: no guard reads    *)
(* the person of a frozen or tail turn.                                     *)
(***************************************************************************)
EXTENDS Naturals, Sequences, FiniteSets, Functions

CONSTANTS
    \* (their sizes are assumed in DiarSession)
    People,  \* who may be heard
    Units,   \* units the client sends, at most
    Piece,   \* the longest piece of audio it sends
    StepW,   \* step_samples
    Least,   \* min_samples
    Window,  \* window_samples
    Lap     \* overlap_samples

VARIABLES
    pc,         \* "recv", "label", "closed" or "failed"
    closing,    \* the receive loop has ended
    since,      \* units since the last diarization
    heard,      \* who speaks in each unit received
    baseOffset, \* base_offset: the units before buf[0]
    committed,  \* the frozen turns
    overlapRef, \* overlap_ref: the turns of the tail, as labelled before the roll
    winMap,     \* win_map: the labels of the current window's speakers
    canon,      \* canon["n"]: the next new label
    sent        \* the last timeline sent

vars == <<pc, closing, since, heard, baseOffset, committed, overlapRef, winMap, canon, sent>>

Turn == [unit : Nat, person : People, label : Nat]

Init ==
    /\ pc = "recv" /\ closing = FALSE /\ since = 0 /\ heard = <<>>
    /\ baseOffset = 0 /\ committed = {} /\ overlapRef = {}
    /\ winMap = <<>> /\ canon = 0 /\ sent = {}

\* A piece of audio; a step's worth of new audio has the window diarized.
Receive ==
    /\ pc = "recv"
    /\ \E n \in 1 .. Piece : \E piece \in [1 .. n -> SUBSET People] :
        /\ Len(heard) + n <= Units
        /\ heard' = heard \o piece
        /\ IF since + n >= StepW THEN pc' = "label" /\ since' = 0
                                 ELSE pc' = "recv" /\ since' = since + n
    /\ UNCHANGED <<closing, baseOffset, committed, overlapRef, winMap, canon, sent>>

\* stop, or a disconnect: the window is diarized once more.
Stop ==
    /\ pc = "recv" /\ pc' = "label" /\ closing' = TRUE
    /\ UNCHANGED <<since, heard, baseOffset, committed, overlapRef, winMap, canon, sent>>

\* The engine's answer: the units in which each speaker of the window is heard.
Active    == baseOffset + 1 .. Len(heard)
Spoken(p) == IF Len(heard) - baseOffset < Least THEN {} ELSE {u \in Active : p \in heard[u]}
Speakers  == {p \in People : Spoken(p) # {}}
Nameless  == Speakers \ DOMAIN winMap

Earliest(p, q) == LET others == Spoken(q) IN \E u \in Spoken(p) : \A v \in others : u <= v

\* _relabel: the labels of the tail not yet given in this window, by their overlap with p.
Shared(p, label) == Cardinality({r \in overlapRef : r.label = label /\ r.unit \in Spoken(p)})
Candidates_Reused(p) == {l \in {r.label : r \in overlapRef} : Shared(p, l) > 0}
Candidates(p) == {l \in {r.label : r \in overlapRef} \ Range(winMap) : Shared(p, l) > 0}
\* Among equals, the one the iteration over a set meets first: any.
Best(p) == LET labels == Candidates(p)
           IN  {l \in labels : \A m \in labels : Shared(p, m) <= Shared(p, l)}

NewLabel_PerWindow == Cardinality(DOMAIN winMap)
NewLabel == canon

Name(p, label) == winMap' = [q \in DOMAIN winMap \cup {p} |-> IF q = p THEN label ELSE winMap[q]]

Relabel(p) ==
    /\ pc = "label" /\ p \in Nameless /\ \A q \in Nameless : Earliest(p, q)
    /\ \/ \E l \in Best(p) : Name(p, l) /\ UNCHANGED canon
       \/ Best(p) = {} /\ Name(p, NewLabel) /\ canon' = canon + 1
    /\ UNCHANGED <<pc, closing, since, heard, baseOffset, committed, overlapRef, sent>>

\* The window's turns, once every speaker in it is named.
Current == UNION {[unit : Spoken(p), person : {p}, label : {winMap[p]}] : p \in Speakers}

Send == sent' = committed \cup Current

Roll_StaleTail ==
    LET boundary == Len(heard) - Lap IN
    IF Len(heard) - baseOffset < Window
    THEN UNCHANGED <<baseOffset, committed, overlapRef, winMap>>
    ELSE /\ committed' = committed \cup {s \in Current : s.unit <= boundary}
         /\ baseOffset' = boundary
         /\ winMap' = <<>> /\ UNCHANGED overlapRef

\* _roll, after the partial is sent: freeze what precedes the tail.
Roll ==
    LET boundary == Len(heard) - Lap IN
    IF Len(heard) - baseOffset < Window
    THEN UNCHANGED <<baseOffset, committed, overlapRef, winMap>>
    ELSE /\ committed' = committed \cup {s \in Current : s.unit <= boundary}
         /\ overlapRef' = {s \in Current : s.unit > boundary}
         /\ baseOffset' = boundary
         /\ winMap' = <<>>

Partial ==
    /\ pc = "label" /\ ~closing /\ Nameless = {}
    /\ Send /\ Roll /\ pc' = "recv"
    /\ UNCHANGED <<closing, since, heard, canon>>

Final ==
    /\ pc = "label" /\ closing /\ Nameless = {}
    /\ Send /\ pc' = "closed"
    /\ UNCHANGED <<closing, since, heard, baseOffset, committed, overlapRef, winMap, canon>>

\* The engine or the socket raises: an error frame, and the session is over.
Fail ==
    /\ pc = "label" /\ pc' = "failed"
    /\ UNCHANGED <<closing, since, heard, baseOffset, committed, overlapRef, winMap, canon, sent>>

Next == Receive \/ Stop \/ (\E p \in People : Relabel(p)) \/ Partial \/ Final \/ Fail

Spec == Init /\ [][Next]_vars
-----------------------------------------------------------------------------
TypeOK ==
    /\ pc \in {"recv", "label", "closed", "failed"} /\ closing \in BOOLEAN
    /\ since \in Nat /\ heard \in Seq(SUBSET People) /\ baseOffset \in Nat
    /\ committed \subseteq Turn /\ overlapRef \subseteq Turn /\ sent \subseteq Turn
    /\ DOMAIN winMap \subseteq People /\ Range(winMap) \subseteq Nat
    /\ canon \in Nat

(***************************************************************************)
(* The audio a session keeps, and diarizes at each step, is bounded however *)
(* long the session lasts.                                                  *)
(***************************************************************************)
WindowBounded == Len(heard) - baseOffset < Window + (StepW - 1) + Piece

(***************************************************************************)
(* When a session closes, the timeline it sent has every turn it heard,     *)
(* across however many rolls, once, and people who talk at the same time    *)
(* have different labels.  (A window shorter than Least is not diarized.)   *)
(***************************************************************************)
TimelineComplete ==
    pc = "closed" /\ Len(heard) >= Least =>
        \A u \in 1 .. Len(heard) :
            LET turns == {s \in sent : s.unit = u} IN
            /\ {s.person : s \in turns} = heard[u]
            /\ Cardinality({s.label : s \in turns}) = Cardinality(heard[u])
            /\ Cardinality(turns) = Cardinality(heard[u])

(***************************************************************************)
(* As long as people never talk at the same time, a label is one person's   *)
(* for the whole session, whatever is rolled away.  (The converse is not    *)
(* promised: who is silent for a whole tail comes back under a new label.)  *)
(***************************************************************************)
NoCrosstalk == \A u \in 1 .. Len(heard) : Cardinality(heard[u]) <= 1

OnePersonPerLabel ==
    NoCrosstalk => \A s, t \in sent : s.label = t.label => s.person = t.person

(***************************************************************************)
(* From one message to the next no turn is relabelled: never when it is     *)
(* frozen or was heard since the last roll, nor in the tail when nobody's   *)
(* speech there is covered by somebody else's, which is when the overlap    *)
(* with the tail tells the speakers apart.                                  *)
(***************************************************************************)
InTail(p) == {r.unit : r \in {s \in overlapRef : s.person = p}}
Separable == \A r, s \in overlapRef :
                r.person # s.person => ~(InTail(r.person) \subseteq InTail(s.person))

Relabelled(s) == s.unit \in baseOffset + 1 .. baseOffset + Lap

SameLabels(s, t) == s.unit = t.unit /\ s.person = t.person => s.label = t.label

LabelsStable ==
    [][(\A s \in sent, t \in sent' \ sent : SameLabels(s, t) \/ (Relabelled(s) /\ ~Separable))]_vars
=============================================================================
