----------------------------- MODULE DiarSession ---------------------------
(***************************************************************************)
(* wrapper/caps/diar_stream.py, diarize_stream: a diarization session takes *)
(* one of two paths, and which is settled before any of the client's audio  *)
(* is consumed, by a self-test of the incremental one.                      *)
(***************************************************************************)
EXTENDS DiarStream, FiniteSets

CONSTANTS Incremental,                                      \* _state["streaming_ok"]
          People, Units, Piece, StepW, Least, Window, Lap   \* see DiarWindow

ASSUME IncrementalAssumption == Incremental \in BOOLEAN
ASSUME WindowAssumption == /\ Units \in Nat /\ Piece \in Nat /\ Least \in Nat
                           /\ StepW \in Nat \ {0} /\ Window \in Nat /\ Window >= 2 * StepW
                           /\ Lap \in 1 .. Window - StepW
                           /\ Least <= StepW /\ Least <= Lap
                           /\ IsFiniteSet(People)

VARIABLES path,  \* "untested", "stream" or "window"
          heard, baseOffset, frozen, overlapRef, winMap, canon, sent   \* see DiarWindow

\* Both paths use the variables of the receive loop; what each keeps is its own.
Windowed == INSTANCE DiarWindow WITH committed <- frozen

loopVars   == <<pc, closing, since>>
streamVars == <<got, start, baseChunks, committed, fed>>
windowVars == <<heard, baseOffset, frozen, overlapRef, winMap, canon, sent>>
sessionVars == <<path, loopVars, streamVars, windowVars>>

SessionInit == path = "untested" /\ Init /\ Windowed!Init

\* The self-test leaves no trace when it passes; when it raises, or the incremental API
\* is not there to be tested, the window takes over.
SelfTest ==
    /\ path = "untested"
    /\ \/ Incremental /\ path' = "stream"
       \/ path' = "window"
    /\ UNCHANGED <<loopVars, streamVars, windowVars>>

RunStreaming == path = "stream" /\ Next          /\ UNCHANGED <<path, windowVars>>
RunWindow    == path = "window" /\ Windowed!Next /\ UNCHANGED <<path, streamVars>>

SessionNext == SelfTest \/ RunStreaming \/ RunWindow

SessionSpec == SessionInit /\ [][SessionNext]_sessionVars
-----------------------------------------------------------------------------
\* The types of the path taken.
SessionTypeOK == IF path = "window" THEN Windowed!TypeOK ELSE TypeOK

\* Neither path keeps more audio than its window and what arrives in a step.
MemoryBounded == BufferBounded /\ Windowed!WindowBounded

\* The closing timeline has every turn once (DiarWindow).
TimelineComplete == path = "window" => Windowed!TimelineComplete

\* Without crosstalk a label is one person's (DiarWindow).
OnePersonPerLabel == Windowed!OnePersonPerLabel

\* From one message to the next a turn keeps its label, unless the tail cannot tell
\* its speaker from another (DiarWindow).
LabelsStable == Windowed!LabelsStable

\* "streaming diarization has to keep speaker labels consistent over time" (README.md:232)
\* and a roll's labels are anchored "by max overlap with the tail" (diar_stream.py:365),
\* whoever speaks in it: so a turn keeps its label from one message to the next.
StepsAgree == [][\A s \in sent, t \in sent' : Windowed!SameLabels(s, t)]_sessionVars
=============================================================================
