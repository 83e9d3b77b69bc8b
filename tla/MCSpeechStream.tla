--------------------------- MODULE MCSpeechStream ---------------------------
EXTENDS SpeechStream, TLC
CONSTANTS c1, c2
\* One client next to a job: two sentences and a mark, more than its work queue holds, of
\* three chunks, more than its pump's queue does.
Two   == c1 :> 2
Three == c1 :> 3
\* Two clients: the one that may leave sends two sentences of two chunks, the other one.
TwoAndOne == c1 :> 2 @@ c2 :> 1
=============================================================================
