---------------------------- MODULE MCSttStream ----------------------------
EXTENDS SttStream, TLC
CONSTANTS c1, c2
\* c1 feeds small steps up to a roll; c2 leaves a tail, and its steps are too long for
\* what the roll leaves of the cache, which they overflow twice.
AudioOf == c1 :> 4 @@ c2 :> 7
StepOf  == c1 :> 1 @@ c2 :> 2
=============================================================================
