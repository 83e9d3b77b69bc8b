----------------------------- MODULE Boot_proof -----------------------------
(***************************************************************************)
(* Proofs about Boot and the cache it keeps: types, and that a conversion   *)
(* marked complete is whole, for any pids, deadline and number of starts.   *)
(***************************************************************************)
EXTENDS Boot, TLAPS

USE BootAssumption

-----------------------------------------------------------------------------
\* Every step of every plan is tried at least once.
LEMMA PlanSteps ==
  ASSUME NEW e \in DOMAIN Plan
  PROVE  /\ Len(Plan[e]) \in Nat \ {0}
         /\ \A i \in 1 .. Len(Plan[e]) : Plan[e][i].tries \in Nat \ {0}
<1> USE DEF Needed, AnyOf, Advisory, Convert
<1>1. CASE e = "vad"          BY <1>1 DEF Plan, VadLoad
<1>2. CASE e = "embed"        BY <1>2 DEF Plan, EmbedLoad
<1>3. CASE e = "align"        BY <1>3 DEF Plan, AlignLoad
<1>4. CASE e = "diar"         BY <1>4 DEF Plan, DiarLoad
<1>5. CASE e = "diar_stream"  BY <1>5 DEF Plan, DiarStreamLoad
<1>6. CASE e = "enhance"      BY <1>6 DEF Plan, EnhanceLoad
<1>7. CASE e = "whisper"      BY <1>7 DEF Plan, WhisperLoad
<1>8. CASE e = "ct2"          BY <1>8 DEF Plan, Ct2Load
<1>9. CASE e = "tts"          BY <1>9 DEF Plan, TtsLoad
<1>10. CASE e = "sound_fx"     BY <1>10 DEF Plan, SoundFxLoad
<1>11. CASE e = "tts_dialogue" BY <1>11 DEF Plan, DialogueLoad
<1>12. CASE e = "stt_stream"   BY <1>12 DEF Plan, SttStreamLoad
<1> QED BY <1>1, <1>2, <1>3, <1>4, <1>5, <1>6, <1>7, <1>8, <1>9, <1>10, <1>11, <1>12 DEF Plan

-----------------------------------------------------------------------------
\* The cache.

\* The calls between finding no marker and setting one.
Unmarked == {"stage", "staging", "convert", "converting", "undo", "undoing", "swap",
             "swapping", "rename", "mark"}

\* What makes ModelWhole inductive: the marker is off while a conversion is on its way, and
\* the parts are in the staging directory from the end of convert() to the rename.
WholeInv ==
    /\ "marker" \in out => Cache!Parts \subseteq out
    /\ at[Me] \in Unmarked => "marker" \notin out
    /\ at[Me] = "converting" => /\ Cache!Parts \subseteq staging[pid[Me]] \cup todo[Me]
                                /\ todo[Me] \subseteq Cache!Parts
    /\ at[Me] \in {"swap", "swapping", "rename"} => Cache!Parts \subseteq staging[pid[Me]]
    /\ at[Me] \in {"mark", "have"} => Cache!Parts \subseteq out

CacheInv == Cache!TypeOK /\ WholeInv

\* No process has come near the volume.
LEMMA CacheInit == Cache!Init => CacheInv
  BY DEF Cache!Init, CacheInv, WholeInv, Cache!TypeOK, Cache!Parts, Cache!Listing, Cache!After,
         Unmarked

\* A new process, and a kill at any point.
LEMMA CacheStart == CacheInv /\ Cache!Start(Me) => CacheInv'
  BY DEF Cache!Start, Cache!Go, CacheInv, WholeInv, Cache!TypeOK, Cache!Parts, Unmarked

LEMMA CacheKill == CacheInv /\ Cache!Kill(Me) => CacheInv'
  BY DEF Cache!Kill, Cache!Go, Cache!Todo, CacheInv, WholeInv, Cache!TypeOK, Cache!Parts,
         Unmarked

\* Every call of _ensure_ct2 keeps the invariant.
LEMMA CacheEnsure == CacheInv /\ Cache!Ensure(Me) => CacheInv'
<1> SUFFICES ASSUME CacheInv, Cache!Ensure(Me) PROVE CacheInv'
  OBVIOUS
<1> USE DEF CacheInv, WholeInv, Unmarked, Cache!TypeOK, Cache!Parts, Cache!Go, Cache!Todo,
            Cache!Staged, Cache!Stage, Cache!Listing, Cache!After
<1>1. CASE Cache!Check(Me)
  BY <1>1 DEF Cache!Check, Cache!Complete
<1>2. CASE Cache!List(Me)
  <2>1. at[Me] \in {"stage", "undo", "swap"} /\ UNCHANGED <<out, staging, pid>>
    BY <1>2 DEF Cache!List
  <2>2. \/ /\ at' = [at EXCEPT ![Me] = Cache!After[Cache!Listing[at[Me]]]]
           /\ todo' = todo
        \/ /\ at' = [at EXCEPT ![Me] = Cache!Listing[at[Me]]]
           /\ todo' = [todo EXCEPT ![Me] = Cache!Dir(Me) \ {"."}]
    BY <1>2 DEF Cache!List
  <2>3. Cache!Dir(Me) \ {"."} \in SUBSET {"model", "vocab", "marker"}
    BY DEF Cache!Dir
  <2>4. todo' \in [{Me} -> SUBSET {"model", "vocab", "marker"}]
    BY <2>2, <2>3
  <2>5. CASE at[Me] = "stage" BY <2>1, <2>2, <2>4, <2>5
  <2>6. CASE at[Me] = "undo"  BY <2>1, <2>2, <2>4, <2>6
  <2>7. CASE at[Me] = "swap"  BY <2>1, <2>2, <2>4, <2>7
  <2> QED BY <2>1, <2>5, <2>6, <2>7
<1>3. CASE Cache!Unlink(Me)
  <2>1. at[Me] \in {"staging", "undoing", "swapping"} /\ UNCHANGED <<at, pid>>
    BY <1>3 DEF Cache!Unlink
  <2>2. PICK f \in todo[Me] :
            /\ todo' = [todo EXCEPT ![Me] = todo[Me] \ {f}]
            /\ Cache!SetDir(Me, Cache!Dir(Me) \ {f}) \/ UNCHANGED <<out, staging>>
    BY <1>3 DEF Cache!Unlink
  <2>3. todo' \in [{Me} -> SUBSET {"model", "vocab", "marker"}]
    BY <2>2
  <2>4. CASE UNCHANGED <<out, staging>>
    BY <2>1, <2>3, <2>4
  <2>5. CASE at[Me] = "swapping" /\ out' = out \ {f} /\ UNCHANGED staging
    BY <2>1, <2>3, <2>5
  <2>6. CASE at[Me] # "swapping" /\ staging' = [staging EXCEPT ![pid[Me]] = @ \ {f}] /\ UNCHANGED out
    BY <2>1, <2>3, <2>6
  <2> QED BY <2>1, <2>2, <2>4, <2>5, <2>6 DEF Cache!SetDir, Cache!Swapping, Cache!Dir
<1>4. CASE Cache!Rmdir(Me)
  <2>1. at[Me] \in {"staging", "undoing", "swapping"} /\ UNCHANGED <<pid, todo>>
    BY <1>4 DEF Cache!Rmdir
  <2>2. /\ at' = [at EXCEPT ![Me] = Cache!After[at[Me]]]
        /\ Cache!SetDir(Me, Cache!Dir(Me) \ (IF Cache!Dir(Me) = {"."} THEN {"."} ELSE {}))
    BY <1>4 DEF Cache!Rmdir
  <2> DEFINE D == Cache!Dir(Me) \ (IF Cache!Dir(Me) = {"."} THEN {"."} ELSE {})
  <2>3. D \subseteq Cache!Dir(Me)
    OBVIOUS
  <2> HIDE DEF D
  <2>4. CASE at[Me] = "swapping"
    <3>1. out' = D /\ staging' = staging /\ D \subseteq out /\ at' = [at EXCEPT ![Me] = "rename"]
      BY <2>2, <2>3, <2>4 DEF Cache!SetDir, Cache!Swapping, Cache!Dir, D
    <3> QED BY <2>1, <2>4, <3>1
  <2>5. CASE at[Me] # "swapping"
    <3>1. /\ staging' = [staging EXCEPT ![pid[Me]] = D] /\ out' = out /\ D \subseteq staging[pid[Me]]
          /\ at' = [at EXCEPT ![Me] = Cache!After[at[Me]]]
      BY <2>1, <2>2, <2>3, <2>5 DEF Cache!SetDir, Cache!Swapping, Cache!Dir, D
    <3>2. staging' \in [Pids -> SUBSET {"model", "vocab", "."}]
      BY <3>1
    <3> QED BY <2>1, <2>5, <3>1, <3>2
  <2> QED BY <2>4, <2>5
<1>5. CASE Cache!ConvertBegin(Me)
  BY <1>5 DEF Cache!ConvertBegin
<1>6. CASE Cache!ConvertWrite(Me)
  <2>1. PICK f \in todo[Me] :
            /\ staging' = [staging EXCEPT ![pid[Me]] = @ \cup {f}]
            /\ todo' = [todo EXCEPT ![Me] = @ \ {f}]
    BY <1>6 DEF Cache!ConvertWrite
  <2>2. at[Me] = "converting" /\ UNCHANGED <<out, at, pid>>
    BY <1>6 DEF Cache!ConvertWrite
  <2>3. staging' \in [Pids -> SUBSET {"model", "vocab", "."}]
    BY <2>1, <2>2
  <2>4. todo' \in [{Me} -> SUBSET {"model", "vocab", "marker"}]
    BY <2>1
  <2>5. staging'[pid[Me]] \cup todo'[Me] = staging[pid[Me]] \cup todo[Me]
    BY <2>1
  <2> QED BY <2>2, <2>3, <2>4, <2>5
<1>7. CASE Cache!ConvertEnd(Me)
  BY <1>7 DEF Cache!ConvertEnd
<1>8. CASE Cache!ConvertFails(Me)
  BY <1>8 DEF Cache!ConvertFails
<1>9. CASE Cache!Rename(Me)
  <2>1. at[Me] = "rename" /\ UNCHANGED <<pid, todo>>
    BY <1>9 DEF Cache!Rename
  <2>2. CASE /\ out' = staging[pid[Me]] /\ staging' = [staging EXCEPT ![pid[Me]] = {}]
             /\ at' = [at EXCEPT ![Me] = "mark"]
    <3>1. staging' \in [Pids -> SUBSET {"model", "vocab", "."}]
      BY <2>2
    <3> QED BY <2>1, <2>2, <3>1
  <2>3. CASE at' = [at EXCEPT ![Me] = "raised"] /\ UNCHANGED <<out, staging>>
    BY <2>1, <2>3
  <2> QED BY <1>9, <2>2, <2>3 DEF Cache!Rename
<1>10. CASE Cache!Mark(Me)
  BY <1>10 DEF Cache!Mark
<1> QED
  BY <1>1, <1>2, <1>3, <1>4, <1>5, <1>6, <1>7, <1>8, <1>9, <1>10 DEF Cache!Ensure

-----------------------------------------------------------------------------
\* The process.

BootInv == TypeOK /\ CacheInv

\* The first process is still to start.
LEMMA BootInit == Init => BootInv
<1> SUFFICES ASSUME Init PROVE BootInv
  OBVIOUS
<1>1. CacheInv
  BY CacheInit DEF Init
<1>2. engine \in DOMAIN Plan
  BY DEF Init
<1>3. 1 \in 1 .. Len(Plan[engine]) /\ 1 \in 1 .. Plan[engine][1].tries
  BY <1>2, PlanSteps
<1>4. nth \in 1 .. Len(Plan[engine]) /\ try \in 1 .. Plan[engine][nth].tries
  BY <1>3 DEF Init
<1>6. ready \in BOOLEAN
  BY DEF Init
<1>5. TypeOK
  BY <1>1, <1>2, <1>4, <1>6 DEF Init, TypeOK, CacheInv
<1> QED BY <1>1, <1>5 DEF BootInv

\* The process ends, however it does.
LEMMA EndsKeeps ==
  ASSUME BootInv, NEW how \in {"70", "crashed", "raised"}, Ends(how) PROVE BootInv'
<1>1. CacheInv'
  <2>1. CASE at[Me] = "off"
    BY <2>1 DEF Ends, BootInv, CacheInv, WholeInv, cacheVars, Cache!TypeOK
  <2>2. CASE at[Me] # "off"
    BY <2>2, CacheKill DEF Ends, BootInv
  <2> QED BY <2>1, <2>2
<1>2. engine \in DOMAIN Plan
  BY DEF BootInv, TypeOK
<1>3. 1 \in 1 .. Len(Plan[engine]) /\ 1 \in 1 .. Plan[engine][1].tries
  BY <1>2, PlanSteps
<1>4. nth' \in 1 .. Len(Plan[engine']) /\ try' \in 1 .. Plan[engine'][nth'].tries
  BY <1>3 DEF Ends
<1>6. ready' \in BOOLEAN
  BY DEF Ends
<1>5. TypeOK'
  BY <1>1, <1>2, <1>4, <1>6 DEF Ends, BootInv, TypeOK, CacheInv
<1> QED BY <1>1, <1>5 DEF BootInv

\* A step that leaves the volume alone keeps its invariant.
LEMMA CacheStays == ASSUME CacheInv, UNCHANGED cacheVars PROVE CacheInv'
  BY DEF CacheInv, WholeInv, cacheVars, Cache!TypeOK

\* The next step of the plan has its attempts too.
LEMMA StepDoneKeeps ==
  ASSUME TypeOK, StepDone, UNCHANGED engine
  PROVE  /\ nth' \in 1 .. Len(Plan[engine]) /\ try' \in 1 .. Plan[engine][nth'].tries
         /\ load' \in {"step", "over"} /\ ready' \in BOOLEAN /\ error' = error
<1>1. Len(Plan[engine]) \in Nat /\ \A i \in 1 .. Len(Plan[engine]) : Plan[engine][i].tries \in Nat \ {0}
  BY PlanSteps DEF TypeOK
<1>2. nth' \in 1 .. Len(Plan[engine])
  BY <1>1 DEF TypeOK, StepDone
<1> QED BY <1>1, <1>2 DEF TypeOK, StepDone

\* Every step of every thread keeps the types and the volume's invariant.
LEMMA BootNext == BootInv /\ [Next]_vars => BootInv'
<1> SUFFICES ASSUME BootInv, [Next]_vars PROVE BootInv'
  OBVIOUS
<1>a. engine \in DOMAIN Plan /\ TypeOK /\ CacheInv /\ Cache!TypeOK
  BY DEF BootInv, TypeOK
<1>b. ASSUME CacheInv' PROVE Cache!TypeOK'
  BY <1>b DEF CacheInv
<1> USE DEF vars, loadVars, stateVars, watchVars, LoadUnchanged, WatchUnchanged
<1>1. CASE Boots
  BY <1>1, <1>a, <1>b, CacheStays DEF Boots, BootInv, TypeOK
<1>2. CASE Crash
  BY <1>2, EndsKeeps DEF Crash
<1>3. CASE Launch
  BY <1>3, <1>a, <1>b, CacheStays DEF Launch, BootInv, TypeOK
<1>4. CASE Arm
  BY <1>4, <1>a, <1>b, CacheStays DEF Arm, BootInv, TypeOK
<1>5. CASE Serve
  BY <1>5, <1>a, <1>b, CacheStays DEF Serve, BootInv, TypeOK
<1>6. CASE Probe
  BY <1>6, <1>a, <1>b, CacheStays DEF Probe, BootInv, TypeOK
<1>7. CASE StepWorks
  BY <1>7, <1>a, <1>b, CacheStays, StepDoneKeeps DEF StepWorks, BootInv, TypeOK
<1>8. CASE StepRetried
  <2>1. Step.tries \in Nat /\ try \in 1 .. Step.tries /\ try < Step.tries
    BY <1>8, <1>a, PlanSteps DEF StepRetried, MoreTries, TypeOK, Step
  <2>2. try + 1 \in 1 .. Plan[engine][nth].tries
    BY <2>1 DEF Step
  <2> QED BY <1>8, <1>a, <1>b, <2>2, CacheStays DEF StepRetried, BootInv, TypeOK
<1>9. CASE StepRefused
  BY <1>9, <1>a, <1>b, CacheStays DEF StepRefused, BootInv, TypeOK
<1>10. CASE ConvertStarts
  BY <1>10, <1>a, <1>b, CacheStart DEF ConvertStarts, BootInv, TypeOK
<1>11. CASE Converts
  BY <1>11, <1>a, <1>b, CacheEnsure DEF Converts, BootInv, TypeOK
<1>12. CASE Converted
  BY <1>12, <1>a, <1>b, CacheStays, StepDoneKeeps DEF Converted, BootInv, TypeOK
<1>13. CASE ConvertRefused
  BY <1>13, <1>a, <1>b, CacheStays DEF ConvertRefused, BootInv, TypeOK
<1>14. CASE Explain
  BY <1>14, <1>a, <1>b, CacheStays DEF Explain, BootInv, TypeOK
<1>15. CASE LoadDies
  <2>1. CASE main = "load"
    BY <1>15, <2>1, EndsKeeps DEF LoadDies
  <2>2. CASE main # "load"
    BY <1>15, <2>2, <1>a, <1>b, CacheStays DEF LoadDies, BootInv, TypeOK
  <2> QED BY <2>1, <2>2
<1>16. CASE Look
  BY <1>16, <1>a, <1>b, CacheStays DEF Look, BootInv, TypeOK
<1>17. CASE LookFailed
  BY <1>17, <1>a, <1>b, CacheStays DEF LookFailed, BootInv, TypeOK
<1>18. CASE LookLeft
  BY <1>18, <1>a, <1>b, CacheStays DEF LookLeft, BootInv, TypeOK
<1>19. CASE Wake
  BY <1>19, <1>a, <1>b, CacheStays DEF Wake, BootInv, TypeOK
<1>20. CASE Exit
  BY <1>20, EndsKeeps DEF Exit
<1>21. CASE Tick
  BY <1>21, <1>a, <1>b, CacheStays DEF Tick, BootInv, TypeOK
<1>22. CASE UNCHANGED vars
  BY <1>22, <1>a, <1>b, CacheStays DEF BootInv, TypeOK
<1> QED
  BY <1>1, <1>2, <1>3, <1>4, <1>5, <1>6, <1>7, <1>8, <1>9, <1>10, <1>11, <1>12, <1>13,
     <1>14, <1>15, <1>16, <1>17, <1>18, <1>19, <1>20, <1>21, <1>22
     DEF Next, Main, Load, Watchdog

\* Every state of a process and its volume is a state of the types TypeOK gives.
THEOREM TypeCorrect == Spec => []TypeOK
<1>1. BootInv => TypeOK
  BY DEF BootInv
<1> QED BY <1>1, BootInit, BootNext, PTL DEF Spec

\* With one instance on the volume, a marked model is whole through any number of kills,
\* failed conversions and unlinks, under any pids.
THEOREM MarkedModelWhole == Spec => []ModelWhole
<1>1. BootInv => ModelWhole
  BY DEF BootInv, CacheInv, WholeInv, ModelWhole, Cache!MarkedIsWhole
<1> QED BY <1>1, BootInit, BootNext, PTL DEF Spec

-----------------------------------------------------------------------------
\* The outcome of a start.

\* The load ends with its outcome, and a process that has ended watches and loads nothing.
LoadInv ==
    /\ ready \/ error # "none" => load = "over"
    /\ main = "down" <=> code # "up"
    /\ code # "up" => watch = "off" /\ load = "none"
    /\ main = "launch" \/ (main = "arm" /\ engine = "stt_stream") => load = "none"

\* Start n has an outcome and the watchdog is before its two looks, or has ended otherwise, or
\* is followed by another.
Settled(n) ==
    \/ boots > n
    \/ boots = n /\ code \notin {"up", "70"}
    \/ /\ boots = n /\ code = "up" /\ (ready \/ error = "reason")
       /\ watch \in {"sleep", "off", "look"} \/ (watch = "failed" /\ error = "reason")

LEMMA LoadInit == Init => LoadInv
  BY DEF Init, LoadInv

LEMMA LoadNext == TypeOK /\ LoadInv /\ [Next]_vars => LoadInv'
<1> SUFFICES ASSUME TypeOK, LoadInv, [Next]_vars PROVE LoadInv'
  OBVIOUS
<1>0. Len(Plan[engine]) \in Nat \ {0} /\ nth \in 1 .. Len(Plan[engine])
  BY PlanSteps DEF TypeOK
<1> USE DEF LoadInv, vars, loadVars, stateVars, watchVars, LoadUnchanged, WatchUnchanged
<1>1. CASE Boots \/ Crash \/ Probe \/ Tick \/ UNCHANGED vars
  BY <1>1 DEF Boots, Crash, Ends, Probe, Tick, TypeOK
<1>2. CASE Main
  BY <1>2 DEF Main, Launch, Arm, Serve, OnMain
<1>3. CASE StepWorks \/ Converted
  <2>1. /\ load \in {"step", "convert"} /\ StepDone
        /\ UNCHANGED <<engine, main, code, watch>>
    BY <1>3 DEF StepWorks, Converted
  <2>2. CASE nth < Len(Plan[engine])
    <3>1. load' = "step" /\ ~ready' /\ error' = error
      <4>1. nth # Len(Plan[engine])
        BY <1>0, <2>2
      <4>2. load' = "step" /\ ready' = (nth = Len(Plan[engine])) /\ error' = error
        BY <2>1, <2>2, Zenon DEF StepDone
      <4> QED BY <4>1, <4>2, Zenon
    <3> QED BY <2>1, <3>1
  <2>3. CASE ~(nth < Len(Plan[engine]))
    <3>1. load' = "over"
      BY <2>1, <2>3 DEF StepDone
    <3> QED BY <2>1, <3>1
  <2> QED BY <2>2, <2>3
<1>4. CASE StepRetried \/ StepRefused \/ ConvertStarts \/ Converts \/ ConvertRefused
  BY <1>4 DEF StepRetried, StepRefused, ConvertStarts, Converts, ConvertRefused
<1>5. CASE Explain
  BY <1>5 DEF Explain
<1>6. CASE LoadDies
  BY <1>6 DEF LoadDies, Ends
<1>7. CASE Watchdog
  BY <1>7 DEF Watchdog, Look, LookFailed, LookLeft, Wake, Exit, Ends
<1> QED
  BY <1>1, <1>2, <1>3, <1>4, <1>5, <1>6, <1>7 DEF Next, Load

\* From there the watchdog's next looks find the outcome.
LEMMA SettledStays ==
  ASSUME NEW n \in Nat
  PROVE  TypeOK /\ LoadInv /\ Settled(n) /\ [Next]_vars => Settled(n)'
<1> SUFFICES ASSUME TypeOK, LoadInv, Settled(n), [Next]_vars PROVE Settled(n)'
  OBVIOUS
<1> USE DEF Settled, LoadInv, vars, loadVars, stateVars, watchVars, LoadUnchanged, WatchUnchanged
<1>0. boots \in Nat
  BY DEF TypeOK
<1>1. CASE Boots
  BY <1>0, <1>1 DEF Boots
<1>2. CASE Crash
  BY <1>2 DEF Crash, Ends
<1>3. CASE Main
  BY <1>3 DEF Main, Launch, Arm, Serve
<1>4. CASE Probe \/ Tick \/ UNCHANGED vars
  BY <1>4 DEF Probe, Tick
<1>5. CASE StepWorks \/ Converted
  BY <1>5 DEF StepWorks, Converted
<1>6. CASE StepRetried \/ StepRefused \/ ConvertStarts \/ Converts \/ ConvertRefused
  BY <1>6 DEF StepRetried, StepRefused, ConvertStarts, Converts, ConvertRefused
<1>7. CASE Explain
  BY <1>7 DEF Explain
<1>8. CASE LoadDies
  BY <1>8 DEF LoadDies, Ends
<1>9. CASE Watchdog
  BY <1>9 DEF Watchdog, Look, LookFailed, GaveUp, LookLeft, Wake, Exit, Ends
<1> QED
  BY <1>1, <1>2, <1>3, <1>4, <1>5, <1>6, <1>7, <1>8, <1>9 DEF Next, Load

LEMMA OutcomeOf ==
  ASSUME NEW n \in Nat
  PROVE  Spec => []((Up(n) /\ (ready \/ error = "reason") /\ watch \in {"sleep", "off"})
                      => [](boots = n => code # "70"))
<1>1. BootInv => TypeOK
  BY DEF BootInv
<1>2. (Up(n) /\ (ready \/ error = "reason") /\ watch \in {"sleep", "off"}) => Settled(n)
  BY DEF Up, Settled
<1>3. Settled(n) => (boots = n => code # "70")
  BY DEF Settled
<1> QED
  BY <1>1, <1>2, <1>3, BootInit, BootNext, LoadInit, LoadNext, SettledStays, PTL DEF Spec

\* Whatever the deadline and however often the process is started: a start that is ready, or
\* has a reason to show, before the watchdog's last round, is not ended by it.
THEOREM OutcomesStay == Spec => OutcomeStays
<1>1. 1 .. MaxBoots \subseteq Nat
  OBVIOUS
<1> QED
  BY <1>1, OutcomeOf DEF OutcomeStays
=============================================================================
