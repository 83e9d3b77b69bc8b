-------------------------------- MODULE Boot --------------------------------
(***************************************************************************)
(* An engine's process from its start until it serves: wrapper/runtime.py,  *)
(* watchdog.py, hfgate.py, the readiness routes of contract.py, and the     *)
(* load function of each capability.                                        *)
(*                                                                          *)
(* The load runs in a thread, or for stt_stream on the main thread before   *)
(* the server starts; the watchdog's thread looks at `ready` and `error`    *)
(* and ends the process at the deadline; Kubernetes starts it again.  The   *)
(* state of the process is lost with it, the volume of Ct2Cache is not.     *)
(***************************************************************************)
EXTENDS Naturals, Sequences

CONSTANTS
    Pids,      \* the pids a process may have
    Timeout,   \* timeout_s, in ticks
    MaxBoots   \* bound on the starts of the process

ASSUME BootAssumption == Timeout \in Nat \ {0} /\ MaxBoots \in Nat \ {0}

VARIABLES
    engine,    \* the capability this instance serves
    boots,     \* the process's starts so far
    main,      \* the main thread: "down", "launch", "arm", "load", "serve"
    load,      \* the load: "none", "step", "convert", "explain", "died", "over"
    nth, try,  \* its step in the engine's plan, and the attempt at it
    ready, error,
    watch,     \* the watchdog: "off", "look", "failed", "left", "sleep", "exit"
    age,       \* ticks since the watchdog was armed, up to Timeout
    code,      \* how the last process ended, "up" while it runs
    told,      \* what the last probe of this process's /v1/models was told
    out, staging, at, pid, todo

Me == "me"
Cache == INSTANCE Ct2Cache WITH Pods <- {Me}

cacheVars == <<out, staging, at, pid, todo>>
loadVars  == <<load, nth, try>>
stateVars == <<ready, error>>
watchVars == <<watch, age>>
vars == <<engine, boots, main, loadVars, stateVars, watchVars, code, told, cacheVars>>
-----------------------------------------------------------------------------
\* The load functions, as the steps that can fail on their own: at a step that is needed
\* the load gives up, after n attempts that each answer one kind of error (any kind, for
\* the classes enhance tries); the failure of an advisory one is logged.

Needed(n)  == [kind |-> "needed", tries |-> n, any |-> FALSE]
AnyOf(n)   == [kind |-> "needed", tries |-> n, any |-> TRUE]
Advisory   == [kind |-> "advisory", tries |-> 1, any |-> FALSE]
Convert    == [kind |-> "convert", tries |-> 1, any |-> FALSE]

VadLoad        == <<Needed(1)>>
\* Model.from_pretrained, Inference
EmbedLoad      == <<Needed(2), Needed(2)>>
AlignLoad      == <<Needed(2)>>
\* Pipeline.from_pretrained, to(device), _set_batches
DiarLoad       == <<Needed(2), Needed(1), Advisory>>
\* restore, the check of the streaming parameters
DiarStreamLoad == <<Needed(1), Advisory>>
\* snapshot_download, the three classes
EnhanceLoad    == <<Needed(1), AnyOf(3)>>
\* _ensure_ct2, WhisperModel, the batched pipeline; the first only if the source is not CT2
WhisperLoad    == <<Convert, Needed(1), Advisory>>
Ct2Load        == <<Needed(1), Advisory>>
\* _load, graph capture, the throwaway synthesis
TtsLoad        == <<Needed(1), Needed(1), Advisory>>
SoundFxLoad    == <<Needed(1), Advisory>>
\* _load, the warmup, which here is not advisory
DialogueLoad   == <<Needed(1), Needed(1)>>
\* the patched limit, LLM() with ever fewer arguments, the warmup
SttStreamLoad  == <<Advisory, Needed(3), Advisory>>

Plan == [vad |-> VadLoad, embed |-> EmbedLoad, align |-> AlignLoad, diar |-> DiarLoad,
         diar_stream |-> DiarStreamLoad, enhance |-> EnhanceLoad, whisper |-> WhisperLoad,
         ct2 |-> Ct2Load, tts |-> TtsLoad, sound_fx |-> SoundFxLoad,
         tts_dialogue |-> DialogueLoad, stt_stream |-> SttStreamLoad]
OnMain == engine = "stt_stream"
Step   == Plan[engine][nth]

TypeOK ==
    /\ engine \in DOMAIN Plan
    /\ boots \in 0 .. MaxBoots
    /\ main \in {"down", "launch", "arm", "load", "serve"}
    /\ load \in {"none", "step", "convert", "explain", "died", "over"}
    /\ nth \in 1 .. Len(Plan[engine])
    /\ try \in 1 .. Plan[engine][nth].tries
    /\ ready \in BOOLEAN
    /\ error \in {"none", "reason", "empty"}
    /\ watch \in {"off", "look", "failed", "left", "sleep", "exit"}
    /\ age \in 0 .. Timeout
    /\ code \in {"never", "up", "70", "crashed", "raised"}
    /\ told \in {"nothing", "200", "loading", "reason"}
    /\ Cache!TypeOK

Init ==
    /\ engine \in DOMAIN Plan
    /\ boots = 0 /\ code = "never" /\ main = "down"
    /\ load = "none" /\ nth = 1 /\ try = 1
    /\ ready = FALSE /\ error = "none"
    /\ watch = "off" /\ age = 0 /\ told = "nothing"
    /\ Cache!Init
-----------------------------------------------------------------------------
\* The process.

\* Kubernetes starts the container.
Boots ==
    /\ main = "down" /\ boots < MaxBoots
    /\ boots' = boots + 1 /\ main' = "launch" /\ code' = "up"
    /\ UNCHANGED <<engine, loadVars, stateVars, watchVars, told, cacheVars>>

\* The process ends, and its memory with it.
Ends(how) ==
    /\ code' = how /\ main' = "down"
    /\ load' = "none" /\ nth' = 1 /\ try' = 1
    /\ ready' = FALSE /\ error' = "none"
    /\ watch' = "off" /\ age' = 0 /\ told' = "nothing"
    /\ IF at[Me] = "off" THEN UNCHANGED cacheVars ELSE Cache!Kill(Me)
    /\ UNCHANGED <<engine, boots>>

\* A kill from outside, for want of memory or by the node, at any moment.
Crash == code = "up" /\ Ends("crashed")

\* Runtime.serve(): the load's thread, then the watchdog, then the server; or the watchdog,
\* then the load, then the server.
Launch_Unarmed ==
    /\ main = "launch" /\ main' = (IF OnMain THEN "load" ELSE "arm") /\ load' = "step"
    /\ UNCHANGED <<engine, boots, nth, try, stateVars, watchVars, code, told, cacheVars>>

Launch ==
    /\ main = "launch" /\ main' = "arm"
    /\ load' = IF OnMain THEN "none" ELSE "step"
    /\ UNCHANGED <<engine, boots, nth, try, stateVars, watchVars, code, told, cacheVars>>

Arm ==
    /\ main = "arm" /\ watch' = "look"
    /\ IF OnMain THEN main' = "load" /\ load' = "step" ELSE main' = "serve" /\ UNCHANGED load
    /\ UNCHANGED <<engine, boots, nth, try, stateVars, age, code, told, cacheVars>>

Serve ==
    /\ main = "load" /\ load = "over" /\ main' = "serve"
    /\ UNCHANGED <<engine, boots, loadVars, stateVars, watchVars, code, told, cacheVars>>

\* GET /v1/models, the one route a client of the engine waits on; the message of an error
\* without text is as good as none.
Probe ==
    /\ main = "serve"
    /\ told' = CASE ready -> "200" [] ~ready /\ error = "reason" -> "reason" [] OTHER -> "loading"
    /\ UNCHANGED <<engine, boots, main, loadVars, stateVars, watchVars, code, cacheVars>>
-----------------------------------------------------------------------------
\* The load, which may stop at any step for as long as it likes.

LoadUnchanged == UNCHANGED <<engine, boots, main, watchVars, code, told>>

\* A step is done, or it was advisory: the next one, or ready, set with all the rest.
StepDone ==
    /\ load' = IF nth < Len(Plan[engine]) THEN "step" ELSE "over"
    /\ nth' = IF nth < Len(Plan[engine]) THEN nth + 1 ELSE nth
    /\ try' = 1
    /\ ready' = (nth = Len(Plan[engine])) /\ UNCHANGED error

\* The weights are there to be read: a conversion's are the directory _ensure_ct2 returned.
Loadable == at[Me] = "have" => Cache!Parts \subseteq out

StepWorks ==
    /\ load = "step" /\ Step.kind # "convert" /\ Loadable /\ StepDone
    /\ LoadUnchanged /\ UNCHANGED cacheVars

MoreTries_Always == TRUE
MoreTries == try < Step.tries

StepRetried ==
    /\ load = "step" /\ MoreTries /\ try' = try + 1
    /\ LoadUnchanged /\ UNCHANGED <<load, nth, stateVars, cacheVars>>

StepRefused ==
    /\ load = "step" /\ Step.kind = "needed" /\ ~(Step.any /\ MoreTries)
    /\ load' = "explain"
    /\ LoadUnchanged /\ UNCHANGED <<nth, try, stateVars, cacheVars>>

ConvertStarts ==
    /\ load = "step" /\ Step.kind = "convert"
    /\ load' = "convert" /\ Cache!Start(Me)
    /\ LoadUnchanged /\ UNCHANGED <<nth, try, stateVars>>

Converts ==
    /\ load = "convert" /\ Cache!Ensure(Me)
    /\ LoadUnchanged /\ UNCHANGED <<loadVars, stateVars>>

Converted ==
    /\ load = "convert" /\ at[Me] = "have" /\ StepDone
    /\ LoadUnchanged /\ UNCHANGED cacheVars

ConvertRefused ==
    /\ load = "convert" /\ at[Me] = "raised" /\ load' = "explain"
    /\ LoadUnchanged /\ UNCHANGED <<nth, try, stateVars, cacheVars>>

\* hfgate.explain() may ask the hub first; str() of the exception may be the empty string,
\* which is not an error for any of the readers.
Explain ==
    /\ load = "explain" /\ load' = "over"
    /\ error' \in {"reason", "empty"}
    /\ LoadUnchanged /\ UNCHANGED <<nth, try, ready, cacheVars>>

\* SystemExit and the like pass `except Exception`: they end the thread, or the process.
LoadDies ==
    /\ load \in {"step", "convert"}
    /\ IF main = "load" THEN Ends("raised")
                        ELSE /\ load' = "died"
                             /\ LoadUnchanged /\ UNCHANGED <<nth, try, stateVars, cacheVars>>
-----------------------------------------------------------------------------
\* The watchdog: ready, error and the time left are read one after the other.

WatchUnchanged ==
    UNCHANGED <<engine, boots, main, loadVars, stateVars, age, code, told, cacheVars>>

Look == /\ watch = "look" /\ watch' = IF ready THEN "off" ELSE "failed"
        /\ WatchUnchanged

GaveUp_Never == FALSE
GaveUp == error = "reason"
LookFailed == /\ watch = "failed" /\ watch' = IF GaveUp THEN "off" ELSE "left"
              /\ WatchUnchanged

LookLeft == /\ watch = "left" /\ watch' = IF age = Timeout THEN "exit" ELSE "sleep"
            /\ WatchUnchanged

\* It sleeps for five seconds at most, which is here any time.
Wake == /\ watch = "sleep" /\ watch' = "look"
        /\ WatchUnchanged

Exit == watch = "exit" /\ Ends("70")

Tick ==
    /\ watch # "off" /\ age < Timeout /\ age' = age + 1
    /\ UNCHANGED <<engine, boots, main, loadVars, stateVars, watch, code, told, cacheVars>>
-----------------------------------------------------------------------------
Main     == Launch \/ Arm \/ Serve
Load     == StepWorks \/ StepRetried \/ StepRefused \/ ConvertStarts \/ Converts \/ Converted
            \/ ConvertRefused \/ Explain \/ LoadDies
Watchdog == Look \/ LookFailed \/ LookLeft \/ Wake \/ Exit

Next == Boots \/ Crash \/ Main \/ Probe \/ Load \/ Watchdog \/ Tick

Spec == Init /\ [][Next]_vars

\* Threads are scheduled, time passes and someone probes.  Nothing is assumed of the load.
FairSpec ==
    /\ Spec
    /\ WF_vars(Main) /\ WF_vars(Probe) /\ WF_vars(Watchdog) /\ WF_vars(Tick)
-----------------------------------------------------------------------------
\* What a start of the process comes to.

Up(n) == boots = n /\ code = "up"

\* Once the engine is ready, or has a reason to show, the watchdog leaves its process alone:
\* it exits only if it was past its two looks, on its last round, when that happened.
OutcomeStays ==
    \A n \in 1 .. MaxBoots :
        []((Up(n) /\ (ready \/ error = "reason") /\ watch \in {"sleep", "off"})
             => [](boots = n => code # "70"))

\* No start hangs for ever: whatever step the load stops at, the client hears that the engine
\* is ready, or why it is not, or the process has ended.
BootSettles ==
    \A n \in 1 .. MaxBoots : Up(n) ~> told \in {"200", "reason"} \/ ~Up(n)

\* Ct2Cache's invariant, under the processes that really call it.
ModelWhole == Cache!MarkedIsWhole
=============================================================================
