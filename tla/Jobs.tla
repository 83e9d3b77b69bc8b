-------------------------------- MODULE Jobs --------------------------------
(***************************************************************************)
(* What the one-shot capabilities of wrapper/caps do with a request: the    *)
(* handler that checks it, decodes or spills its upload and hands a job to  *)
(* the runner (tasks.dispatch), and the job, which works through its units, *)
(* with temporary files that live as long as the request, the job or one    *)
(* unit, a checkpoint where a cancel is noticed, and progress.              *)
(*                                                                          *)
(* A process is one capability's; its routes differ in the record of        *)
(* choices below, each of which stands for the code of that route.  The     *)
(* runner is reduced to a line of jobs run one at a time (TaskRunner has    *)
(* its threads), the engine to a call that works or raises.                 *)
(***************************************************************************)
EXTENDS Integers, Sequences, SequencesExt, FiniteSets

CONSTANTS
    Requests,
    MaxItems,      \* items of a batch, turns of a script
    MaxSamples,    \* length of a clip to be enhanced
    WindowPlans    \* the pairs <<CHUNK_S, OVERLAP_S>>, in samples

ASSUME JobAssumption == /\ IsFiniteSet(Requests)
                        /\ MaxItems \in Nat \ {0} /\ MaxSamples \in Nat
                        /\ WindowPlans \subseteq Nat \X Nat /\ WindowPlans # {}
\* Windows of 30, 60 or 120 s overlap by one; all it takes is that a window is longer than the
\* overlap, or than the two samples a fade may leave at zero.
ASSUME PlanAssumption == \A w \in WindowPlans : w[1] > 0 => w[2] < w[1] \/ w[1] > 2

VARIABLES
    routes,   \* the routes this process serves
    window,   \* its <<chunk, overlap>>
    ready,    \* the model is loaded
    line,     \* the runner's queue
    at,       \* where each request is
    route, size, need,   \* its route, its items or samples, the files each unit needs
    cancel,   \* a DELETE came for it
    files,    \* its temporary files on disk
    half,     \* those whose write failed
    res,      \* how its unit, and in the end its job, came out
    again,    \* the retry within its unit is used up
    rows,     \* the results so far: items by number, windows by first sample
    prog      \* the task's progress, what it lacks being Absent

formVars == <<route, size, need>>
jobVars  == <<res, again, rows, prog>>
vars == <<routes, window, ready, line, at, formVars, cancel, files, half, jobVars>>

Absent == -1
Refs   == <<"ref1", "ref2">>
-----------------------------------------------------------------------------
\* The routes.

\*   gated     the handler answers 503 until the model is loaded; whisper's job asks itself
\*   decode    in the handler: "memory", or by way of a "temp" file
\*   spill     the upload goes to a file that the runner removes after the job
\*   whole     the job writes the whole upload to a file of its own
\*   files     how many files one unit may need
\*   units     "one" call, one per item of "segments" or "items", all of them in a "pass",
\*             or one per "window"
\*   stops     where a cancel is noticed: "never", "before" each unit, "inside" the call
\*   isolates  a unit that fails is a row that says so
\*   retries   a failed call is made once more
Plain == [gated |-> TRUE, decode |-> "none", spill |-> FALSE, whole |-> FALSE, files |-> {0},
          units |-> "one", stops |-> "never", isolates |-> FALSE, retries |-> FALSE]

Segmented == [Plain EXCEPT !.units = "segments", !.stops = "before", !.isolates = TRUE]

Whisper      == [Plain EXCEPT !.gated = FALSE, !.files = {1}, !.stops = "inside", !.retries = TRUE]
WhisperBatch == [Segmented EXCEPT !.gated = FALSE, !.whole = TRUE, !.files = {1}, !.retries = TRUE]
Align        == [Plain EXCEPT !.spill = TRUE]
AlignBatch   == [Segmented EXCEPT !.decode = "memory", !.files = {1}]
Stt          == [Plain EXCEPT !.decode = "temp"]
SttBatch     == [Segmented EXCEPT !.decode = "temp"]
Diar         == [Plain EXCEPT !.spill = TRUE, !.stops = "inside", !.retries = TRUE]
Vad          == [Plain EXCEPT !.decode = "memory"]
Embed        == [Plain EXCEPT !.spill = TRUE]
Enhance      == [Plain EXCEPT !.spill = TRUE, !.units = "window", !.stops = "before"]
\* a preset voice needs no reference file, a cloned one does
Tts          == [Plain EXCEPT !.files = {0, 1}]
TtsBatch     == [Tts EXCEPT !.units = "items"]
SoundFx      == Plain
SoundFxBatch == [Plain EXCEPT !.units = "pass"]
\* one file per speaker, all of them there for the one pass over the turns
Dialogue     == [Plain EXCEPT !.files = {1, 2}, !.units = "pass"]

Route == [whisper |-> Whisper, whisper_batch |-> WhisperBatch, align |-> Align,
          align_batch |-> AlignBatch, stt |-> Stt, stt_batch |-> SttBatch, diar |-> Diar,
          vad |-> Vad, embed |-> Embed, enhance |-> Enhance, tts |-> Tts,
          tts_batch |-> TtsBatch, sound_fx |-> SoundFx, sound_fx_batch |-> SoundFxBatch,
          dialogue |-> Dialogue]

WhisperRoutes == {"whisper", "whisper_batch"}
AlignRoutes   == {"align", "align_batch"}
SttRoutes     == {"stt", "stt_batch"}
TtsRoutes     == {"tts", "tts_batch"}
SoundFxRoutes == {"sound_fx", "sound_fx_batch"}

Modules == {WhisperRoutes, AlignRoutes, SttRoutes, TtsRoutes, SoundFxRoutes}
           \cup {{m} : m \in {"diar", "vad", "embed", "enhance", "dialogue"}}

Of(r) == Route[route[r]]

\* The array of segments may be empty, that of items or turns not.
Sizes(k) == CASE k.units = "one"      -> {1}
              [] k.units = "segments" -> 0 .. MaxItems
              [] k.units = "window"   -> 0 .. MaxSamples
              [] OTHER                -> 1 .. MaxItems
-----------------------------------------------------------------------------
\* Enhance's windows.

Chunk   == window[1]
Overlap == window[2]
Hop     == IF Chunk - Overlap > 1 THEN Chunk - Overlap ELSE 1
Whole(total) == Chunk <= 0 \/ total <= Chunk

\* nwin, which progress announces before the loop runs: a division rounded up.
WindowCount_Floor(total) ==
    IF Whole(total) THEN 1 ELSE (IF total - Chunk > 1 THEN total - Chunk ELSE 1) \div Hop + 1
WindowCount(total) ==
    IF Whole(total) THEN 1 ELSE -((0 - (IF total - Chunk > 1 THEN total - Chunk ELSE 1)) \div Hop) + 1

End(pos, total) == IF Whole(total) \/ pos + Chunk > total THEN total ELSE pos + Chunk

\* The samples to which the window at pos adds with a weight above zero: the fade in starts
\* at zero unless it is the first window, the fade out ends there unless it is the last.
Weighted_FadeBoth(pos, total) == {j \in pos .. End(pos, total) - 1 : j # pos \/ Overlap = 0}
Weighted(pos, total) ==
    LET end == End(pos, total)
        n   == end - pos
        r   == IF Overlap < n THEN Overlap ELSE n
    IN  {j \in pos .. end - 1 :
            /\ pos > 0 /\ Overlap > 0 => j > pos
            /\ end < total /\ r > 1 => j < end - 1}

\* pos += hop, until a window reaches the end.
NextWindow(r) == IF rows[r] = <<>> THEN 0 ELSE Last(rows[r]) + Hop
AllWindows(r) == rows[r] # <<>> /\ End(Last(rows[r]), size[r]) >= size[r]
-----------------------------------------------------------------------------
Outcomes == {"succeeded", "failed", "canceled"}
\* "raised" is the 500 of a submit() that raised, every other one is "500".
Over     == {"400", "500", "503", "raised"} \cup Outcomes

TypeOK ==
    /\ routes \in Modules /\ window \in WindowPlans /\ ready \in BOOLEAN
    /\ line \in Seq(Requests) /\ Len(line) <= Cardinality(Requests)
    /\ at \in [Requests -> {"new", "read", "decode", "decoding", "spill", "dispatch", "queued",
                            "open", "next", "files", "engine", "drop", "close", "settle"}
                           \cup Over]
    /\ \A r \in Requests :
        /\ route[r] \in routes /\ size[r] \in Sizes(Of(r)) /\ need[r] \in Of(r).files
        /\ Len(rows[r]) <= (IF Of(r).units = "window" THEN WindowCount(size[r]) ELSE size[r])
        /\ \A i \in DOMAIN rows[r] : rows[r][i] \in Nat
    /\ cancel \in [Requests -> BOOLEAN] /\ again \in [Requests -> BOOLEAN]
    /\ files \in [Requests -> SUBSET ({"upload", "decode", "whole"} \cup ToSet(Refs))]
    /\ half \in [Requests -> SUBSET ({"upload", "decode", "whole"} \cup ToSet(Refs))]
    /\ res \in [Requests -> {"none", "ok", "error", "canceled"}]
    /\ \A r \in Requests : prog[r].done >= Absent /\ prog[r].total >= Absent

Init ==
    /\ routes \in Modules
    /\ window \in (IF "enhance" \in routes THEN WindowPlans
                                           ELSE {CHOOSE w \in WindowPlans : TRUE})
    /\ ready = FALSE /\ line = <<>>
    /\ at = [r \in Requests |-> "new"]
    /\ route \in [Requests -> routes]
    /\ size \in {f \in [Requests -> 0 .. MaxItems + MaxSamples] :
                    \A r \in Requests : f[r] \in Sizes(Of(r))}
    /\ need \in {f \in [Requests -> 0 .. 2] : \A r \in Requests : f[r] \in Of(r).files}
    /\ cancel = [r \in Requests |-> FALSE] /\ again = [r \in Requests |-> FALSE]
    /\ files = [r \in Requests |-> {}] /\ half = [r \in Requests |-> {}]
    /\ res = [r \in Requests |-> "none"] /\ rows = [r \in Requests |-> <<>>]
    /\ prog = [r \in Requests |-> [stage |-> "none", done |-> Absent, total |-> Absent]]

Go(r, to)  == at' = [at EXCEPT ![r] = to]
Res(r, to) == res' = [res EXCEPT ![r] = to]
Keeps      == UNCHANGED <<routes, window, ready, formVars>>

\* A file is written; or the write fails, with the file there, and the exception is raised
\* before the block that would have removed it.
Write(r, f)      == files' = [files EXCEPT ![r] = @ \cup {f}] /\ UNCHANGED half
WriteFails(r, f) == /\ files' = [files EXCEPT ![r] = @ \cup {f}]
                    /\ half' = [half EXCEPT ![r] = @ \cup {f}]
Unlink(r, S)     == files' = [files EXCEPT ![r] = @ \ S] /\ UNCHANGED half
NoFile           == UNCHANGED <<files, half>>

\* progress(): a new stage drops the counts of the last one.
StageCounts_Kept(p, stage) == [p EXCEPT !.stage = stage]
StageCounts(p, stage) ==
    IF p.stage = stage THEN p ELSE [stage |-> stage, done |-> Absent, total |-> Absent]

Report(r, stage, done, total) ==
    LET p == StageCounts(prog[r], stage)
    IN  prog' = [prog EXCEPT ![r] = [p EXCEPT !.done = IF done = Absent THEN @ ELSE done,
                                              !.total = IF total = Absent THEN @ ELSE total]]
-----------------------------------------------------------------------------
\* The handler.

Load == ~ready /\ ready' = TRUE
        /\ UNCHANGED <<routes, window, line, at, formVars, cancel, files, half, jobVars>>

Ask(r) ==
    /\ at[r] = "new"
    /\ Go(r, IF Of(r).gated /\ ~ready THEN "503" ELSE "read")
    /\ Keeps /\ NoFile /\ UNCHANGED <<line, cancel, jobVars>>

\* The form is read and checked, which is all a 400 takes.
Read(r) ==
    /\ at[r] = "read"
    /\ \/ Go(r, "400")
       \/ Go(r, CASE Of(r).decode # "none" -> "decode" [] Of(r).spill -> "spill"
                  [] OTHER -> "dispatch")
    /\ Keeps /\ NoFile /\ UNCHANGED <<line, cancel, jobVars>>

DecodeInMemory(r) ==
    /\ at[r] = "decode" /\ Of(r).decode = "memory"
    /\ Go(r, "400") \/ Go(r, "dispatch")
    /\ Keeps /\ NoFile /\ UNCHANGED <<line, cancel, jobVars>>

DecodeWrites(r) ==
    /\ at[r] = "decode" /\ Of(r).decode = "temp"
    /\ \/ Write(r, "decode") /\ Go(r, "decoding")
       \/ WriteFails(r, "decode") /\ Go(r, "500")
    /\ Keeps /\ UNCHANGED <<line, cancel, jobVars>>

\* The file goes whether or not the audio could be decoded; then the segments are parsed.
DecodeEnds(r) ==
    /\ at[r] = "decoding" /\ Unlink(r, {"decode"})
    /\ Go(r, "500") \/ Go(r, "dispatch") \/ (Of(r).units = "segments" /\ Go(r, "400"))
    /\ Keeps /\ UNCHANGED <<line, cancel, jobVars>>

Spill(r) ==
    /\ at[r] = "spill"
    /\ \/ Write(r, "upload") /\ Go(r, "dispatch")
       \/ WriteFails(r, "upload") /\ Go(r, "500")
    /\ Keeps /\ UNCHANGED <<line, cancel, jobVars>>

\* The runner takes the job, or is full and the handler cleans up.
DispatchBusy_NoCleanup(r) ==
    /\ at[r] = "dispatch" /\ Go(r, "503")
    /\ Keeps /\ NoFile /\ UNCHANGED <<line, cancel, jobVars>>
DispatchBusy(r) ==
    /\ at[r] = "dispatch" /\ Go(r, "503") /\ Unlink(r, {"upload"})
    /\ Keeps /\ UNCHANGED <<line, cancel, jobVars>>

Dispatch(r) ==
    /\ at[r] = "dispatch" /\ Go(r, "queued") /\ line' = Append(line, r)
    /\ Keeps /\ NoFile /\ UNCHANGED <<cancel, jobVars>>

\* A task that is over is popped while submit() counts the dict: the iteration raises, and
\* dispatch() cleans up for Busy alone.
DispatchRaises(r) ==
    /\ at[r] = "dispatch" /\ Go(r, "raised")
    /\ \E s \in Requests \ {r} : at[s] \in Outcomes
    /\ Keeps /\ NoFile /\ UNCHANGED <<line, cancel, jobVars>>

\* DELETE: a queued job ends here, a running one when it looks.
CancelQueued(r) ==
    /\ at[r] = "queued" /\ Go(r, "canceled")
    /\ \E i \in DOMAIN line : line[i] = r /\ line' = RemoveAt(line, i)
    /\ Unlink(r, {"upload"})
    /\ Keeps /\ UNCHANGED <<cancel, jobVars>>

CancelRunning(r) ==
    /\ at[r] \in {"open", "next", "files", "engine", "drop", "close"} /\ ~cancel[r]
    /\ cancel' = [cancel EXCEPT ![r] = TRUE]
    /\ Keeps /\ NoFile /\ UNCHANGED <<line, at, jobVars>>
-----------------------------------------------------------------------------
\* The job.

Windows(r) == Of(r).units = "window"
Counts(r)  == Of(r).units # "one" /\ route[r] # "dialogue"
Total(r)   == IF Windows(r) THEN WindowCount(size[r]) ELSE size[r]

\* The worker begins the next job, which announces what there is to do; a clip has to be
\* decoded first.
JobStart(r) ==
    /\ line # <<>> /\ Head(line) = r /\ at[r] = "queued" /\ Go(r, "open")
    /\ IF Counts(r) /\ ~Windows(r) THEN Report(r, "work", 0, Total(r))
                                   ELSE Report(r, "decode", Absent, Absent)
    /\ Keeps /\ NoFile /\ UNCHANGED <<line, cancel, res, again, rows>>

JobOpen(r) ==
    /\ at[r] = "open"
    /\ \/ ~Of(r).whole /\ Go(r, "next") /\ NoFile /\ UNCHANGED res
       \/ Windows(r) /\ Go(r, "close") /\ NoFile /\ Res(r, "error")
       \/ Of(r).whole /\ Write(r, "whole") /\ Go(r, "next") /\ UNCHANGED res
       \/ Of(r).whole /\ WriteFails(r, "whole") /\ Go(r, "settle") /\ Res(r, "error")
    /\ IF Windows(r) /\ at'[r] = "next" THEN Report(r, "work", 0, Total(r)) ELSE UNCHANGED prog
    /\ Keeps /\ UNCHANGED <<line, cancel, again, rows>>

AllDone_OneShort(r) ==
    IF Windows(r) THEN AllWindows(r) ELSE Len(rows[r]) >= size[r] - 1
AllDone(r) == IF Windows(r) THEN AllWindows(r) ELSE Len(rows[r]) = size[r]

\* The results of a unit that is over.
Rows(r) == CASE Of(r).units = "window" -> Append(rows[r], NextWindow(r))
             [] Of(r).units = "pass"   -> [i \in 1 .. size[r] |-> i]
             [] OTHER                  -> Append(rows[r], Len(rows[r]) + 1)
UnitEnds(r) ==
    /\ rows' = [rows EXCEPT ![r] = Rows(r)]
    /\ IF Counts(r) THEN Report(r, "work", Len(Rows(r)), Total(r)) ELSE UNCHANGED prog

\* The checkpoint before each unit; a clip of one window has none.
Checkpoint(r) == Of(r).stops = "before" /\ cancel[r] /\ ~(Windows(r) /\ Whole(size[r]))

JobNext(r) ==
    /\ at[r] = "next" /\ ~AllDone(r)
    /\ IF Checkpoint(r) THEN Go(r, "close") /\ Res(r, "canceled")
                        ELSE Go(r, "files") /\ Res(r, "none")
    /\ again' = [again EXCEPT ![r] = FALSE]
    /\ Keeps /\ NoFile /\ UNCHANGED <<line, cancel, rows, prog>>

\* All units are done; an enhanced clip has still to be encoded.
JobFinish(r) ==
    /\ at[r] = "next" /\ AllDone(r) /\ Go(r, "close")
    /\ Res(r, "ok") \/ (Windows(r) /\ Res(r, "error"))
    /\ IF Windows(r) THEN Report(r, "encode", Absent, Absent) ELSE UNCHANGED prog
    /\ Keeps /\ NoFile /\ UNCHANGED <<line, cancel, again, rows>>

\* A segment with nothing in it is a row at once, and so is one whose bounds or slice cannot
\* be had.
UnitEmpty(r) ==
    /\ at[r] = "next" /\ Of(r).units = "segments" /\ ~AllDone(r) /\ ~cancel[r]
    /\ UnitEnds(r)
    /\ Keeps /\ NoFile /\ UNCHANGED <<line, at, cancel, res, again>>

Missing(r) == {i \in 1 .. need[r] : Refs[i] \notin files[r]}

\* The files of a unit, one by one.  The aligner's is removed even if its write fails.
UnitWrites(r) ==
    /\ at[r] = "files" /\ Missing(r) # {} /\ (Of(r).gated \/ ready)
    /\ LET f == Refs[CHOOSE i \in Missing(r) : \A j \in Missing(r) : i <= j]
       IN  \/ Write(r, f) /\ UNCHANGED <<at, res>>
           \/ /\ IF route[r] = "align_batch" THEN Write(r, f) ELSE WriteFails(r, f)
              /\ Go(r, "drop") /\ Res(r, "error")
    /\ Keeps /\ UNCHANGED <<line, cancel, again, rows, prog>>

UnitBegins(r) ==
    /\ at[r] = "files"
    /\ \/ ~Of(r).gated /\ ~ready /\ Go(r, "drop") /\ Res(r, "error")
       \/ (Of(r).gated \/ ready) /\ Missing(r) = {} /\ Go(r, "engine") /\ UNCHANGED res
    /\ Keeps /\ NoFile /\ UNCHANGED <<line, cancel, again, rows, prog>>

Engine(r, outcome) ==
    /\ at[r] = "engine" /\ Go(r, "drop") /\ Res(r, outcome)
    /\ Keeps /\ NoFile /\ UNCHANGED <<line, cancel, again, rows, prog>>

EngineWorks(r)  == Engine(r, "ok")
EngineRaises(r) == Engine(r, "error")
\* Within the call, where the segments are drawn from it or its hook is called back.
EngineStops(r)  == Of(r).stops = "inside" /\ cancel[r] /\ Engine(r, "canceled")

\* pyannote's hook, called in each of its stages with the count and the number of the
\* stage's own units, or with neither; some stages have none to count.
UnitsOf(stage) == CASE stage = "segmentation" -> {2} [] stage = "embeddings" -> {1} [] OTHER -> {}
Hook(r) ==
    /\ at[r] = "engine" /\ route[r] = "diar" /\ ~cancel[r]
    /\ \E stage \in {"segmentation", "speaker_counting", "embeddings"} :
        \/ Report(r, stage, Absent, Absent)
        \/ \E total \in UnitsOf(stage), done \in 0 .. 2 : done <= total /\ Report(r, stage, done, total)
    /\ Keeps /\ NoFile /\ UNCHANGED <<line, at, cancel, res, again, rows>>

\* Refused arguments, or for want of memory: the call is made once more, from the start.
EngineRetries(r) ==
    /\ at[r] = "engine" /\ Of(r).retries /\ ~again[r]
    /\ again' = [again EXCEPT ![r] = TRUE]
    /\ Keeps /\ NoFile /\ UNCHANGED <<line, at, cancel, res, rows, prog>>

\* The unit's files go, whatever it came to; its row, or the error that ends the job.
Dropped_OnSuccess(r) == IF res[r] = "ok" THEN ToSet(Refs) ELSE {}
Dropped(r) == ToSet(Refs) \ half[r]

UnitDrops(r) ==
    /\ at[r] = "drop" /\ Unlink(r, Dropped(r))
    /\ IF res[r] = "ok" \/ (res[r] = "error" /\ Of(r).isolates)
       THEN UnitEnds(r) /\ Go(r, "next") /\ UNCHANGED res
       ELSE Go(r, "close") /\ UNCHANGED <<res, rows, prog>>
    /\ Keeps /\ UNCHANGED <<line, cancel, again>>

JobClose(r) ==
    /\ at[r] = "close" /\ Go(r, "settle") /\ Unlink(r, {"whole"})
    /\ IF res[r] = "ok" /\ (Windows(r) \/ ~Counts(r)) THEN Report(r, "done", Absent, Absent)
                                                   ELSE UNCHANGED prog
    /\ Keeps /\ UNCHANGED <<line, cancel, res, again, rows>>

Settled(o) == CASE o = "ok" -> "succeeded" [] o = "error" -> "failed" [] OTHER -> o

JobSettle(r) ==
    /\ at[r] = "settle" /\ Go(r, Settled(res[r])) /\ Unlink(r, {"upload"})
    /\ line' = Tail(line)
    /\ Keeps /\ UNCHANGED <<cancel, jobVars>>

Handler(r) == Ask(r) \/ Read(r) \/ DecodeInMemory(r) \/ DecodeWrites(r) \/ DecodeEnds(r)
              \/ Spill(r) \/ DispatchBusy(r) \/ DispatchRaises(r) \/ Dispatch(r)
Cancel(r)  == CancelQueued(r) \/ CancelRunning(r)
Job(r)     == JobStart(r) \/ JobOpen(r) \/ JobNext(r) \/ JobFinish(r) \/ UnitEmpty(r)
              \/ UnitWrites(r) \/ UnitBegins(r) \/ EngineWorks(r) \/ EngineRaises(r) \/ EngineStops(r) \/ Hook(r)
              \/ EngineRetries(r) \/ UnitDrops(r) \/ JobClose(r) \/ JobSettle(r)

Next == Load \/ \E r \in Requests : Handler(r) \/ Cancel(r) \/ Job(r)

Spec == Init /\ [][Next]_vars
-----------------------------------------------------------------------------
\* What a request may count on.

\* A request that is over has no file left on disk, whichever of its steps failed or was
\* stopped, with two exceptions the code makes: a file whose write failed, and the upload of
\* a request whose submit() raised.
Stranded(r) == half[r] \cup (IF at[r] = "raised" THEN {"upload"} ELSE {})
TempsRemoved == \A r \in Requests : at[r] \in Over => files[r] \subseteq Stranded(r)

\* A job that succeeds has one row per item, in order, failed items included; an enhanced
\* clip has as many windows as were announced, and each sample got a weight above zero.
NothingSkipped ==
    \A r \in Requests : at[r] = "succeeded" =>
        IF Of(r).units = "window"
        THEN /\ Len(rows[r]) = WindowCount(size[r])
             /\ 0 .. size[r] - 1 \subseteq
                    UNION {Weighted(rows[r][i], size[r]) : i \in DOMAIN rows[r]}
        ELSE rows[r] = [i \in 1 .. size[r] |-> i]

\* What progress counts is of the stage it names, whatever stages a job has been through:
\* the units of that stage, if it has any, and never more of them done than there are; and
\* between two units what is done is what has results.
ProgressHonest ==
    \A r \in Requests :
        LET p == prog[r]
        IN  /\ p.done # Absent /\ p.total # Absent => p.done <= p.total
            /\ p.total # Absent => p.total \in (IF p.stage = "work" THEN {Total(r)} ELSE UnitsOf(p.stage))
            /\ at[r] = "next" /\ Counts(r) => p.done = Len(rows[r])
=============================================================================
