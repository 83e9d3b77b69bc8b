# Verification of audio-engines

audio-engines packs one audio capability per container (transcription, streaming
transcription, speech synthesis, diarization, alignment, ...) behind one HTTP/WebSocket
contract. This directory holds TLA+ models of its concurrent and stateful parts, the
TLC configurations that check them on small instances, and TLAPS proofs of their safety
for every instance. Line numbers are those of the files under
`src/wrapper/`.

Contents: [inventory](#the-system), [modules and code](#modules-and-the-code),
[runs](#runs), [fairness](#fairness), [proofs](#proofs), [findings](#findings),
[plan and limits](#plan).

## The system

| Component | State | Operations | Hard behaviour | What makes it correct |
|---|---|---|---|---|
| Task runner and task routes, `tasks.py` | the `Task` objects (status, cancel, finished, error, upload, value, future), `_tasks`, `_q` | `submit`, `queue_position`, `cancel`, `forget`, `_work`, `_settle`, `_store`, `_gc`, `dispatch`, GET / DELETE routes | three threads (event loop, worker, gc) touch the same objects with no common lock; saving a result can fail; TTL expiry under a reader | a bounded, FIFO, one-at-a-time server; terminal status implies complete document; results kept for TTL; uploads and files reclaimed; sync callers answered |
| Incremental speech, `caps/tts.py` | a session's work queue, its speaker, a pump thread per sentence and its queue of 8, `_gen_lock` | receive loop, `speaker`, `flush`, `_aiter.pump`, `_stream_blocking`, `_synthesize_blocking` | two bounded queues between three activities; a lock held over a whole generation; a client that leaves | audio in text order, no chunk lost, the lock given back, every sentence heard to its end or reported |
| Streaming recognition, `caps/stt_stream.py` | per session: pending audio, engine state, prefix, two counters; shared: `_infer_lock`, `_gpu`, the engine's `max_tokens` | receive loop, `_feed`, `_roll`, finalization, `_offline_transcribe`, `_work_batch` | rolls before the engine's encoder cache is full, an overflow retry, two locks taken on two threads, an offline job in between | no audio lost or repeated; cache never overflows; one caller in the engine, with its own limit |
| Streaming diarization, `caps/diar_stream.py` | incremental path: buffer, `base_chunks`, `committed`; fallback: window, `base_offset`, frozen turns, tail, `win_map`, `canon` | `_selftest`, `_process`, `_current`, `_relabel`, `_roll`, `_send` | a buffer trimmed apart from its counters; labels found again after every roll | every chunk fed once, whole timeline sent, bounded memory, labels kept |
| Boot: `runtime.py`, `watchdog.py`, `contract.py`, `hfgate.py` | `ready`, `error`, the watchdog's deadline | `Runtime.serve`, `arm`, `register`, `explain`, each capability's `_load` | load in a thread or on the main thread against a deadline; the watchdog reads `ready`, `error` and the clock one after the other; an error with no text | a hung load ends the process, an engine that is ready or has said why not is left alone, a client hears one or the other |
| Whisper's cache, `caps/whisper.py` | the converted model and the staging directories on a shared volume | `_ensure_ct2` | two containers convert at once; a kill between staging, rename and marker; directory removal that ignores errors | a marked model is whole, and so is the one that is loaded |
| One-shot capabilities `caps/{whisper,align,stt_stream,diar,vad,embed,enhance,tts,sound_fx,tts_dialogue}.py`, with `batch.py`, `audioio.py` | a request's temporary files, its rows, its progress | check, decode, spill, `dispatch`, a job of one or many units, format | up to four temporary files of three lifetimes, any step of which may fail or be stopped; units that fail alone; retries; boundary arithmetic of windows | no file outlives its request (two exceptions: Known gaps), one row per item in order, every sample covered, progress that can be believed |
| `catalog.py`, `app.py`, `gpu.py` | none, or a static table | wording, choosing a module, counters | none | pure functions |
| images, Makefile, CI scripts | outside the running program | | | |

Interaction. A capability's HTTP handler calls `dispatch`, which creates a `Task` on the
event loop and queues it for the single worker thread; the worker calls back into the
capability, which takes the capability's own lock (`_gen_lock` in `tts.py`, the gate `_gpu`
in `stt_stream.py`). WebSocket sessions run on the same event loop and take the same locks,
so a session and a job contend although they never call each other. `hazards` in
`PROJECT.json` lists what these meetings expose the code to, each with the property that
watches it or the reason none does yet.

## Modules and the code

`PROJECT.json` maps every definition to its lines. In outline:

- `TaskRunner` models `tasks.py`. There is one program counter per thread: `lpc` for the
  event loop (which runs one handler at a time, a handler being interruptible by the other
  *threads* between any two of its accesses to shared state), `wpc` for the worker, `gpc`
  for the gc. An action is one access another thread can tell apart from the next, which is
  what the GIL makes atomic. `CancelTest, CancelMark, CancelStamp, CancelFuture, CancelSet`
  are the five accesses of `cancel()`; `Start, JobReturns/JobRaises/JobStops, Store/
  StoreRaises, Settle, Flip, Future, SetFuture` are the worker's. `SingleServer` is the
  abstract specification: a bounded set of waiting jobs and who of them came first, one
  server, a job that is over stays over. `Waiting` and `Sooner` read the first two off the
  queue (`Pending`: what `_q` holds and what the worker has taken and not yet looked at).
- `SpeechStream` models the WebSocket session of `tts.py`: the receive loop (`InputText`,
  `Put`, `Disconnect`, ...), the speaker task (`Take*`, `Hear*`), the pump thread of
  `_aiter` (`Acquire` to `PushDone`), the lock, and one job of the task runner that wants
  the lock. A sentence may fail before it has a pump (`TakeRefused`), before its pump asks for
  the lock (`TakeSentence`), or while it is generated (`Raise`). POST with `stream=true` is the session with one sentence.
- `SttStream` models `stt_stream.py`: `Receive`/`Stop`/`Disconnect`, the two locks
  (`TakeInfer` on the loop, `TakeGpu` on the call's thread), the engine calls `Feed`,
  `Overflow`, `RollOver`, `Finish`, `Fail`, the messages `Emit*`, and the job (`JobBegin`
  to `JobEnd`) with its gate and raised limit. Audio is numbered units; an engine state's
  text stands for the units it covers.
- `DiarStream` and `DiarWindow` model the two paths of `diar_stream.py`, `DiarSession`
  composes them: it extends the first, instantiates the second, settles the path by the
  self-test, and from then on one path's steps leave the other's variables alone. In
  `DiarStream` the position of `buf[0]` (`start`) is kept apart from `baseChunks`, because
  the code slices the buffer and counts chunks separately and the property is that they agree. In `DiarWindow` a timeline is a set of
  turns `[unit, person, label]`; the person is there for the properties alone.
- `Boot` models a process from its start: `Launch`, `Arm`, `Serve` are `Runtime.serve` in its
  two forms, `Look`, `LookFailed`, `LookLeft`, `Wake`, `Exit` the rounds of the watchdog's
  thread, `Probe` is `GET /v1/models`. A load function is the sequence of its steps that can
  fail on their own (`Plan`): a step is needed, with so many attempts, or advisory, or the
  conversion. The process may be killed at any moment and is started again; its memory is
  lost, the volume is not.
- `Ct2Cache` models `_ensure_ct2`, one action per call into the file system (`rmtree` being a
  listing, an unlink for each file, and `rmdir`). `Boot` instantiates it with one instance;
  the run `ct2_collision` has two, on their own.
- `Jobs` models what the one-shot routes do with a request, from the readiness check to the
  settled job. The routes share one life cycle and differ in the record of choices `Route`
  gives each (is it gated, how is the upload decoded, which files does a unit need, what is a
  unit, where is a cancel noticed, does a failed unit become a row, is a failed call retried).
  `WindowCount`, `End`, `Weighted` are the arithmetic of `enhance`'s windows, in samples.
- `MC*` modules only give constants values, and the symmetry of what is interchangeable: the
  people of `MCDiarSession`, the requests of `MCJobs`.

What the models abstract, and why that is sound for the properties:

- *Tasks.* The gc of the code takes a cutoff and a snapshot and then looks at each task. The
  model's gc may look at any task at any moment with the current clock; whatever a stale
  cutoff finds expired is expired now, so the code's behaviours are among the model's. The
  clock starts above the TTL, as wall-clock time does, so that `(finished or 0) < cutoff`
  is true for a task with no end time; it stands until a job ends, as only the time since then
  counts. `raced` is a ghost set: the tasks whose status
  `cancel()` and the worker overwrote for each other. Some properties exempt those tasks,
  since one cause breaks them all; the cause itself is the finding `cancel_race`. GET of one
  task is a read of the status and one of the rest, left out where the status is not a final
  one, as then it promises nothing. The list reads every status twice, in a
  first pass that picks the live rows (`ListBegin`) and a second that picks the finished ones
  (`ListEnd`); a list with no live row is left out, for then nothing can come between the two
  that changes what it shows. A row that ends between the passes is shown by both; the
  property is that none is missed. The status filter and its parsing are left out.
  `TerminalDocComplete` exempts tasks that have just expired (see Known gaps). FastAPI does not cancel a handler
  when its client disconnects, so a sync request is always waited for.
- *Speech.* `session.config`, malformed frames, voices and encodings touch no queue and no
  lock. The temporary reference file of a cloned voice is in `Jobs` for the one-shot routes,
  and not modelled for sessions.
- *Recognition.* An engine call that overflows leaves the engine state as it was; the two
  locks are released in the step in which a call returns. `Fits` stands for the engine's
  cache (external). The wording of a text is not modelled: the engine may revise the last
  tokens of a partial (`UNFIXED_TOKEN_NUM`, `stt_stream.py:38`), so a message need not begin
  with the one before it, and no property says so; what is checked is the audio it covers.
- *Diarization.* `streaming_feat_loader` cuts the features into chunks from the buffer's
  front and the feature count is the buffer's length in hops (external to `src/`). On the
  fallback path the engine is taken to hear each window right and to number local speakers
  in order of arrival, so a local speaker stands for a person and what remains to be checked
  is this code's bookkeeping. Units are longer than the 0.8 s gap `_merge_segments` bridges.
  `_infer_lock` is not modelled here: sessions share no other state, so one session shows
  all there is. `overlap_samples <= 0` never happens with the constants of the file and is
  excluded by the assumption on `Lap`.
- *Boot.* How long a step takes is not modelled: it may never end. Sleeping five seconds at
  most and a deadline of minutes become a sleep of any length and a deadline of `Timeout`
  ticks, which admits every order of the two. A timeout of 0, which turns the watchdog off,
  is excluded by `BootAssumption`. The hub's probes within `explain()` are the time the load
  may spend in `Explain`.
- *Cache.* Errors of the volume are modelled where the code ignores them (the unlinks of
  `rmtree`); others raise and end the load as `ConvertFails` does. Two weights-like files
  stand for all.
- *Jobs.* The runner is a line of jobs run one at a time, the refusal of a full queue an
  outcome that is always possible, the engine a call that works or raises; `TaskRunner` has
  what is left out. `submit()` can raise (`DispatchRaises`) when a job that is over may be
  popped meanwhile, so not for the first request. An engine is taken to return one
  result per item of a pass. A file whose write fails stays behind (`half`), and so does the
  upload of a request whose `submit()` raised: see Known gaps.
  A segment, an item and a turn are their number; a window is its first sample.

## Runs

All runs use `CHECK_DEADLOCK FALSE`: clients need not send anything more, the clock and
the audio are bounded, so every system here may come to rest.

| Run | Instance | Shows |
|---|---|---|
| `task_runner` | a sync task, a deletable one, one whose result may fail to save; `QUEUE_MAX` 2; TTL 1, clock to 4 | types, the queue limit while it is being counted, `PositionTruthful` (dict order and queue order agree), uploads held, no future set by two threads, complete documents, results kept, no stranded file, `ListKeepsAll` (no row falls between the list's two passes; live rows are all shown, the newest finished ones up to any limit, and a cut list says so), refinement of `SingleServer` |
| `task_runner_live` | two tasks, `QUEUE_MAX` 1 | sync callers answered, uploads removed, expired tasks forgotten |
| `cancel_race`, `store_fails` | the same, one property each | the findings below |
| `speech_stream` | one session of two sentences of up to three chunks, work queue of 1, pump queue of 2, a job, a client that may leave | `AudioInOrder`, `NoChunkLost`, the lock released, `AllSpoken` (each sentence of a client that stays is heard to its end or reported to have failed, each mark answered), the job's turn, the handler's end |
| `speech_leaver` | two sessions, pump queue of 1 | finding |
| `stt_stream` | two sessions with steps of 1 and 2 units, roll 3, cache 3, one job of up to two segments, a client that may leave | `AudioOnce`, `ClosedComplete`, `RollPreventsOverflow`, `TokensOwn` (no call runs with another's limit), `EveryoneEnds` |
| `diar_session` | 24 frames in chunks of 2, context 1, step 3, keep 2; three people in any pattern over 5 units, window 3, tail 2 | `AudioFed`, `MemoryBounded`, `TimelineComplete`, `OnePersonPerLabel`, `LabelsStable` |
| `diar_crosstalk` | the same | finding |
| `boot` | an instance of any capability, two pids, three starts, a deadline of two ticks | `ModelWhole` (what is marked or loaded is whole, after any kills), `OutcomeStays` (an engine that is ready, or has said why not, is not ended by the watchdog), `BootSettles` (every start comes to an answer or an end) |
| `ct2_collision` | two containers, two pids | finding |
| `jobs` | two requests of any capability's routes, up to three items, clips of up to eight samples, windows of two to four with overlaps up to four | `TempsRemoved`, `NothingSkipped`, `ProgressHonest` |

Why these bounds are enough. The races of the task runner are between one handler, the
worker and the gc, over one task: one task of each kind suffices, a third makes the queue
full and the order visible. Both queues of a speech session are shorter than what passes
through them, so each fills, empties and wraps: with the tail and the mark a session of two
sentences puts three items on a work queue of one, and each pump up to three chunks and an end on a
queue of two. The recognition sessions roll at least
twice, one exactly at the boundary where a step still fits and one whose step is too long
for what the roll leaves, so that the overflow and its retry happen and happen again. The
diarization buffer is trimmed at most steps, chunks, steps and context have no common grid,
and the window rolls three times, with three people so that one may hold the label another
wants while a third arrives. Three starts of an engine allow a conversion that was killed, one
that finds what it left under either pid, and one that finds it marked; two ticks let the
deadline pass before, between and after any two of the watchdog's reads. Two requests wait
for one worker and the first can be refused, canceled or failed at every step while the
second is at any other. Clips of eight samples are cut into one to eight windows, with the
last one full, cut short or a single sample, for overlaps of none up to the whole window.
Symmetry is used for the people of `diar_session` and the requests of `jobs`: no action tells
them apart, and neither run has a liveness property.

Every property has a mutant in `PROJECT.json`: a plausible bug in a mapped definition
(status set before the document is complete, an off-by-one at the limit, a lock not given
back on the error path, the used labels not excluded, ...) with which TLC finds the property
violated.

## Fairness

- `TaskRunner`: weak fairness of the handler that has begun, the worker, the gc and the
  clock: each is a thread (or the event loop) that is scheduled, and jobs are assumed to
  end. Strong fairness of `Answer`: the event loop's ready queue is FIFO, so a request whose
  future is set is resumed however many other handlers come in between. Nothing is assumed
  of clients.
- `SpeechStream`: weak fairness of the receive loop, speaker, pump and worker. A lock is
  never starved for ever because sessions, their sentences and chunks are finite. A client
  need not send or leave.
- `SttStream`: weak fairness of coroutine, engine thread and worker. What a client sends is
  finite; that it stops is not assumed (`EveryoneEnds` speaks of those that do).
- `Boot`: weak fairness of the main thread, the watchdog's thread, the clock and of whoever
  probes, which is `llm-init`, polling `/v1/models` before it lets clients in. Nothing is assumed of the load, so `BootSettles` covers one that
  hangs at any step; nothing of Kubernetes either, which need not start the process again.
- The diarization modules and `Jobs` have no liveness property.

## Proofs

Checked by TLAPS for every value of the constants, from the named `ASSUME`s alone. These say
that sizes are naturals (positive where the code's `max(...)` makes them so), that actors are
distinct, that tasks, people and requests are finitely many, that the diarization window
holds two steps and its lap at most the rest of it beyond one step, that the clock can pass
the TTL, and (`PlanAssumption`) that a window of `enhance` is longer than its overlap or than
two samples.
A property is proved from an invariant that is inductive; what has to be added to the property
to make it so is the argument, and is given here.

- `TaskRunner_proof`. `TypeCorrect`. All later invariants rest on who owns a task: `Owned`
  (`_q` holds every task at most once, and not the one the worker is at) and `Seats` (which
  status a task can have while the queue, the handler, the worker or the gc has it).
  - `QueueBounded`: only `SubmitAccept` adds to the tasks the limit counts, and it looks
    first; every other access of every thread leaves that set as it is or takes from it.
  - `UploadsSafe`: `UploadHeld` and `UploadReleased` from `UploadInv`. One must know that a
    queued task has its upload, that what the worker has taken has left `queued` for good,
    and that `cancel()` can only be finishing the task the worker is at if one of the two
    overwrote the other's status.
  - `FuturesSetOnce`: `FutureSetOnce` from `FutureInv`: a future is pending until a thread has
    ended its task, and by `UploadInv` only one of the two ends a task nobody raced for.
  - `DocsComplete`: `TerminalDocComplete` from `DocInv`. The fields are written before the
    status that promises them, by the worker, while gc takes a result only once it has
    expired; `cancel()` alone writes its status first, and nobody reads in between because it
    runs on the event loop.
  - `FilesReachable`: `NoStrandedFile` from `FileInv`. Only async tasks have files, none is
    forgotten while it is at work, gc has removed the file of a task before it pops it.
  - `ResultsKept`: `ResultKept` from `KeptInv`, by which a task nobody may delete is queued
    until the worker has it and running until its result is stored, gc is only ever at an
    expired one.
  - `PositionsTruthful`: `PositionTruthful` from `LineInv`. Dict and queue hold the tasks in
    one order, although one loses canceled tasks at once and the other when the worker comes
    to them.
  - `ListsComplete`: `ListKeepsAll` from `RowsInv`, by which a row of the first pass is live
    then and live or over in the second, and from a count of the newest finished rows.
  - `RunnerIsServer`: the step simulation of `SingleServer`, from `LineInv` and `RunningInv`
    (only what the worker is at is running, unless it is dead). Accepting, taking, starting,
    ending and canceling have a lemma each; all other accesses leave `Waiting`, `Sooner`,
    `serving` and `over` alone (`ServerFrame`). It holds until a cancel races a start, after
    which the code breaks it (finding 1).
- `SpeechStream_proof`. `TypeCorrect`.
  - `SpeechInOrder`: `AudioInOrder` from `OrderInv`. What was sent is in order only because
    everything on its way is: `Flow` says that all of it, from what was sent through the
    sentence being spoken and the queue to what is still to be put, follows in order, each
    mark strictly before later text. One lemma per activity (`FlowText`, `FlowPut`,
    `FlowTake`, `FlowMark`, `FlowSend`) says the order survives it.
  - `NoChunkDropped`: `NoChunkLost` from `ChunkInv`. `Balance`: the chunks generated are those
    sent, those in the pump's queue and the one in its hand. To count the ones sent, one must
    know that none was sent for the same sentence before: `New` says each sentence on its way
    is later than all before it.
- `SttStream_proof`. `TypeCorrect`. `EngineSafe`: from `LockInv`, who is past a lock holds
  it, and the limit is raised only under the gate. `AudioNeverLost` and `ClosedHasAll`:
  `AudioOnce` needs `PlaceInv` (what a coroutine is about to do agrees with what it has in
  hand) and the algebra of runs of units (`UnitsAdd`), `ClosedComplete` in addition the count
  of covered units.
  `CacheNeverOverflows`: from `CacheInv`, the counter equals the cache's content and a call is
  made only below the roll; it gives the exact condition `Roll + Step <= Cache + 1`.
- `DiarStream_proof`. `AudioAlwaysFed` and `BufferAlwaysBounded` from `StreamInv`: the
  buffer starts at `baseChunks` chunks into the session and never past the audio received,
  at least one fed chunk stays in it (`Keep` is positive), a chunk is short only when the
  audio has ended. The positions are products, so the arithmetic is in three lemmas that
  the steps cite.
- `DiarSession_proof`. The session: `SessionInv` is `StreamInv` on one path and `WindowInv` on
  the other, each left alone by the other's steps, which gives `SessionTypeCorrect`,
  `SessionFeeds` and `SessionBounded`. The window's invariant has a part per question.
  `LoopInv`: its sizes, from which a roll always leaves the tail it keeps labels for.
  `KeptInv`: what is frozen and what the tail recalls are exactly the turns of their units.
  `NameInv`: labels are handed out one by one and a window's speakers never share one.
  `TellsInv`: a tail that tells its speakers apart gives each its label again. `OwnerInv`:
  without crosstalk a label has one owner. `SentInv`: how the last timeline relates to the
  state now. `TimelineAlwaysComplete` follows from `KeptInv` and `SentInv`,
  `OneLabelOnePerson` from `OwnerInv`, `LabelsAlwaysStable` from `TellsInv`; all three need
  `NameInv`. That the greedy matching of `_relabel` gives a person its own label back is
  `OwnTail`: it shares more of the tail with its own turns than with anybody else's.
- `Boot_proof`. `TypeCorrect`, and `MarkedModelWhole`: `ModelWhole` for any number of starts
  and pids. `ModelWhole` is not inductive: `WholeInv` adds that the marker is off while a
  conversion is on its way and that all parts are staged from the end of the conversion to
  the rename, which holds because one instance alone writes to the volume. With
  two instances it is false: the finding `ct2_collision`. `OutcomesStay`: `OutcomeStays`, from
  `LoadInv` (an outcome ends the load) and `Settled`, which a start satisfies from its outcome
  to its end: the watchdog is asleep, or looks and finds the outcome.
- `Jobs_proof`. `TempsAlwaysRemoved`: `TempsRemoved` for any requests, items, clips and
  windows, its two exceptions included, from `Held`, which bounds the files a request may have
  by where it is (`MayHold`), and `Decided`, by which a job that is settled has an outcome to settle.
  `JobsTypeCorrect`, `NothingEverSkipped` and `ProgressAlwaysHonest` come from `WorkInv`:
  `LineInv` (the line holds each request once, the one at work at its head), `RowsInv` (the
  rows so far are numbered, or are windows that begin at zero and follow each other by the
  hop, and all samples before the next window have weight), `DoneInv` (a unit begins only
  if one is left and a job ends well only if none is) and `ProgInv` (what was last reported
  agrees with the rows). `CountRounds` and `CountsWindows` are the arithmetic: the rounded-up
  division of the code announces exactly the windows its loop will make.

`UploadsSafe` proves `UploadReleased` and `EngineSafe` proves `EngineExclusive` too. No run
checks these two: the invariants they follow from are proved, and what they forbid is what
`UploadReclaimed` and `TokensOwn` are checked for.

Every invariant of the passing runs has a theorem, and so has the refinement. Only
model-checked is liveness, as TLAPS has no fairness and no ENABLED: `SyncAnswered`,
`UploadReclaimed`, `ExpiredForgotten`, `LockReleased`, `AllSpoken`, `JobEnds`, `HandlerEnds`,
`EveryoneEnds`, `BootSettles`. Out of the prover's reach altogether are induction over data
and RECURSIVE operators; the modules here use neither.

## Findings

1. `cancel_race` (`tasks.py:253`). `cancel()` tests `queued` and then writes `canceled` and
   cleans up, without a lock; the worker can start the job in between. The engine then runs
   on a file that is gone, and the status of either thread may win.
2. `store_fails` (`tasks.py:292`). An error while saving a result leaves `_work` and ends the
   only worker thread; its task stays `running` and nothing later is done.
3. `speech_leaver` (`tts.py:315`). A client that leaves while its pump waits on a full queue
   leaves `_gen_lock` held for ever. `LockReleased` shows it is the only way.
4. `diar_crosstalk` (`diar_stream.py:386`). On the fallback path, two people whose speech in
   the tail overlaps so that one's lies within the other's can exchange labels at a roll.
   `LabelsStable` shows that in every other case labels stay.
5. `ct2_collision` (`whisper.py:83`). Two containers that convert the same model on one volume
   collide, in the staging directory if their pids are equal, in the final one if not.
   `ModelWhole` shows that one container, killed as often as one likes, does no harm.

## Known gaps of the code

Behaviour met while modelling that no property claims otherwise, or that a model excludes by a
named assumption.

- *Expiry under a reader* (`tasks.py:264`). `forget()` drops the result before the task leaves
  the dict: a GET in between sees `succeeded` without a result. `TerminalDocComplete` exempts
  expired tasks for it.
- *The upload of a `submit()` that raises* (`tasks.py:220`). `submit()` counts the dict while the
  worker and the gc pop from it without its lock; the iteration then raises `RuntimeError`.
  `dispatch()` (374-380) cleans up for `Busy` alone, so the request ends with a 500 and its
  upload stays until `_sweep_stale` of a later boot. `SubmitRaises` and `DispatchRaises` are
  the step; `TempsRemoved` exempts this file, and `UploadReclaimed` speaks of accepted tasks.
- *A canceled task forgotten at once* (`tasks.py:332`). `cancel()` writes the status before the
  end time (254, 256); a gc that looks in between reads no end time, takes it for long past
  and forgets the task. Its client, who has just canceled it, then gets a 404.
- *A future set twice* (`tasks.py:259`, `302`). After a cancel that raced the start (finding 1)
  both threads may find the future pending. The second to set it raises `InvalidStateError`: a
  500 for the DELETE, or the end of the worker. `FutureSetOnce` says this takes a race;
  `WorkerLost` is the exemption of the liveness properties.
- *A handler that never ends* (`tts.py:600`). Putting a sentence on a full work queue, it waits
  for its speaker; one that has died, as its report of a failure could not be sent, takes
  nothing more, and the handler never comes to see the disconnect. `HandlerEnds` exempts this
  wait and shows it is the only one.
- *An error with no text* (`hfgate.py:25`). `str()` of some exceptions is empty. Every reader
  takes that for no error: clients hear `loading` until the deadline ends the process, which
  Kubernetes starts again. `OutcomeStays` and `BootSettles` speak of `error = "reason"`.
- *An error that comes late* (`hfgate.py:52`). The two probes of the hub take up to ten seconds
  each; if the deadline passes meanwhile the process exits and its reason is never served.
- *Partial writes* (`audioio.py:11`, and the writes of `whisper.py`, `stt_stream.py`,
  `tts.py`, `tts_dialogue.py`). The file is created before the block that removes it, so a
  write that fails leaves it. `TempsRemoved` exempts these files (`half`).
- *Leftovers of a kill* (`tasks.py:179`). `_sweep_stale` runs at boot and takes `task-*` and
  `upload-*` files older than the TTL: younger ones stay until a later boot, and files with
  other names (`tts-ref-*`, `dlg-ref-*`, unprefixed ones) for ever.
- *Whisper before it is ready* (`whisper.py:255`). Its routes are not gated; the job finds no
  model. A single request fails, a batch succeeds with an error in each row.
- *A pass that returns too little*. `sound_fx` and `tts_dialogue` pair items with results by
  `zip`, which stops at the shorter. The models take the engine to return one each.
- *Windows without weight*. In windows of one or two samples with an overlap of at least the
  window a sample can have weight zero. `PlanAssumption` leaves these out; the constants of
  the file are far from them.

## Plan

Done: the task runner with its routes; the streaming sessions of speech and recognition; both
diarization paths; boot, watchdog and the shared cache; the one-shot routes with their jobs,
files, rows, windows and progress; their runs; proofs about these modules, of every safety
property the passing runs check and of the refinement of
`SingleServer`. Left, in order:

1. Abstract specifications of a session of speech and of recognition, as `SingleServer` is
   one of the runner, with their step simulations.
2. `_preds_to_segments` and `_merge_segments` as pure operators over bounded inputs.
3. The temporary reference file of a speech session, and the task runner with a capability's
   lock (its job as the worker's body).

## Not modelled

The catalog (a static table) and the application entry (it picks a module and runs it); the
parsing of `EngineArgs` and of request forms; payloads, languages, voices and the wording of
errors; sample arithmetic, codecs and resampling; the engines; GPU and Prometheus counters;
image building. None has state these properties could be about.
