----------------------------- MODULE TaskRunner -----------------------------
(***************************************************************************)
(* wrapper/tasks.py: long jobs as tasks, run by one worker.                 *)
(*                                                                          *)
(* Three threads share the Task objects without a common lock:              *)
(*   loop    the asyncio event loop, which runs every HTTP handler          *)
(*           (dispatch, GET, DELETE) one at a time;                         *)
(*   worker  _Runner._work, which takes one job at a time off the queue;    *)
(*   gc      _Runner._gc, which forgets tasks that ended TTL ago.           *)
(* The GIL makes single reads and writes atomic and nothing more, so an     *)
(* action here is one access to shared state another thread can tell apart  *)
(* from the next one.  Line numbers below are those of wrapper/tasks.py.    *)
(***************************************************************************)
EXTENDS Naturals, Sequences, FiniteSets

CONSTANTS
    NoTask,     \* no Task: what a thread that is at none holds
    Tasks,      \* the Task objects the handlers may create
    Keep,       \* those submitted with async=1 (keep=True)
    Deletable,  \* the async tasks some client sends DELETE for
    Faulty,     \* the async tasks whose result _store can fail to save
    QueueMax,   \* QUEUE_MAX
    TTL,        \* TTL_S, in ticks of the model's clock
    MaxClock    \* bound on the clock

ASSUME TaskAssumption == /\ IsFiniteSet(Tasks)
                         /\ NoTask \notin Tasks
                         /\ Keep \subseteq Tasks
                         /\ Deletable \subseteq Keep
                         /\ Faulty \subseteq Keep

ASSUME NumberAssumption == /\ QueueMax \in Nat
                           /\ TTL \in Nat
                           /\ MaxClock \in Nat
                           /\ MaxClock > TTL

\* "new" is a Task that does not exist yet, "rejected" one that submit() refused:
\* neither is ever visible to a client.  The others are _STATUSES.
Terminal == {"succeeded", "failed", "canceled"}
Status   == {"new", "rejected", "queued", "running"} \cup Terminal

\* What the job ended with: a payload of either kind, or an exception.
Outcome == {"json", "binary", "failed", "canceled"}

\* finished is None (0 in `(t.finished or 0) < cutoff`) until the job is over.
None == 0

VARIABLES
    \* fields of the Task objects
    status, cancel, finished, error, upload, value, future,
    \* _Runner: _tasks (its keys, and the order they were inserted in) and _q
    registry, order, q,
    \* what dispatch() answered to the request that created the task
    answer,
    \* the loop thread: its place in a handler, the handler's task and what it read
    lpc, lt, lseen, lscan, llist,
    \* the worker thread: its place in _work, its task and how the job ended
    wpc, wt, wout,
    \* the gc thread: its place in _gc and its task
    gpc, gt,
    \* result files on disk, the clock, and the tasks cancel() and _work fought over
    disk, now, raced

taskVars   == <<status, cancel, finished, error, upload, value, future>>
runnerVars == <<registry, order, q, answer>>
loopVars   == <<lpc, lt, lseen, lscan, llist>>
workerVars == <<wpc, wt, wout>>
gcVars     == <<gpc, gt>>
envVars    == <<disk, now, raced>>
vars == <<taskVars, runnerVars, loopVars, workerVars, gcVars, envVars>>

\* The tasks submit() counts against QUEUE_MAX.
QueuedOf(R) == {t \in R : status[t] = "queued"}

\* dict order: t was inserted before u.
Before(t, u) == \E i, j \in DOMAIN order : i < j /\ order[i] = t /\ order[j] = u

TypeOK ==
    /\ status \in [Tasks -> Status]
    /\ cancel \in [Tasks -> BOOLEAN]
    /\ finished \in [Tasks -> Nat]
    /\ error \in [Tasks -> {"none", "failed", "canceled"}]
    /\ upload \in [Tasks -> BOOLEAN]
    /\ value \in [Tasks -> {"none", "json", "binary"}]
    /\ future \in [Tasks -> {"pending", "result", "failed", "canceled"}]
    /\ answer \in [Tasks -> {"none", "waiting", "202", "503", "500", "499", "200"}]
    /\ registry \subseteq Tasks
    /\ order \in Seq(Tasks)
    /\ q \in Seq(Tasks)
    /\ lpc \in {"idle", "scan", "read", "test", "mark", "stamp", "fut", "set",
                "list"}
    /\ lt \in Tasks \cup {NoTask}
    /\ lpc \notin {"idle", "list"} => lt \in Tasks
    /\ lseen \in Status
    /\ lscan \in [queued : Nat, size : Nat]
    /\ llist \in [rows : SUBSET Keep, live : SUBSET Keep]
    /\ wpc \in {"idle", "start", "work", "store", "settle", "flip", "fut", "set",
                "dead"}
    /\ wt \in Tasks \cup {NoTask}
    /\ wpc \notin {"idle", "dead"} => wt \in Tasks
    /\ wout \in Outcome
    /\ wpc = "store" => wout \in {"json", "binary"}
    /\ gpc \in {"sleep", "drop", "pop"}
    /\ gt \in Tasks \cup {NoTask}
    /\ gpc \in {"drop", "pop"} => gt \in Tasks
    /\ disk \subseteq Tasks
    /\ now \in Nat
    /\ raced \subseteq Tasks

\* mount() has started the threads; the clock starts where `now - TTL` is positive, as
\* wall-clock time does.
Init ==
    /\ status = [t \in Tasks |-> "new"]
    /\ cancel = [t \in Tasks |-> FALSE]
    /\ finished = [t \in Tasks |-> None]
    /\ error = [t \in Tasks |-> "none"]
    /\ upload = [t \in Tasks |-> FALSE]
    /\ value = [t \in Tasks |-> "none"]
    /\ future = [t \in Tasks |-> "pending"]
    /\ answer = [t \in Tasks |-> "none"]
    /\ registry = {} /\ order = <<>> /\ q = <<>>
    /\ lpc = "idle" /\ lt = NoTask /\ lseen = "new"
    /\ lscan = [queued |-> 0, size |-> 0] /\ llist = [rows |-> {}, live |-> {}]
    /\ wpc = "idle" /\ wt = NoTask /\ wout = "failed"
    /\ gpc = "sleep" /\ gt = NoTask
    /\ disk = {} /\ now = TTL + 1 /\ raced = {}
-----------------------------------------------------------------------------
\* The loop thread: one handler at a time, another thread between any two of its steps.

Enter(pc, t) == lpc = "idle" /\ lpc' = pc /\ lt' = t
Step(from, to) == lpc = from /\ lpc' = to /\ UNCHANGED <<lt, lseen, lscan, llist>>
Leave == /\ lpc' = "idle" /\ lt' = NoTask /\ lseen' = "new"
         /\ lscan' = [queued |-> 0, size |-> 0] /\ llist' = [rows |-> {}, live |-> {}]

LimitReached_Late(n) == n > QueueMax
LimitReached(n) == n >= QueueMax

Enqueue_Front(t) == q' = <<t>> \o q
Enqueue(t) == q' = Append(q, t)

\* run_cleanup(), which removes the upload once however often it is called.
Cleanup_Never(t) == UNCHANGED upload
Cleanup_All(t) == upload' = [u \in Tasks |-> FALSE]
Cleanup(t) == upload' = [upload EXCEPT ![t] = FALSE]

\* drop_result(): the value goes, and the file it was in.
DropResult_NoUnlink(t) == value' = [value EXCEPT ![t] = "none"] /\ UNCHANGED disk
DropResult(t) == /\ value' = [value EXCEPT ![t] = "none"]
                 /\ disk' = disk \ (IF value[t] = "binary" THEN {t} ELSE {})

FuturePending_Inverted(t) == future[t] # "pending"
FuturePending(t) == future[t] = "pending"

\* dispatch() builds the Task over an upload already on disk, and submit() starts to
\* count the dict's queued tasks while the other threads go on.
SubmitBegin(t) ==
    /\ status[t] = "new"
    /\ Enter("scan", t)
    /\ lscan' = [queued |-> Cardinality(QueuedOf(registry)), size |-> Cardinality(registry)]
    /\ upload' = [upload EXCEPT ![t] = TRUE]
    /\ UNCHANGED <<status, cancel, finished, error, value, future, runnerVars, lseen,
                   llist, workerVars, gcVars, envVars>>

\* The count only falls while it is taken (no other handler runs), so it can come out
\* below the limit if the last reads find it so.
SubmitAccept ==
    /\ lpc = "scan" /\ ~LimitReached(Cardinality(QueuedOf(registry)))
    /\ status' = [status EXCEPT ![lt] = "queued"]
    /\ registry' = registry \cup {lt}
    /\ order' = Append(order, lt)
    /\ Enqueue(lt)
    /\ answer' = [answer EXCEPT ![lt] = IF lt \in Keep THEN "202" ELSE "waiting"]
    /\ Leave
    /\ UNCHANGED <<cancel, finished, error, upload, value, future, workerVars, gcVars,
                   envVars>>

\* ... and at the limit if the first reads did: Busy, cleaned up and answered 503.
SubmitBusy ==
    /\ lpc = "scan" /\ LimitReached(lscan.queued)
    /\ status' = [status EXCEPT ![lt] = "rejected"]
    /\ Cleanup(lt)
    /\ answer' = [answer EXCEPT ![lt] = "503"]
    /\ Leave
    /\ UNCHANGED <<cancel, finished, error, value, future, registry, order, q, workerVars,
                   gcVars, envVars>>

\* A pop by the worker or the gc, neither of which takes _lock, makes the iteration raise
\* RuntimeError: dispatch() lets it through, and with it the upload.
SubmitRaises ==
    /\ lpc = "scan" /\ Cardinality(registry) # lscan.size
    /\ status' = [status EXCEPT ![lt] = "rejected"]
    /\ answer' = [answer EXCEPT ![lt] = "500"]
    /\ Leave
    /\ UNCHANGED <<cancel, finished, error, upload, value, future, registry, order, q,
                   workerVars, gcVars, envVars>>

\* The sync request wakes on its future.
Answer(t) ==
    /\ lpc = "idle" /\ answer[t] = "waiting" /\ future[t] # "pending"
    /\ answer' = [answer EXCEPT ![t] =
                    CASE future[t] = "result"   -> "200"
                      [] future[t] = "canceled" -> "499"
                      [] OTHER                  -> "500"]
    /\ UNCHANGED <<taskVars, registry, order, q, loopVars, workerVars, gcVars, envVars>>

\* GET of a task or its result: the status first, the other fields after it.  One that finds
\* the task not over is left out, as it says no more than that.
ReadStatus(t) ==
    /\ t \in registry \cap Keep /\ status[t] \in Terminal
    /\ Enter("read", t)
    /\ lseen' = status[t]
    /\ UNCHANGED <<taskVars, runnerVars, lscan, llist, workerVars, gcVars, envVars>>

ReadRest ==
    /\ lpc = "read" /\ Leave
    /\ UNCHANGED <<taskVars, runnerVars, workerVars, gcVars, envVars>>

\* The list: the rows, and with a first pass over them those still live; a second pass picks
\* the finished ones.  A row's own two reads come in that order, which is what tells, so a
\* pass is one step; a list with none live is left out, as nothing can come between its passes.
ListBegin ==
    /\ Enter("list", NoTask)
    /\ LET rows == registry \cap Keep
           live == {t \in rows : status[t] \notin Terminal}
       IN  live # {} /\ llist' = [rows |-> rows, live |-> live]
    /\ UNCHANGED <<taskVars, runnerVars, lseen, lscan, workerVars, gcVars, envVars>>

\* Where in the dict the finished rows are that the second pass finds, ...
DoneAt    == {i \in DOMAIN order : order[i] \in llist.rows /\ status[order[i]] \in Terminal}
After(i)  == {j \in DoneAt : j > i}
RowsAt(I) == {order[i] : i \in I}

\* ... which get what the live ones leave of the limit, the newest of them kept.
Room(limit) == IF limit > Cardinality(llist.live) THEN limit - Cardinality(llist.live) ELSE 0
KeptAt_Suffix(room) == {i \in DoneAt : room = 0 \/ Cardinality(After(i)) < room}
KeptAt(room) == {i \in DoneAt : Cardinality(After(i)) < room}
Truncated(limit) == Cardinality(DoneAt) > Room(limit)

ListEnd ==
    /\ lpc = "list" /\ Leave
    /\ UNCHANGED <<taskVars, runnerVars, workerVars, gcVars, envVars>>

\* DELETE of a task that is over: forget().
Drop(t) ==
    /\ lpc = "idle" /\ t \in registry \cap Deletable /\ status[t] \in Terminal
    /\ DropResult(t)
    /\ registry' = registry \ {t}
    /\ UNCHANGED <<status, cancel, finished, error, upload, future, order, q, answer,
                   loopVars, workerVars, gcVars, now, raced>>

\* DELETE of any other: cancel() asks the job to stop ...
CancelBegin(t) ==
    /\ t \in registry \cap Deletable /\ status[t] \notin Terminal
    /\ Enter("test", t)
    /\ cancel' = [cancel EXCEPT ![t] = TRUE]
    /\ UNCHANGED <<status, finished, error, upload, value, future, runnerVars, lseen, lscan,
                   llist, workerVars, gcVars, envVars>>

\* ... and finishes it here if it has not started.
CancelTest ==
    /\ lpc = "test"
    /\ IF status[lt] = "queued" THEN Step("test", "mark") ELSE Leave
    /\ UNCHANGED <<taskVars, runnerVars, workerVars, gcVars, envVars>>

CancelMark_NoStatus ==
    /\ Step("mark", "stamp")
    /\ UNCHANGED <<taskVars, runnerVars, workerVars, gcVars, envVars>>

\* raced records that the status written over is not the one that was tested.
CancelMark ==
    /\ Step("mark", "stamp")
    /\ status' = [status EXCEPT ![lt] = "canceled"]
    /\ raced' = IF status[lt] = "queued" THEN raced ELSE raced \cup {lt}
    /\ UNCHANGED <<cancel, finished, error, upload, value, future, runnerVars, workerVars,
                   gcVars, disk, now>>

CancelStamp ==
    /\ Step("stamp", "fut")
    /\ finished' = [finished EXCEPT ![lt] = now]
    /\ error' = [error EXCEPT ![lt] = "canceled"]
    /\ Cleanup(lt)
    /\ UNCHANGED <<status, cancel, value, future, runnerVars, workerVars, gcVars, envVars>>

CancelFuture ==
    /\ lpc = "fut"
    /\ IF FuturePending(lt) THEN Step("fut", "set") ELSE Leave
    /\ UNCHANGED <<taskVars, runnerVars, workerVars, gcVars, envVars>>

\* set_exception on a future the worker has set meanwhile raises InvalidStateError: a 500.
CancelSet ==
    /\ lpc = "set" /\ Leave
    /\ future' = [future EXCEPT ![lt] = IF @ = "pending" THEN "canceled" ELSE @]
    /\ UNCHANGED <<status, cancel, finished, error, upload, value, runnerVars, workerVars,
                   gcVars, envVars>>
-----------------------------------------------------------------------------
\* The worker thread.

WStep(from, to) == wpc = from /\ wpc' = to /\ UNCHANGED <<wt, wout>>
WIdle == wpc' = "idle" /\ wt' = NoTask /\ wout' = "failed"
\* An exception that leaves _work ends the only thread that runs jobs.
WDies == wpc' = "dead" /\ wt' = NoTask /\ wout' = "failed"

\* _q.get(), and the test that skips a task canceled while it waited.
Take ==
    /\ wpc = "idle" /\ q # <<>>
    /\ q' = Tail(q)
    /\ IF status[Head(q)] = "canceled"
       THEN UNCHANGED workerVars
       ELSE wpc' = "start" /\ wt' = Head(q) /\ UNCHANGED wout
    /\ UNCHANGED <<taskVars, registry, order, answer, loopVars, gcVars, envVars>>

Start ==
    /\ WStep("start", "work")
    /\ status' = [status EXCEPT ![wt] = "running"]
    /\ raced' = IF status[wt] = "queued" THEN raced ELSE raced \cup {wt}
    /\ UNCHANGED <<cancel, finished, error, upload, value, future, runnerVars, loopVars,
                   gcVars, disk, now>>

\* The job returns, raises, or notices the cancel at one of its checkpoints.  What kind of
\* payload it is matters only where it is stored.
JobReturns ==
    /\ wpc = "work"
    /\ wout' \in (IF wt \in Keep THEN {"json", "binary"} ELSE {"json"})
    /\ wpc' = IF wt \in Keep THEN "store" ELSE "settle"
    /\ UNCHANGED <<taskVars, runnerVars, wt, loopVars, gcVars, envVars>>

JobRaises_Uncaught ==
    /\ wpc = "work" /\ WDies
    /\ UNCHANGED <<taskVars, runnerVars, loopVars, gcVars, envVars>>

JobRaises ==
    /\ wpc = "work" /\ wpc' = "settle" /\ wout' = "failed"
    /\ error' = [error EXCEPT ![wt] = "failed"]
    /\ UNCHANGED <<status, cancel, finished, upload, value, future, runnerVars, wt,
                   loopVars, gcVars, envVars>>

JobStops ==
    /\ wpc = "work" /\ cancel[wt] /\ wpc' = "settle" /\ wout' = "canceled"
    /\ error' = [error EXCEPT ![wt] = "canceled"]
    /\ UNCHANGED <<status, cancel, finished, upload, value, future, runnerVars, wt,
                   loopVars, gcVars, envVars>>

\* _store(): JSON stays on the heap, anything else goes to a task-* file.
Store ==
    /\ WStep("store", "settle")
    /\ value' = [value EXCEPT ![wt] = wout]
    /\ disk' = IF wout = "binary" THEN disk \cup {wt} ELSE disk
    /\ UNCHANGED <<status, cancel, finished, error, upload, future, runnerVars, loopVars,
                   gcVars, now, raced>>

\* The write fails (a full /tmp) with the file created and result_path not yet set: the
\* else clause of the try is not covered by its handlers.
StoreRaises ==
    /\ wpc = "store" /\ wt \in Faulty /\ wout = "binary"
    /\ disk' = disk \cup {wt}
    /\ WDies
    /\ UNCHANGED <<taskVars, runnerVars, loopVars, gcVars, now, raced>>

\* _settle(): the end time and the upload, then the status, then the future.
SettledStatus_Raw(o) == o
SettledStatus(o) == IF o \in {"json", "binary"} THEN "succeeded" ELSE o
SettledFuture(o) == IF o \in {"json", "binary"} THEN "result" ELSE o

Settle_StatusFirst ==
    /\ WStep("settle", "flip")
    /\ status' = [status EXCEPT ![wt] = SettledStatus(wout)]
    /\ Cleanup(wt)
    /\ UNCHANGED <<cancel, finished, error, value, future, runnerVars, loopVars, gcVars,
                   envVars>>

Settle ==
    /\ WStep("settle", "flip")
    /\ finished' = [finished EXCEPT ![wt] = now]
    /\ Cleanup(wt)
    /\ UNCHANGED <<status, cancel, error, value, future, runnerVars, loopVars, gcVars,
                   envVars>>

Flip ==
    /\ WStep("flip", "fut")
    /\ status' = [status EXCEPT ![wt] = SettledStatus(wout)]
    /\ UNCHANGED <<cancel, finished, error, upload, value, future, runnerVars, loopVars,
                   gcVars, envVars>>

\* The sync caller has the payload off the future, so its task is not kept.
JobDone == /\ registry' = IF wt \in Keep THEN registry ELSE registry \ {wt}
           /\ WIdle

Future ==
    /\ wpc = "fut"
    /\ IF FuturePending(wt) THEN WStep("fut", "set") /\ UNCHANGED registry
                                 ELSE JobDone
    /\ UNCHANGED <<taskVars, order, q, answer, loopVars, gcVars, envVars>>

\* set_result / set_exception raise InvalidStateError if cancel() set the future meanwhile.
SetFuture ==
    /\ wpc = "set"
    /\ IF future[wt] = "pending"
       THEN /\ future' = [future EXCEPT ![wt] = SettledFuture(wout)]
            /\ JobDone
       ELSE WDies /\ UNCHANGED <<future, registry>>
    /\ UNCHANGED <<status, cancel, finished, error, upload, value, order, q, answer,
                   loopVars, gcVars, envVars>>
-----------------------------------------------------------------------------
\* The gc thread, and the clock.

\* _gc wakes, takes a cutoff and a snapshot, and looks at each task.  It may wake at any
\* moment, and what a stale cutoff finds expired is expired now, so the model's gc reads
\* the clock as it looks, and looks at any task.
Expired_NoTTL(t) == status[t] \in Terminal /\ finished[t] < now
Expired_OnlySucceeded(t) == status[t] = "succeeded" /\ finished[t] < now - TTL
Expired(t) == status[t] \in Terminal /\ finished[t] < now - TTL

Look(t) ==
    /\ gpc = "sleep" /\ t \in registry /\ Expired(t)
    /\ gpc' = "drop" /\ gt' = t
    /\ UNCHANGED <<taskVars, runnerVars, loopVars, workerVars, envVars>>

\* forget(): drop_result(), then the pop.
GcDrop ==
    /\ gpc = "drop" /\ gpc' = "pop"
    /\ DropResult(gt)
    /\ UNCHANGED <<status, cancel, finished, error, upload, future, runnerVars, loopVars,
                   workerVars, gt, now, raced>>

GcPop ==
    /\ gpc = "pop" /\ gpc' = "sleep"
    /\ registry' = registry \ {gt} /\ gt' = NoTask
    /\ UNCHANGED <<taskVars, order, q, answer, loopVars, workerVars, envVars>>

\* What counts is the time since a job ended, so the clock stands until one has.
Tick ==
    /\ now < MaxClock /\ \E t \in Tasks : finished[t] # None
    /\ now' = now + 1
    /\ UNCHANGED <<taskVars, runnerVars, loopVars, workerVars, gcVars, disk, raced>>
-----------------------------------------------------------------------------
Submit == (\E t \in Tasks : SubmitBegin(t)) \/ SubmitAccept \/ SubmitBusy \/ SubmitRaises
Get    == (\E t \in Keep : ReadStatus(t)) \/ ReadRest \/ ListBegin \/ ListEnd
Delete == \/ \E t \in Deletable : Drop(t) \/ CancelBegin(t)
          \/ CancelTest \/ CancelMark \/ CancelStamp \/ CancelFuture \/ CancelSet
Worker == Take \/ Start \/ JobReturns \/ JobRaises \/ JobStops \/ Store \/ StoreRaises
          \/ Settle \/ Flip \/ Future \/ SetFuture
Gc     == (\E t \in Tasks : Look(t)) \/ GcDrop \/ GcPop

Next == Submit \/ (\E t \in Tasks : Answer(t)) \/ Get \/ Delete \/ Worker \/ Gc \/ Tick

Spec == Init /\ [][Next]_vars

\* A handler that has begun is run to its end.
Handler == SubmitAccept \/ SubmitBusy \/ SubmitRaises \/ ReadRest \/ ListEnd \/ CancelTest
           \/ CancelMark \/ CancelStamp \/ CancelFuture \/ CancelSet

\* Every thread is scheduled, every job ends, and time passes; the event loop's ready
\* queue is FIFO, so a request whose future is set is resumed however many others come.
FairSpec ==
    /\ Spec
    /\ WF_vars(Handler) /\ WF_vars(Worker) /\ WF_vars(Gc) /\ WF_vars(Tick)
    /\ \A t \in Tasks : SF_vars(Answer(t))
-----------------------------------------------------------------------------
\* What the runner promises.  raced exempts the tasks cancel() and _work overwrote each
\* other's status of; the README says what happens to those.

\* The tasks the worker has still to look at, in the order it will; those it will start; and
\* which of two it starts first.
Pending == (IF wpc = "start" THEN <<wt>> ELSE <<>>) \o q
Waiting == {t \in Tasks : status[t] = "queued" /\ \E i \in DOMAIN Pending : Pending[i] = t}
Sooner(t, u) == \E i, j \in DOMAIN Pending : i < j /\ Pending[i] = t /\ Pending[j] = u

\* queue_position(): the queued tasks before it in the dict.
Position_WithRunning(t) ==
    Cardinality({u \in registry : status[u] \in {"queued", "running"} /\ Before(u, t)})
Position(t) == Cardinality({u \in QueuedOf(registry) : Before(u, t)})

\* At most QUEUE_MAX jobs wait, although submit() counts them while other threads move on.
QueueBound == Cardinality(QueuedOf(registry)) <= QueueMax

\* The position a client reads off the dict is the number of jobs the worker will start
\* before its own, sync callers' jobs and all, although the worker follows the queue.
PositionTruthful ==
    \A t \in Waiting : Position(t) = Cardinality({u \in Waiting : Sooner(u, t)})

\* The worker starts a job only while its upload is there, and the upload stays until the
\* job is over: no cleanup by the other thread removes it under the engine.
UploadHeld == wpc = "work" /\ wt \notin raced => upload[wt]

\* A task that is over holds no upload, whichever thread ended it, except while cancel()
\* is between the status and the cleanup.
UploadReleased ==
    \A t \in Tasks : status[t] \in Terminal => ~upload[t] \/ (lpc = "stamp" /\ lt = t)

\* Both threads test a future and then set it, and only one of them is ever between the two
\* with a task (tasks.py:259-260, 302-306): set_exception or set_result finds it pending.
FutureSetOnce ==
    /\ wpc = "set" /\ wt \notin raced => future[wt] = "pending"
    /\ lpc = "set" /\ lt \notin raced => future[lt] = "pending"

\* What ReadRest reads for a status already read.
Complete(t, s) ==
    CASE s = "succeeded" -> finished[t] # None /\ value[t] # "none" /\ error[t] = "none"
      [] s \in {"failed", "canceled"} -> finished[t] # None /\ error[t] # "none"
      [] OTHER -> TRUE

\* A client that reads a terminal status reads a complete document, unless the task's TTL
\* runs out under the read.
TerminalDocComplete ==
    lpc = "read" /\ lt \notin raced /\ (finished[lt] = None \/ now - TTL <= finished[lt])
        => Complete(lt, lseen)

\* A result nobody deletes can be fetched for TTL after its job ends: the task is listed,
\* has its value, and the file is there if that is what holds it.
ResultKept ==
    \A t \in Keep \ Deletable :
        status[t] = "succeeded" /\ now - TTL <= finished[t] =>
            /\ t \in registry /\ value[t] # "none"
            /\ value[t] = "binary" => t \in disk

\* Every result file can still be reached, and so reclaimed, through its task, except one
\* whose write failed.
NoStrandedFile ==
    \A t \in disk \ raced :
        \/ t \in registry /\ value[t] = "binary"
        \/ wpc = "dead" /\ t \in Faulty

\* Whatever ends between the list's two passes, no row is in neither of them; every live row
\* is answered, whatever the limit; of the finished ones the newest are, as many as the limit
\* allows; and a list that leaves one out says that it does.
ListKeepsAll ==
    lpc = "list" =>
        LET live == llist.live
        IN  /\ llist.rows \ raced \subseteq live \cup RowsAt(DoneAt)
            /\ \A limit \in 1 .. Cardinality(Tasks) :
                LET kept == RowsAt(KeptAt(Room(limit)))
                    left == RowsAt(DoneAt) \ kept
                IN  /\ Cardinality(live) + Cardinality(kept) <= limit \/ kept = {}
                    /\ \A t \in left, u \in kept : Before(t, u)
                    /\ left # {} => Truncated(limit)

\* The worker ends only if saving a result failed or a cancel raced it.
WorkerLost == wpc = "dead" /\ (raced # {} \/ Faulty \cap disk # {})

\* Every sync request gets its answer, unless the worker is lost.
SyncAnswered ==
    \A t \in Tasks : answer[t] = "waiting" ~> answer[t] \in {"200", "500"} \/ WorkerLost

\* Every upload of an accepted task is removed, unless the worker is lost.
UploadReclaimed ==
    \A t \in Tasks : status[t] = "queued" ~> ~upload[t] \/ WorkerLost

\* A task that ended is forgotten once its TTL is over (those that end too near the clock's
\* bound to expire before it are left out).
ExpiredForgotten ==
    \A t \in Keep :
        status[t] \in Terminal /\ finished[t] \in 1 .. (MaxClock - TTL - 1)
            ~> t \notin registry \/ t \in raced
-----------------------------------------------------------------------------
\* What the source says and the code does not do.

\* "The upload's temp file: dropped as soon as the job is over" (tasks.py:141), so not
\* while it runs.
UploadOutlivesJob == wpc = "work" => upload[wt]

\* Tasks do not "outlive 1800 s (after which results are reclaimed)" (README.md:122): the
\* TTL counts from the end of the job, so every job that starts has to end.
RunningEnds == \A t \in Tasks : status[t] = "running" ~> status[t] \in Terminal
-----------------------------------------------------------------------------
\* The worker and its queue are one FIFO server; a step after a race is left free.
Server == INSTANCE SingleServer WITH
    waiting <- Waiting,
    sooner  <- {p \in Waiting \X Waiting : Sooner(p[1], p[2])},
    serving <- {t \in Tasks : status[t] = "running"},
    over    <- {t \in Tasks : status[t] \in Terminal}

ImplementsServer == Server!Init /\ [][raced' # {} \/ Server!Next]_(Server!vars)

=============================================================================
