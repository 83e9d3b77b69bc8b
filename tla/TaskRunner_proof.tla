-------------------------- MODULE TaskRunner_proof --------------------------
(***************************************************************************)
(* Proofs about TaskRunner, for every set of tasks and every limit.         *)
(***************************************************************************)
EXTENDS TaskRunner, FiniteSetTheorems, TLAPS

USE TaskAssumption, NumberAssumption

-----------------------------------------------------------------------------
\* Type correctness.

\* The runner starts with no tasks and idle threads.
LEMMA TypeInit == Init => TypeOK
  BY DEF Init, TypeOK, Status, Terminal, Outcome, None

\* Every access of every thread keeps the types.
LEMMA TypeNext == TypeOK /\ [Next]_vars => TypeOK'
<1> SUFFICES ASSUME TypeOK, [Next]_vars PROVE TypeOK'
  OBVIOUS
<1> USE DEF TypeOK, Status, Terminal, Outcome,
            taskVars, runnerVars, loopVars, workerVars, gcVars, envVars
<1>1. ASSUME NEW t \in Tasks, SubmitBegin(t) PROVE TypeOK'
  <2>1. Cardinality(registry) \in Nat /\ Cardinality(QueuedOf(registry)) \in Nat
    BY FS_Subset, FS_CardinalityType DEF QueuedOf
  <2> QED BY <1>1, <2>1 DEF SubmitBegin, Enter
<1>2. ASSUME NEW t \in Tasks, Answer(t) PROVE TypeOK'
  BY <1>2 DEF Answer
<1>3. ASSUME NEW t \in Keep, ReadStatus(t) PROVE TypeOK'
  BY <1>3 DEF ReadStatus, Enter
<1>4. ASSUME NEW t \in Deletable, Drop(t) PROVE TypeOK'
  BY <1>4 DEF Drop, DropResult
<1>5. ASSUME NEW t \in Deletable, CancelBegin(t) PROVE TypeOK'
  BY <1>5 DEF CancelBegin, Enter
<1>6. ASSUME NEW t \in Tasks, Look(t) PROVE TypeOK'
  BY <1>6 DEF Look
<1>7. CASE SubmitAccept
  BY <1>7 DEF SubmitAccept, Leave, Enqueue
<1>8. CASE SubmitBusy
  BY <1>8 DEF SubmitBusy, Leave, Cleanup
<1>9. CASE SubmitRaises
  BY <1>9 DEF SubmitRaises, Leave
<1>10. CASE ReadRest
  BY <1>10 DEF ReadRest, Leave
<1>11. CASE CancelTest
  BY <1>11 DEF CancelTest, Step, Leave
<1>12. CASE CancelMark
  BY <1>12 DEF CancelMark, Step
<1>13. CASE CancelStamp
  BY <1>13 DEF CancelStamp, Step, Cleanup
<1>14. CASE CancelFuture
  BY <1>14 DEF CancelFuture, Step, Leave
<1>15. CASE CancelSet
  BY <1>15 DEF CancelSet, Leave
<1>16. CASE Take
  BY <1>16 DEF Take
<1>17. CASE Start
  BY <1>17 DEF Start, WStep
<1>18. CASE JobReturns
  BY <1>18 DEF JobReturns
<1>19. CASE JobRaises
  BY <1>19 DEF JobRaises
<1>20. CASE JobStops
  BY <1>20 DEF JobStops
<1>21. CASE Store
  BY <1>21 DEF Store, WStep
<1>22. CASE StoreRaises
  BY <1>22 DEF StoreRaises, WDies
<1>23. CASE Settle
  BY <1>23 DEF Settle, WStep, Cleanup
<1>24. CASE Flip
  BY <1>24 DEF Flip, WStep, SettledStatus
<1>25. CASE Future
  BY <1>25 DEF Future, WStep, JobDone, WIdle
<1>26. CASE SetFuture
  <2>1. SettledFuture(wout) \in {"result", "failed", "canceled"}
    BY DEF SettledFuture
  <2>2. CASE future[wt] = "pending"
    <3>1. future' = [future EXCEPT ![wt] = SettledFuture(wout)] /\ JobDone
      BY <1>26, <2>2 DEF SetFuture
    <3>2. future' \in [Tasks -> {"pending", "result", "failed", "canceled"}]
      BY <2>1, <3>1
    <3> QED BY <1>26, <3>1, <3>2 DEF SetFuture, JobDone, WIdle
  <2>3. CASE future[wt] # "pending"
    BY <1>26, <2>3 DEF SetFuture, WDies
  <2> QED BY <2>2, <2>3
<1>27. CASE GcDrop
  BY <1>27 DEF GcDrop, DropResult
<1>28. CASE GcPop
  BY <1>28 DEF GcPop
<1>29. CASE Tick
  BY <1>29 DEF Tick
<1>30. CASE UNCHANGED vars
  BY <1>30 DEF vars
<1>31. CASE ListBegin
  BY <1>31 DEF ListBegin, Enter
<1>32. CASE ListEnd
  BY <1>32 DEF ListEnd, Leave
<1> QED
  BY <1>1, <1>2, <1>3, <1>4, <1>5, <1>6, <1>7, <1>8, <1>9, <1>10, <1>11, <1>12, <1>13,
     <1>14, <1>15, <1>16, <1>17, <1>18, <1>19, <1>20, <1>21, <1>22, <1>23, <1>24, <1>25,
     <1>26, <1>27, <1>28, <1>29, <1>30, <1>31, <1>32
     DEF Next, Submit, Get, Delete, Worker, Gc

\* Every state of the runner is a state of the types TypeOK gives.
THEOREM TypeCorrect == Spec => []TypeOK
  BY TypeInit, TypeNext, PTL DEF Spec

-----------------------------------------------------------------------------
\* The queue's bound.

\* The tasks the limit counts are finitely many.
LEMMA QueuedFinite == ASSUME TypeOK PROVE IsFiniteSet(QueuedOf(registry))
  BY FS_Subset DEF TypeOK, QueuedOf

\* Only SubmitAccept puts a task among the queued ones, and it looks first.
LEMMA BoundNext == TypeOK /\ TypeOK' /\ QueueBound /\ [Next]_vars => QueueBound'
<1> SUFFICES ASSUME TypeOK, TypeOK', QueueBound, [Next]_vars PROVE QueueBound'
  OBVIOUS
<1>a. ASSUME QueuedOf(registry)' \subseteq QueuedOf(registry) PROVE QueueBound'
  <2>1. IsFiniteSet(QueuedOf(registry))
    BY QueuedFinite
  <2>2. /\ Cardinality(QueuedOf(registry)') <= Cardinality(QueuedOf(registry))
        /\ Cardinality(QueuedOf(registry)') \in Nat
        /\ Cardinality(QueuedOf(registry)) \in Nat
    BY <1>a, <2>1, FS_Subset, FS_CardinalityType
  <2> QED BY <2>2 DEF QueueBound
<1>b. CASE SubmitAccept
  <2>1. QueuedOf(registry)' \subseteq QueuedOf(registry) \cup {lt}
    BY <1>b DEF SubmitAccept, QueuedOf, TypeOK
  <2>2. IsFiniteSet(QueuedOf(registry))
    BY QueuedFinite
  <2>a. Cardinality(QueuedOf(registry)) \in Nat
    BY <2>2, FS_CardinalityType
  <2>3. /\ IsFiniteSet(QueuedOf(registry) \cup {lt})
        /\ Cardinality(QueuedOf(registry) \cup {lt}) =
             IF lt \in QueuedOf(registry) THEN Cardinality(QueuedOf(registry))
                                          ELSE Cardinality(QueuedOf(registry)) + 1
    BY <2>2, FS_AddElement, Zenon
  <2>4. /\ Cardinality(QueuedOf(registry)') <= Cardinality(QueuedOf(registry) \cup {lt})
        /\ Cardinality(QueuedOf(registry)') \in Nat
        /\ Cardinality(QueuedOf(registry) \cup {lt}) \in Nat
    BY <2>1, <2>3, FS_Subset, FS_CardinalityType
  <2>5. Cardinality(QueuedOf(registry)) < QueueMax
    BY <1>b, <2>a DEF SubmitAccept, LimitReached
  <2> QED BY <2>a, <2>3, <2>4, <2>5 DEF QueueBound
<1>c. ASSUME ~SubmitAccept PROVE QueuedOf(registry)' \subseteq QueuedOf(registry)
  <2> USE DEF QueuedOf, TypeOK, taskVars, runnerVars, loopVars, workerVars, gcVars, envVars
  <2>1. ASSUME NEW t \in Tasks, SubmitBegin(t) PROVE QueuedOf(registry)' \subseteq QueuedOf(registry)
    BY <2>1 DEF SubmitBegin, Enter, QueuedOf
  <2>2. ASSUME NEW t \in Tasks, Answer(t) PROVE QueuedOf(registry)' \subseteq QueuedOf(registry)
    BY <2>2 DEF Answer
  <2>3. ASSUME NEW t \in Keep, ReadStatus(t) PROVE QueuedOf(registry)' \subseteq QueuedOf(registry)
    BY <2>3 DEF ReadStatus, Enter
  <2>4. ASSUME NEW t \in Deletable, Drop(t) PROVE QueuedOf(registry)' \subseteq QueuedOf(registry)
    BY <2>4 DEF Drop, DropResult
  <2>5. ASSUME NEW t \in Deletable, CancelBegin(t) PROVE QueuedOf(registry)' \subseteq QueuedOf(registry)
    BY <2>5 DEF CancelBegin, Enter
  <2>6. ASSUME NEW t \in Tasks, Look(t) PROVE QueuedOf(registry)' \subseteq QueuedOf(registry)
    BY <2>6 DEF Look
  <2>7. CASE SubmitAccept
    BY <1>c, <2>7
  <2>8. CASE SubmitBusy
    BY <2>8 DEF SubmitBusy, Leave, Cleanup
  <2>9. CASE SubmitRaises
    BY <2>9 DEF SubmitRaises, Leave
  <2>10. CASE ReadRest
    BY <2>10 DEF ReadRest, Leave
  <2>11. CASE CancelTest
    BY <2>11 DEF CancelTest, Step, Leave
  <2>12. CASE CancelMark
    BY <2>12 DEF CancelMark, Step
  <2>13. CASE CancelStamp
    BY <2>13 DEF CancelStamp, Step, Cleanup
  <2>14. CASE CancelFuture
    BY <2>14 DEF CancelFuture, Step, Leave
  <2>15. CASE CancelSet
    BY <2>15 DEF CancelSet, Leave
  <2>16. CASE Take
    BY <2>16 DEF Take
  <2>17. CASE Start
    BY <2>17 DEF Start, WStep
  <2>18. CASE JobReturns
    BY <2>18 DEF JobReturns
  <2>19. CASE JobRaises
    BY <2>19 DEF JobRaises
  <2>20. CASE JobStops
    BY <2>20 DEF JobStops
  <2>21. CASE Store
    BY <2>21 DEF Store, WStep
  <2>22. CASE StoreRaises
    BY <2>22 DEF StoreRaises, WDies
  <2>23. CASE Settle
    BY <2>23 DEF Settle, WStep, Cleanup
  <2>24. CASE Flip
    BY <2>24 DEF Flip, WStep, SettledStatus, Outcome
  <2>25. CASE Future
    BY <2>25 DEF Future, WStep, JobDone, WIdle
  <2>26. CASE SetFuture
    BY <2>26 DEF SetFuture, JobDone, WIdle, WDies, SettledFuture
  <2>27. CASE GcDrop
    BY <2>27 DEF GcDrop, DropResult
  <2>28. CASE GcPop
    BY <2>28 DEF GcPop
  <2>29. CASE Tick
    BY <2>29 DEF Tick
  <2>30. CASE UNCHANGED vars
    BY <2>30 DEF vars
  <2>31. CASE ListBegin
    BY <2>31 DEF ListBegin, Enter
  <2>32. CASE ListEnd
    BY <2>32 DEF ListEnd, Leave
  <2> QED
    BY <2>1, <2>2, <2>3, <2>4, <2>5, <2>6, <2>7, <2>8, <2>9, <2>10, <2>11, <2>12, <2>13,
       <2>14, <2>15, <2>16, <2>17, <2>18, <2>19, <2>20, <2>21, <2>22, <2>23, <2>24, <2>25,
       <2>26, <2>27, <2>28, <2>29, <2>30, <2>31, <2>32
       DEF Next, Submit, Get, Delete, Worker, Gc
<1> QED BY <1>a, <1>b, <1>c

\* Never do more than QUEUE_MAX jobs wait.
THEOREM QueueBounded == Spec => []QueueBound
<1>1. Init => QueueBound
  <2> SUFFICES ASSUME Init PROVE QueueBound
    OBVIOUS
  <2>1. QueuedOf(registry) = {}
    BY DEF Init, QueuedOf
  <2> QED BY <2>1, FS_EmptySet DEF QueueBound
<1> QED
  BY <1>1, TypeInit, TypeNext, BoundNext, PTL DEF Spec

-----------------------------------------------------------------------------
\* The uploads.

Working  == {"work", "store", "settle", "flip"}
Settling == {"fut", "set"}
Closing  == {"stamp", "fut", "set"}
Accepted(t) == status[t] \notin {"new", "rejected"}

\* What makes the two upload invariants inductive.  A task being submitted is not yet the
\* worker's; the worker's task has left "queued" for good; and when cancel() finishes a
\* task the worker is at work on, one of the two has overwritten the other's status.
UploadInv ==
    /\ \A t \in Tasks : status[t] = "queued" => upload[t]
    /\ lpc = "scan" => status[lt] = "new" /\ upload[lt]
    /\ lpc \in Closing => status[lt] # "queued"
    /\ \A i \in DOMAIN q : Accepted(q[i])
    /\ wpc \notin {"idle", "dead"} => Accepted(wt)
    /\ wpc \in Working \cup Settling => status[wt] # "queued"
    /\ wpc \in Working /\ wt \notin raced => status[wt] = "running"
    /\ wpc \in Working \cup Settling /\ lpc \in Closing /\ lt = wt => wt \in raced
    /\ wpc = "flip" => ~upload[wt]
    /\ UploadHeld
    /\ UploadReleased

\* Every access of every thread keeps the uploads' invariant.
LEMMA UploadNext == TypeOK /\ UploadInv /\ [Next]_vars => UploadInv'
<1> SUFFICES ASSUME TypeOK, UploadInv, [Next]_vars PROVE UploadInv'
  OBVIOUS
<1> USE DEF TypeOK, UploadInv, UploadHeld, UploadReleased, Accepted, Working, Settling,
            Closing, Terminal, taskVars, runnerVars, loopVars, workerVars, gcVars, envVars
<1>1. ASSUME NEW t \in Tasks, SubmitBegin(t) PROVE UploadInv'
  BY <1>1 DEF SubmitBegin, Enter, QueuedOf
<1>2. ASSUME NEW t \in Tasks, Answer(t) PROVE UploadInv'
  BY <1>2 DEF Answer
<1>3. ASSUME NEW t \in Keep, ReadStatus(t) PROVE UploadInv'
  BY <1>3 DEF ReadStatus, Enter
<1>4. ASSUME NEW t \in Deletable, Drop(t) PROVE UploadInv'
  BY <1>4 DEF Drop, DropResult
<1>5. ASSUME NEW t \in Deletable, CancelBegin(t) PROVE UploadInv'
  BY <1>5 DEF CancelBegin, Enter
<1>6. ASSUME NEW t \in Tasks, Look(t) PROVE UploadInv'
  BY <1>6 DEF Look
<1>7. CASE SubmitAccept
  BY <1>7 DEF SubmitAccept, Leave, Enqueue
<1>8. CASE SubmitBusy
  BY <1>8 DEF SubmitBusy, Leave, Cleanup
<1>9. CASE SubmitRaises
  BY <1>9 DEF SubmitRaises, Leave
<1>10. CASE ReadRest
  BY <1>10 DEF ReadRest, Leave
<1>11. CASE CancelTest
  BY <1>11 DEF CancelTest, Step, Leave
<1>12. CASE CancelMark
  BY <1>12 DEF CancelMark, Step
<1>13. CASE CancelStamp
  BY <1>13 DEF CancelStamp, Step, Cleanup
<1>14. CASE CancelFuture
  BY <1>14 DEF CancelFuture, Step, Leave
<1>15. CASE CancelSet
  BY <1>15 DEF CancelSet, Leave
<1>16. CASE Take
  BY <1>16 DEF Take
<1>17. CASE Start
  BY <1>17 DEF Start, WStep
<1>18. CASE JobReturns
  BY <1>18 DEF JobReturns
<1>19. CASE JobRaises
  BY <1>19 DEF JobRaises
<1>20. CASE JobStops
  BY <1>20 DEF JobStops
<1>21. CASE Store
  BY <1>21 DEF Store, WStep
<1>22. CASE StoreRaises
  BY <1>22 DEF StoreRaises, WDies
<1>23. CASE Settle
  BY <1>23 DEF Settle, WStep, Cleanup
<1>24. CASE Flip
  BY <1>24 DEF Flip, WStep, SettledStatus, Outcome
<1>25. CASE Future
  BY <1>25 DEF Future, WStep, JobDone, WIdle
<1>26. CASE SetFuture
  BY <1>26 DEF SetFuture, JobDone, WIdle, WDies, SettledFuture
<1>27. CASE GcDrop
  BY <1>27 DEF GcDrop, DropResult
<1>28. CASE GcPop
  BY <1>28 DEF GcPop
<1>29. CASE Tick
  BY <1>29 DEF Tick
<1>30. CASE UNCHANGED vars
  BY <1>30 DEF vars
<1>31. CASE ListBegin
  BY <1>31 DEF ListBegin, Enter
<1>32. CASE ListEnd
  BY <1>32 DEF ListEnd, Leave
<1> QED
  BY <1>1, <1>2, <1>3, <1>4, <1>5, <1>6, <1>7, <1>8, <1>9, <1>10, <1>11, <1>12, <1>13,
     <1>14, <1>15, <1>16, <1>17, <1>18, <1>19, <1>20, <1>21, <1>22, <1>23, <1>24, <1>25,
     <1>26, <1>27, <1>28, <1>29, <1>30, <1>31, <1>32
     DEF Next, Submit, Get, Delete, Worker, Gc

\* The upload of a running job is there, and that of a finished one is not.
THEOREM UploadsSafe == Spec => [](UploadHeld /\ UploadReleased)
<1>1. Init => UploadInv
  BY DEF Init, UploadInv, UploadHeld, UploadReleased, Accepted, Working, Settling,
         Closing, Terminal
<1>2. UploadInv => UploadHeld /\ UploadReleased
  BY DEF UploadInv
<1> QED
  BY <1>1, <1>2, TypeInit, TypeNext, UploadNext, PTL DEF Spec
-----------------------------------------------------------------------------
\* The futures.

\* What makes FutureSetOnce inductive: a future is pending until a thread has ended its task,
\* and only one of the two ends a task that nobody raced for.
FutureInv ==
    /\ \A t \in Tasks : status[t] \in {"new", "queued"} => future[t] = "pending"
    /\ wpc \in Working \cup Settling /\ wt \notin raced => future[wt] = "pending"
    /\ lpc \in Closing => Accepted(lt)
    /\ lpc \in Closing /\ lt \notin raced => future[lt] = "pending"

\* Every access of every thread keeps it.
LEMMA FutureNext == TypeOK /\ UploadInv /\ FutureInv /\ [Next]_vars => FutureInv'
<1> SUFFICES ASSUME TypeOK, UploadInv, FutureInv, [Next]_vars PROVE FutureInv'
  OBVIOUS
<1> USE DEF TypeOK, UploadInv, FutureInv, Accepted, Working, Settling,
            Closing, Terminal, taskVars, runnerVars, loopVars, workerVars, gcVars, envVars
<1>1. ASSUME NEW t \in Tasks, SubmitBegin(t) PROVE FutureInv'
  BY <1>1 DEF SubmitBegin, Enter, QueuedOf
<1>2. ASSUME NEW t \in Tasks, Answer(t) PROVE FutureInv'
  BY <1>2 DEF Answer
<1>3. ASSUME NEW t \in Keep, ReadStatus(t) PROVE FutureInv'
  BY <1>3 DEF ReadStatus, Enter
<1>4. ASSUME NEW t \in Deletable, Drop(t) PROVE FutureInv'
  BY <1>4 DEF Drop, DropResult
<1>5. ASSUME NEW t \in Deletable, CancelBegin(t) PROVE FutureInv'
  BY <1>5 DEF CancelBegin, Enter
<1>6. ASSUME NEW t \in Tasks, Look(t) PROVE FutureInv'
  BY <1>6 DEF Look
<1>7. CASE SubmitAccept
  BY <1>7 DEF SubmitAccept, Leave, Enqueue
<1>8. CASE SubmitBusy
  BY <1>8 DEF SubmitBusy, Leave, Cleanup
<1>9. CASE SubmitRaises
  BY <1>9 DEF SubmitRaises, Leave
<1>10. CASE ReadRest
  BY <1>10 DEF ReadRest, Leave
<1>11. CASE CancelTest
  BY <1>11 DEF CancelTest, Step, Leave
<1>12. CASE CancelMark
  BY <1>12 DEF CancelMark, Step
<1>13. CASE CancelStamp
  BY <1>13 DEF CancelStamp, Step, Cleanup
<1>14. CASE CancelFuture
  BY <1>14 DEF CancelFuture, Step, Leave
<1>15. CASE CancelSet
  BY <1>15 DEF CancelSet, Leave
<1>16. CASE Take
  BY <1>16 DEF Take
<1>17. CASE Start
  BY <1>17 DEF Start, WStep
<1>18. CASE JobReturns
  BY <1>18 DEF JobReturns
<1>19. CASE JobRaises
  BY <1>19 DEF JobRaises
<1>20. CASE JobStops
  BY <1>20 DEF JobStops
<1>21. CASE Store
  BY <1>21 DEF Store, WStep
<1>22. CASE StoreRaises
  BY <1>22 DEF StoreRaises, WDies
<1>23. CASE Settle
  BY <1>23 DEF Settle, WStep, Cleanup
<1>24. CASE Flip
  BY <1>24 DEF Flip, WStep, SettledStatus, Outcome
<1>25. CASE Future
  BY <1>25 DEF Future, WStep, JobDone, WIdle
<1>26. CASE SetFuture
  BY <1>26 DEF SetFuture, JobDone, WIdle, WDies, SettledFuture
<1>27. CASE GcDrop
  BY <1>27 DEF GcDrop, DropResult
<1>28. CASE GcPop
  BY <1>28 DEF GcPop
<1>29. CASE Tick
  BY <1>29 DEF Tick
<1>30. CASE UNCHANGED vars
  BY <1>30 DEF vars
<1>31. CASE ListBegin
  BY <1>31 DEF ListBegin, Enter
<1>32. CASE ListEnd
  BY <1>32 DEF ListEnd, Leave
<1> QED
  BY <1>1, <1>2, <1>3, <1>4, <1>5, <1>6, <1>7, <1>8, <1>9, <1>10, <1>11, <1>12, <1>13,
     <1>14, <1>15, <1>16, <1>17, <1>18, <1>19, <1>20, <1>21, <1>22, <1>23, <1>24, <1>25,
     <1>26, <1>27, <1>28, <1>29, <1>30, <1>31, <1>32
     DEF Next, Submit, Get, Delete, Worker, Gc

\* The worker and a cancel never set the same future, unless they raced for the task itself.
THEOREM FuturesSetOnce == Spec => []FutureSetOnce
<1>1. Init => UploadInv /\ FutureInv
  BY DEF Init, UploadInv, FutureInv, UploadHeld, UploadReleased, Accepted, Working, Settling,
         Closing, Terminal
<1>2. FutureInv => FutureSetOnce
  BY DEF FutureInv, FutureSetOnce, Settling, Closing
<1> QED
  BY <1>1, <1>2, TypeInit, TypeNext, UploadNext, FutureNext, PTL DEF Spec
-----------------------------------------------------------------------------
\* The results.

Undeleted == Keep \ Deletable

\* The worker's task is no longer in the queue, which has every task once.
Owned ==
    /\ \A i, j \in DOMAIN q : i # j => q[i] # q[j]
    /\ \A i \in DOMAIN q : Accepted(q[i])
    /\ wpc \notin {"idle", "dead"} => Accepted(wt) /\ \A i \in DOMAIN q : q[i] # wt
    /\ lpc = "scan" => status[lt] = "new"

\* t is listed, with its result.
Kept(t) == t \in registry /\ value[t] # "none" /\ (value[t] = "binary" => t \in disk)

\* What makes ResultKept inductive: a task nobody may delete is queued until the worker has
\* it, running until its result is stored, and the gc is only ever at an expired one.
KeptInv ==
    /\ Owned
    /\ lpc \in {"test", "mark", "stamp", "fut", "set"} => lt \in Deletable
    /\ \A i \in DOMAIN q : q[i] \in Undeleted => status[q[i]] = "queued"
    /\ wt \in Undeleted =>
        /\ wpc = "start" => status[wt] = "queued"
        /\ wpc \in {"work", "store", "settle", "flip"} => status[wt] = "running"
        /\ wpc \in {"settle", "flip"} /\ wout \in {"json", "binary"} =>
              value[wt] # "none" /\ (value[wt] = "binary" => wt \in disk)
    /\ gpc \in {"drop", "pop"} /\ gt \in Undeleted => Expired(gt)
    /\ \A t \in Undeleted : status[t] \in {"queued", "running"} => t \in registry
    /\ \A t \in Undeleted : status[t] = "succeeded" => Kept(t) \/ Expired(t)

\* Every access of every thread keeps it.
LEMMA KeptNext == TypeOK /\ KeptInv /\ [Next]_vars => KeptInv'
<1> SUFFICES ASSUME TypeOK, KeptInv, [Next]_vars PROVE KeptInv'
  OBVIOUS
<1> USE DEF TypeOK, KeptInv, Owned, Undeleted, Kept, Expired, Terminal, Accepted, None,
            taskVars, runnerVars, loopVars, workerVars, gcVars, envVars
<1>1. ASSUME NEW t \in Tasks, SubmitBegin(t) PROVE KeptInv'
  BY <1>1 DEF SubmitBegin, Enter, QueuedOf
<1>2. ASSUME NEW t \in Tasks, Answer(t) PROVE KeptInv'
  BY <1>2 DEF Answer
<1>3. ASSUME NEW t \in Keep, ReadStatus(t) PROVE KeptInv'
  BY <1>3 DEF ReadStatus, Enter
<1>4. ASSUME NEW t \in Deletable, Drop(t) PROVE KeptInv'
  BY <1>4 DEF Drop, DropResult
<1>5. ASSUME NEW t \in Deletable, CancelBegin(t) PROVE KeptInv'
  BY <1>5 DEF CancelBegin, Enter
<1>6. ASSUME NEW t \in Tasks, Look(t) PROVE KeptInv'
  BY <1>6 DEF Look
<1>7. CASE SubmitAccept
  <2>1. /\ lt \in Tasks /\ status[lt] = "new" /\ lpc' = "idle"
        /\ q' = Append(q, lt) /\ registry' = registry \cup {lt}
        /\ status' = [status EXCEPT ![lt] = "queued"]
    BY <1>7 DEF SubmitAccept, Leave, Enqueue
  <2>2. /\ DOMAIN q = 1 .. Len(q) /\ DOMAIN q' = 1 .. Len(q) + 1 /\ Len(q) \in Nat
        /\ \A i \in 1 .. Len(q) : q'[i] = q[i]
        /\ q'[Len(q) + 1] = lt
    BY <2>1
  <2>3. \A i \in DOMAIN q : q[i] # lt
    BY <2>1
  <2>4. \A i \in DOMAIN q' : i = Len(q) + 1 \/ (i \in DOMAIN q /\ i # Len(q) + 1)
    BY <2>2
  <2>5. Owned'
    <3>1. \A i, j \in DOMAIN q' : i # j => q'[i] # q'[j]
      <4> SUFFICES ASSUME NEW i \in DOMAIN q', NEW j \in DOMAIN q', i # j PROVE q'[i] # q'[j]
        OBVIOUS
      <4>1. CASE i = Len(q) + 1
        BY <2>2, <2>3, <2>4, <4>1
      <4>2. CASE j = Len(q) + 1
        BY <2>2, <2>3, <2>4, <4>2
      <4>3. CASE i \in DOMAIN q /\ j \in DOMAIN q
        BY <2>2, <4>3
      <4> QED
        BY <2>4, <4>1, <4>2, <4>3
    <3>2. \A i \in DOMAIN q' : Accepted(q[i])' /\ (wpc \notin {"idle", "dead"} => q'[i] # wt)
      BY <2>1, <2>2, <2>4
    <3> QED
      BY <1>7, <2>1, <3>1, <3>2 DEF SubmitAccept
  <2>6. \A i \in DOMAIN q' : q'[i] \in Undeleted => status'[q'[i]] = "queued"
    BY <2>1, <2>2, <2>4
  <2>7. \A t \in Undeleted : t # lt => status'[t] = status[t] /\ (Kept(t) => Kept(t)')
    BY <1>7, <2>1 DEF SubmitAccept
  <2>8. wpc \notin {"idle", "dead"} => wt # lt
    BY <2>1
  <2>9. gpc \in {"drop", "pop"} /\ gt \in Undeleted => gt # lt
    BY <2>1
  <2>10. status'[lt] = "queued" /\ UNCHANGED <<finished, value, disk, now, wpc, wt, wout, gpc, gt>>
    BY <1>7, <2>1 DEF SubmitAccept
  <2> HIDE DEF Owned
  <2> QED
    BY <2>1, <2>5, <2>6, <2>7, <2>8, <2>9, <2>10
<1>8. CASE SubmitBusy
  BY <1>8 DEF SubmitBusy, Leave, Cleanup
<1>9. CASE SubmitRaises
  BY <1>9 DEF SubmitRaises, Leave
<1>10. CASE ReadRest
  BY <1>10 DEF ReadRest, Leave
<1>11. CASE CancelTest
  BY <1>11 DEF CancelTest, Step, Leave
<1>12. CASE CancelMark
  BY <1>12 DEF CancelMark, Step
<1>13. CASE CancelStamp
  BY <1>13 DEF CancelStamp, Step, Cleanup
<1>14. CASE CancelFuture
  BY <1>14 DEF CancelFuture, Step, Leave
<1>15. CASE CancelSet
  BY <1>15 DEF CancelSet, Leave
<1>16. CASE Take
  <2>1. /\ q # <<>> /\ q' = Tail(q) /\ Head(q) = q[1] /\ 1 \in DOMAIN q
        /\ \A i \in DOMAIN q' : i + 1 \in DOMAIN q /\ i + 1 # 1 /\ q'[i] = q[i + 1]
    BY <1>16 DEF Take
  <2>2. \A i, j \in DOMAIN q' : i # j => q'[i] # q'[j]
    <3>1. \A i, j \in DOMAIN q' : i # j => i + 1 # j + 1
      BY <2>1
    <3> QED
      BY <2>1, <3>1
  <2>3. \A i \in DOMAIN q' : q'[i] # Head(q)
    BY <2>1
  <2>4. UNCHANGED <<status, finished, value, disk, registry, now, lpc, lt, gpc, gt>>
    BY <1>16 DEF Take
  <2>5. \/ wpc' = wpc /\ wt' = wt
        \/ wpc' = "start" /\ wt' = Head(q)
    BY <1>16 DEF Take
  <2>6. wpc = "idle" /\ Accepted(Head(q))
    BY <1>16, <2>1 DEF Take
  <2>7. \A i \in DOMAIN q' : Accepted(q[i])'
    BY <2>1, <2>4
  <2>8. Owned'
    BY <2>2, <2>3, <2>4, <2>5, <2>6, <2>7
  <2>9. \A i \in DOMAIN q' : q'[i] \in Undeleted => status'[q'[i]] = "queued"
    BY <2>1, <2>4
  <2>10. Head(q) \in Undeleted => status[Head(q)] = "queued"
    BY <2>1
  <2> HIDE DEF Owned
  <2> QED
    BY <2>4, <2>5, <2>6, <2>8, <2>9, <2>10
<1>17. CASE Start
  BY <1>17 DEF Start, WStep
<1>18. CASE JobReturns
  BY <1>18 DEF JobReturns
<1>19. CASE JobRaises
  BY <1>19 DEF JobRaises
<1>20. CASE JobStops
  BY <1>20 DEF JobStops
<1>21. CASE Store
  BY <1>21 DEF Store, WStep
<1>22. CASE StoreRaises
  BY <1>22 DEF StoreRaises, WDies
<1>23. CASE Settle
  BY <1>23 DEF Settle, WStep, Cleanup
<1>24. CASE Flip
  BY <1>24 DEF Flip, WStep, SettledStatus, Outcome
<1>25. CASE Future
  BY <1>25 DEF Future, WStep, JobDone, WIdle
<1>26. CASE SetFuture
  BY <1>26 DEF SetFuture, JobDone, WIdle, WDies, SettledFuture
<1>27. CASE GcDrop
  BY <1>27 DEF GcDrop, DropResult
<1>28. CASE GcPop
  BY <1>28 DEF GcPop
<1>29. CASE Tick
  BY <1>29 DEF Tick
<1>30. CASE UNCHANGED vars
  BY <1>30 DEF vars
<1>31. CASE ListBegin
  BY <1>31 DEF ListBegin, Enter
<1>32. CASE ListEnd
  BY <1>32 DEF ListEnd, Leave
<1> QED
  BY <1>1, <1>2, <1>3, <1>4, <1>5, <1>6, <1>7, <1>8, <1>9, <1>10, <1>11, <1>12, <1>13,
     <1>14, <1>15, <1>16, <1>17, <1>18, <1>19, <1>20, <1>21, <1>22, <1>23, <1>24, <1>25,
     <1>26, <1>27, <1>28, <1>29, <1>30, <1>31, <1>32
     DEF Next, Submit, Get, Delete, Worker, Gc

\* The runner starts with nothing to hold or keep.
LEMMA UploadKeptInit == Init => UploadInv /\ KeptInv
  BY DEF Init, UploadInv, UploadHeld, UploadReleased, Accepted, Working, Settling, Closing,
         Terminal, KeptInv, Owned, Undeleted

\* For any tasks, limits and TTL: a result nobody deletes is listed and whole until its TTL
\* is over, with its file if it has one, whatever the other threads drop meanwhile.
THEOREM ResultsKept == Spec => []ResultKept
<1>1. TypeOK /\ KeptInv => ResultKept
  BY DEF TypeOK, KeptInv, ResultKept, Kept, Expired, Undeleted
<1> QED
  BY <1>1, UploadKeptInit, TypeInit, TypeNext, KeptNext, PTL DEF Spec

-----------------------------------------------------------------------------
\* The documents.

\* Where a task can be while a thread is at it.
Seats ==
    /\ \A i \in DOMAIN q : status[q[i]] \in {"queued", "canceled"}
    /\ wpc = "start" => status[wt] \in {"queued", "canceled"}
    /\ wpc \in Settling => status[wt] \in Terminal \/ wt \in raced
    /\ lpc = "stamp" => status[lt] = "canceled" \/ lt \in raced
    /\ gpc \in {"drop", "pop"} => /\ status[gt] \in Terminal \/ gt \in raced
                                  /\ status[gt] \notin {"new", "rejected", "queued"}

\* Every access of every thread keeps them there.
LEMMA SeatsNext == TypeOK /\ UploadInv /\ Owned /\ Seats /\ [Next]_vars => Seats'
<1> SUFFICES ASSUME TypeOK, UploadInv, Owned, Seats, [Next]_vars PROVE Seats'
  OBVIOUS
<1> USE DEF TypeOK, UploadInv, Owned, Seats, Accepted, Working, Settling,
            Closing, Terminal, Status, taskVars, runnerVars, loopVars, workerVars, gcVars, envVars
<1>1. ASSUME NEW t \in Tasks, SubmitBegin(t) PROVE Seats'
  BY <1>1 DEF SubmitBegin, Enter, QueuedOf
<1>2. ASSUME NEW t \in Tasks, Answer(t) PROVE Seats'
  BY <1>2 DEF Answer
<1>3. ASSUME NEW t \in Keep, ReadStatus(t) PROVE Seats'
  BY <1>3 DEF ReadStatus, Enter
<1>4. ASSUME NEW t \in Deletable, Drop(t) PROVE Seats'
  BY <1>4 DEF Drop, DropResult
<1>5. ASSUME NEW t \in Deletable, CancelBegin(t) PROVE Seats'
  BY <1>5 DEF CancelBegin, Enter
<1>6. ASSUME NEW t \in Tasks, Look(t) PROVE Seats'
  BY <1>6 DEF Look, Expired
<1>7. CASE SubmitAccept
  <2>1. /\ DOMAIN q' = 1 .. Len(q) + 1 /\ DOMAIN q = 1 .. Len(q) /\ Len(q) \in Nat
        /\ \A i \in 1 .. Len(q) : q'[i] = q[i]
        /\ q'[Len(q) + 1] = lt
    BY <1>7 DEF SubmitAccept, Enqueue
  <2>2. \A i \in DOMAIN q' : i = Len(q) + 1 \/ i \in DOMAIN q
    BY <2>1
  <2>3. \A i \in DOMAIN q : q[i] \in Tasks /\ q[i] # lt
    BY <1>7 DEF SubmitAccept
  <2>4. \A i \in DOMAIN q' : status'[q'[i]] \in {"queued", "canceled"}
    <3> SUFFICES ASSUME NEW i \in DOMAIN q' PROVE status'[q'[i]] \in {"queued", "canceled"}
      OBVIOUS
    <3>1. lt \in Tasks /\ status' = [status EXCEPT ![lt] = "queued"]
      BY <1>7 DEF SubmitAccept
    <3>2. CASE i = Len(q) + 1
      BY <2>1, <3>1, <3>2
    <3>3. CASE i \in DOMAIN q /\ i # Len(q) + 1
      BY <2>1, <2>3, <3>1, <3>3
    <3> QED
      BY <2>2, <3>2, <3>3
  <2> QED
    BY <1>7, <2>4 DEF SubmitAccept, Leave
<1>8. CASE SubmitBusy
  BY <1>8 DEF SubmitBusy, Leave, Cleanup
<1>9. CASE SubmitRaises
  BY <1>9 DEF SubmitRaises, Leave
<1>10. CASE ReadRest
  BY <1>10 DEF ReadRest, Leave
<1>11. CASE CancelTest
  BY <1>11 DEF CancelTest, Step, Leave
<1>12. CASE CancelMark
  BY <1>12 DEF CancelMark, Step
<1>13. CASE CancelStamp
  BY <1>13 DEF CancelStamp, Step, Cleanup
<1>14. CASE CancelFuture
  BY <1>14 DEF CancelFuture, Step, Leave
<1>15. CASE CancelSet
  BY <1>15 DEF CancelSet, Leave
<1>16. CASE Take
  <2>1. /\ q # <<>> /\ q' = Tail(q) /\ Head(q) = q[1] /\ 1 \in DOMAIN q
        /\ \A i \in DOMAIN q' : i + 1 \in DOMAIN q /\ q'[i] = q[i + 1]
    BY <1>16 DEF Take
  <2> QED
    BY <1>16, <2>1 DEF Take
<1>17. CASE Start
  BY <1>17 DEF Start, WStep
<1>18. CASE JobReturns
  BY <1>18 DEF JobReturns
<1>19. CASE JobRaises
  BY <1>19 DEF JobRaises
<1>20. CASE JobStops
  BY <1>20 DEF JobStops
<1>21. CASE Store
  BY <1>21 DEF Store, WStep
<1>22. CASE StoreRaises
  BY <1>22 DEF StoreRaises, WDies
<1>23. CASE Settle
  BY <1>23 DEF Settle, WStep, Cleanup
<1>24. CASE Flip
  BY <1>24 DEF Flip, WStep, SettledStatus, Outcome
<1>25. CASE Future
  BY <1>25 DEF Future, WStep, JobDone, WIdle
<1>26. CASE SetFuture
  BY <1>26 DEF SetFuture, JobDone, WIdle, WDies, SettledFuture
<1>27. CASE GcDrop
  BY <1>27 DEF GcDrop, DropResult
<1>28. CASE GcPop
  BY <1>28 DEF GcPop
<1>29. CASE Tick
  BY <1>29 DEF Tick
<1>30. CASE UNCHANGED vars
  BY <1>30 DEF vars
<1>31. CASE ListBegin
  BY <1>31 DEF ListBegin, Enter
<1>32. CASE ListEnd
  BY <1>32 DEF ListEnd, Leave
<1> QED
  BY <1>1, <1>2, <1>3, <1>4, <1>5, <1>6, <1>7, <1>8, <1>9, <1>10, <1>11, <1>12, <1>13,
     <1>14, <1>15, <1>16, <1>17, <1>18, <1>19, <1>20, <1>21, <1>22, <1>23, <1>24, <1>25,
     <1>26, <1>27, <1>28, <1>29, <1>30, <1>31, <1>32
     DEF Next, Submit, Get, Delete, Worker, Gc

\* No thread starts at a task.
LEMMA SeatsInit == Init => Seats
  BY DEF Init, Seats, Settling, Terminal

\* The fields a status promises.
FieldsOf(t) ==
    /\ status[t] \in {"new", "queued"} => error[t] = "none"
    /\ status[t] = "succeeded" =>
        /\ finished[t] # None /\ error[t] = "none"
        /\ t \in Keep \cap registry => value[t] # "none" \/ Expired(t)
    /\ status[t] \in {"failed", "canceled"} =>
        (finished[t] # None /\ error[t] # "none") \/ (lpc = "stamp" /\ lt = t)

\* What makes TerminalDocComplete inductive: a task's fields are there before the status
\* that promises them, and the gc takes a result only once it has expired.
DocInv ==
    /\ \A t \in Tasks \ raced : FieldsOf(t)
    /\ wpc \in {"work", "store"} /\ wt \notin raced => error[wt] = "none"
    /\ wpc \in {"settle", "flip"} /\ wt \notin raced =>
        IF wout \in {"json", "binary"}
        THEN error[wt] = "none" /\ (wt \in Keep => value[wt] # "none")
        ELSE error[wt] # "none"
    /\ wpc = "flip" /\ wt \notin raced => finished[wt] # None
    /\ gpc \in {"drop", "pop"} /\ gt \notin raced /\ status[gt] = "succeeded" => Expired(gt)
    /\ lpc = "read" /\ lt \notin raced =>
        /\ lt \in Keep /\ lseen = status[lt] /\ lseen \in Terminal
        /\ lseen = "succeeded" => lt \in registry \/ Expired(lt)
    /\ now # None

\* Every access of every thread keeps it.
LEMMA DocNext == TypeOK /\ UploadInv /\ Seats /\ Seats' /\ DocInv /\ [Next]_vars => DocInv'
<1> SUFFICES ASSUME TypeOK, UploadInv, Seats, DocInv, [Next]_vars PROVE DocInv'
  OBVIOUS
<1> USE DEF TypeOK, UploadInv, Seats, DocInv, FieldsOf, Expired, None, Accepted, Working,
            Settling, Closing, Terminal, Status, taskVars, runnerVars, loopVars, workerVars,
            gcVars, envVars
<1>1. ASSUME NEW t \in Tasks, SubmitBegin(t) PROVE DocInv'
  BY <1>1 DEF SubmitBegin, Enter, QueuedOf
<1>2. ASSUME NEW t \in Tasks, Answer(t) PROVE DocInv'
  BY <1>2 DEF Answer
<1>3. ASSUME NEW t \in Keep, ReadStatus(t) PROVE DocInv'
  BY <1>3 DEF ReadStatus, Enter
<1>4. ASSUME NEW t \in Deletable, Drop(t) PROVE DocInv'
  BY <1>4 DEF Drop, DropResult
<1>5. ASSUME NEW t \in Deletable, CancelBegin(t) PROVE DocInv'
  BY <1>5 DEF CancelBegin, Enter
<1>6. ASSUME NEW t \in Tasks, Look(t) PROVE DocInv'
  BY <1>6 DEF Look
<1>7. CASE SubmitAccept
  BY <1>7 DEF SubmitAccept, Leave, Enqueue
<1>8. CASE SubmitBusy
  BY <1>8 DEF SubmitBusy, Leave, Cleanup
<1>9. CASE SubmitRaises
  BY <1>9 DEF SubmitRaises, Leave
<1>10. CASE ReadRest
  BY <1>10 DEF ReadRest, Leave
<1>11. CASE CancelTest
  BY <1>11 DEF CancelTest, Step, Leave
<1>12. CASE CancelMark
  BY <1>12 DEF CancelMark, Step
<1>13. CASE CancelStamp
  BY <1>13 DEF CancelStamp, Step, Cleanup
<1>14. CASE CancelFuture
  BY <1>14 DEF CancelFuture, Step, Leave
<1>15. CASE CancelSet
  BY <1>15 DEF CancelSet, Leave
<1>16. CASE Take
  BY <1>16 DEF Take
<1>17. CASE Start
  BY <1>17 DEF Start, WStep
<1>18. CASE JobReturns
  BY <1>18 DEF JobReturns
<1>19. CASE JobRaises
  BY <1>19 DEF JobRaises
<1>20. CASE JobStops
  BY <1>20 DEF JobStops
<1>21. CASE Store
  BY <1>21 DEF Store, WStep
<1>22. CASE StoreRaises
  BY <1>22 DEF StoreRaises, WDies
<1>23. CASE Settle
  BY <1>23 DEF Settle, WStep, Cleanup
<1>24. CASE Flip
  BY <1>24 DEF Flip, WStep, SettledStatus, Outcome
<1>25. CASE Future
  BY <1>25 DEF Future, WStep, JobDone, WIdle
<1>26. CASE SetFuture
  BY <1>26 DEF SetFuture, JobDone, WIdle, WDies, SettledFuture
<1>27. CASE GcDrop
  BY <1>27 DEF GcDrop, DropResult
<1>28. CASE GcPop
  BY <1>28 DEF GcPop
<1>29. CASE Tick
  BY <1>29 DEF Tick
<1>30. CASE UNCHANGED vars
  BY <1>30 DEF vars
<1>31. CASE ListBegin
  BY <1>31 DEF ListBegin, Enter
<1>32. CASE ListEnd
  BY <1>32 DEF ListEnd, Leave
<1> QED
  BY <1>1, <1>2, <1>3, <1>4, <1>5, <1>6, <1>7, <1>8, <1>9, <1>10, <1>11, <1>12, <1>13,
     <1>14, <1>15, <1>16, <1>17, <1>18, <1>19, <1>20, <1>21, <1>22, <1>23, <1>24, <1>25,
     <1>26, <1>27, <1>28, <1>29, <1>30, <1>31, <1>32
     DEF Next, Submit, Get, Delete, Worker, Gc

\* For any tasks, limits and TTL: a client that reads a terminal status reads a complete
\* document behind it, whichever thread ends the task or reclaims its result meanwhile.
THEOREM DocsComplete == Spec => []TerminalDocComplete
<1>1. Init => DocInv
  BY DEF Init, DocInv, FieldsOf, Terminal, None
<1>2. TypeOK /\ DocInv => TerminalDocComplete
  <2> SUFFICES ASSUME TypeOK, DocInv, lpc = "read", lt \notin raced,
                      finished[lt] = None \/ now - TTL <= finished[lt]
               PROVE  Complete(lt, lseen)
    BY DEF TerminalDocComplete
  <2>1. lt \in Tasks \ raced /\ FieldsOf(lt) /\ lt \in Keep
        /\ lseen = status[lt] /\ (lseen = "succeeded" => lt \in registry \/ Expired(lt))
    BY DEF TypeOK, DocInv
  <2>2. finished[lt] # None => ~Expired(lt)
    BY <2>1 DEF TypeOK, Expired, None
  <2> QED
    BY <2>1, <2>2 DEF FieldsOf, Complete
<1>3. KeptInv => Owned
  BY DEF KeptInv
<1> QED
  BY <1>1, <1>2, <1>3, UploadKeptInit, SeatsInit, TypeInit, TypeNext, UploadNext, KeptNext,
     SeatsNext, DocNext, PTL DEF Spec

-----------------------------------------------------------------------------
\* The files.

\* What makes NoStrandedFile inductive: only async tasks have files, and only once stored;
\* none that is still at work is forgotten; and the gc has removed the file of the task it
\* forgets.
FileInv ==
    /\ disk \subseteq Keep /\ (wpc = "store" => wt \in Keep)
    /\ \A t \in Tasks \ raced : status[t] \in {"queued", "running"} => t \in registry
    /\ \A t \in disk \ raced : status[t] \notin {"new", "queued"}
    /\ wpc \in {"work", "store"} /\ wt \in disk => wt \in raced
    /\ gpc = "pop" /\ gt \in disk \ raced => wpc = "dead" /\ gt \in Faulty
    /\ NoStrandedFile

\* Every access of every thread keeps it.
LEMMA FileNext == TypeOK /\ UploadInv /\ Owned /\ Seats /\ FileInv /\ [Next]_vars => FileInv'
<1> SUFFICES ASSUME TypeOK, UploadInv, Owned, Seats, FileInv, [Next]_vars PROVE FileInv'
  OBVIOUS
<1> USE DEF TypeOK, UploadInv, Owned, Seats, FileInv, NoStrandedFile, Accepted, Working,
            Settling, Closing, Terminal, Status, taskVars, runnerVars, loopVars, workerVars,
            gcVars, envVars
<1>1. ASSUME NEW t \in Tasks, SubmitBegin(t) PROVE FileInv'
  BY <1>1 DEF SubmitBegin, Enter, QueuedOf
<1>2. ASSUME NEW t \in Tasks, Answer(t) PROVE FileInv'
  BY <1>2 DEF Answer
<1>3. ASSUME NEW t \in Keep, ReadStatus(t) PROVE FileInv'
  BY <1>3 DEF ReadStatus, Enter
<1>4. ASSUME NEW t \in Deletable, Drop(t) PROVE FileInv'
  BY <1>4 DEF Drop, DropResult
<1>5. ASSUME NEW t \in Deletable, CancelBegin(t) PROVE FileInv'
  BY <1>5 DEF CancelBegin, Enter
<1>6. ASSUME NEW t \in Tasks, Look(t) PROVE FileInv'
  BY <1>6 DEF Look, Expired
<1>7. CASE SubmitAccept
  BY <1>7 DEF SubmitAccept, Leave, Enqueue
<1>8. CASE SubmitBusy
  BY <1>8 DEF SubmitBusy, Leave, Cleanup
<1>9. CASE SubmitRaises
  BY <1>9 DEF SubmitRaises, Leave
<1>10. CASE ReadRest
  BY <1>10 DEF ReadRest, Leave
<1>11. CASE CancelTest
  BY <1>11 DEF CancelTest, Step, Leave
<1>12. CASE CancelMark
  BY <1>12 DEF CancelMark, Step
<1>13. CASE CancelStamp
  BY <1>13 DEF CancelStamp, Step, Cleanup
<1>14. CASE CancelFuture
  BY <1>14 DEF CancelFuture, Step, Leave
<1>15. CASE CancelSet
  BY <1>15 DEF CancelSet, Leave
<1>16. CASE Take
  BY <1>16 DEF Take
<1>17. CASE Start
  BY <1>17 DEF Start, WStep
<1>18. CASE JobReturns
  BY <1>18 DEF JobReturns
<1>19. CASE JobRaises
  BY <1>19 DEF JobRaises
<1>20. CASE JobStops
  BY <1>20 DEF JobStops
<1>21. CASE Store
  BY <1>21 DEF Store, WStep
<1>22. CASE StoreRaises
  BY <1>22 DEF StoreRaises, WDies
<1>23. CASE Settle
  BY <1>23 DEF Settle, WStep, Cleanup
<1>24. CASE Flip
  BY <1>24 DEF Flip, WStep, SettledStatus, Outcome
<1>25. CASE Future
  BY <1>25 DEF Future, WStep, JobDone, WIdle
<1>26. CASE SetFuture
  BY <1>26 DEF SetFuture, JobDone, WIdle, WDies, SettledFuture
<1>27. CASE GcDrop
  BY <1>27 DEF GcDrop, DropResult
<1>28. CASE GcPop
  BY <1>28 DEF GcPop
<1>29. CASE Tick
  BY <1>29 DEF Tick
<1>30. CASE UNCHANGED vars
  BY <1>30 DEF vars
<1>31. CASE ListBegin
  BY <1>31 DEF ListBegin, Enter
<1>32. CASE ListEnd
  BY <1>32 DEF ListEnd, Leave
<1> QED
  BY <1>1, <1>2, <1>3, <1>4, <1>5, <1>6, <1>7, <1>8, <1>9, <1>10, <1>11, <1>12, <1>13,
     <1>14, <1>15, <1>16, <1>17, <1>18, <1>19, <1>20, <1>21, <1>22, <1>23, <1>24, <1>25,
     <1>26, <1>27, <1>28, <1>29, <1>30, <1>31, <1>32
     DEF Next, Submit, Get, Delete, Worker, Gc

\* Every result file is one its task still leads to, or one whose write failed.
THEOREM FilesReachable == Spec => []NoStrandedFile
<1>1. Init => FileInv
  BY DEF Init, FileInv, NoStrandedFile, Terminal
<1>2. FileInv => NoStrandedFile
  BY DEF FileInv
<1>3. KeptInv => Owned
  BY DEF KeptInv
<1> QED
  BY <1>1, <1>2, <1>3, UploadKeptInit, SeatsInit, TypeInit, TypeNext, UploadNext, KeptNext,
     SeatsNext, FileNext, PTL DEF Spec

-----------------------------------------------------------------------------
\* The line.

\* t is in the sequence s, and t comes before u in it.
In(s, t) == \E k \in DOMAIN s : s[k] = t
Comes(s, t, u) == \E i, j \in DOMAIN s : i < j /\ s[i] = t /\ s[j] = u

\* A sequence with one more element at its end, ...
LEMMA AppendFacts ==
  ASSUME NEW S, NEW s \in Seq(S), NEW e \in S, NEW s2, s2 = Append(s, e)
  PROVE  /\ Len(s) \in Nat /\ DOMAIN s = 1 .. Len(s) /\ DOMAIN s2 = 1 .. Len(s) + 1
         /\ s2[Len(s) + 1] = e /\ Len(s) + 1 \in DOMAIN s2
         /\ \A i \in DOMAIN s : /\ i \in DOMAIN s2 /\ s2[i] = s[i]
                                /\ s[i] \in S /\ i \in Nat /\ i < Len(s) + 1
         /\ \A i \in DOMAIN s2 : i = Len(s) + 1 \/ i \in DOMAIN s
  OBVIOUS

\* ... and with one less at its front.
LEMMA TailFacts ==
  ASSUME NEW S, NEW s \in Seq(S), s # <<>>, NEW s2, s2 = Tail(s)
  PROVE  /\ Head(s) = s[1] /\ 1 \in DOMAIN s
         /\ \A i \in DOMAIN s2 : i \in Nat /\ i + 1 \in DOMAIN s /\ 1 < i + 1 /\ s2[i] = s[i + 1]
         /\ \A i \in DOMAIN s : i \in Nat /\ s[i] \in S
         /\ \A i \in DOMAIN s : i # 1 => i - 1 \in DOMAIN s2 /\ s2[i - 1] = s[i]
  OBVIOUS

\* What the queue and the dict have in common: the dict has every task once, in the order in
\* which the worker will come to those it has still to look at, the waiting ones among them.
LineInv ==
    /\ \A i, j \in DOMAIN order : i # j => order[i] # order[j]
    /\ \A i \in DOMAIN order : Accepted(order[i])
    /\ \A t \in registry : In(order, t)
    /\ \A i, j \in DOMAIN q : i < j => Comes(order, q[i], q[j])
    /\ wpc = "start" => \A i \in DOMAIN q : Comes(order, wt, q[i])
    /\ \A i \in DOMAIN q : In(order, q[i])
    /\ wpc = "start" => In(order, wt)
    /\ \A t \in Tasks : status[t] = "queued" =>
        t \in registry /\ (In(q, t) \/ (wpc = "start" /\ wt = t))

\* What most steps do to it: the queue and the dict's order stay, and what leaves the dict or
\* changes its status was not queued, or no longer is.
LEMMA LineFrame ==
  ASSUME TypeOK, LineInv, UNCHANGED <<order, q>>, registry' \subseteq registry,
         \A t \in registry : t \notin registry' => status'[t] # "queued",
         \A t \in Tasks : status'[t] = "queued" => status[t] = "queued",
         \A t \in Tasks : Accepted(t) => Accepted(t)',
         (wpc' = "start" => wpc = "start" /\ wt' = wt),
         \A t \in Tasks : status'[t] = "queued" /\ wpc = "start" /\ wt = t =>
            wpc' = "start" /\ wt' = wt
  PROVE  LineInv'
<1>1. \A t, u \in Tasks : (Comes(order', t, u) <=> Comes(order, t, u)) /\
      (In(order', t) <=> In(order, t))
  BY DEF Comes, In
<1>2. /\ \A i \in DOMAIN q : q[i] \in Tasks
      /\ \A i \in DOMAIN order : order[i] \in Tasks
      /\ wpc = "start" => wt \in Tasks
  BY DEF TypeOK
<1>3. /\ \A i, j \in DOMAIN order' : i # j => order'[i] # order'[j]
      /\ \A i \in DOMAIN order' : Accepted(order[i])'
  BY <1>2 DEF LineInv, Accepted
<1>4. \A t \in registry' : In(order', t)
  BY <1>1, <1>2 DEF LineInv, TypeOK
<1>5. \A i, j \in DOMAIN q' : i < j => Comes(order', q'[i], q'[j])
  BY <1>1, <1>2 DEF LineInv
<1>6. wpc' = "start" => In(order', wt') /\ \A i \in DOMAIN q' : Comes(order', wt', q'[i])
  BY <1>1, <1>2 DEF LineInv
<1>7. \A i \in DOMAIN q' : In(order', q'[i])
  BY <1>1, <1>2 DEF LineInv
<1>8. \A t \in Tasks : status'[t] = "queued" =>
          t \in registry' /\ (In(q', t) \/ (wpc' = "start" /\ wt' = t))
  BY <1>2 DEF LineInv
<1> QED
  BY <1>3, <1>4, <1>5, <1>6, <1>7, <1>8 DEF LineInv

\* A task accepted goes to the end of both.
LEMMA LineAccept ==
  ASSUME TypeOK, LineInv, lt \in Tasks, status[lt] = "new",
         q' = Append(q, lt), order' = Append(order, lt), registry' = registry \cup {lt},
         status' = [status EXCEPT ![lt] = "queued"], UNCHANGED <<wpc, wt>>
  PROVE  LineInv'
<1>1. q \in Seq(Tasks) /\ order \in Seq(Tasks) /\ registry \subseteq Tasks
      /\ status \in [Tasks -> Status] /\ (wpc = "start" => wt \in Tasks)
  BY DEF TypeOK
<1>2. /\ q'[Len(q) + 1] = lt /\ Len(q) + 1 \in DOMAIN q'
      /\ \A i \in DOMAIN q : /\ i \in DOMAIN q' /\ q'[i] = q[i]
                             /\ q[i] \in Tasks /\ i \in Nat /\ i < Len(q) + 1
      /\ \A i \in DOMAIN q' : i = Len(q) + 1 \/ i \in DOMAIN q
      /\ Len(q) \in Nat
  BY <1>1, AppendFacts
<1>3. /\ order'[Len(order) + 1] = lt /\ Len(order) + 1 \in DOMAIN order'
      /\ \A i \in DOMAIN order : /\ i \in DOMAIN order' /\ order'[i] = order[i]
                                 /\ order[i] \in Tasks /\ i \in Nat /\ i < Len(order) + 1
      /\ \A i \in DOMAIN order' : i = Len(order) + 1 \/ i \in DOMAIN order
  BY <1>1, AppendFacts
<1>4. \A i \in DOMAIN order : order[i] # lt
  BY DEF LineInv, Accepted
<1>5. /\ \A t \in Tasks : In(order, t) => In(order', t) /\ Comes(order', t, lt)
      /\ In(order', lt)
      /\ \A t, u \in Tasks : Comes(order, t, u) => Comes(order', t, u)
  BY <1>3 DEF In, Comes
<1>6. \A i, j \in DOMAIN order' : i # j => order'[i] # order'[j]
  <2> SUFFICES ASSUME NEW i \in DOMAIN order', NEW j \in DOMAIN order', i # j
               PROVE  order'[i] # order'[j]
    OBVIOUS
  <2>1. CASE i = Len(order) + 1 \/ j = Len(order) + 1
    BY <1>3, <1>4, <2>1
  <2>2. CASE i \in DOMAIN order /\ j \in DOMAIN order
    BY <1>3, <2>2 DEF LineInv
  <2> QED
    BY <1>3, <2>1, <2>2
<1>7. \A t \in Tasks : Accepted(t) \/ t = lt => Accepted(t)'
  BY <1>1 DEF Accepted
<1>8. \A i \in DOMAIN order' : Accepted(order[i])'
  BY <1>3, <1>7 DEF LineInv
<1>9. \A i, j \in DOMAIN q' : i < j => Comes(order', q'[i], q'[j])
  <2> SUFFICES ASSUME NEW i \in DOMAIN q', NEW j \in DOMAIN q', i < j
               PROVE  Comes(order', q'[i], q'[j])
    OBVIOUS
  <2>1. i \in DOMAIN q
    BY <1>2
  <2>2. CASE j = Len(q) + 1
    BY <1>2, <1>5, <2>1, <2>2 DEF LineInv
  <2>3. CASE j \in DOMAIN q
    BY <1>2, <1>5, <2>1, <2>3 DEF LineInv
  <2> QED
    BY <1>2, <2>2, <2>3
<1>10. wpc' = "start" => In(order', wt') /\ \A i \in DOMAIN q' : Comes(order', wt', q'[i])
  BY <1>1, <1>2, <1>5 DEF LineInv
<1>11. \A i \in DOMAIN q' : In(order', q'[i])
  BY <1>2, <1>5 DEF LineInv
<1>12. \A t \in registry' : In(order', t)
  BY <1>1, <1>5 DEF LineInv
<1>13. \A t \in Tasks : status'[t] = "queued" =>
          t \in registry' /\ (In(q', t) \/ (wpc' = "start" /\ wt' = t))
  <2>1. In(q', lt) /\ \A t \in Tasks : In(q, t) => In(q', t)
    BY <1>2 DEF In
  <2> QED
    BY <1>1, <2>1 DEF LineInv
<1> QED
  BY <1>6, <1>8, <1>9, <1>10, <1>11, <1>12, <1>13 DEF LineInv

\* The worker takes the first off the queue, and skips it if it is not queued any more.
LEMMA LineTake ==
  ASSUME TypeOK, LineInv, q # <<>>, q' = Tail(q), UNCHANGED <<status, registry, order>>,
         wpc = "idle",
         (wpc' = "start" /\ wt' = Head(q)) \/ (wpc' = "idle" /\ status[Head(q)] = "canceled")
  PROVE  LineInv'
<1>0. q \in Seq(Tasks)
  BY DEF TypeOK
<1>1. /\ Head(q) = q[1] /\ 1 \in DOMAIN q
      /\ \A i \in DOMAIN q' : i \in Nat /\ i + 1 \in DOMAIN q /\ 1 < i + 1 /\ q'[i] = q[i + 1]
      /\ \A i \in DOMAIN q : i \in Nat /\ q[i] \in Tasks
      /\ \A i \in DOMAIN q : i # 1 => i - 1 \in DOMAIN q' /\ q'[i - 1] = q[i]
  BY <1>0, TailFacts
<1>2. \A t, u \in Tasks : (Comes(order', t, u) <=> Comes(order, t, u)) /\
      (In(order', t) <=> In(order, t))
  BY DEF Comes, In
<1>3. \A i, j \in DOMAIN q' : i < j => Comes(order', q'[i], q'[j])
  <2> SUFFICES ASSUME NEW i \in DOMAIN q', NEW j \in DOMAIN q', i < j
               PROVE  Comes(order', q'[i], q'[j])
    OBVIOUS
  <2>1. i + 1 < j + 1
    BY <1>1
  <2> QED
    BY <1>1, <1>2, <2>1 DEF LineInv
<1>4. \A i \in DOMAIN q' : In(order', q'[i])
  BY <1>1, <1>2 DEF LineInv
<1>5. wpc' = "start" => In(order', wt') /\ \A i \in DOMAIN q' : Comes(order', wt', q'[i])
  BY <1>1, <1>2 DEF LineInv
<1>6. \A t \in Tasks : status[t] = "queued" =>
          In(q', t) \/ (wpc' = "start" /\ wt' = t)
  <2> SUFFICES ASSUME NEW t \in Tasks, status[t] = "queued"
               PROVE  In(q', t) \/ (wpc' = "start" /\ wt' = t)
    OBVIOUS
  <2>1. PICK i \in DOMAIN q : q[i] = t
    BY DEF LineInv, In
  <2>2. CASE i = 1
    BY <1>1, <2>1, <2>2
  <2>3. CASE i # 1
    BY <1>1, <2>1, <2>3 DEF In
  <2> QED
    BY <2>2, <2>3
<1>7. /\ \A i, j \in DOMAIN order' : i # j => order'[i] # order'[j]
      /\ \A i \in DOMAIN order' : Accepted(order[i])'
      /\ \A t \in registry' : In(order', t)
  BY <1>2 DEF LineInv, Accepted, TypeOK
<1> QED
  BY <1>3, <1>4, <1>5, <1>6, <1>7 DEF LineInv

\* Every access of every thread keeps it.
LEMMA LineNext == TypeOK /\ UploadInv /\ Seats /\ LineInv /\ [Next]_vars => LineInv'
<1> SUFFICES ASSUME TypeOK, UploadInv, Seats, LineInv, [Next]_vars PROVE LineInv'
  OBVIOUS
<1> USE DEF TypeOK, UploadInv, Seats, Accepted, Working, Settling, Closing, Terminal, Status,
            taskVars, runnerVars, loopVars, workerVars, gcVars, envVars
<1>1. ASSUME NEW t \in Tasks, SubmitBegin(t) PROVE LineInv'
  BY <1>1, LineFrame DEF SubmitBegin, Enter, QueuedOf
<1>2. ASSUME NEW t \in Tasks, Answer(t) PROVE LineInv'
  BY <1>2, LineFrame DEF Answer
<1>3. ASSUME NEW t \in Keep, ReadStatus(t) PROVE LineInv'
  BY <1>3, LineFrame DEF ReadStatus, Enter
<1>4. ASSUME NEW t \in Deletable, Drop(t) PROVE LineInv'
  BY <1>4, LineFrame DEF Drop, DropResult
<1>5. ASSUME NEW t \in Deletable, CancelBegin(t) PROVE LineInv'
  BY <1>5, LineFrame DEF CancelBegin, Enter
<1>6. ASSUME NEW t \in Tasks, Look(t) PROVE LineInv'
  BY <1>6, LineFrame DEF Look
<1>7. CASE SubmitAccept
  BY <1>7, LineAccept DEF SubmitAccept, Leave, Enqueue
<1>8. CASE SubmitBusy
  BY <1>8, LineFrame DEF SubmitBusy, Leave, Cleanup
<1>9. CASE SubmitRaises
  BY <1>9, LineFrame DEF SubmitRaises, Leave
<1>10. CASE ReadRest
  BY <1>10, LineFrame DEF ReadRest, Leave
<1>11. CASE CancelTest
  BY <1>11, LineFrame DEF CancelTest, Step, Leave
<1>12. CASE CancelMark
  BY <1>12, LineFrame DEF CancelMark, Step
<1>13. CASE CancelStamp
  BY <1>13, LineFrame DEF CancelStamp, Step, Cleanup
<1>14. CASE CancelFuture
  BY <1>14, LineFrame DEF CancelFuture, Step, Leave
<1>15. CASE CancelSet
  BY <1>15, LineFrame DEF CancelSet, Leave
<1>16. CASE Take
  <2>1. q' = Tail(q) /\ q # <<>> /\ UNCHANGED <<status, registry, order>> /\ wpc = "idle"
    BY <1>16 DEF Take
  <2>2. \/ wpc' = "start" /\ wt' = Head(q)
        \/ wpc' = "idle" /\ status[Head(q)] = "canceled"
    BY <1>16 DEF Take
  <2> QED
    BY <2>1, <2>2, LineTake
<1>17. CASE Start
  BY <1>17, LineFrame DEF Start, WStep
<1>18. CASE JobReturns
  BY <1>18, LineFrame DEF JobReturns
<1>19. CASE JobRaises
  BY <1>19, LineFrame DEF JobRaises
<1>20. CASE JobStops
  BY <1>20, LineFrame DEF JobStops
<1>21. CASE Store
  BY <1>21, LineFrame DEF Store, WStep
<1>22. CASE StoreRaises
  BY <1>22, LineFrame DEF StoreRaises, WDies
<1>23. CASE Settle
  BY <1>23, LineFrame DEF Settle, WStep, Cleanup
<1>24. CASE Flip
  BY <1>24, LineFrame DEF Flip, WStep, SettledStatus, Outcome
<1>25. CASE Future
  BY <1>25, LineFrame DEF Future, WStep, JobDone, WIdle
<1>26. CASE SetFuture
  BY <1>26, LineFrame DEF SetFuture, JobDone, WIdle, WDies, SettledFuture
<1>27. CASE GcDrop
  BY <1>27, LineFrame DEF GcDrop, DropResult
<1>28. CASE GcPop
  BY <1>28, LineFrame DEF GcPop
<1>29. CASE Tick
  BY <1>29, LineFrame DEF Tick
<1>30. CASE UNCHANGED vars
  BY <1>30, LineFrame DEF vars
<1>31. CASE ListBegin
  BY <1>31, LineFrame DEF ListBegin, Enter
<1>32. CASE ListEnd
  BY <1>32, LineFrame DEF ListEnd, Leave
<1> QED
  BY <1>1, <1>2, <1>3, <1>4, <1>5, <1>6, <1>7, <1>8, <1>9, <1>10, <1>11, <1>12, <1>13,
     <1>14, <1>15, <1>16, <1>17, <1>18, <1>19, <1>20, <1>21, <1>22, <1>23, <1>24, <1>25,
     <1>26, <1>27, <1>28, <1>29, <1>30, <1>31, <1>32
     DEF Next, Submit, Get, Delete, Worker, Gc

\* A sequence with one more element at its front.
LEMMA ConsFacts ==
  ASSUME NEW S, NEW s \in Seq(S), NEW e \in S, NEW t, NEW u
  PROVE  /\ In(<<e>> \o s, t) <=> e = t \/ In(s, t)
         /\ Comes(<<e>> \o s, t, u) <=> Comes(s, t, u) \/ (e = t /\ In(s, u))
<1> DEFINE c == <<e>> \o s
<1>1. /\ c[1] = e /\ 1 \in DOMAIN c
      /\ \A i \in DOMAIN s : i \in Nat /\ i + 1 \in DOMAIN c /\ c[i + 1] = s[i] /\ 1 < i + 1
      /\ \A i \in DOMAIN c : i \in Nat /\ (i = 1 \/ (i - 1 \in DOMAIN s /\ c[i] = s[i - 1] /\ 1 < i))
  OBVIOUS
<1> HIDE DEF c
<1>2. In(c, t) <=> e = t \/ In(s, t)
  BY <1>1 DEF In
<1>3. ASSUME Comes(s, t, u) PROVE Comes(c, t, u)
  <2>1. PICK i, j \in DOMAIN s : i < j /\ s[i] = t /\ s[j] = u
    BY <1>3 DEF Comes
  <2>2. i + 1 < j + 1
    BY <1>1, <2>1
  <2> QED
    BY <1>1, <2>1, <2>2 DEF Comes
<1>4. ASSUME e = t, In(s, u) PROVE Comes(c, t, u)
  <2>1. PICK j \in DOMAIN s : s[j] = u
    BY <1>4 DEF In
  <2> QED
    BY <1>1, <1>4, <2>1 DEF Comes
<1>5. ASSUME Comes(c, t, u) PROVE Comes(s, t, u) \/ (e = t /\ In(s, u))
  <2>1. PICK i, j \in DOMAIN c : i < j /\ c[i] = t /\ c[j] = u
    BY <1>5 DEF Comes
  <2>2. j - 1 \in DOMAIN s /\ s[j - 1] = u
    BY <1>1, <2>1
  <2>3. CASE i = 1
    BY <1>1, <2>1, <2>2, <2>3 DEF In
  <2>4. CASE i # 1
    <3>1. i - 1 \in DOMAIN s /\ s[i - 1] = t /\ i - 1 < j - 1
      BY <1>1, <2>1, <2>4
    <3> QED
      BY <2>2, <3>1 DEF Comes
  <2> QED
    BY <2>3, <2>4
<1> QED
  BY <1>2, <1>3, <1>4, <1>5 DEF c

\* The worker has the queue before it, and the task it has taken off it but not started.
LEMMA PendingFacts ==
  TypeOK =>
    /\ \A t : In(Pending, t) <=> (wpc = "start" /\ wt = t) \/ In(q, t)
    /\ \A t, u : Sooner(t, u) <=> Comes(q, t, u) \/ (wpc = "start" /\ wt = t /\ In(q, u))
<1> SUFFICES ASSUME TypeOK, NEW t, NEW u
             PROVE  /\ In(Pending, t) <=> (wpc = "start" /\ wt = t) \/ In(q, t)
                    /\ Comes(Pending, t, u) <=> Comes(q, t, u) \/ (wpc = "start" /\ wt = t /\ In(q, u))
  BY DEF Sooner, Comes
<1>1. q \in Seq(Tasks) /\ (wpc = "start" => wt \in Tasks)
  BY DEF TypeOK
<1>2. CASE wpc = "start"
  <2>1. Pending = <<wt>> \o q
    BY <1>2 DEF Pending
  <2> QED
    BY <1>1, <1>2, <2>1, ConsFacts
<1>3. CASE wpc # "start"
  <2>1. Pending = q
    BY <1>1, <1>3 DEF Pending
  <2> QED
    BY <1>3, <2>1
<1> QED
  BY <1>2, <1>3

\* Those that wait are those the dict has as queued, and the worker comes to them in its order.
LEMMA WaitingFacts ==
  ASSUME TypeOK, LineInv
  PROVE  /\ Waiting = QueuedOf(registry)
         /\ \A t, u \in Waiting : Before(u, t) <=> Sooner(u, t)
<1>1. \A t \in Waiting : t \in Tasks /\ status[t] = "queued" /\ In(Pending, t)
  BY DEF Waiting, In
<1>2. Waiting = QueuedOf(registry)
  <2>1. \A t \in Tasks : status[t] = "queued" => t \in registry /\ In(Pending, t)
    BY PendingFacts DEF LineInv
  <2> QED
    BY <1>1, <2>1 DEF Waiting, In, QueuedOf, TypeOK
<1>3. ASSUME NEW t \in Tasks, NEW u \in Tasks, Sooner(t, u) PROVE Comes(order, t, u)
  <2>1. CASE Comes(q, t, u)
    BY <2>1 DEF LineInv, Comes
  <2>2. CASE wpc = "start" /\ wt = t /\ In(q, u)
    BY <2>2 DEF LineInv, In
  <2> QED
    BY <1>3, <2>1, <2>2, PendingFacts
<1>4. ASSUME NEW t \in Tasks, NEW u \in Tasks, Comes(order, t, u)
      PROVE  t # u /\ ~Comes(order, u, t)
  <2>1. /\ DOMAIN order \subseteq Nat
        /\ \A i, j \in DOMAIN order : i # j => order[i] # order[j]
    BY DEF TypeOK, LineInv
  <2>2. PICK i, j \in DOMAIN order : i < j /\ order[i] = t /\ order[j] = u
    BY <1>4 DEF Comes
  <2>3. i # j
    BY <2>1, <2>2
  <2>4. ASSUME NEW k \in DOMAIN order, NEW l \in DOMAIN order, k < l, order[k] = u, order[l] = t
        PROVE  FALSE
    BY <2>1, <2>2, <2>4
  <2> QED
    BY <2>1, <2>2, <2>3, <2>4 DEF Comes
<1>5. ASSUME NEW t \in Waiting, NEW u \in Waiting, t # u PROVE Sooner(t, u) \/ Sooner(u, t)
  <2>1. PICK i \in DOMAIN Pending : Pending[i] = t
    BY <1>1 DEF In
  <2>2. PICK j \in DOMAIN Pending : Pending[j] = u
    BY <1>1 DEF In
  <2>3. DOMAIN Pending \subseteq Nat
    BY DEF TypeOK, Pending
  <2>4. i < j \/ j < i
    BY <1>5, <2>1, <2>2, <2>3
  <2> QED
    BY <2>1, <2>2, <2>4 DEF Sooner
<1>6. ASSUME NEW t \in Waiting, NEW u \in Waiting PROVE Before(u, t) <=> Sooner(u, t)
  <2>1. t \in Tasks /\ u \in Tasks
    BY <1>1
  <2>2. Before(u, t) <=> Comes(order, u, t)
    BY DEF Before, Comes
  <2>3. Sooner(u, t) => Comes(order, u, t)
    BY <1>3, <2>1
  <2>4. Comes(order, u, t) => u # t /\ ~Sooner(t, u)
    BY <1>3, <1>4, <2>1
  <2> QED
    BY <1>5, <2>2, <2>3, <2>4
<1> QED
  BY <1>2, <1>6

\* The dict and the queue start empty, and the threads at no task.
LEMMA LineInit == Init => LineInv
  BY DEF Init, LineInv

\* For any tasks and limits: the position a client reads off the dict is the number of jobs
\* the worker will start before its own.
THEOREM PositionsTruthful == Spec => []PositionTruthful
<1>1. TypeOK /\ LineInv => PositionTruthful
  <2> SUFFICES ASSUME TypeOK, LineInv, NEW t \in Waiting
               PROVE  Position(t) = Cardinality({u \in Waiting : Sooner(u, t)})
    BY DEF PositionTruthful
  <2>1. {u \in QueuedOf(registry) : Before(u, t)} = {u \in Waiting : Sooner(u, t)}
    BY WaitingFacts
  <2> QED
    BY <2>1 DEF Position
<1>2. KeptInv => Owned
  BY DEF KeptInv
<1> QED
  BY <1>1, <1>2, LineInit, SeatsInit, UploadKeptInit, TypeInit, TypeNext, UploadNext, KeptNext,
     SeatsNext, LineNext, PTL DEF Spec

-----------------------------------------------------------------------------
\* One server.

\* The one task that is running is the worker's, unless it was lost with the worker.
RunningInv == \A t \in Tasks : status[t] = "running" => (wt = t /\ wpc \in Working) \/ wpc = "dead"

\* Every access of every thread keeps it.
LEMMA RunningNext == TypeOK /\ UploadInv /\ Seats /\ RunningInv /\ [Next]_vars => RunningInv'
<1> SUFFICES ASSUME TypeOK, UploadInv, Seats, RunningInv, [Next]_vars PROVE RunningInv'
  OBVIOUS
<1> USE DEF TypeOK, UploadInv, Seats, RunningInv, Accepted, Working, Settling, Closing, Terminal,
            Status, taskVars, runnerVars, loopVars, workerVars, gcVars, envVars
<1>1. ASSUME NEW t \in Tasks, SubmitBegin(t) PROVE RunningInv'
  BY <1>1 DEF SubmitBegin, Enter, QueuedOf
<1>2. ASSUME NEW t \in Tasks, Answer(t) PROVE RunningInv'
  BY <1>2 DEF Answer
<1>3. ASSUME NEW t \in Keep, ReadStatus(t) PROVE RunningInv'
  BY <1>3 DEF ReadStatus, Enter
<1>4. ASSUME NEW t \in Deletable, Drop(t) PROVE RunningInv'
  BY <1>4 DEF Drop, DropResult
<1>5. ASSUME NEW t \in Deletable, CancelBegin(t) PROVE RunningInv'
  BY <1>5 DEF CancelBegin, Enter
<1>6. ASSUME NEW t \in Tasks, Look(t) PROVE RunningInv'
  BY <1>6 DEF Look
<1>7. CASE SubmitAccept
  BY <1>7 DEF SubmitAccept, Leave, Enqueue
<1>8. CASE SubmitBusy
  BY <1>8 DEF SubmitBusy, Leave, Cleanup
<1>9. CASE SubmitRaises
  BY <1>9 DEF SubmitRaises, Leave
<1>10. CASE ReadRest
  BY <1>10 DEF ReadRest, Leave
<1>11. CASE CancelTest
  BY <1>11 DEF CancelTest, Step, Leave
<1>12. CASE CancelMark
  BY <1>12 DEF CancelMark, Step
<1>13. CASE CancelStamp
  BY <1>13 DEF CancelStamp, Step, Cleanup
<1>14. CASE CancelFuture
  BY <1>14 DEF CancelFuture, Step, Leave
<1>15. CASE CancelSet
  BY <1>15 DEF CancelSet, Leave
<1>16. CASE Take
  BY <1>16 DEF Take
<1>17. CASE Start
  BY <1>17 DEF Start, WStep
<1>18. CASE JobReturns
  BY <1>18 DEF JobReturns
<1>19. CASE JobRaises
  BY <1>19 DEF JobRaises
<1>20. CASE JobStops
  BY <1>20 DEF JobStops
<1>21. CASE Store
  BY <1>21 DEF Store, WStep
<1>22. CASE StoreRaises
  BY <1>22 DEF StoreRaises, WDies
<1>23. CASE Settle
  BY <1>23 DEF Settle, WStep, Cleanup
<1>24. CASE Flip
  BY <1>24 DEF Flip, WStep, SettledStatus, Outcome
<1>25. CASE Future
  BY <1>25 DEF Future, WStep, JobDone, WIdle
<1>26. CASE SetFuture
  BY <1>26 DEF SetFuture, JobDone, WIdle, WDies, SettledFuture
<1>27. CASE GcDrop
  BY <1>27 DEF GcDrop, DropResult
<1>28. CASE GcPop
  BY <1>28 DEF GcPop
<1>29. CASE Tick
  BY <1>29 DEF Tick
<1>30. CASE UNCHANGED vars
  BY <1>30 DEF vars
<1>31. CASE ListBegin
  BY <1>31 DEF ListBegin, Enter
<1>32. CASE ListEnd
  BY <1>32 DEF ListEnd, Leave
<1> QED
  BY <1>1, <1>2, <1>3, <1>4, <1>5, <1>6, <1>7, <1>8, <1>9, <1>10, <1>11, <1>12, <1>13,
     <1>14, <1>15, <1>16, <1>17, <1>18, <1>19, <1>20, <1>21, <1>22, <1>23, <1>24, <1>25,
     <1>26, <1>27, <1>28, <1>29, <1>30, <1>31, <1>32
     DEF Next, Submit, Get, Delete, Worker, Gc

\* What the worker has still to look at, in this state and the next.
LEMMA PendingNext ==
  ASSUME TypeOK, TypeOK'
  PROVE  /\ \A t : In(Pending, t) <=> (wpc = "start" /\ wt = t) \/ In(q, t)
         /\ \A t, u : Sooner(t, u) <=> Comes(q, t, u) \/ (wpc = "start" /\ wt = t /\ In(q, u))
         /\ \A t : In(Pending', t) <=> (wpc' = "start" /\ wt' = t) \/ In(q', t)
         /\ \A t, u : Comes(Pending', t, u)
                        <=> Comes(q', t, u) \/ (wpc' = "start" /\ wt' = t /\ In(q', u))
<1>1. TypeOK' => (/\ \A t : In(Pending, t) <=> (wpc = "start" /\ wt = t) \/ In(q, t)
                  /\ \A t, u : Sooner(t, u) <=> Comes(q, t, u)
                                 \/ (wpc = "start" /\ wt = t /\ In(q, u)))'
  BY PendingFacts, PTL
<1> QED
  BY <1>1, PendingFacts DEF Sooner, Comes

Running == {t \in Tasks : status[t] = "running"}
Over == {t \in Tasks : status[t] \in Terminal}
Order == {p \in Waiting \X Waiting : Sooner(p[1], p[2])}

\* Those that wait are the queued ones, ...
LEMMA WaitingIs == TypeOK /\ LineInv => Waiting = {t \in Tasks : status[t] = "queued"}
<1> SUFFICES ASSUME TypeOK, LineInv PROVE Waiting = {t \in Tasks : status[t] = "queued"}
  OBVIOUS
<1>1. Waiting = QueuedOf(registry)
  BY WaitingFacts
<1>2. registry \subseteq Tasks /\ \A t \in Tasks : status[t] = "queued" => t \in registry
  BY DEF LineInv, TypeOK
<1> QED
  BY <1>1, <1>2 DEF QueuedOf

\* ... in this state and the next.
LEMMA WaitingNext ==
  ASSUME TypeOK, TypeOK', LineInv, LineInv'
  PROVE  /\ Waiting = {t \in Tasks : status[t] = "queued"}
         /\ Waiting' = {t \in Tasks : status'[t] = "queued"}
<1>1. (TypeOK /\ LineInv => Waiting = {t \in Tasks : status[t] = "queued"})'
  BY WaitingIs, PTL
<1> QED
  BY <1>1, WaitingIs

\* If all that happens to those that wait is that t leaves them, t leaves their order.
LEMMA Left ==
  ASSUME NEW t, Waiting' = Waiting \ {t},
         \A u, v \in Waiting' : Comes(Pending', u, v) <=> Sooner(u, v)
  PROVE  Order' = {p \in Order : p[1] # t /\ p[2] # t}
<1>1. Order' = {p \in Waiting' \X Waiting' : Comes(Pending', p[1], p[2])}
  BY DEF Order, Sooner, Comes
<1>2. \A p \in Waiting' \X Waiting' : p[1] \in Waiting' /\ p[2] \in Waiting'
  OBVIOUS
<1>3. \A p : p \in Waiting' \X Waiting' <=> p \in Waiting \X Waiting /\ p[1] # t /\ p[2] # t
  OBVIOUS
<1> QED
  BY <1>1, <1>2, <1>3 DEF Order

\* If nothing does, their order stays.
LEMMA Stayed ==
  ASSUME Waiting' = Waiting, \A u, v \in Waiting : Comes(Pending', u, v) <=> Sooner(u, v)
  PROVE  Order' = Order
<1>1. Order' = {p \in Waiting \X Waiting : Comes(Pending', p[1], p[2])}
  BY DEF Order, Sooner, Comes
<1> QED
  BY <1>1 DEF Order

\* Most steps leave the server as it is.
LEMMA ServerFrame ==
  ASSUME TypeOK, TypeOK', LineInv, LineInv', q' = q,
         wpc' = "start" <=> wpc = "start", wpc = "start" => wt' = wt,
         \A t \in Tasks : /\ status'[t] = "queued" <=> status[t] = "queued"
                          /\ status'[t] = "running" <=> status[t] = "running"
                          /\ status'[t] \in Terminal <=> status[t] \in Terminal
  PROVE  UNCHANGED <<Waiting, Order, Running, Over>>
<1>1. Waiting' = Waiting
  BY WaitingNext
<1>2. \A u, v : Comes(Pending', u, v) <=> Sooner(u, v)
  BY PendingNext
<1>3. Order' = Order
  BY <1>1, <1>2, Stayed
<1>4. Running' = Running /\ Over' = Over
  BY DEF Running, Over
<1> QED
  BY <1>1, <1>3, <1>4

ServerStep == Server!Next \/ UNCHANGED <<Waiting, Order, Running, Over>>

\* A task accepted is the last of those that wait.
LEMMA ArriveStep ==
  ASSUME TypeOK, TypeOK', LineInv, LineInv', UploadInv, Seats, SubmitAccept
  PROVE  ServerStep
<1>1. /\ lt \in Tasks /\ status[lt] = "new" /\ q' = Append(q, lt) /\ UNCHANGED <<wpc, wt>>
      /\ status' = [status EXCEPT ![lt] = "queued"] /\ status \in [Tasks -> Status]
      /\ ~(Cardinality(QueuedOf(registry)) >= QueueMax)
      /\ q \in Seq(Tasks) /\ (wpc = "start" => wt \in Tasks /\ wt # lt)
      /\ \A i \in DOMAIN q : q[i] # lt
  BY DEF SubmitAccept, Leave, Enqueue, LimitReached, UploadInv, Seats, TypeOK, Terminal,
         Accepted, workerVars
<1>2. Waiting' = Waiting \cup {lt} /\ lt \notin Waiting /\ lt \in Waiting'
  BY <1>1, WaitingNext
<1>3. Cardinality(Waiting) < QueueMax
  <2>1. Waiting = QueuedOf(registry)
    BY WaitingFacts
  <2>2. Cardinality(QueuedOf(registry)) \in Nat
    BY QueuedFinite, FS_CardinalityType
  <2> QED
    BY <1>1, <2>1, <2>2
<1>4. /\ q'[Len(q) + 1] = lt /\ Len(q) + 1 \in DOMAIN q'
      /\ \A i \in DOMAIN q : /\ i \in DOMAIN q' /\ q'[i] = q[i]
                             /\ q[i] \in Tasks /\ i \in Nat /\ i < Len(q) + 1
      /\ \A i \in DOMAIN q' : i = Len(q) + 1 \/ i \in DOMAIN q
      /\ Len(q) \in Nat
  BY <1>1, AppendFacts
<1>5. \A u, v \in Waiting : Comes(Pending', u, v) <=> Sooner(u, v)
  <2> SUFFICES ASSUME NEW u \in Waiting, NEW v \in Waiting
               PROVE  Comes(Pending', u, v) <=> Sooner(u, v)
    OBVIOUS
  <2>1. u # lt /\ v # lt
    BY <1>2
  <2>2. Comes(q', u, v) <=> Comes(q, u, v)
    <3>1. ASSUME Comes(q, u, v) PROVE Comes(q', u, v)
      BY <1>4, <3>1 DEF Comes
    <3>2. ASSUME Comes(q', u, v) PROVE Comes(q, u, v)
      BY <1>4, <2>1, <3>2 DEF Comes
    <3> QED
      BY <3>1, <3>2
  <2>3. In(q', v) <=> In(q, v)
    BY <1>4, <2>1 DEF In
  <2> QED
    BY <1>1, <2>2, <2>3, PendingNext
<1>6. \A u \in Waiting : Comes(Pending', u, lt) /\ ~Comes(Pending', lt, u)
  <2> SUFFICES ASSUME NEW u \in Waiting
               PROVE  Comes(Pending', u, lt) /\ ~Comes(Pending', lt, u)
    OBVIOUS
  <2>1. In(Pending, u) /\ u # lt
    BY <1>2 DEF Waiting, In
  <2>2. (wpc = "start" /\ wt = u) \/ In(q, u)
    BY <2>1, PendingNext
  <2>3. In(q', lt) /\ (In(q, u) => Comes(q', u, lt))
    BY <1>4 DEF In, Comes
  <2>4. Comes(Pending', u, lt)
    BY <1>1, <2>2, <2>3, PendingNext
  <2>5. ~Comes(q', lt, u)
    BY <1>1, <1>4, <2>1 DEF Comes
  <2> QED
    BY <1>1, <2>4, <2>5, PendingNext
<1>7. ~Comes(Pending', lt, lt)
  <2>1. ~Comes(q', lt, lt)
    BY <1>1, <1>4 DEF Comes
  <2> QED
    BY <1>1, <2>1, PendingNext
<1>8. Order' = Order \cup (Waiting \X {lt})
  <2>1. Order' = {p \in Waiting' \X Waiting' : Comes(Pending', p[1], p[2])}
    BY DEF Order, Sooner, Comes
  <2>2. \A p \in Waiting' \X Waiting' : p = <<p[1], p[2]>> /\ p[1] \in Waiting' /\ p[2] \in Waiting'
    OBVIOUS
  <2>3. \A u, v \in Waiting' : Comes(Pending', u, v)
            <=> (u \in Waiting /\ v = lt) \/ (u \in Waiting /\ v \in Waiting /\ Sooner(u, v))
    BY <1>2, <1>5, <1>6, <1>7
  <2> QED
    BY <1>2, <2>1, <2>2, <2>3 DEF Order
<1>9. UNCHANGED <<Running, Over>> /\ lt \notin Running \cup Over
  BY <1>1 DEF Running, Over, Terminal
<1>10. ASSUME NEW t \in Tasks, t = lt PROVE Server!Arrive(t)
  <2>1. t \notin Waiting \cup Running \cup Over /\ Cardinality(Waiting) < QueueMax
    BY <1>2, <1>3, <1>9, <1>10
  <2>2. Waiting' = Waiting \cup {t} /\ Order' = Order \cup (Waiting \X {t})
    BY <1>2, <1>8, <1>10
  <2>3. Running' = Running /\ Over' = Over
    BY <1>9
  <2> QED
    BY <2>1, <2>2, <2>3, Zenon DEF Server!Arrive, Server!Cardinality, Cardinality, Order, Running,
       Over
<1>11. Server!Next
  BY <1>1, <1>10 DEF Server!Next
<1> QED
  BY <1>11 DEF ServerStep

\* What the worker takes off the queue it is about to start, or was no longer waiting.
LEMMA TakeStep ==
  ASSUME TypeOK, TypeOK', LineInv, LineInv', Take
  PROVE  ServerStep
<1>1. /\ q \in Seq(Tasks) /\ q # <<>> /\ q' = Tail(q) /\ wpc = "idle" /\ status' = status
      /\ \/ wpc' = "start" /\ wt' = Head(q)
         \/ wpc' = "idle" /\ status[Head(q)] = "canceled"
  BY DEF Take, TypeOK, taskVars, workerVars
<1>2. /\ Head(q) = q[1] /\ 1 \in DOMAIN q
      /\ \A i \in DOMAIN q' : i \in Nat /\ i + 1 \in DOMAIN q /\ 1 < i + 1 /\ q'[i] = q[i + 1]
      /\ \A i \in DOMAIN q : i \in Nat /\ q[i] \in Tasks
      /\ \A i \in DOMAIN q : i # 1 => i - 1 \in DOMAIN q' /\ q'[i - 1] = q[i]
  BY <1>1, TailFacts
<1>3. Waiting' = Waiting
  BY <1>1, WaitingNext
<1>4. \A u, v \in Waiting : Comes(Pending', u, v) <=> Sooner(u, v)
  <2> SUFFICES ASSUME NEW u \in Waiting, NEW v \in Waiting
               PROVE  Comes(Pending', u, v) <=> Comes(q, u, v)
    BY <1>1, PendingNext
  <2>0. status[u] = "queued" /\ status[v] = "queued"
    BY DEF Waiting
  <2>1. ASSUME Comes(q', u, v) PROVE Comes(q, u, v)
    <3>1. PICK i, j \in DOMAIN q' : i < j /\ q'[i] = u /\ q'[j] = v
      BY <2>1 DEF Comes
    <3>2. i + 1 < j + 1
      BY <1>2, <3>1
    <3> QED
      BY <1>2, <3>1, <3>2 DEF Comes
  <2>2. ASSUME Head(q) = u, In(q', v) PROVE Comes(q, u, v)
    BY <1>2, <2>2 DEF Comes, In
  <2>3. ASSUME Comes(q, u, v) PROVE Comes(q', u, v) \/ (Head(q) = u /\ In(q', v))
    <3>1. PICK i, j \in DOMAIN q : i < j /\ q[i] = u /\ q[j] = v
      BY <2>3 DEF Comes
    <3>2. j # 1 /\ j - 1 \in DOMAIN q' /\ q'[j - 1] = v
      BY <1>1, <1>2, <3>1
    <3>3. CASE i = 1
      BY <1>2, <3>1, <3>2, <3>3 DEF In
    <3>4. CASE i # 1
      <4>1. i - 1 \in DOMAIN q' /\ q'[i - 1] = u /\ i - 1 < j - 1
        BY <1>2, <3>1, <3>4
      <4> QED
        BY <3>2, <4>1 DEF Comes
    <3> QED
      BY <3>3, <3>4
  <2> QED
    BY <1>1, <2>0, <2>1, <2>2, <2>3, PendingNext
<1>5. Order' = Order
  BY <1>3, <1>4, Stayed
<1>6. Running' = Running /\ Over' = Over
  BY <1>1 DEF Running, Over
<1> QED
  BY <1>3, <1>5, <1>6 DEF ServerStep

\* The worker starts the first of those that wait, with nothing else running.
LEMMA ServeStep ==
  ASSUME TypeOK, TypeOK', LineInv, LineInv', Owned, RunningInv, Start, raced' = {}
  PROVE  ServerStep
<1>1. /\ wpc = "start" /\ wpc' = "work" /\ wt \in Tasks /\ status[wt] = "queued"
      /\ status' = [status EXCEPT ![wt] = "running"] /\ q' = q
      /\ status \in [Tasks -> Status] /\ \A i \in DOMAIN q : q[i] # wt
  BY DEF Start, WStep, TypeOK, Owned, runnerVars
<1>2. Waiting' = Waiting \ {wt} /\ wt \in Waiting
  BY <1>1, WaitingNext
<1>3. \A u, v \in Waiting' : Comes(Pending', u, v) <=> Sooner(u, v)
  BY <1>1, <1>2, PendingNext
<1>4. Order' = {p \in Order : p[1] # wt /\ p[2] # wt}
  BY <1>2, <1>3, Left
<1>5. \A u \in Waiting : <<u, wt>> \notin Order
  <2>1. ~In(q, wt) /\ \A u : ~Comes(q, u, wt)
    BY <1>1 DEF In, Comes
  <2>2. \A u : ~Sooner(u, wt)
    BY <2>1, PendingNext
  <2> QED
    BY <2>2 DEF Order
<1>6. Running = {} /\ Running' = {wt} /\ Over' = Over
  BY <1>1 DEF RunningInv, Running, Over, Terminal, Working
<1>7. ASSUME NEW t \in Tasks, t = wt PROVE Server!Serve(t)
  BY <1>7, <1>2, <1>4, <1>5, <1>6 DEF Server!Serve, Server!Leaves, Order, Running, Over
<1>8. Server!Next
  BY <1>1, <1>7 DEF Server!Next
<1> QED
  BY <1>8 DEF ServerStep

\* The job that is running ends.
LEMMA FinishStep ==
  ASSUME TypeOK, TypeOK', LineInv, LineInv', UploadInv, RunningInv, Flip, raced' = {}
  PROVE  ServerStep
<1>1. /\ wpc = "flip" /\ wpc' = "fut" /\ wt \in Tasks /\ status[wt] = "running"
      /\ \E s \in Terminal : status' = [status EXCEPT ![wt] = s]
      /\ q' = q /\ status \in [Tasks -> Status]
  BY DEF Flip, WStep, TypeOK, UploadInv, Working, runnerVars, envVars, SettledStatus, Terminal,
         Outcome
<1>2. PICK s \in Terminal : status' = [status EXCEPT ![wt] = s]
  BY <1>1
<1>3. Waiting' = Waiting
  BY <1>1, <1>2, WaitingNext DEF Terminal
<1>4. Order' = Order
  BY <1>1, <1>3, Stayed, PendingNext
<1>5. /\ wt \in Running /\ Running' = {} /\ Over' = Over \cup {wt}
  BY <1>1, <1>2 DEF RunningInv, Running, Over, Terminal
<1>6. ASSUME NEW t \in Tasks, t = wt PROVE Server!Finish(t)
  BY <1>6, <1>3, <1>4, <1>5 DEF Server!Finish, Order, Running, Over
<1>7. Server!Next
  BY <1>1, <1>6 DEF Server!Next
<1> QED
  BY <1>7 DEF ServerStep

\* A client takes back one that waits.
LEMMA WithdrawStep ==
  ASSUME TypeOK, TypeOK', LineInv, LineInv', CancelMark, raced' = {}
  PROVE  ServerStep
<1>1. /\ lt \in Tasks /\ status[lt] = "queued" /\ UNCHANGED <<q, wpc, wt>>
      /\ status' = [status EXCEPT ![lt] = "canceled"] /\ status \in [Tasks -> Status]
  BY DEF CancelMark, Step, TypeOK, runnerVars, workerVars
<1>2. Waiting' = Waiting \ {lt} /\ lt \in Waiting
  BY <1>1, WaitingNext
<1>3. Order' = {p \in Order : p[1] # lt /\ p[2] # lt}
  BY <1>1, <1>2, Left, PendingNext
<1>4. Running' = Running /\ Over' = Over \cup {lt}
  BY <1>1 DEF Running, Over, Terminal
<1>5. ASSUME NEW t \in Tasks, t = lt PROVE Server!Withdraw(t)
  BY <1>5, <1>2, <1>3, <1>4 DEF Server!Withdraw, Server!Leaves, Order, Running, Over
<1>6. Server!Next
  BY <1>1, <1>5 DEF Server!Next
<1> QED
  BY <1>6 DEF ServerStep

\* Every other access leaves the server as it is.
LEMMA ServerNext ==
  TypeOK /\ TypeOK' /\ UploadInv /\ Owned /\ Seats /\ LineInv /\ LineInv' /\ RunningInv
    /\ [Next]_vars => [raced' # {} \/ Server!Next]_(Server!vars)
<1> SUFFICES ASSUME TypeOK, TypeOK', UploadInv, Owned, Seats, LineInv, LineInv', RunningInv,
                    [Next]_vars, raced' = {}
             PROVE  ServerStep
  BY DEF ServerStep, Server!vars, Order, Running, Over
<1>0. ASSUME q' = q, wpc' = "start" <=> wpc = "start", wpc = "start" => wt' = wt,
             \A t \in Tasks : /\ status'[t] = "queued" <=> status[t] = "queued"
                              /\ status'[t] = "running" <=> status[t] = "running"
                              /\ status'[t] \in Terminal <=> status[t] \in Terminal
      PROVE  ServerStep
  BY <1>0, ServerFrame DEF ServerStep
<1> USE DEF taskVars, runnerVars, loopVars, workerVars, gcVars, envVars
<1>1. ASSUME NEW t \in Tasks, SubmitBegin(t) PROVE ServerStep
  BY <1>1, <1>0 DEF SubmitBegin, Enter, QueuedOf
<1>2. ASSUME NEW t \in Tasks, Answer(t) PROVE ServerStep
  BY <1>2, <1>0 DEF Answer
<1>3. ASSUME NEW t \in Keep, ReadStatus(t) PROVE ServerStep
  BY <1>3, <1>0 DEF ReadStatus, Enter
<1>4. ASSUME NEW t \in Deletable, Drop(t) PROVE ServerStep
  BY <1>4, <1>0 DEF Drop, DropResult
<1>5. ASSUME NEW t \in Deletable, CancelBegin(t) PROVE ServerStep
  BY <1>5, <1>0 DEF CancelBegin, Enter
<1>6. ASSUME NEW t \in Tasks, Look(t) PROVE ServerStep
  BY <1>6, <1>0 DEF Look
<1>7. CASE SubmitAccept
  BY <1>7, ArriveStep
<1>8. CASE SubmitBusy
  BY <1>8, <1>0 DEF SubmitBusy, UploadInv, TypeOK, Terminal
<1>9. CASE SubmitRaises
  BY <1>9, <1>0 DEF SubmitRaises, UploadInv, TypeOK, Terminal
<1>10. CASE ReadRest
  BY <1>10, <1>0 DEF ReadRest, Leave
<1>11. CASE CancelTest
  BY <1>11, <1>0 DEF CancelTest, Step, Leave
<1>12. CASE CancelMark
  BY <1>12, WithdrawStep
<1>13. CASE CancelStamp
  BY <1>13, <1>0 DEF CancelStamp, Step, Cleanup
<1>14. CASE CancelFuture
  BY <1>14, <1>0 DEF CancelFuture, Step, Leave
<1>15. CASE CancelSet
  BY <1>15, <1>0 DEF CancelSet, Leave
<1>16. CASE Take
  BY <1>16, TakeStep
<1>17. CASE Start
  BY <1>17, ServeStep
<1>18. CASE JobReturns
  BY <1>18, <1>0 DEF JobReturns
<1>19. CASE JobRaises
  BY <1>19, <1>0 DEF JobRaises
<1>20. CASE JobStops
  BY <1>20, <1>0 DEF JobStops
<1>21. CASE Store
  BY <1>21, <1>0 DEF Store, WStep
<1>22. CASE StoreRaises
  BY <1>22, <1>0 DEF StoreRaises, WDies
<1>23. CASE Settle
  BY <1>23, <1>0 DEF Settle, WStep, Cleanup
<1>24. CASE Flip
  BY <1>24, FinishStep
<1>25. CASE Future
  BY <1>25, <1>0 DEF Future, WStep, JobDone, WIdle
<1>26. CASE SetFuture
  BY <1>26, <1>0 DEF SetFuture, JobDone, WIdle, WDies, SettledFuture
<1>27. CASE GcDrop
  BY <1>27, <1>0 DEF GcDrop, DropResult
<1>28. CASE GcPop
  BY <1>28, <1>0 DEF GcPop
<1>29. CASE Tick
  BY <1>29, <1>0 DEF Tick
<1>30. CASE UNCHANGED vars
  BY <1>30, <1>0 DEF vars
<1>31. CASE ListBegin
  BY <1>31, <1>0 DEF ListBegin, Enter
<1>32. CASE ListEnd
  BY <1>32, <1>0 DEF ListEnd, Leave
<1> QED
  BY <1>1, <1>2, <1>3, <1>4, <1>5, <1>6, <1>7, <1>8, <1>9, <1>10, <1>11, <1>12, <1>13,
     <1>14, <1>15, <1>16, <1>17, <1>18, <1>19, <1>20, <1>21, <1>22, <1>23, <1>24, <1>25,
     <1>26, <1>27, <1>28, <1>29, <1>30, <1>31, <1>32
     DEF Next, Submit, Get, Delete, Worker, Gc

\* For any tasks and limits: the handlers, the queue and the worker together are one server
\* that does the jobs accepted one at a time and in their order, until a cancel races it.
THEOREM RunnerIsServer == Spec => ImplementsServer
<1>1. Init => Server!Init
  <2> SUFFICES ASSUME Init PROVE Server!Init
    OBVIOUS
  <2>1. Waiting = {} /\ \A t \in Tasks : status[t] = "new"
    BY DEF Init, Waiting
  <2> QED
    BY <2>1 DEF Server!Init, Terminal
<1>2. Init => RunningInv
  BY DEF Init, RunningInv
<1>3. KeptInv => Owned
  BY DEF KeptInv
<1> QED
  BY <1>1, <1>2, <1>3, LineInit, SeatsInit, UploadKeptInit, TypeInit, TypeNext, UploadNext,
     KeptNext, SeatsNext, LineNext, RunningNext, ServerNext, PTL DEF Spec, ImplementsServer

-----------------------------------------------------------------------------
\* The list.

\* A row of the list is in the dict's order, and live or over, unless a race has it both.
RowsInv ==
    lpc = "list" =>
        /\ \A t \in llist.rows : In(order, t)
        /\ \A t \in llist.rows \ raced : t \in llist.live \/ status[t] \in Terminal

\* Every access of every thread keeps it.
LEMMA RowsNext == TypeOK /\ UploadInv /\ Seats /\ LineInv /\ RowsInv /\ [Next]_vars => RowsInv'
<1> SUFFICES ASSUME TypeOK, UploadInv, Seats, LineInv, RowsInv, [Next]_vars, lpc' = "list"
             PROVE  /\ \A t \in llist'.rows : In(order', t)
                    /\ \A t \in llist'.rows \ raced' : t \in llist'.live \/ status'[t] \in Terminal
  BY DEF RowsInv
<1> DEFINE Goal == /\ \A t \in llist'.rows : In(order', t)
                   /\ \A t \in llist'.rows \ raced' : t \in llist'.live \/ status'[t] \in Terminal
<1> USE DEF TypeOK, UploadInv, Seats, RowsInv, Accepted, Working, Settling, Closing, Terminal,
            Status, taskVars, runnerVars, loopVars, workerVars, gcVars, envVars
<1>1. ASSUME NEW t \in Tasks, SubmitBegin(t) PROVE Goal
  BY <1>1 DEF SubmitBegin, Enter, QueuedOf
<1>2. ASSUME NEW t \in Tasks, Answer(t) PROVE Goal
  BY <1>2 DEF Answer
<1>3. ASSUME NEW t \in Keep, ReadStatus(t) PROVE Goal
  BY <1>3 DEF ReadStatus, Enter
<1>4. ASSUME NEW t \in Deletable, Drop(t) PROVE Goal
  BY <1>4 DEF Drop, DropResult
<1>5. ASSUME NEW t \in Deletable, CancelBegin(t) PROVE Goal
  BY <1>5 DEF CancelBegin, Enter
<1>6. ASSUME NEW t \in Tasks, Look(t) PROVE Goal
  BY <1>6 DEF Look
<1>7. CASE SubmitAccept
  BY <1>7 DEF SubmitAccept, Leave
<1>8. CASE SubmitBusy
  BY <1>8 DEF SubmitBusy, Leave, Cleanup
<1>9. CASE SubmitRaises
  BY <1>9 DEF SubmitRaises, Leave
<1>10. CASE ReadRest
  BY <1>10 DEF ReadRest, Leave
<1>11. CASE CancelTest
  BY <1>11 DEF CancelTest, Step, Leave
<1>12. CASE CancelMark
  BY <1>12 DEF CancelMark, Step
<1>13. CASE CancelStamp
  BY <1>13 DEF CancelStamp, Step, Cleanup
<1>14. CASE CancelFuture
  BY <1>14 DEF CancelFuture, Step, Leave
<1>15. CASE CancelSet
  BY <1>15 DEF CancelSet, Leave
<1>16. CASE Take
  BY <1>16 DEF Take
<1>17. CASE Start
  BY <1>17 DEF Start, WStep
<1>18. CASE JobReturns
  BY <1>18 DEF JobReturns
<1>19. CASE JobRaises
  BY <1>19 DEF JobRaises
<1>20. CASE JobStops
  BY <1>20 DEF JobStops
<1>21. CASE Store
  BY <1>21 DEF Store, WStep
<1>22. CASE StoreRaises
  BY <1>22 DEF StoreRaises, WDies
<1>23. CASE Settle
  BY <1>23 DEF Settle, WStep, Cleanup
<1>24. CASE Flip
  BY <1>24 DEF Flip, WStep, SettledStatus, Outcome
<1>25. CASE Future
  BY <1>25 DEF Future, WStep, JobDone, WIdle
<1>26. CASE SetFuture
  BY <1>26 DEF SetFuture, JobDone, WIdle, WDies, SettledFuture
<1>27. CASE GcDrop
  BY <1>27 DEF GcDrop, DropResult
<1>28. CASE GcPop
  BY <1>28 DEF GcPop
<1>29. CASE Tick
  BY <1>29 DEF Tick
<1>30. CASE UNCHANGED vars
  BY <1>30 DEF vars
<1>31. CASE ListBegin
  BY <1>31 DEF ListBegin, Enter, LineInv
<1>32. CASE ListEnd
  BY <1>32 DEF ListEnd, Leave
<1> QED
  BY <1>1, <1>2, <1>3, <1>4, <1>5, <1>6, <1>7, <1>8, <1>9, <1>10, <1>11, <1>12, <1>13,
     <1>14, <1>15, <1>16, <1>17, <1>18, <1>19, <1>20, <1>21, <1>22, <1>23, <1>24, <1>25,
     <1>26, <1>27, <1>28, <1>29, <1>30, <1>31, <1>32
     DEF Next, Submit, Get, Delete, Worker, Gc

\* How many finished rows come after one falls from row to row.
LEMMA AfterFalls ==
  ASSUME TypeOK
  PROVE  /\ IsFiniteSet(DoneAt) /\ DoneAt \subseteq Nat
         /\ \A i \in DoneAt : Cardinality(After(i)) \in Nat
         /\ \A i \in DoneAt : Cardinality(After(i)) < Cardinality(DoneAt)
         /\ \A i, j \in DoneAt : i < j => Cardinality(After(j)) < Cardinality(After(i))
<1>1. IsFiniteSet(DoneAt) /\ DoneAt \subseteq Nat
  <2>1. DOMAIN order = 1 .. Len(order) /\ Len(order) \in Nat
    BY DEF TypeOK
  <2>2. DoneAt \subseteq 1 .. Len(order)
    BY <2>1 DEF DoneAt
  <2>3. IsFiniteSet(1 .. Len(order)) /\ 1 .. Len(order) \subseteq Nat
    BY <2>1, FS_Interval
  <2>4. IsFiniteSet(DoneAt)
    BY <2>2, <2>3, FS_Subset
  <2> QED
    BY <2>2, <2>3, <2>4
<1>2. ASSUME NEW A, NEW B, IsFiniteSet(B), A \subseteq B, A # B
      PROVE  /\ IsFiniteSet(A) /\ Cardinality(A) \in Nat /\ Cardinality(B) \in Nat
             /\ Cardinality(A) < Cardinality(B)
  <2>1. IsFiniteSet(A) /\ Cardinality(A) <= Cardinality(B) /\ Cardinality(A) # Cardinality(B)
    BY <1>2, FS_Subset
  <2>2. Cardinality(A) \in Nat /\ Cardinality(B) \in Nat
    BY <1>2, <2>1, FS_CardinalityType
  <2> QED
    BY <2>1, <2>2
<1>3. ASSUME NEW i \in DoneAt
      PROVE  /\ IsFiniteSet(After(i)) /\ Cardinality(After(i)) \in Nat
             /\ Cardinality(After(i)) < Cardinality(DoneAt)
  <2>1. After(i) \subseteq DoneAt /\ i \notin After(i)
    BY <1>1 DEF After
  <2> QED
    BY <1>1, <1>2, <2>1
<1>4. ASSUME NEW i \in DoneAt, NEW j \in DoneAt, i < j
      PROVE  Cardinality(After(j)) < Cardinality(After(i))
  <2>1. After(j) \subseteq After(i) /\ j \in After(i) /\ j \notin After(j)
    <3>1. i \in Nat /\ j \in Nat /\ \A k \in DoneAt : k \in Nat /\ (k > j => k > i)
      BY <1>1, <1>4
    <3>2. j > i /\ ~(j > j)
      BY <1>4, <3>1
    <3> QED
      BY <3>1, <3>2 DEF After
  <2> QED
    BY <1>2, <1>3, <2>1
<1> QED
  BY <1>1, <1>3, <1>4

\* No more rows are kept than there is room for.
LEMMA KeptFit ==
  ASSUME TypeOK, NEW room \in Nat
  PROVE  /\ room = 0 => KeptAt(room) = {}
         /\ Cardinality(RowsAt(KeptAt(room))) \in Nat
         /\ Cardinality(RowsAt(KeptAt(room))) <= room
<1>1. /\ DoneAt \subseteq Nat
      /\ \A i \in DoneAt : Cardinality(After(i)) \in Nat
      /\ \A i, j \in DoneAt : i < j => Cardinality(After(j)) < Cardinality(After(i))
  BY AfterFalls
<1> DEFINE place(t) == CHOOSE i \in KeptAt(room) : order[i] = t
           rank == [t \in RowsAt(KeptAt(room)) |-> Cardinality(After(place(t)))]
<1>2. \A t \in RowsAt(KeptAt(room)) : place(t) \in KeptAt(room) /\ order[place(t)] = t
  BY DEF RowsAt
<1>3. KeptAt(room) \subseteq DoneAt
  BY DEF KeptAt
<1>4. \A i \in KeptAt(room) : Cardinality(After(i)) \in Nat /\ Cardinality(After(i)) < room
  BY <1>1, <1>3 DEF KeptAt
<1>5. room = 0 => KeptAt(room) = {}
  BY <1>4
<1> HIDE DEF place
<1>6. \A i \in KeptAt(room) : Cardinality(After(i)) \in 0 .. room - 1
  BY <1>4
<1>7. rank \in [RowsAt(KeptAt(room)) -> 0 .. room - 1]
  BY <1>2, <1>6
<1>8. \A t, u \in RowsAt(KeptAt(room)) : rank[t] = rank[u] => t = u
  <2> SUFFICES ASSUME NEW t \in RowsAt(KeptAt(room)), NEW u \in RowsAt(KeptAt(room)), t # u
               PROVE  Cardinality(After(place(t))) # Cardinality(After(place(u)))
    OBVIOUS
  <2>1. /\ place(t) \in DoneAt /\ place(u) \in DoneAt /\ place(t) # place(u)
        /\ place(t) \in Nat /\ place(u) \in Nat
    BY <1>1, <1>2, <1>3
  <2>2. place(t) < place(u) \/ place(u) < place(t)
    BY <2>1
  <2>3. Cardinality(After(place(t))) \in Nat /\ Cardinality(After(place(u))) \in Nat
    BY <1>1, <2>1
  <2> QED
    BY <1>1, <2>1, <2>2, <2>3
<1> HIDE DEF rank
<1>9. rank \in Injection(RowsAt(KeptAt(room)), 0 .. room - 1)
  BY <1>7, <1>8 DEF Injection, IsInjective
<1>10. IsFiniteSet(0 .. room - 1) /\ Cardinality(0 .. room - 1) = room
  <2>1. 0 \in Int /\ room - 1 \in Int
    OBVIOUS
  <2>2. /\ IsFiniteSet(0 .. room - 1)
        /\ Cardinality(0 .. room - 1) = IF 0 > room - 1 THEN 0 ELSE (room - 1) - 0 + 1
    BY <2>1, FS_Interval
  <2> QED
    BY <2>2
<1>11. /\ IsFiniteSet(RowsAt(KeptAt(room)))
       /\ Cardinality(RowsAt(KeptAt(room))) <= room
  BY <1>9, <1>10, FS_Injection
<1> QED
  BY <1>5, <1>11, FS_CardinalityType

\* For any tasks, limits and races: the list has every row once it should, all the live ones
\* and the newest of the finished, and says when one is left out.
THEOREM ListsComplete == Spec => []ListKeepsAll
<1>1. TypeOK /\ RowsInv => ListKeepsAll
  <2> SUFFICES ASSUME TypeOK, RowsInv, lpc = "list" PROVE ListKeepsAll
    BY DEF ListKeepsAll
  <2>1. llist.rows \ raced \subseteq llist.live \cup RowsAt(DoneAt)
    <3> SUFFICES ASSUME NEW t \in llist.rows \ raced, t \notin llist.live
                 PROVE  t \in RowsAt(DoneAt)
      OBVIOUS
    <3>1. PICK i \in DOMAIN order : order[i] = t
      BY DEF RowsInv, In
    <3>2. i \in DoneAt
      BY <3>1 DEF DoneAt, RowsInv
    <3> QED
      BY <3>1, <3>2 DEF RowsAt
  <2>2. ASSUME NEW limit \in 1 .. Cardinality(Tasks)
        PROVE  LET kept == RowsAt(KeptAt(Room(limit)))
                   left == RowsAt(DoneAt) \ kept
               IN  /\ Cardinality(llist.live) + Cardinality(kept) <= limit \/ kept = {}
                   /\ \A t \in left, u \in kept : Before(t, u)
                   /\ left # {} => Truncated(limit)
    <3> DEFINE room == Room(limit)
               kept == RowsAt(KeptAt(room))
               left == RowsAt(DoneAt) \ kept
    <3>0. limit \in Nat /\ Cardinality(llist.live) \in Nat
      <4>1. llist.live \subseteq Tasks
        BY DEF TypeOK
      <4>2. Cardinality(Tasks) \in Nat /\ Cardinality(llist.live) \in Nat
        BY <4>1, FS_Subset, FS_CardinalityType
      <4> QED
        BY <4>2
    <3>1. room \in Nat /\ (room = 0 \/ room = limit - Cardinality(llist.live))
      BY <3>0 DEF Room
    <3> HIDE DEF room
    <3>2. Cardinality(llist.live) + Cardinality(kept) <= limit \/ kept = {}
      <4>1. CASE room = 0
        BY <3>1, <4>1, KeptFit DEF RowsAt
      <4>2. CASE room = limit - Cardinality(llist.live)
        BY <3>0, <3>1, <4>2, KeptFit
      <4> QED
        BY <3>1, <4>1, <4>2
    <3>3. \A t \in left : \E i \in DoneAt : order[i] = t /\ ~(Cardinality(After(i)) < room)
      BY DEF RowsAt, KeptAt
    <3>4. \A u \in kept : \E j \in DoneAt : order[j] = u /\ Cardinality(After(j)) < room
      BY DEF RowsAt, KeptAt
    <3>5. \A t \in left, u \in kept : Before(t, u)
      <4> SUFFICES ASSUME NEW t \in left, NEW u \in kept PROVE Before(t, u)
        OBVIOUS
      <4>1. PICK i \in DoneAt : order[i] = t /\ ~(Cardinality(After(i)) < room)
        BY <3>3
      <4>2. PICK j \in DoneAt : order[j] = u /\ Cardinality(After(j)) < room
        BY <3>4
      <4>3. /\ i \in Nat /\ j \in Nat
            /\ Cardinality(After(i)) \in Nat /\ Cardinality(After(j)) \in Nat
            /\ j < i => Cardinality(After(i)) < Cardinality(After(j))
        BY AfterFalls
      <4>4. i < j
        <5>1. i # j
          BY <4>1, <4>2
        <5>2. ~(j < i)
          BY <3>1, <4>1, <4>2, <4>3
        <5> QED
          BY <4>3, <5>1, <5>2
      <4> QED
        BY <4>1, <4>2, <4>4 DEF Before, DoneAt
    <3>6. left # {} => Truncated(limit)
      <4> SUFFICES ASSUME NEW t \in left PROVE Truncated(limit)
        OBVIOUS
      <4>1. PICK i \in DoneAt : ~(Cardinality(After(i)) < room)
        BY <3>3
      <4>2. /\ Cardinality(After(i)) \in Nat /\ Cardinality(DoneAt) \in Nat
            /\ Cardinality(After(i)) < Cardinality(DoneAt)
        BY AfterFalls, FS_CardinalityType
      <4>3. Cardinality(DoneAt) > room
        BY <3>1, <4>1, <4>2
      <4> QED
        BY <4>3 DEF Truncated, room
    <3> QED
      BY <3>2, <3>5, <3>6 DEF room
  <2> QED
    BY <2>1, <2>2 DEF ListKeepsAll
<1>2. Init => RowsInv
  BY DEF Init, RowsInv
<1>3. KeptInv => Owned
  BY DEF KeptInv
<1> QED
  BY <1>1, <1>2, <1>3, LineInit, SeatsInit, UploadKeptInit, TypeInit, TypeNext, UploadNext,
     KeptNext, SeatsNext, LineNext, RowsNext, PTL DEF Spec
=============================================================================
