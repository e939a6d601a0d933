------------------------- MODULE JsonRpcMuxerProofs -------------------------
(***************************************************************************)
(* Proofs about JsonRpcMuxer: its type invariant, the limit on concurrent  *)
(* jobs, the order of sequential batches and that nothing is scheduled     *)
(* after Stop began, for any number of threads, batches and slots.         *)
(***************************************************************************)
EXTENDS JsonRpcMuxer, FiniteSetTheorems, SequenceTheorems, TLAPS

\* Erasing an element (Process l.546) leaves a sequence of the same elements.
LEMMA EraseAtSeq ==
  ASSUME NEW S, NEW s \in Seq(S), NEW k \in 1 .. Len(s)
  PROVE  /\ EraseAt(s, k) \in Seq(S)
         /\ Len(EraseAt(s, k)) = Len(s) - 1
         /\ \A i \in 1 .. Len(EraseAt(s, k)) :
              \E j \in 1 .. Len(s) : EraseAt(s, k)[i] = s[j]
<1> DEFINE n == Len(s) - 1
<1>1. n \in Nat /\ Len(s) \in Nat
  OBVIOUS
<1>2. \A i \in 1 .. n : i \in 1 .. Len(s) /\ i + 1 \in 1 .. Len(s)
  BY <1>1
<1>3. \A i \in 1 .. n : s[i] \in S /\ s[i + 1] \in S
  BY <1>2
<1>4. EraseAt(s, k) \in [1 .. n -> S]
  BY <1>3 DEF EraseAt
<1>5. EraseAt(s, k) \in Seq(S) /\ Len(EraseAt(s, k)) = n
  BY <1>1, <1>4, SeqDef, LenProperties
<1>6. ASSUME NEW i \in 1 .. n
      PROVE  \E j \in 1 .. Len(s) : EraseAt(s, k)[i] = s[j]
  BY <1>2 DEF EraseAt
<1> QED
  BY <1>5, <1>6

\* The initial state satisfies the invariant.
LEMMA InitInv == Init => IndInv
<1> SUFFICES ASSUME Init PROVE IndInv
  OBVIOUS
<1> USE LimitAssumption, NobodyAssumption
<1>0. << >> \in Seq(Batch) /\ 0 \in 0 .. MaxBatchSize
  OBVIOUS
<1>1. TypeOK
  <2>1. ProcessorTypes /\ StopTypes
    BY <1>0 DEF Init, ProcessorTypes, StopTypes
  <2>2. BatchTypes
    BY <1>0 DEF Init, BatchTypes
  <2>3. RequestTypes /\ ReplyTypes
    BY DEF Init, RequestTypes, ReplyTypes, Code, Verdict
  <2>4. ThreadTypes
    BY DEF Init, ThreadTypes, PC
  <2> QED
    BY <2>1, <2>2, <2>3, <2>4 DEF TypeOK
<1>2. Control
  BY DEF Init, Control
<1>3. Admitted
  BY DEF Init, Admitted
<1>4. OnePlace
  BY DEF Init, OnePlace, NoJob, Job, Thread
<1>5. Slots
  <2>1. Outstanding = {}
    BY DEF Init, Outstanding, Executing, Thread
  <2> QED
    BY <2>1, FS_EmptySet DEF Init, Slots
<1>6. OneAtATime
  BY DEF Init, OneAtATime, Outstanding, Executing, Thread, Index
<1> QED
  BY <1>1, <1>2, <1>3, <1>4, <1>5, <1>6 DEF IndInv

-----------------------------------------------------------------------------
\* What a step leaves alone keeps its type.
LEMMA FrameTypes ==
  /\ ProcessorTypes /\ UNCHANGED <<processorVars, pool>> => ProcessorTypes'
  /\ BatchTypes /\ UNCHANGED <<life, shapeVars, batchVars>> => BatchTypes'
  /\ RequestTypes /\ UNCHANGED requestVars => RequestTypes'
  /\ ThreadTypes /\ UNCHANGED threadVars => ThreadTypes'
  /\ StopTypes /\ UNCHANGED stopVars => StopTypes'
  /\ ReplyTypes /\ UNCHANGED <<verdict, answers>> => ReplyTypes'
<1>1. ProcessorTypes /\ UNCHANGED <<processorVars, pool>> => ProcessorTypes'
  BY DEF ProcessorTypes, processorVars
<1>2. BatchTypes /\ UNCHANGED <<life, shapeVars, batchVars>> => BatchTypes'
  BY DEF BatchTypes, shapeVars, batchVars
<1>3. RequestTypes /\ UNCHANGED requestVars => RequestTypes'
  BY DEF RequestTypes, requestVars
<1>4. ThreadTypes /\ UNCHANGED threadVars => ThreadTypes'
  BY DEF ThreadTypes, threadVars
<1>5. StopTypes /\ UNCHANGED stopVars => StopTypes'
  BY DEF StopTypes, stopVars
<1>6. ReplyTypes /\ UNCHANGED <<verdict, answers>> => ReplyTypes'
  BY DEF ReplyTypes
<1> QED
  BY <1>1, <1>2, <1>3, <1>4, <1>5, <1>6

\* Goto and Return keep the types of the threads' local state.
LEMMA GotoTypes ==
  ASSUME ThreadTypes, NEW t \in Thread, NEW l \in PC, Goto(t, l),
         UNCHANGED <<job, held, it, scheduledJob, dangling>>
  PROVE  ThreadTypes'
BY DEF ThreadTypes, Goto

LEMMA ReturnTypes ==
  ASSUME ThreadTypes, NEW t \in Thread, Return(t)
  PROVE  ThreadTypes'
BY DEF ThreadTypes, Return, PC

\* Every step of the model keeps every variable's type: the steps of Process,
\* Dispatch, Checkout, Submit and Stop write only values of the right kind.
LEMMA StepTypes == TypeOK /\ Control /\ [Next]_vars => TypeOK'
<1> SUFFICES ASSUME TypeOK, Control, [Next]_vars PROVE TypeOK'
  OBVIOUS
<1> USE LimitAssumption, FrameTypes
    DEF TypeOK, processorVars, shapeVars, batchVars, requestVars, threadVars,
        stopVars, answerVars
<1>1. ASSUME NEW c \in Client, NEW b \in Batch, NEW n \in Lengths,
             NEW parsed \in BOOLEAN,
             NEW method \in {"parallel", "sequential", "other"},
             Invoke(c, b, method, parsed, n)
      PROVE  TypeOK'
  <2>1. Examine(method, parsed, n) \in Verdict
    BY DEF Examine, Verdict
  <2>2. Examine(method, parsed, n) = "pending" => n \in 0 .. MaxBatchSize
    BY LengthAssumption DEF Examine
  <2>3. ReplyTypes'
    BY <1>1, <2>1 DEF Invoke, ReplyTypes
  <2>4. BatchTypes'
    BY <1>1, <2>2, ZenonT(40) DEF Invoke, BatchTypes
  <2>5. ThreadTypes'
    BY <1>1 DEF Invoke, ThreadTypes, Goto, PC, Thread
  <2> QED
    BY <1>1, <2>3, <2>4, <2>5 DEF Invoke
<1>2. ASSUME NEW c \in Client, Submit(c)
      PROVE  TypeOK'
  <2>1. held[c] \in Batch /\ c \in Thread
    BY <1>2 DEF Submit, Control, Thread
  <2>2. ProcessorTypes'
    BY <1>2, <2>1, SMTT(30) DEF Submit, ProcessorTypes
  <2>3. BatchTypes'
    BY <1>2, <2>1, ZenonT(40) DEF Submit, BatchTypes
  <2>4. ThreadTypes'
    BY <1>2, <2>1 DEF Submit, ThreadTypes, Goto, PC, InWindow
  <2>5. ReplyTypes'
    BY <1>2, <2>1 DEF Submit, ReplyTypes, Verdict
  <2> QED
    BY <1>2, <2>2, <2>3, <2>4, <2>5 DEF Submit
<1>3. ASSUME NEW t \in Thread, Enter(t)
      PROVE  TypeOK'
  <2>1. ThreadTypes'
    <3>1. CASE shuttingDown
      BY <1>3, <3>1, ReturnTypes DEF Enter, Quit
    <3>2. CASE ~shuttingDown
      BY <1>3, <3>2 DEF Enter, Goto, ThreadTypes, PC
    <3> QED
      BY <3>1, <3>2
  <2>2. ProcessorTypes'
    BY <1>3 DEF Enter, Quit, ProcessorTypes
  <2> QED
    BY <1>3, <2>1, <2>2 DEF Enter
<1>4. ASSUME NEW t \in Thread, PassOver(t)
      PROVE  TypeOK'
  <2>1. ThreadTypes'
    BY <1>4 DEF PassOver, ThreadTypes
  <2> QED
    BY <1>4, <2>1 DEF PassOver
<1>5. ASSUME NEW t \in Thread, Remove(t)
      PROVE  TypeOK'
  <2>1. it[t] \in 1 .. Len(batches)
    BY <1>5 DEF Remove, Control, ThreadTypes, ProcessorTypes
  <2>2. batches[it[t]] \in Batch
    BY <2>1 DEF ProcessorTypes
  <2>3. ProcessorTypes'
    BY <1>5, <2>1, EraseAtSeq DEF Remove, ProcessorTypes
  <2>4. ThreadTypes'
    BY <1>5, <2>2 DEF Remove, ThreadTypes, Goto, PC
  <2> QED
    BY <1>5, <2>3, <2>4 DEF Remove
<1>6. ASSUME NEW t \in Thread, Answer(t)
      PROVE  TypeOK'
  <2>1. ThreadTypes'
    BY <1>6 DEF Answer, ThreadTypes, Goto, PC
  <2>2. BatchTypes' /\ ReplyTypes'
    BY <1>6 DEF Answer, BatchTypes, ReplyTypes
  <2> QED
    BY <1>6, <2>1, <2>2 DEF Answer
<1>7. ASSUME NEW t \in Thread, Relock(t)
      PROVE  TypeOK'
  <2>1. ThreadTypes' /\ ProcessorTypes'
    BY <1>7 DEF Relock, ThreadTypes, ProcessorTypes, Goto, PC
  <2> QED
    BY <1>7, <2>1 DEF Relock
<1>8. ASSUME NEW t \in Thread, EndScan(t)
      PROVE  TypeOK'
  <2>1. ThreadTypes'
    BY <1>8 DEF EndScan, ThreadTypes, Goto, PC
  <2> QED
    BY <1>8, <2>1 DEF EndScan
<1>9. ASSUME NEW t \in Thread, ScheduleJob(t)
      PROVE  TypeOK'
  <2> DEFINE b == batches[it[t]]
  <2>1. it[t] \in 1 .. Len(batches)
    BY <1>9 DEF ScheduleJob, Control, ThreadTypes, ProcessorTypes
  <2>2. b \in Batch
    BY <2>1 DEF ProcessorTypes
  <2>3. current[b] + 1 \in 1 .. MaxBatchSize
    <3>1. current[b] < length[b]
      BY <1>9 DEF ScheduleJob, MaySchedule, HasRequest
    <3>2. current[b] \in Nat /\ length[b] \in 0 .. MaxBatchSize
      BY <2>2 DEF BatchTypes
    <3> QED
      BY <3>1, <3>2
  <2>4. <<b, current[b] + 1>> \in Job
    BY <2>2, <2>3 DEF Job, Index
  <2>5. ProcessorTypes'
    BY <1>9, <2>4 DEF ScheduleJob, PoolSubmit, ProcessorTypes
  <2>6. BatchTypes'
    <3>1. /\ current' = [current EXCEPT ![b] = current[b] + 1]
          /\ activeCount' = [activeCount EXCEPT ![b] = activeCount[b] + 1]
          /\ UNCHANGED <<life, shapeVars, state, completed>>
      BY <1>9 DEF ScheduleJob
    <3> QED
      BY <2>2, <2>3, <3>1 DEF BatchTypes
  <2>7. ThreadTypes'
    BY <1>9 DEF ScheduleJob, ThreadTypes
  <2> QED
    BY <1>9, <2>5, <2>6, <2>7 DEF ScheduleJob
<1>10. ASSUME NEW t \in Thread, NextBatch(t)
      PROVE  TypeOK'
  <2>1. ThreadTypes'
    BY <1>10 DEF NextBatch, ThreadTypes
  <2> QED
    BY <1>10, <2>1 DEF NextBatch
<1>11. ASSUME NEW t \in Thread, EndPass(t)
      PROVE  TypeOK'
  <2>1. ThreadTypes'
    <3>1. CASE HasSlot /\ scheduledJob[t]
      <4>1. /\ it' = [it EXCEPT ![t] = 1]
            /\ scheduledJob' = [scheduledJob EXCEPT ![t] = FALSE]
            /\ UNCHANGED <<pc, job, held, dangling>>
        BY <1>11, <3>1, Zenon DEF EndPass
      <4> QED
        BY <4>1 DEF ThreadTypes
    <3>2. CASE ~(HasSlot /\ scheduledJob[t])
      <4>1. Return(t)
        BY <1>11, <3>2 DEF EndPass
      <4> QED
        BY <4>1, ReturnTypes
    <3> QED
      BY <3>1, <3>2
  <2>2. ProcessorTypes'
    BY <1>11 DEF EndPass, ProcessorTypes
  <2> QED
    BY <1>11, <2>1, <2>2 DEF EndPass
<1>12. ASSUME NEW w \in Worker, NEW j \in pool, Take(w, j)
      PROVE  TypeOK'
  <2>1. ThreadTypes' /\ ProcessorTypes'
    BY <1>12 DEF Take, Thread, ThreadTypes, ProcessorTypes, Goto, PC
  <2> QED
    BY <1>12, <2>1 DEF Take
<1>13. ASSUME NEW w \in Worker, Dispatch(w)
      PROVE  TypeOK'
  <2>1. ThreadTypes'
    BY <1>13, ReturnTypes, GotoTypes DEF Dispatch, Thread, PC
  <2> QED
    BY <1>13, <2>1 DEF Dispatch
<1>14. ASSUME NEW w \in Worker, NEW code \in Outcomes, Complete(w, code)
      PROVE  TypeOK'
  <2>1. job[w] \in Job /\ job[w][1] \in Batch /\ w \in Thread
    BY <1>14 DEF Complete, Control, Thread, Job
  <2>2. ThreadTypes'
    BY <1>14, <2>1, GotoTypes DEF Complete, PC
  <2>3. BatchTypes'
    BY <1>14, <2>1 DEF Complete, CompleteRequest, Release, BatchTypes
  <2>4. Keep(job[w], code) \in Code
    BY <2>1 DEF Keep, RequestTypes, Code
  <2>5. RequestTypes'
    BY <1>14, <2>1, <2>4 DEF Complete, CompleteRequest, RequestTypes, Code
  <2> QED
    BY <1>14, <2>2, <2>3, <2>5 DEF Complete
<1>15. ASSUME NEW w \in Worker, Checkout(w)
      PROVE  TypeOK'
  <2>1. ThreadTypes'
    BY <1>15, GotoTypes DEF Checkout, Thread, PC
  <2>2. ProcessorTypes'
    BY <1>15 DEF Checkout, Remaining, ProcessorTypes
  <2> QED
    BY <1>15, <2>1, <2>2 DEF Checkout
<1>16. ASSUME NEW w \in Worker, Leave(w)
      PROVE  TypeOK'
  <2>1. ThreadTypes'
    BY <1>16, ReturnTypes, GotoTypes DEF Leave, Thread, PC
  <2> QED
    BY <1>16, <2>1 DEF Leave
<1>17. CASE StopBegin
  <2>1. ProcessorTypes' /\ StopTypes' /\ BatchTypes'
    BY <1>17 DEF StopBegin, ProcessorTypes, StopTypes, BatchTypes
  <2> QED
    BY <1>17, <2>1 DEF StopBegin
<1>18. ASSUME NEW j \in jobsToRevoke, Revoke(j)
      PROVE  TypeOK'
  <2>1. ProcessorTypes' /\ StopTypes'
    BY <1>18 DEF Revoke, ProcessorTypes, StopTypes
  <2> QED
    BY <1>18, <2>1 DEF Revoke
<1>19. CASE StopClear
  <2>1. ProcessorTypes' /\ StopTypes' /\ BatchTypes'
    BY <1>19, SMTT(30) DEF StopClear, ProcessorTypes, StopTypes, BatchTypes
  <2> QED
    BY <1>19, <2>1 DEF StopClear
<1>20. CASE Free
  <2>1. StopTypes'
    BY <1>20 DEF Free, StopTypes
  <2> QED
    BY <1>20, <2>1 DEF Free
<1>21. ASSUME NEW t \in Thread, UseAfterFree(t)
      PROVE  TypeOK'
  <2>1. ThreadTypes'
    BY <1>21, GotoTypes DEF UseAfterFree, PC
  <2> QED
    BY <1>21, <2>1 DEF UseAfterFree
<1>22. CASE UNCHANGED vars
  BY <1>22 DEF vars
<1> QED
  BY <1>1, <1>2, <1>3, <1>4, <1>5, <1>6, <1>7, <1>8, <1>9, <1>10, <1>11,
     <1>12, <1>13, <1>14, <1>15, <1>16, <1>17, <1>18, <1>19, <1>20, <1>21, <1>22
     DEF Next, ClientStep, WorkerStep, Process, Call, Stop, Thread
\* A thread's place goes with its lock, iterator, batch and job: Process takes
\* the lock before it looks at the list, and Submit's request is its own.
LEMMA StepControl == TypeOK /\ Control /\ [Next]_vars => Control'
<1> SUFFICES ASSUME TypeOK, Control, [Next]_vars PROVE Control'
  OBVIOUS
<1> USE NobodyAssumption, ThreadAssumption
    DEF TypeOK, ThreadTypes, Control, Thread, processorVars, threadVars, Goto, Return
<1>1. ASSUME NEW c \in Client, NEW b \in Batch, NEW n \in Lengths,
             NEW parsed \in BOOLEAN,
             NEW method \in {"parallel", "sequential", "other"},
             Invoke(c, b, method, parsed, n)
      PROVE  Control'
  BY <1>1 DEF Invoke, ReplyTypes
<1>2. ASSUME NEW c \in Client, Submit(c) PROVE Control'
  <2>1. /\ pc[c] = "submit" /\ held[c] \in Batch
        /\ \A u \in Thread : u # c /\ pc[u] = "submit" => held[u] # held[c]
    BY <1>2 DEF Submit
  <2>2. /\ pc' = [pc EXCEPT ![c] = "idle"] \/ pc' = [pc EXCEPT ![c] = "process"]
        /\ held' = [held EXCEPT ![c] = Nobody]
        /\ \A b \in Batch : b # held[c] => verdict'[b] = verdict[b]
        /\ UNCHANGED <<lock, it, job>>
    BY <1>2, <2>1 DEF Submit, ReplyTypes
  <2> QED
    BY <2>1, <2>2
<1>3. ASSUME NEW t \in Thread, Enter(t) PROVE Control'
  BY <1>3 DEF Enter, Quit
<1>4. ASSUME NEW t \in Thread, PassOver(t) PROVE Control'
  BY <1>4 DEF PassOver
<1>5. ASSUME NEW t \in Thread, Remove(t) PROVE Control'
  <2>1. batches[it[t]] \in Batch
    BY <1>5 DEF Remove, ProcessorTypes
  <2> QED
    BY <1>5, <2>1 DEF Remove
<1>6. ASSUME NEW t \in Thread, Answer(t) PROVE Control'
  BY <1>6 DEF Answer
<1>7. ASSUME NEW t \in Thread, Relock(t) PROVE Control'
  BY <1>7 DEF Relock
<1>8. ASSUME NEW t \in Thread, EndScan(t) PROVE Control'
  BY <1>8 DEF EndScan
<1>9. ASSUME NEW t \in Thread, ScheduleJob(t) PROVE Control'
  BY <1>9 DEF ScheduleJob
<1>10. ASSUME NEW t \in Thread, NextBatch(t) PROVE Control'
  BY <1>10 DEF NextBatch
<1>11. ASSUME NEW t \in Thread, EndPass(t) PROVE Control'
  BY <1>11 DEF EndPass
<1>12. ASSUME NEW w \in Worker, NEW j \in pool, Take(w, j) PROVE Control'
  BY <1>12 DEF Take, ProcessorTypes
<1>13. ASSUME NEW w \in Worker, Dispatch(w) PROVE Control'
  BY <1>13 DEF Dispatch
<1>14. ASSUME NEW w \in Worker, NEW code \in Outcomes, Complete(w, code) PROVE Control'
  BY <1>14 DEF Complete
<1>15. ASSUME NEW w \in Worker, Checkout(w) PROVE Control'
  BY <1>15 DEF Checkout
<1>16. ASSUME NEW w \in Worker, Leave(w) PROVE Control'
  BY <1>16 DEF Leave
<1>17. CASE StopBegin
  BY <1>17 DEF StopBegin
<1>18. ASSUME NEW j \in jobsToRevoke, Revoke(j) PROVE Control'
  BY <1>18 DEF Revoke
<1>19. CASE StopClear
  BY <1>19 DEF StopClear
<1>20. CASE Free
  BY <1>20 DEF Free
<1>21. ASSUME NEW t \in Thread, UseAfterFree(t) PROVE Control'
  BY <1>21 DEF UseAfterFree
<1>22. CASE UNCHANGED vars
  BY <1>22 DEF vars
<1> QED
  BY <1>1, <1>2, <1>3, <1>4, <1>5, <1>6, <1>7, <1>8, <1>9, <1>10, <1>11,
     <1>12, <1>13, <1>14, <1>15, <1>16, <1>17, <1>18, <1>19, <1>20, <1>21, <1>22
     DEF Next, ClientStep, WorkerStep, Process, Call, Stop

\* A step that only moves a thread along, or answers: it leaves the list, the
\* jobs and the batches' counters alone, and at most ends a worker's job; a job
\* under way only after Stop began, or when its batch was deleted.
Internal ==
  /\ UNCHANGED <<batches, activeJobs, shuttingDown, concurrent, length, batchVars,
                 requestVars, pool, jobsToRevoke, verdict>>
  /\ \/ /\ UNCHANGED <<life, held, answers, response>>
        /\ \A t \in Thread : pc'[t] = "answer" => pc[t] = "answer"
     \/ \E t \in Thread : Answer(t)
  /\ stop = "running" <=> stop' = "running"
  /\ \A w \in Worker :
       \/ job'[w] = job[w] /\ (Executing(w)' => Executing(w))
       \/ job'[w] = NoJob /\ ~Executing(w)'
  /\ \A w \in Worker :
       \/ pc[w] \in {"dispatch", "invoke"} =>
            pc'[w] \in {"dispatch", "invoke"} /\ job'[w] = job[w]
       \/ shuttingDown \/ stop # "running" \/ life[job[w][1]] = "deleted"
  /\ \A w \in Worker :
       \/ pc[w] = "checkout" => pc'[w] = "checkout" /\ job'[w] = job[w]
       \/ stop # "running"

\* The steps that are not Internal, by name.
LEMMA StepKinds ==
  ASSUME TypeOK, [Next]_vars
  PROVE  \/ \E c \in Client, b \in Batch, n \in Lengths, parsed \in BOOLEAN,
               method \in {"parallel", "sequential", "other"} :
               Invoke(c, b, method, parsed, n)
         \/ \E c \in Client : Submit(c)
         \/ \E t \in Thread : Remove(t)
         \/ \E t \in Thread : ScheduleJob(t)
         \/ \E w \in Worker : \E j \in pool : Take(w, j)
         \/ \E w \in Worker, code \in Outcomes : Complete(w, code)
         \/ \E w \in Worker : Checkout(w)
         \/ StopBegin
         \/ \E j \in jobsToRevoke : Revoke(j)
         \/ StopClear
         \/ Internal
<1> USE DEF TypeOK, ThreadTypes, Thread, Internal, Executing, Goto, Return,
        processorVars, shapeVars, batchVars, requestVars, threadVars, stopVars,
        answerVars
<1>1. ASSUME NEW t \in Thread, Enter(t) PROVE Internal
  BY <1>1 DEF Enter, Quit
<1>2. ASSUME NEW t \in Thread, PassOver(t) PROVE Internal
  BY <1>2 DEF PassOver
<1>3. ASSUME NEW t \in Thread, Answer(t) PROVE Internal
  BY <1>3 DEF Answer
<1>4. ASSUME NEW t \in Thread, Relock(t) PROVE Internal
  BY <1>4 DEF Relock
<1>5. ASSUME NEW t \in Thread, EndScan(t) PROVE Internal
  BY <1>5 DEF EndScan
<1>6. ASSUME NEW t \in Thread, NextBatch(t) PROVE Internal
  BY <1>6 DEF NextBatch
<1>7. ASSUME NEW t \in Thread, EndPass(t) PROVE Internal
  BY <1>7 DEF EndPass
<1>8. ASSUME NEW w \in Worker, Dispatch(w) PROVE Internal
  BY <1>8 DEF Dispatch
<1>9. ASSUME NEW w \in Worker, Leave(w) PROVE Internal
  BY <1>9 DEF Leave
<1>10. ASSUME NEW t \in Thread, UseAfterFree(t) PROVE Internal
  BY <1>10 DEF UseAfterFree, Freed
<1>11. CASE Free
  BY <1>11 DEF Free
<1>12. CASE UNCHANGED vars
  BY <1>12 DEF vars
<1> QED
  BY <1>1, <1>2, <1>3, <1>4, <1>5, <1>6, <1>7, <1>8, <1>9, <1>10, <1>11, <1>12
     DEF Next, ClientStep, WorkerStep, Process, Call, Stop

\* After an erase the list holds nothing it did not hold before.
LEMMA EraseMembers ==
  ASSUME batches \in Seq(Batch), NEW k \in 1 .. Len(batches),
         batches' = EraseAt(batches, k)
  PROVE  \A i \in 1 .. Len(batches') :
           \E j \in 1 .. Len(batches) : batches'[i] = batches[j]
BY EraseAtSeq

\* Thread t is in the loop over the batches with a valid iterator
LEMMA UnderIterator ==
  ASSUME TypeOK, Control, NEW t \in Thread, pc[t] \in {"scan", "schedule"},
         it[t] <= Len(batches)
  PROVE  it[t] \in 1 .. Len(batches) /\ batches[it[t]] \in Batch
BY DEF TypeOK, Control, ThreadTypes, ProcessorTypes


\* Only Submit accepts, and only what is in the list is scheduled: a refused
\* request never runs.
LEMMA StepAdmitted ==
  TypeOK /\ Control /\ Admitted /\ OnePlace /\ [Next]_vars => Admitted'
<1> SUFFICES ASSUME TypeOK, Control, Admitted, OnePlace, [Next]_vars PROVE Admitted'
  OBVIOUS
<1>0. /\ batches \in Seq(Batch)
      /\ verdict \in [Batch -> Verdict]
      /\ current \in [Batch -> 0 .. MaxBatchSize]
      /\ activeCount \in [Batch -> Int]
  BY DEF TypeOK, ProcessorTypes, BatchTypes, ReplyTypes
<1>b. \A i \in 1 .. Len(batches) : batches[i] \in Batch
  BY <1>0
<1> USE <1>0, <1>b DEF Admitted
<1>1. ASSUME NEW c \in Client, NEW b \in Batch, NEW n \in Lengths,
             NEW parsed \in BOOLEAN,
             NEW method \in {"parallel", "sequential", "other"},
             Invoke(c, b, method, parsed, n)
      PROVE  Admitted'
  <2>1. Examine(method, parsed, n) # "accepted"
    BY DEF Examine
  <2>2. /\ verdict[b] = "unsent"
        /\ verdict' = [verdict EXCEPT ![b] = Examine(method, parsed, n)]
        /\ UNCHANGED <<batches, current, activeCount>>
    BY <1>1 DEF Invoke, processorVars, batchVars
  <2> QED
    BY <2>1, <2>2
<1>2. ASSUME NEW c \in Client, Submit(c) PROVE Admitted'
  <2>1. held[c] \in Batch
    BY <1>2 DEF Submit, Control, Thread
  <2>2. CASE shuttingDown
    <3>1. /\ verdict' = [verdict EXCEPT ![held[c]] = "ERROR_ABORTED"]
          /\ verdict[held[c]] = "pending"
          /\ UNCHANGED <<batches, current, activeCount>>
      BY <1>2, <2>2 DEF Submit, batchVars, Control, Thread
    <3> QED
      BY <2>1, <3>1
  <2>3. CASE ~shuttingDown
    <3>1. /\ verdict' = [verdict EXCEPT ![held[c]] = "accepted"]
          /\ batches' = Append(batches, held[c])
          /\ UNCHANGED <<current, activeCount>>
      BY <1>2, <2>3 DEF Submit, batchVars
    <3> QED
      BY <2>1, <3>1
  <2> QED
    BY <2>2, <2>3
<1>3. ASSUME NEW t \in Thread, Remove(t) PROVE Admitted'
  <2>1. it[t] \in 1 .. Len(batches)
    BY <1>3, UnderIterator DEF Remove
  <2> QED
    <3>1. /\ batches' = EraseAt(batches, it[t])
          /\ UNCHANGED <<verdict, current, activeCount>>
      BY <1>3 DEF Remove, batchVars
    <3> QED
      BY <2>1, <3>1, EraseMembers
<1>4. ASSUME NEW t \in Thread, ScheduleJob(t) PROVE Admitted'
  <2>1. it[t] \in 1 .. Len(batches) /\ batches[it[t]] \in Batch
    BY <1>4, UnderIterator DEF ScheduleJob
  <2> QED
    BY <1>4, <2>1 DEF ScheduleJob
<1>5. ASSUME NEW w \in Worker, NEW code \in Outcomes, Complete(w, code) PROVE Admitted'
  <2>1. job[w] \in Job /\ job[w][1] \in Batch /\ job[w][2] \in Index
    BY <1>5 DEF Complete, Control, Thread, Job
  <2>2. current[job[w][1]] # 0
    BY <2>1 DEF OnePlace, Index
  <2> QED
    BY <1>5, <2>1, <2>2 DEF Complete, CompleteRequest, Release, processorVars
<1>6. CASE StopClear
  BY <1>6 DEF StopClear, batchVars
<1>7. ASSUME NEW w \in Worker, (\E j \in pool : Take(w, j)) \/ Checkout(w)
      PROVE  Admitted'
  BY <1>7 DEF Take, Checkout, processorVars, batchVars
<1>8. ASSUME StopBegin \/ (\E j \in jobsToRevoke : Revoke(j)) \/ Internal
      PROVE  Admitted'
  BY <1>8 DEF StopBegin, Revoke, Internal, processorVars, batchVars
<1> QED
  BY <1>1, <1>2, <1>3, <1>4, <1>5, <1>6, <1>7, <1>8, StepKinds

\* The null job is no job.
LEMMA NoJobIsNone == NoJob \notin Job
BY NobodyAssumption DEF NoJob, Job

\* GetRequest hands a request out once, and the pool gives a job to one worker.
LEMMA StepOnePlace ==
  TypeOK /\ Control /\ OnePlace /\ [Next]_vars => OnePlace'
<1> SUFFICES ASSUME TypeOK, Control, OnePlace, [Next]_vars
             PROVE  OnePlace'
  OBVIOUS
<1>0. /\ pool \subseteq Job
      /\ job \in [Thread -> Job \cup {NoJob}]
      /\ current \in [Batch -> 0 .. MaxBatchSize]
      /\ \A j \in Job : j[1] \in Batch /\ j[2] \in Nat
      /\ Worker \subseteq Thread
  BY LimitAssumption
     DEF TypeOK, ProcessorTypes, BatchTypes, ThreadTypes, Job, Index, Thread
<1> USE <1>0, NoJobIsNone DEF OnePlace
<1>1. ASSUME UNCHANGED <<pool, current, job>> PROVE OnePlace'
  BY <1>1
<1>2. ASSUME NEW t \in Thread, ScheduleJob(t) PROVE OnePlace'
  <2> DEFINE b == batches[it[t]]
             j == <<b, current[b] + 1>>
  <2>1. b \in Batch
    BY <1>2, UnderIterator DEF ScheduleJob
  <2>2. /\ current' = [current EXCEPT ![b] = current[b] + 1]
        /\ pool' = pool \cup {j}
        /\ job' = job
    BY <1>2 DEF ScheduleJob, PoolSubmit
  <2>3. \A c \in Batch : /\ current[c] \in Nat /\ current'[c] \in Nat
                          /\ current[c] <= current'[c]
    BY <2>1, <2>2, LimitAssumption
  <2>4. j[1] = b /\ j[2] = current[b] + 1 /\ j # NoJob
    BY <2>1, NobodyAssumption DEF NoJob
  <2>5. j[2] <= current'[b]
    BY <2>1, <2>2
  <2> HIDE DEF j
  <2>6. j \notin pool /\ \A w \in Worker : job[w] # j
    BY <2>1, <2>4
  <2>7. /\ \A w \in Worker : job'[w] \notin pool'
        /\ \A v, w \in Worker : job'[v] = job'[w] /\ job'[v] \in Job => v = w
    BY <2>2, <2>6
  <2>8. \A k \in pool : k[2] <= current'[k[1]]
    BY <2>3
  <2>9. \A k \in pool' : k[2] <= current'[k[1]]
    BY <2>2, <2>4, <2>5, <2>8
  <2>10. \A w \in Worker : job'[w] \in Job => job'[w][2] <= current'[job'[w][1]]
    BY <2>2, <2>3
  <2> QED
    BY <2>7, <2>9, <2>10
<1>3. ASSUME NEW w \in Worker, NEW j \in pool, Take(w, j) PROVE OnePlace'
  BY <1>3 DEF Take, batchVars
<1>4. ASSUME NEW j \in jobsToRevoke, Revoke(j) PROVE OnePlace'
  BY <1>4 DEF Revoke, batchVars, threadVars
<1>5. ASSUME Internal PROVE OnePlace'
  BY <1>5 DEF Internal, batchVars, requestVars
<1>6. ASSUME NEW c \in Client, Submit(c) PROVE OnePlace'
  BY <1>6, <1>1 DEF Submit, batchVars
<1>7. ASSUME NEW t \in Thread, Remove(t) PROVE OnePlace'
  BY <1>7, <1>1 DEF Remove, batchVars
<1>8. ASSUME NEW w \in Worker,
             Checkout(w) \/ \E code \in Outcomes : Complete(w, code)
      PROVE  OnePlace'
  BY <1>8, <1>1 DEF Checkout, Complete, batchVars
<1>9. CASE StopBegin \/ StopClear
  BY <1>9, <1>1 DEF StopBegin, StopClear, batchVars, threadVars
<1>10. ASSUME NEW c \in Client, NEW b \in Batch, NEW n \in Lengths,
              NEW parsed \in BOOLEAN,
              NEW method \in {"parallel", "sequential", "other"},
              Invoke(c, b, method, parsed, n)
       PROVE  OnePlace'
  BY <1>10, <1>1 DEF Invoke, batchVars
<1> QED
  BY <1>2, <1>3, <1>4, <1>5, <1>6, <1>7, <1>8, <1>9, <1>10, StepKinds

\* The jobs under way grow only when one is scheduled.
LEMMA OutstandingShrinks ==
  ASSUME pool' \subseteq pool,
         \A w \in Worker : Executing(w)' => Executing(w) /\ job'[w] = job[w]
  PROVE  Outstanding' \subseteq Outstanding
BY DEF Outstanding

\* Only ScheduleJob adds to the jobs under way: a job moves from the pool to a
\* worker, is executed, or is revoked.
LEMMA OutstandingStep ==
  ASSUME TypeOK, Control, [Next]_vars
  PROVE  Outstanding' \subseteq Outstanding \/ \E t \in Thread : ScheduleJob(t)
<1> DEFINE Shrinks == Outstanding' \subseteq Outstanding
<1>0. /\ pc \in [Thread -> PC]
      /\ job \in [Thread -> Job \cup {NoJob}]
      /\ Worker \subseteq Thread /\ Client \subseteq Thread
  BY DEF TypeOK, ThreadTypes, Thread
<1> USE <1>0 DEF Goto, Executing, threadVars
<1>1. ASSUME NEW c \in Client, NEW b \in Batch, NEW n \in Lengths,
             NEW parsed \in BOOLEAN,
             NEW method \in {"parallel", "sequential", "other"},
             Invoke(c, b, method, parsed, n)
      PROVE  Shrinks
  <2>1. pool' = pool /\ job' = job /\ (pc' = pc \/ pc' = [pc EXCEPT ![c] = "submit"])
    BY <1>1 DEF Invoke
  <2> QED
    BY <2>1, OutstandingShrinks
<1>2. ASSUME NEW c \in Client, Submit(c) PROVE Shrinks
  <2>1. /\ pool' = pool /\ job' = job
        /\ pc' = [pc EXCEPT ![c] = "idle"] \/ pc' = [pc EXCEPT ![c] = "process"]
    BY <1>2 DEF Submit
  <2> QED
    BY <2>1, OutstandingShrinks
<1>3. ASSUME NEW t \in Thread, Remove(t) PROVE Shrinks
  BY <1>3, OutstandingShrinks DEF Remove
<1>4. ASSUME NEW w \in Worker, NEW j \in pool, Take(w, j) PROVE Shrinks
  <2>1. /\ pool' = pool \ {j}
        /\ \A v \in Worker :
             Executing(v)' => job'[v] = j \/ (Executing(v) /\ job'[v] = job[v])
    <3>1. /\ pool' = pool \ {j}
          /\ pc' = [pc EXCEPT ![w] = "dispatch"]
          /\ job' = [job EXCEPT ![w] = j]
      BY <1>4 DEF Take
    <3> QED
      BY <3>1
  <2> QED
    BY <2>1 DEF Outstanding
<1>5. ASSUME NEW w \in Worker, NEW code \in Outcomes, Complete(w, code) PROVE Shrinks
  BY <1>5, OutstandingShrinks DEF Complete
<1>6. ASSUME NEW w \in Worker, Checkout(w) PROVE Shrinks
  BY <1>6, OutstandingShrinks DEF Checkout
<1>7. ASSUME StopBegin \/ StopClear \/ \E j \in jobsToRevoke : Revoke(j) PROVE Shrinks
  BY <1>7, OutstandingShrinks DEF StopBegin, StopClear, Revoke
<1>8. CASE Internal
  BY <1>8 DEF Internal, Outstanding
<1> QED
  BY <1>1, <1>2, <1>3, <1>4, <1>5, <1>6, <1>7, <1>8, StepKinds

\* HasSlot is tested before a job is created, Checkout gives back the slot of a
\* job that is done, and after Stop took the active jobs the list is dead.
LEMMA StepSlots ==
  TypeOK /\ Control /\ OnePlace /\ Slots /\ [Next]_vars => Slots'
<1> SUFFICES ASSUME TypeOK, Control, OnePlace, Slots, [Next]_vars
             PROVE  Slots'
  OBVIOUS
<1>0. /\ batches \in Seq(Batch)
      /\ state \in [Batch -> {"IN_PROGRESS", "COMPLETED", "ABORTED"}]
      /\ job \in [Thread -> Job \cup {NoJob}]
      /\ shuttingDown \in BOOLEAN
  BY DEF TypeOK, ProcessorTypes, BatchTypes, ThreadTypes
<1>b. \A i \in 1 .. Len(batches) : batches[i] \in Batch
  BY <1>0
<1> USE <1>0, <1>b DEF Slots
<1>1. ASSUME NEW t \in Thread, ScheduleJob(t) PROVE Slots'
  <2> DEFINE b == batches[it[t]]
             j == <<b, current[b] + 1>>
  <2>1. it[t] \in 1 .. Len(batches)
    BY <1>1, UnderIterator DEF ScheduleJob
  <2>2. ~shuttingDown
    BY <1>1, <2>1 DEF ScheduleJob, MaySchedule
  <2>3. /\ activeJobs' = activeJobs \cup {j}
        /\ Cardinality(activeJobs) < MaxConcurrentJobs
        /\ pool' = pool \cup {j}
        /\ UNCHANGED <<batches, jobsToRevoke, shuttingDown, stop, pc, job>>
    BY <1>1 DEF ScheduleJob, PoolSubmit, HasSlot, stopVars
  <2>4. IsFiniteSet(activeJobs') /\ Cardinality(activeJobs') <= MaxConcurrentJobs
    <3>1. Cardinality(activeJobs) \in Nat
      BY FS_CardinalityType
    <3>2. /\ IsFiniteSet(activeJobs \cup {j})
          /\ \/ Cardinality(activeJobs \cup {j}) = Cardinality(activeJobs)
             \/ Cardinality(activeJobs \cup {j}) = Cardinality(activeJobs) + 1
      BY FS_AddElement
    <3> QED
      BY <2>3, <3>1, <3>2, LimitAssumption
  <2>5. Outstanding' \subseteq Outstanding \cup {j}
    BY <2>3 DEF Outstanding, Executing
  <2> QED
    BY <2>2, <2>3, <2>4, <2>5
<1> SUFFICES ASSUME Outstanding' \subseteq Outstanding
             PROVE  Slots'
  BY <1>1, OutstandingStep
<1>2. ASSUME UNCHANGED <<activeJobs, jobsToRevoke, shuttingDown, stop>>,
             \A i \in 1 .. Len(batches') :
               shuttingDown => state'[batches'[i]] \in {"COMPLETED", "ABORTED"}
      PROVE  Slots'
  BY <1>2 DEF IsFinished
<1>3. ASSUME NEW c \in Client, NEW b \in Batch, NEW n \in Lengths,
             NEW parsed \in BOOLEAN,
             NEW method \in {"parallel", "sequential", "other"},
             Invoke(c, b, method, parsed, n)
      PROVE  Slots'
  BY <1>3, <1>2 DEF Invoke, processorVars, batchVars, stopVars, IsFinished
<1>4. ASSUME NEW c \in Client, Submit(c) PROVE Slots'
  BY <1>4, <1>2 DEF Submit, batchVars, stopVars, IsFinished
<1>5. ASSUME NEW t \in Thread, Remove(t) PROVE Slots'
  <2>1. it[t] \in 1 .. Len(batches)
    BY <1>5, UnderIterator DEF Remove
  <2>2. /\ UNCHANGED <<activeJobs, jobsToRevoke, shuttingDown, stop, state>>
        /\ batches' = EraseAt(batches, it[t])
    BY <1>5 DEF Remove, batchVars, stopVars
  <2>3. \A i \in 1 .. Len(batches') : \E k \in 1 .. Len(batches) : batches'[i] = batches[k]
    BY <2>1, <2>2, EraseMembers
  <2>4. shuttingDown =>
          \A k \in 1 .. Len(batches) : state[batches[k]] \in {"COMPLETED", "ABORTED"}
    BY DEF IsFinished
  <2> QED
    BY <1>2, <2>2, <2>3, <2>4
<1>6. ASSUME NEW w \in Worker, NEW j \in pool, Take(w, j) PROVE Slots'
  BY <1>6, <1>2 DEF Take, processorVars, batchVars, stopVars, IsFinished
<1>7. ASSUME NEW w \in Worker, NEW code \in Outcomes, Complete(w, code) PROVE Slots'
  <2>1. UNCHANGED <<batches, activeJobs, jobsToRevoke, shuttingDown, stop>>
    BY <1>7 DEF Complete, processorVars, stopVars
  <2>2. \A c \in Batch : IsFinished(c) => IsFinished(c)'
    BY <1>7 DEF Complete, CompleteRequest, IsFinished
  <2> QED
    BY <2>1, <2>2 DEF IsFinished
<1>8. ASSUME NEW w \in Worker, Checkout(w) PROVE Slots'
  <2>1. /\ UNCHANGED <<batches, jobsToRevoke, shuttingDown, stop, state, pool, job>>
        /\ activeJobs' = IF shuttingDown THEN activeJobs ELSE activeJobs \ {job[w]}
        /\ ~Executing(w) /\ job[w] \in Job
    BY <1>8 DEF Checkout, Remaining, batchVars, stopVars, Executing, Control, Thread
  <2>2. job[w] \notin Outstanding
    BY <2>1 DEF Outstanding, OnePlace
  <2>3. IsFiniteSet(activeJobs') /\ Cardinality(activeJobs') <= MaxConcurrentJobs
    <3>1. activeJobs' \subseteq activeJobs
      BY <2>1
    <3>2. IsFiniteSet(activeJobs') /\ Cardinality(activeJobs') <= Cardinality(activeJobs)
      BY <3>1, FS_Subset
    <3> QED
      BY <3>2, FS_CardinalityType, LimitAssumption
  <2> QED
    BY <2>1, <2>2, <2>3 DEF IsFinished
<1>9. CASE StopBegin
  <2>1. /\ batches' = batches
        /\ activeJobs' = {} /\ jobsToRevoke' = activeJobs
        /\ shuttingDown' /\ stop' # "running" /\ ~shuttingDown
    BY <1>9 DEF StopBegin
  <2>2. \A i \in 1 .. Len(batches) : IsFinished(batches[i])'
    BY <1>9 DEF StopBegin, Members, IsFinished
  <2>3. Cardinality({}) <= MaxConcurrentJobs /\ IsFiniteSet({})
    BY FS_EmptySet, LimitAssumption
  <2> QED
    BY <2>1, <2>2, <2>3 DEF IsFinished
<1>10. ASSUME NEW j \in jobsToRevoke, Revoke(j) PROVE Slots'
  <2>1. /\ UNCHANGED <<batches, activeJobs, shuttingDown, stop, state, pc, job>>
        /\ jobsToRevoke' = jobsToRevoke \ {j} /\ pool' = pool \ {j}
        /\ \A w \in Worker : job[w] # j
    BY <1>10 DEF Revoke, processorVars, batchVars, threadVars
  <2>2. j \notin Outstanding'
    BY <2>1 DEF Outstanding, Executing
  <2>3. IsFiniteSet(jobsToRevoke') /\ Cardinality(jobsToRevoke') <= MaxConcurrentJobs
    <3>1. jobsToRevoke' \subseteq jobsToRevoke
      BY <2>1
    <3>2. IsFiniteSet(jobsToRevoke') /\ Cardinality(jobsToRevoke') <= Cardinality(jobsToRevoke)
      BY <3>1, FS_Subset
    <3> QED
      BY <3>2, FS_CardinalityType, LimitAssumption
  <2> QED
    BY <2>1, <2>2, <2>3 DEF IsFinished
<1>11. CASE StopClear
  BY <1>11 DEF StopClear
<1>12. CASE Internal
  BY <1>12 DEF Internal, batchVars, requestVars, IsFinished
<1> QED
  BY <1>1, <1>3, <1>4, <1>5, <1>6, <1>7, <1>8, <1>9, <1>10, <1>11, <1>12, StepKinds

\* Process schedules a sequential batch only when it has no active job, and
\* CompleteRequest completes the request handed out last.
LEMMA StepOneAtATime ==
  TypeOK /\ Control /\ Admitted /\ OnePlace /\ OneAtATime /\ [Next]_vars => OneAtATime'
<1> SUFFICES ASSUME TypeOK, Control, Admitted, OnePlace, OneAtATime, [Next]_vars
             PROVE  OneAtATime'
  OBVIOUS
<1>0. /\ concurrent \in [Batch -> BOOLEAN]
      /\ current \in [Batch -> 0 .. MaxBatchSize]
      /\ activeCount \in [Batch -> Int]
      /\ job \in [Thread -> Job \cup {NoJob}]
      /\ pc \in [Thread -> PC]
      /\ pool \subseteq Job
      /\ Worker \subseteq Thread
  BY DEF TypeOK, ProcessorTypes, BatchTypes, ThreadTypes, Thread
<1>b. \A j \in Outstanding : j[2] <= current[j[1]]
  BY <1>0, NoJobIsNone DEF Outstanding, OnePlace, Executing, Control
<1>1. ASSUME NEW t \in Thread, ScheduleJob(t) PROVE OneAtATime'
  <2> DEFINE b == batches[it[t]]
             j == <<b, current[b] + 1>>
  <2>1. b \in Batch
    BY <1>1, UnderIterator DEF ScheduleJob
  <2>2. /\ current' = [current EXCEPT ![b] = current[b] + 1]
        /\ activeCount' = [activeCount EXCEPT ![b] = activeCount[b] + 1]
        /\ pool' = pool \cup {j}
        /\ UNCHANGED <<concurrent, isCompleted, pc, job>>
    BY <1>1 DEF ScheduleJob, PoolSubmit, shapeVars, requestVars
  <2>3. Outstanding' = Outstanding \cup {j}
    BY <2>2 DEF Outstanding, Executing
  <2>4. j[1] = b /\ j[2] = current[b] + 1
    OBVIOUS
  <2>5. Sequential(b) => activeCount[b] = 0
    BY <1>1, <2>1 DEF ScheduleJob, MaySchedule, IsActive, OneAtATime
  <2> HIDE DEF j
  <2>6. ASSUME NEW c \in Batch, Sequential(c)'
        PROVE  /\ activeCount'[c] \in {0, 1}
               /\ \A k \in 1 .. (current'[c] - activeCount'[c]) : <<c, k>> \in isCompleted'
               /\ \A i \in Outstanding' : i[1] = c => i[2] = current'[c] /\ activeCount'[c] = 1
    <3>1. CASE c = b
      <4>1. Sequential(b) /\ activeCount[b] = 0
        BY <2>2, <2>5, <2>6, <3>1 DEF Sequential
      <4>2. activeCount'[b] = 1 /\ current'[b] = current[b] + 1 /\ current[b] \in Nat
        BY <1>0, <2>1, <2>2, <4>1
      <4>3. \A i \in Outstanding : i[1] # b
        BY <2>1, <4>1 DEF OneAtATime
      <4>4. \A k \in 1 .. current[b] : <<b, k>> \in isCompleted
        BY <1>0, <2>1, <4>1 DEF OneAtATime
      <4> QED
        BY <2>2, <2>3, <2>4, <3>1, <4>2, <4>3, <4>4
    <3>2. CASE c # b
      <4>1. activeCount'[c] = activeCount[c] /\ current'[c] = current[c]
        BY <1>0, <2>2, <3>2
      <4>2. Sequential(c)
        BY <2>2, <2>6 DEF Sequential
      <4> QED
        BY <2>2, <2>3, <2>4, <3>2, <4>1, <4>2 DEF OneAtATime
    <3> QED
      BY <3>1, <3>2
  <2> QED
    BY <2>6 DEF OneAtATime
<1> SUFFICES ASSUME Outstanding' \subseteq Outstanding
             PROVE  OneAtATime'
  BY <1>1, OutstandingStep
<1>2. ASSUME UNCHANGED <<concurrent, current, activeCount, isCompleted>>
      PROVE  OneAtATime'
  BY <1>2 DEF OneAtATime, Sequential
<1>3. ASSUME NEW c \in Client, NEW b \in Batch, NEW n \in Lengths,
             NEW parsed \in BOOLEAN,
             NEW method \in {"parallel", "sequential", "other"},
             Invoke(c, b, method, parsed, n)
      PROVE  OneAtATime'
  <2>1. /\ verdict[b] = "unsent"
        /\ \A d \in Batch : d # b => concurrent'[d] = concurrent[d]
        /\ UNCHANGED <<current, activeCount, isCompleted>>
    BY <1>0, <1>3 DEF Invoke, batchVars, requestVars, shapeVars
  <2>2. current[b] = 0 /\ activeCount[b] = 0
    BY <2>1 DEF Admitted
  <2>3. \A j \in Outstanding : j[1] # b
    <3>1. \A j \in Outstanding : j \in Job
      BY <1>0 DEF Outstanding, Executing, Control
    <3> QED
      BY <1>b, <2>2, <3>1, LimitAssumption DEF Job, Index
  <2> QED
    BY <2>1, <2>2, <2>3 DEF OneAtATime, Sequential
<1>4. ASSUME NEW w \in Worker, NEW code \in Outcomes, Complete(w, code) PROVE OneAtATime'
  <2> DEFINE j == job[w]
             b == j[1]
  <2>1. j \in Job /\ b \in Batch /\ j = <<b, j[2]>> /\ j \in Outstanding
    BY <1>4 DEF Complete, Control, Job, Outstanding, Executing, Thread
  <2>2. /\ isCompleted' = isCompleted \cup {j}
        /\ activeCount' = [activeCount EXCEPT ![b] = activeCount[b] - 1]
        /\ pc' = [pc EXCEPT ![w] = "checkout"]
        /\ UNCHANGED <<concurrent, current, pool, job>>
    BY <1>4 DEF Complete, CompleteRequest, Release, shapeVars, Goto
  <2>3. j \notin Outstanding'
    BY <1>0, <2>1, <2>2 DEF OnePlace, Outstanding, Executing
  <2> HIDE DEF j
  <2>4. ASSUME NEW c \in Batch, Sequential(c)'
        PROVE  /\ activeCount'[c] \in {0, 1}
               /\ \A k \in 1 .. (current'[c] - activeCount'[c]) : <<c, k>> \in isCompleted'
               /\ \A i \in Outstanding' : i[1] = c => i[2] = current'[c] /\ activeCount'[c] = 1
    <3>0. Sequential(c)
      BY <2>2, <2>4 DEF Sequential
    <3>1. CASE c = b
      <4>1. j[2] = current[b] /\ activeCount[b] = 1
        BY <2>1, <3>0, <3>1 DEF OneAtATime
      <4>2. activeCount'[b] = 0 /\ current'[b] = current[b] /\ current[b] \in Nat
        BY <1>0, <2>1, <2>2, <4>1
      <4>3. \A k \in 1 .. (current[b] - 1) : <<b, k>> \in isCompleted
        BY <3>0, <3>1, <4>1 DEF OneAtATime
      <4>4. \A k \in 1 .. current[b] : <<b, k>> \in isCompleted'
        BY <2>1, <2>2, <4>1, <4>2, <4>3
      <4>5. \A i \in Outstanding' : i[1] # b
        <5>1. \A i \in Outstanding : i \in Job
          BY <1>0 DEF Outstanding, Executing, Control
        <5>2. \A i \in Outstanding : i[1] = b => i[2] = current[b] /\ i = <<b, i[2]>>
          BY <3>0, <3>1, <5>1 DEF OneAtATime, Job
        <5> QED
          BY <2>1, <2>3, <4>1, <5>2
      <4> QED
        BY <3>1, <4>2, <4>4, <4>5
    <3>2. CASE c # b
      BY <1>0, <2>2, <3>0, <3>2 DEF OneAtATime
    <3> QED
      BY <3>1, <3>2
  <2> QED
    BY <2>4 DEF OneAtATime
<1>5. ASSUME NEW c \in Client, Submit(c) PROVE OneAtATime'
  BY <1>5, <1>2 DEF Submit, shapeVars, batchVars, requestVars
<1>6. ASSUME NEW t \in Thread, Remove(t) PROVE OneAtATime'
  BY <1>6, <1>2 DEF Remove, shapeVars, batchVars, requestVars
<1>7. ASSUME NEW w \in Worker, Checkout(w) \/ \E j \in pool : Take(w, j)
      PROVE  OneAtATime'
  BY <1>7, <1>2 DEF Checkout, Take, shapeVars, batchVars, requestVars
<1>8. ASSUME StopBegin \/ StopClear \/ \E j \in jobsToRevoke : Revoke(j)
      PROVE  OneAtATime'
  BY <1>8, <1>2 DEF StopBegin, StopClear, Revoke, shapeVars, batchVars, requestVars
<1>9. CASE Internal
  BY <1>9, <1>2 DEF Internal, batchVars, requestVars
<1> QED
  BY <1>1, <1>3, <1>4, <1>5, <1>6, <1>7, <1>8, <1>9, StepKinds

-----------------------------------------------------------------------------
\* The invariant holds in every reachable state of the Processor.
THEOREM Invariance == Spec => []IndInv
<1>1. Init => IndInv
  BY InitInv
<1>2. IndInv /\ [Next]_vars => IndInv'
  BY StepTypes, StepControl, StepAdmitted, StepOnePlace, StepSlots, StepOneAtATime
     DEF IndInv
<1> QED
  BY <1>1, <1>2, PTL DEF Spec

\* Every variable keeps its type.
THEOREM TypeCorrect == Spec => []TypeOK
<1>1. IndInv => TypeOK
  BY DEF IndInv
<1> QED
  BY <1>1, Invariance, PTL

\* The jobs under way are counted by the slots of _activeJobs, before Stop, or
\* by the list it revokes: there are never more than MaxConcurrentJobs.
THEOREM JobLimitHolds == Spec => []JobLimit
<1>1. ASSUME IndInv PROVE JobLimit
  <2>1. PICK S : /\ IsFiniteSet(S) /\ Cardinality(S) <= MaxConcurrentJobs
                 /\ Outstanding \subseteq S
    <3>1. CASE shuttingDown
      BY <1>1, <3>1 DEF IndInv, Slots
    <3>2. CASE ~shuttingDown
      BY <1>1, <3>2 DEF IndInv, Slots
    <3> QED
      BY <3>1, <3>2
  <2>2. Cardinality(Outstanding) <= Cardinality(S)
    BY <2>1, FS_Subset
  <2>3. Cardinality(Outstanding) \in Nat /\ Cardinality(S) \in Nat
    BY <2>1, FS_Subset, FS_CardinalityType
  <2> QED
    BY <2>1, <2>2, <2>3, LimitAssumption DEF JobLimit
<1> QED
  BY <1>1, Invariance, PTL

\* A sequential batch runs its requests one after the other, in order.
THEOREM InOrderHolds == Spec => []InOrder
<1>1. ASSUME IndInv PROVE InOrder
  <2>1. Outstanding \subseteq Job
    BY <1>1 DEF IndInv, TypeOK, ProcessorTypes, Control, Outstanding, Executing, Thread
  <2>2. ASSUME NEW b \in Batch, Sequential(b)
        PROVE  \A j \in Outstanding : j[1] = b =>
                 /\ j = <<b, current[b]>>
                 /\ \A k \in 1 .. (j[2] - 1) : <<b, k>> \in isCompleted
    <3>1. \A j \in Outstanding : j[1] = b => j[2] = current[b] /\ activeCount[b] = 1
      BY <1>1, <2>2 DEF IndInv, OneAtATime
    <3>2. \A k \in 1 .. (current[b] - activeCount[b]) : <<b, k>> \in isCompleted
      BY <1>1, <2>2 DEF IndInv, OneAtATime
    <3> QED
      BY <2>1, <3>1, <3>2 DEF Job
  <2> QED
    BY <2>2 DEF InOrder
<1> QED
  BY <1>1, Invariance, PTL

\* Nothing is scheduled once Stop began, though Process does not look at
\* _shuttingDown again after it answered a batch.
THEOREM NothingScheduledHolds == Spec => NothingScheduledAfterStop
<1>1. IndInv /\ [Next]_vars => [shuttingDown => pool' \subseteq pool]_vars
  <2> SUFFICES ASSUME IndInv, [Next]_vars, shuttingDown
               PROVE  pool' \subseteq pool
    OBVIOUS
  <2>1. ASSUME NEW t \in Thread, ScheduleJob(t) PROVE FALSE
    <3>1. it[t] \in 1 .. Len(batches)
      BY <2>1, UnderIterator DEF ScheduleJob, IndInv
    <3> QED
      BY <2>1, <3>1 DEF ScheduleJob, MaySchedule, IndInv, Slots
  <2> QED
    BY <2>1, StepKinds
       DEF IndInv, Invoke, Submit, Remove, Take, Complete, Checkout, StopBegin,
           Revoke, StopClear, Internal
<1> QED
  BY <1>1, Invariance, PTL DEF Spec, NothingScheduledAfterStop
=============================================================================
