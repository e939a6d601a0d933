---------------------------- MODULE JsonRpcMuxer ----------------------------
(***************************************************************************)
(* The JsonRpcMuxer plugin: clients hand in batches of JSON-RPC requests,  *)
(* the Processor schedules them as jobs on the worker pool, at most        *)
(* MaxConcurrentJobs at a time, and answers a batch when all its requests  *)
(* are done.  Client threads (Submit) and worker threads (Checkout) run    *)
(* Process() concurrently; Process() gives up Processor::_lock while it    *)
(* answers a finished batch.  A separate thread runs Deinitialize().       *)
(*                                                                         *)
(* A step is a critical section, or the part of one that lies between two  *)
(* points where another thread can be observed.  Behaviour the C++ leaves  *)
(* undefined (a dangling iterator, a deleted batch, a deleted processor)   *)
(* puts the thread in "undefined", and the model stops there.              *)
(***************************************************************************)
EXTENDS Integers, FiniteSets, Sequences

CONSTANTS
  Batch,              \* the batch requests clients may send
  Worker,             \* threads of the worker pool
  Client,             \* threads that call JsonRpcMuxer::Invoke
  MaxConcurrentJobs,  \* Processor::_maxConcurrentJobs
  MaxBatchSize,       \* JsonRpcMuxer::_maxBatchSize
  Lengths,            \* lengths of the message arrays the clients send
  Outcomes,           \* codes IDispatcher::Invoke may return
  Nobody              \* no thread, no batch

ASSUME NobodyAssumption == Nobody \notin Worker \cup Client \cup Batch
ASSUME ThreadAssumption == Worker \cap Client = {}
ASSUME LimitAssumption  == MaxConcurrentJobs \in Nat /\ MaxBatchSize \in Nat
ASSUME LengthAssumption == Lengths \subseteq Nat
ASSUME OutcomeAssumption == "nothing" \notin Outcomes

Thread == Worker \cup Client
Index  == 1 .. MaxBatchSize
Job    == Batch \X Index

NoJob  == <<Nobody, 0>>

VARIABLES
  \* Processor
  lock, batches, capacity, activeJobs, shuttingDown,
  \* Batch
  life, concurrent, length, state, current, completed, activeCount,
  \* Request: which are completed, and with which code
  isCompleted, errorCode,
  \* the worker pool's queue
  pool,
  \* the threads: program counter, the job a worker runs, the batch a thread
  \* is submitting or answering, the iterator and the flag of Process
  pc, job, held, it, scheduledJob, dangling,
  \* Deinitialize / Processor::Stop
  stop, jobsToRevoke,
  \* history: Invoke's result for a batch, the answers sent, and what
  \* IDispatcher::Invoke returned for a request
  verdict, answers, response, returned

processorVars == <<lock, batches, capacity, activeJobs, shuttingDown>>
shapeVars     == <<concurrent, length>>
batchVars     == <<state, current, completed, activeCount>>
requestVars   == <<isCompleted, errorCode, returned>>
threadVars    == <<pc, job, held, it, scheduledJob, dangling>>
stopVars      == <<stop, jobsToRevoke>>
answerVars    == <<answers, response>>

vars == <<processorVars, life, shapeVars, batchVars, requestVars, pool,
          threadVars, stopVars, verdict, answerVars>>

-----------------------------------------------------------------------------
(* Batch and Request.                                                      *)

\* Variants that a slip in the code would give are kept beside the definitions
\* they vary, named Slip..., to show that the properties notice them.
SlipFinished(b) == state[b] = "COMPLETED"
IsFinished(b) == state[b] \in {"COMPLETED", "ABORTED"}
Sequential(b) == ~concurrent[b]
SlipActive(b) == FALSE
IsActive(b)   == activeCount[b] > 0

\* Batch::GetRequest has a request to hand out
SlipHasRequest(b) == current[b] <= length[b]
HasRequest(b) == current[b] < length[b]

\* The iterator a thread kept across the unlock points into the buffer that
\* push_back has to replace.
InWindow == {t \in Thread : pc[t] \in {"answer", "relock"}}

\* Batch::Serialize: what the response says of request i.  A request that is
\* not completed is reported as an error too.
Serialize(b) ==
  [i \in 1 .. length[b] |->
     IF <<b, i>> \in isCompleted
       THEN IF errorCode[<<b, i>>] = "ERROR_NONE"
              THEN [kind |-> "result", code |-> "ERROR_NONE"]
              ELSE [kind |-> "error", code |-> errorCode[<<b, i>>]]
       ELSE [kind |-> "error", code |-> "ERROR_GENERAL"]]

SlipErase(s, k) == s

\* std::vector::erase of the element at position k
EraseAt(s, k) ==
  [i \in 1 .. (Len(s) - 1) |-> IF i < k THEN s[i] ELSE s[i + 1]]

Init ==
  /\ lock = Nobody
  /\ batches = << >>
  /\ capacity = 0
  /\ activeJobs = {}
  /\ shuttingDown = FALSE
  /\ life = [b \in Batch |-> "none"]
  /\ concurrent = [b \in Batch |-> FALSE]
  /\ length = [b \in Batch |-> 0]
  /\ state = [b \in Batch |-> "IN_PROGRESS"]
  /\ current = [b \in Batch |-> 0]
  /\ completed = [b \in Batch |-> 0]
  /\ activeCount = [b \in Batch |-> 0]
  /\ isCompleted = {}
  /\ errorCode = [j \in Job |-> "ERROR_GENERAL"]
  /\ returned = [j \in Job |-> "nothing"]
  /\ pool = {}
  /\ pc = [t \in Thread |-> "idle"]
  /\ job = [t \in Thread |-> NoJob]
  /\ held = [t \in Thread |-> Nobody]
  /\ it = [t \in Thread |-> 0]
  /\ scheduledJob = [t \in Thread |-> FALSE]
  /\ dangling = {}
  /\ stop = "running"
  /\ jobsToRevoke = {}
  /\ verdict = [b \in Batch |-> "unsent"]
  /\ answers = [b \in Batch |-> 0]
  /\ response = [b \in Batch |-> << >>]

Crashed == \E t \in Thread : pc[t] = "undefined"

\* The Processor object is gone: its members may not be touched any more.
Freed == stop \in {"freed", "offline"}

Goto(t, l) == pc' = [pc EXCEPT ![t] = l]

\* Process, and with it the thread's call, returns
Return(t) ==
  /\ pc' = [pc EXCEPT ![t] = "idle"]
  /\ job' = [job EXCEPT ![t] = NoJob]
  /\ it' = [it EXCEPT ![t] = 0]
  /\ scheduledJob' = [scheduledJob EXCEPT ![t] = FALSE]
  /\ UNCHANGED <<held, dangling>>

-----------------------------------------------------------------------------
(* JsonRpcMuxer::Invoke and Processor::Submit, on a client's thread.       *)

\* The code a request is refused with, or "pending" if it goes to Submit
Examine(method, parsed, n) ==
  IF stop = "offline" THEN "ERROR_UNAVAILABLE"
  ELSE IF method \notin {"parallel", "sequential"} THEN "ERROR_UNKNOWN_METHOD"
  ELSE IF ~parsed THEN "ERROR_PARSE_FAILURE"
  ELSE IF n = 0 \/ n > MaxBatchSize THEN "ERROR_BAD_REQUEST"
  ELSE "pending"

\* The checks before Submit; a batch that passes them goes to Submit.
Invoke(c, b, method, parsed, n) ==
  LET v == Examine(method, parsed, n)
  IN /\ pc[c] = "idle"
     /\ verdict[b] = "unsent"
     /\ verdict' = [verdict EXCEPT ![b] = v]
     /\ IF v = "pending"
          THEN /\ Goto(c, "submit")
               /\ held' = [held EXCEPT ![c] = b]
               /\ concurrent' = [concurrent EXCEPT ![b] = (method = "parallel")]
               /\ length' = [length EXCEPT ![b] = n]
          ELSE UNCHANGED <<pc, held, shapeVars>>
     /\ UNCHANGED <<processorVars, life, batchVars, requestVars, pool, job, it,
                    scheduledJob, dangling, stopVars, answerVars>>

\* Submit refuses while shutting down, else creates the batch and appends it;
\* push_back moves the buffer when it is full (it doubles, from 0 to 1).
Submit(c) ==
  LET b == held[c] IN
  /\ pc[c] = "submit"
  /\ lock = Nobody
  /\ held' = [held EXCEPT ![c] = Nobody]
  /\ IF shuttingDown
       THEN /\ verdict' = [verdict EXCEPT ![b] = "ERROR_ABORTED"]
            /\ Goto(c, "idle")
            /\ UNCHANGED <<batches, capacity, life, dangling>>
       ELSE /\ verdict' = [verdict EXCEPT ![b] = "accepted"]
            /\ Goto(c, "process")
            /\ life' = [life EXCEPT ![b] = "live"]
            /\ batches' = Append(batches, b)
            /\ IF Len(batches) = capacity
                 THEN /\ capacity' = IF capacity = 0 THEN 1 ELSE 2 * capacity
                      /\ dangling' = dangling \cup InWindow
                 ELSE UNCHANGED <<capacity, dangling>>
  /\ UNCHANGED <<lock, activeJobs, shuttingDown, shapeVars, batchVars,
                 requestVars, pool, job, it, scheduledJob, stopVars, answerVars>>

-----------------------------------------------------------------------------
(* Processor::Process, on any thread.                                      *)

SlipQuit(t) == Return(t) /\ lock' = t
\* Process finds the processor shutting down: it unlocks and returns
Quit(t) == Return(t) /\ UNCHANGED lock

Enter(t) ==
  /\ pc[t] = "process"
  /\ lock = Nobody
  /\ IF shuttingDown
       THEN Quit(t)
       ELSE /\ lock' = t
            /\ Goto(t, "scan")
            /\ it' = [it EXCEPT ![t] = 1]
            /\ UNCHANGED <<job, held, scheduledJob, dangling>>
  /\ UNCHANGED <<batches, capacity, activeJobs, shuttingDown, life, shapeVars,
                 batchVars, requestVars, pool, stopVars, verdict, answerVars>>

\* The batch under the iterator is not finished: ++it
PassOver(t) ==
  /\ pc[t] = "scan"
  /\ it[t] <= Len(batches)
  /\ ~IsFinished(batches[it[t]])
  /\ it' = [it EXCEPT ![t] = @ + 1]
  /\ UNCHANGED <<processorVars, life, shapeVars, batchVars, requestVars, pool,
                 pc, job, held, scheduledJob, dangling, stopVars, verdict,
                 answerVars>>

\* The batch under the iterator is finished: erase it and give up the lock
Remove(t) ==
  /\ pc[t] = "scan"
  /\ it[t] <= Len(batches)
  /\ IsFinished(batches[it[t]])
  /\ held' = [held EXCEPT ![t] = batches[it[t]]]
  /\ batches' = EraseAt(batches, it[t])
  /\ lock' = Nobody
  /\ Goto(t, "answer")
  /\ UNCHANGED <<capacity, activeJobs, shuttingDown, life, shapeVars,
                 batchVars, requestVars, pool, job, it, scheduledJob, dangling,
                 stopVars, verdict, answerVars>>

\* Answer, then delete the batch, without the lock
Answer(t) ==
  LET b == held[t] IN
  /\ pc[t] = "answer"
  /\ answers' = [answers EXCEPT ![b] = @ + 1]
  /\ response' = [response EXCEPT ![b] = Serialize(b)]
  /\ life' = [life EXCEPT ![b] = "deleted"]
  /\ held' = [held EXCEPT ![t] = Nobody]
  /\ Goto(t, "relock")
  /\ UNCHANGED <<processorVars, shapeVars, batchVars, requestVars, pool, job,
                 it, scheduledJob, dangling, stopVars, verdict>>

\* Take the lock again and go on with the same iterator, whatever the other
\* threads did to the vector: a position past end(), or one in a buffer that
\* was replaced, makes the scan read what is not there.
Relock(t) ==
  /\ pc[t] = "relock"
  /\ lock = Nobody
  /\ lock' = t
  /\ Goto(t, IF t \in dangling \/ it[t] > Len(batches) + 1
               THEN "undefined" ELSE "scan")
  /\ UNCHANGED <<batches, capacity, activeJobs, shuttingDown, life, shapeVars,
                 batchVars, requestVars, pool, job, held, it, scheduledJob,
                 dangling, stopVars, verdict, answerVars>>

\* The scan reached the end: start to schedule, from the first batch
EndScan(t) ==
  /\ pc[t] = "scan"
  /\ it[t] = Len(batches) + 1
  /\ Goto(t, "schedule")
  /\ it' = [it EXCEPT ![t] = 1]
  /\ UNCHANGED <<processorVars, life, shapeVars, batchVars, requestVars, pool,
                 job, held, scheduledJob, dangling, stopVars, verdict,
                 answerVars>>

SlipHasSlot == Cardinality(activeJobs) <= MaxConcurrentJobs
HasSlot == Cardinality(activeJobs) < MaxConcurrentJobs

\* A job for batch b may be created now
MaySchedule(b) ==
  /\ ~IsFinished(b)
  /\ ~(Sequential(b) /\ IsActive(b))
  /\ HasRequest(b)

SlipPoolSubmit(j) == pool' = {j}
\* WorkerPool::Submit
PoolSubmit(j) == pool' = pool \cup {j}

ScheduleJob(t) ==
  LET b == batches[it[t]]
      j == <<b, current[b] + 1>>
  IN /\ pc[t] = "schedule"
     /\ it[t] <= Len(batches)
     /\ HasSlot
     /\ MaySchedule(b)
     /\ current' = [current EXCEPT ![b] = @ + 1]
     /\ activeCount' = [activeCount EXCEPT ![b] = @ + 1]
     /\ activeJobs' = activeJobs \cup {j}
     /\ PoolSubmit(j)
     /\ scheduledJob' = [scheduledJob EXCEPT ![t] = TRUE]
     /\ it' = [it EXCEPT ![t] = IF Sequential(b) THEN @ + 1 ELSE @]
     /\ UNCHANGED <<lock, batches, capacity, shuttingDown, life, shapeVars,
                    state, completed, requestVars, pc, job, held, dangling,
                    stopVars, verdict, answerVars>>

NextBatch(t) ==
  /\ pc[t] = "schedule"
  /\ it[t] <= Len(batches)
  /\ HasSlot
  /\ ~MaySchedule(batches[it[t]])
  /\ it' = [it EXCEPT ![t] = @ + 1]
  /\ UNCHANGED <<processorVars, life, shapeVars, batchVars, requestVars, pool,
                 pc, job, held, scheduledJob, dangling, stopVars, verdict,
                 answerVars>>

\* The pass over the batches ends; another follows if this one scheduled
\* something and a slot is left, else Process returns.
EndPass(t) ==
  /\ pc[t] = "schedule"
  /\ HasSlot => it[t] > Len(batches)
  /\ IF HasSlot /\ scheduledJob[t]
       THEN /\ it' = [it EXCEPT ![t] = 1]
            /\ scheduledJob' = [scheduledJob EXCEPT ![t] = FALSE]
            /\ UNCHANGED <<lock, pc, job, held, dangling>>
       ELSE lock' = Nobody /\ Return(t)
  /\ UNCHANGED <<batches, capacity, activeJobs, shuttingDown, life, shapeVars,
                 batchVars, requestVars, pool, stopVars, verdict, answerVars>>

Process(t) ==
  Enter(t) \/ PassOver(t) \/ Remove(t) \/ Answer(t) \/ Relock(t) \/ EndScan(t)
    \/ ScheduleJob(t) \/ NextBatch(t) \/ EndPass(t)

-----------------------------------------------------------------------------
(* Job::Dispatch, on a thread of the worker pool.                          *)

\* The pool hands a queued job to a free thread
Take(w, j) ==
  /\ pc[w] = "idle"
  /\ j \in pool
  /\ pool' = pool \ {j}
  /\ job' = [job EXCEPT ![w] = j]
  /\ Goto(w, "dispatch")
  /\ UNCHANGED <<processorVars, life, shapeVars, batchVars, requestVars, held,
                 it, scheduledJob, dangling, stopVars, verdict, answerVars>>

\* The check of _shuttingDown, without the lock
Dispatch(w) ==
  /\ pc[w] = "dispatch"
  /\ IF shuttingDown
       THEN Return(w)
       ELSE Goto(w, "invoke") /\ UNCHANGED <<job, held, it, scheduledJob, dangling>>
  /\ UNCHANGED <<processorVars, life, shapeVars, batchVars, requestVars, pool,
                 stopVars, verdict, answerVars>>

SlipLast(b) == completed[b] + 2 >= length[b]
\* The request being completed is the last one of its batch
Last(b) == completed[b] + 1 = length[b]

SlipRelease(b) == activeCount' = activeCount
\* _activeJobCount--
Release(b) == activeCount' = [activeCount EXCEPT ![b] = @ - 1]

SlipKeep(j, code) == errorCode[j]
\* The request's _errorCode, which ERROR_NONE leaves as it was constructed
Keep(j, code) == IF code = "ERROR_NONE" THEN errorCode[j] ELSE code

\* Batch::CompleteRequest: a code other than ERROR_NONE is kept, and the
\* batch is COMPLETED with its last request unless it was aborted.
CompleteRequest(j, code) ==
  LET b == j[1] IN
  /\ isCompleted' = isCompleted \cup {j}
  /\ errorCode' = [errorCode EXCEPT ![j] = Keep(j, code)]
  /\ IF IsFinished(b)
       THEN UNCHANGED <<completed, state>>
       ELSE /\ completed' = [completed EXCEPT ![b] = @ + 1]
            /\ state' = [state EXCEPT ![b] =
                           IF Last(b) THEN "COMPLETED" ELSE @]
  /\ Release(b)

\* IDispatcher::Invoke returns with a code, and Request::Set records it
Complete(w, code) ==
  /\ pc[w] = "invoke"
  /\ life[job[w][1]] = "live"
  /\ CompleteRequest(job[w], code)
  /\ returned' = [returned EXCEPT ![job[w]] = code]
  /\ Goto(w, "checkout")
  /\ UNCHANGED <<processorVars, life, shapeVars, current, pool, job, held, it,
                 scheduledJob, dangling, stopVars, verdict, answerVars>>

SlipRemaining(w) == activeJobs
\* Checkout finds its job in _activeJobs and erases it; Stop took them all
Remaining(w) == IF shuttingDown THEN activeJobs ELSE activeJobs \ {job[w]}

Checkout(w) ==
  /\ pc[w] = "checkout"
  /\ lock = Nobody
  /\ activeJobs' = Remaining(w)
  /\ Goto(w, "leave")
  /\ UNCHANGED <<lock, batches, capacity, shuttingDown, life, shapeVars,
                 batchVars, requestVars, pool, job, held, it, scheduledJob,
                 dangling, stopVars, verdict, answerVars>>

SlipLeave(w) ==
  /\ pc[w] = "leave"
  /\ Return(w)
  /\ UNCHANGED <<processorVars, life, shapeVars, batchVars, requestVars, pool,
                 stopVars, verdict, answerVars>>

\* The second check of _shuttingDown in Checkout, again without the lock
Leave(w) ==
  /\ pc[w] = "leave"
  /\ IF shuttingDown
       THEN Return(w)
       ELSE Goto(w, "process") /\ UNCHANGED <<job, held, it, scheduledJob, dangling>>
  /\ UNCHANGED <<processorVars, life, shapeVars, batchVars, requestVars, pool,
                 stopVars, verdict, answerVars>>

-----------------------------------------------------------------------------
(* JsonRpcMuxer::Deinitialize: delete _processor, which calls Stop.        *)

Members(s) == {s[i] : i \in 1 .. Len(s)}

StopBegin ==
  /\ stop = "running"
  /\ lock = Nobody
  /\ stop' = "revoking"
  /\ shuttingDown' = TRUE
  /\ state' = [b \in Batch |-> IF b \in Members(batches) THEN "ABORTED" ELSE state[b]]
  /\ jobsToRevoke' = activeJobs
  /\ activeJobs' = {}
  /\ UNCHANGED <<lock, batches, capacity, life, shapeVars, current, completed,
                 activeCount, requestVars, pool, threadVars, verdict, answerVars>>

\* WorkerPool::Revoke(job, infinite): drop the job from the queue, or wait
\* until the thread that runs it is through with it.
Revoke(j) ==
  /\ stop = "revoking"
  /\ j \in jobsToRevoke
  /\ \A w \in Worker : job[w] # j
  /\ jobsToRevoke' = jobsToRevoke \ {j}
  /\ pool' = pool \ {j}
  /\ UNCHANGED <<processorVars, life, shapeVars, batchVars, requestVars,
                 threadVars, stop, verdict, answerVars>>

\* Stop deletes the batches it finds in the list
StopClear ==
  /\ stop = "revoking"
  /\ jobsToRevoke = {}
  /\ lock = Nobody
  /\ stop' = "cleared"
  /\ life' = [b \in Batch |-> IF b \in Members(batches) THEN "deleted" ELSE life[b]]
  /\ batches' = << >>
  /\ UNCHANGED <<lock, capacity, activeJobs, shuttingDown, shapeVars, batchVars,
                 requestVars, pool, threadVars, jobsToRevoke, verdict, answerVars>>

\* The Processor is freed; then _processor is set to null
Free ==
  /\ stop \in {"cleared", "freed"}
  /\ stop' = IF stop = "cleared" THEN "freed" ELSE "offline"
  /\ UNCHANGED <<processorVars, life, shapeVars, batchVars, requestVars, pool,
                 threadVars, jobsToRevoke, verdict, answerVars>>

Stop == StopBegin \/ (\E j \in jobsToRevoke : Revoke(j)) \/ StopClear \/ Free

-----------------------------------------------------------------------------
\* A thread uses the Processor after it was freed, or a batch after it was
\* deleted.
UseAfterFree(t) ==
  /\ \/ Freed /\ pc[t] \notin {"idle", "invoke"}
     \/ pc[t] = "invoke" /\ life[job[t][1]] = "deleted"
  /\ Goto(t, "undefined")
  /\ UNCHANGED <<processorVars, life, shapeVars, batchVars, requestVars, pool,
                 job, held, it, scheduledJob, dangling, stopVars, verdict,
                 answerVars>>

ClientStep(c) ==
  \/ ~Freed /\ (Submit(c) \/ Process(c))
  \/ UseAfterFree(c)

WorkerStep(w) ==
  \/ /\ ~Freed
     /\ \/ \E j \in pool : Take(w, j)
        \/ Dispatch(w)
        \/ \E code \in Outcomes : Complete(w, code)
        \/ Checkout(w)
        \/ Leave(w)
        \/ Process(w)
  \/ UseAfterFree(w)

Call ==
  \E c \in Client, b \in Batch, n \in Lengths, parsed \in BOOLEAN,
     method \in {"parallel", "sequential", "other"} :
       Invoke(c, b, method, parsed, n)

Next ==
  /\ ~Crashed
  /\ \/ Call
     \/ \E c \in Client : ClientStep(c)
     \/ \E w \in Worker : WorkerStep(w)
     \/ Stop

Spec == Init /\ [][Next]_vars

\* Every thread that is inside the plugin goes on, the pool serves its queue,
\* and a Deinitialize that was begun goes on; nobody has to call Invoke or to
\* begin a Deinitialize.
Fairness ==
  /\ \A c \in Client : WF_vars(~Crashed /\ ClientStep(c))
  /\ \A w \in Worker : WF_vars(~Crashed /\ WorkerStep(w))
  /\ WF_vars(~Crashed /\ ((\E j \in jobsToRevoke : Revoke(j)) \/ StopClear \/ Free))

FairSpec == Spec /\ Fairness

-----------------------------------------------------------------------------
(* Type invariant.                                                         *)

PC == {"idle", "submit", "process", "scan", "answer", "relock", "schedule",
       "dispatch", "invoke", "checkout", "leave", "undefined"}

Verdict == {"unsent", "pending", "accepted", "ERROR_UNAVAILABLE",
            "ERROR_UNKNOWN_METHOD", "ERROR_PARSE_FAILURE", "ERROR_BAD_REQUEST",
            "ERROR_ABORTED"}

Code == Outcomes \cup {"ERROR_GENERAL", "ERROR_NONE"}

ProcessorTypes ==
  /\ lock \in Thread \cup {Nobody}
  /\ batches \in Seq(Batch)
  /\ capacity \in Nat
  /\ activeJobs \subseteq Job
  /\ shuttingDown \in BOOLEAN
  /\ pool \subseteq Job

BatchTypes ==
  /\ life \in [Batch -> {"none", "live", "deleted"}]
  /\ concurrent \in [Batch -> BOOLEAN]
  /\ length \in [Batch -> 0 .. MaxBatchSize]
  /\ state \in [Batch -> {"IN_PROGRESS", "COMPLETED", "ABORTED"}]
  /\ current \in [Batch -> 0 .. MaxBatchSize]
  /\ completed \in [Batch -> Nat]
  /\ activeCount \in [Batch -> Int]

RequestTypes ==
  /\ isCompleted \subseteq Job
  /\ errorCode \in [Job -> Code]
  /\ returned \in [Job -> Code \cup {"nothing"}]

ThreadTypes ==
  /\ pc \in [Thread -> PC]
  /\ job \in [Thread -> Job \cup {NoJob}]
  /\ held \in [Thread -> Batch \cup {Nobody}]
  /\ it \in [Thread -> Nat]
  /\ scheduledJob \in [Thread -> BOOLEAN]
  /\ dangling \subseteq Thread

StopTypes ==
  /\ stop \in {"running", "revoking", "cleared", "freed", "offline"}
  /\ jobsToRevoke \subseteq Job

ReplyTypes ==
  /\ verdict \in [Batch -> Verdict]
  /\ answers \in [Batch -> Nat]

\* Every variable of the Processor, the batches and the threads keeps its type.
TypeOK ==
  ProcessorTypes /\ BatchTypes /\ RequestTypes /\ ThreadTypes /\ StopTypes
    /\ ReplyTypes

-----------------------------------------------------------------------------
(* Safety.                                                                 *)

\* Worker w has still to execute its job
Executing(w) == pc[w] \in {"dispatch", "invoke"}

\* The jobs the worker pool has been given and has not yet executed
Outstanding == pool \cup {job[w] : w \in {v \in Worker : Executing(v)}}

\* At most MaxConcurrentJobs jobs are in the worker pool at a time, whoever of
\* the clients and workers schedules them, also while Stop has taken the list
\* of active jobs away (Process l.564-573 against Checkout and Stop).
JobLimit == Cardinality(Outstanding) <= MaxConcurrentJobs

\* A sequential batch executes one request at a time, in order: a request in
\* the pool finds all the earlier ones completed and none beside it
\* (Process l.574, GetRequest, CompleteRequest).
InOrder ==
  \A b \in Batch : Sequential(b) =>
    /\ \A j \in Outstanding :
         j[1] = b => \A k \in 1 .. (j[2] - 1) : <<b, k>> \in isCompleted
    /\ \A j, k \in Outstanding : j[1] = b /\ k[1] = b => j = k

\* A request handed out by GetRequest is either completed or still in the pool
\* or on a worker: none is dropped before a shutdown (Process l.578-583).
NoRequestLost ==
  ~shuttingDown =>
    \A b \in Batch : \A i \in 1 .. current[b] :
      <<b, i>> \in isCompleted \cup Outstanding

\* A slot of _activeJobs is held only by a job that some thread still works on:
\* Checkout gives every slot back (Checkout l.503-512).
NoSlotLeak ==
  \A j \in activeJobs : j \in pool \/ \E w \in Worker : job[w] = j

\* A batch that lives is in the list or held by exactly one thread that answers
\* it: it is neither leaked nor answered twice, though several threads scan
\* the list with the lock given up in between (Process l.541-561).
OneOwner ==
  \A b \in Batch :
    LET places  == {i \in 1 .. Len(batches) : batches[i] = b}
        holders == {t \in Thread : held[t] = b}
    IN IF life[b] = "live"
         THEN Cardinality(places) + Cardinality(holders) = 1
         ELSE places = {} /\ \A t \in holders : pc[t] # "answer"

\* Only an accepted batch is answered, once, and before a shutdown only with
\* every request completed (Process l.542, CompleteRequest l.327).
AnsweredComplete ==
  \A b \in Batch : answers[b] > 0 =>
    /\ answers[b] = 1
    /\ verdict[b] = "accepted"
    /\ ~shuttingDown => \A i \in 1 .. length[b] : <<b, i>> \in isCompleted

\* A failed request neither stops its batch nor is hidden: the answer carries
\* its code, and a request that never ran, which only a shutdown can cause, is
\* reported as a general error (Serialize l.242-251, CompleteRequest l.316-321).
FailureReported ==
  \A b \in Batch : answers[b] > 0 =>
    \A i \in 1 .. length[b] :
      CASE returned[<<b, i>>] = "nothing" ->
             shuttingDown /\ response[b][i].code = "ERROR_GENERAL"
        [] returned[<<b, i>>] \notin {"nothing", "ERROR_NONE"} ->
             response[b][i] = [kind |-> "error", code |-> returned[<<b, i>>]]
        [] OTHER -> TRUE

\* Before a shutdown no job refers to a batch that was answered and deleted
\* (Process l.555 against Job::_request).
BatchOutlivesJobs ==
  ~shuttingDown => \A j \in activeJobs \cup Outstanding :
     j \in isCompleted \/ life[j[1]] = "live"

\* Once _shuttingDown is set no job enters the pool, though a thread that was
\* answering re-enters the scan and the scheduling without a check of it
\* (Process l.557, IsFinished l.568, Abort).
NothingScheduledAfterStop == [][shuttingDown => pool' \subseteq pool]_vars

\* When every thread has left and the pool is empty, no batch is left behind:
\* though a thread may lose its place in the list while it answers, some
\* thread's scan still comes across every finished batch (Process l.541-561).
NothingLeftBehind ==
  /\ \A t \in Thread : pc[t] = "idle"
  /\ pool = {}
  /\ ~shuttingDown
  => \A b \in Batch : life[b] # "live"

\* Neither a request nor a slot nor a batch is lost between the threads, of which
\* each may leave the rest to another one (GetRequest, Checkout, Process).
NothingLost == NoRequestLost /\ NoSlotLeak /\ NothingLeftBehind

\* A batch is answered neither before its requests are done nor, what deletes it,
\* under a job that still refers to it (CompleteRequest l.327, Process l.555).
AnsweredInTime == AnsweredComplete /\ BatchOutlivesJobs

\* The Processor does what the abstract service promises.
Service == INSTANCE BatchService WITH
  Limit     <- MaxConcurrentJobs,
  MaxLength <- MaxBatchSize,
  status    <- [b \in Batch |->
                  IF answers[b] > 0 THEN "answered"
                  ELSE IF verdict[b] = "pending" THEN "unsent"
                  ELSE IF verdict[b] \in {"unsent", "accepted"} THEN verdict[b]
                  ELSE "refused"],
  parallel  <- concurrent,
  size      <- length,
  started   <- current,
  finished  <- isCompleted,
  closed    <- shuttingDown

ImplementsService == Service!Spec

-----------------------------------------------------------------------------
(* What the documentation says and the code does not do.                   *)

\* A request that succeeded is answered with a result (Readme.md l.81-83).
SuccessIsAResult ==
  \A b \in Batch : answers[b] > 0 =>
    \A i \in 1 .. length[b] :
      returned[<<b, i>>] = "ERROR_NONE" => response[b][i].kind = "result"

\* Without a shutdown no thread reads outside the list of batches: batches
\* sent at the same time all get their answer (test_http_concurrent_batches).
ScanStaysInside == Crashed => shuttingDown

-----------------------------------------------------------------------------
(* The inductive invariant behind JobLimit, InOrder and                    *)
(* NothingScheduledAfterStop.                                              *)

\* Where a thread is determines what its local variables hold and whether it
\* has the lock.
Control ==
  \A t \in Thread :
    /\ pc[t] \in {"scan", "schedule", "answer", "relock"} => it[t] >= 1
    /\ pc[t] \in {"scan", "schedule"} => lock = t
    /\ pc[t] \in {"submit", "answer"} => held[t] \in Batch
    /\ pc[t] \in {"dispatch", "invoke", "checkout", "leave"} => job[t] \in Job
    /\ pc[t] \in {"dispatch", "invoke", "checkout", "leave"} => t \in Worker
    /\ pc[t] = "idle" \/ t \in Client => job[t] = NoJob
    /\ pc[t] = "submit" =>
         /\ t \in Client
         /\ verdict[held[t]] = "pending"
         /\ \A u \in Thread : pc[u] = "submit" /\ held[u] = held[t] => u = t

\* Only accepted batches are in the list or have requests handed out
Admitted ==
  /\ \A i \in 1 .. Len(batches) : verdict[batches[i]] = "accepted"
  /\ \A b \in Batch : verdict[b] # "accepted" => current[b] = 0 /\ activeCount[b] = 0

\* A job is in one place at most, and its request was handed out
OnePlace ==
  /\ \A j \in pool : j[2] <= current[j[1]]
  /\ \A w \in Worker : job[w] \in Job => job[w][2] <= current[job[w][1]]
  /\ \A w \in Worker : job[w] \notin pool
  /\ \A v, w \in Worker : job[v] = job[w] /\ job[v] \in Job => v = w

\* Every outstanding job occupies a slot, of _activeJobs before Stop and of
\* the list Stop revokes after it; the list of batches is dead after Stop.
Slots ==
  /\ IsFiniteSet(activeJobs) /\ Cardinality(activeJobs) <= MaxConcurrentJobs
  /\ IsFiniteSet(jobsToRevoke) /\ Cardinality(jobsToRevoke) <= MaxConcurrentJobs
  /\ Outstanding \subseteq activeJobs \cup jobsToRevoke
  /\ shuttingDown <=> stop # "running"
  /\ shuttingDown => /\ activeJobs = {}
                     /\ \A i \in 1 .. Len(batches) : IsFinished(batches[i])
  /\ ~shuttingDown => jobsToRevoke = {}

\* A sequential batch has one request under way at most, the one handed out
\* last, and all before it are completed.
OneAtATime ==
  \A b \in Batch : Sequential(b) =>
    /\ activeCount[b] \in {0, 1}
    /\ \A k \in 1 .. (current[b] - activeCount[b]) : <<b, k>> \in isCompleted
    /\ \A j \in Outstanding : j[1] = b => j[2] = current[b] /\ activeCount[b] = 1

IndInv == TypeOK /\ Control /\ Admitted /\ OnePlace /\ Slots /\ OneAtATime

-----------------------------------------------------------------------------
(* Liveness.                                                               *)

\* An accepted batch is answered, unless the plugin is shut down or a thread
\* went astray (Checkout l.519, Process).
EveryBatchAnswered ==
  \A b \in Batch :
    (verdict[b] = "accepted") ~> (answers[b] > 0 \/ shuttingDown \/ Crashed)

\* Stop ends: Revoke waits only for jobs that come to their end.
StopEnds == shuttingDown ~> (stop = "offline" \/ Crashed)
=============================================================================
