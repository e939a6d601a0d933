------------------------- MODULE MuxerServiceProofs -------------------------
(***************************************************************************)
(* Proofs that JsonRpcMuxer serves its clients, for any number of threads, *)
(* batches and slots: a batch has one owner, is answered once and with all *)
(* its codes, nothing is lost between the threads, and each step is one of *)
(* BatchService or none.  They rest on the invariant of JsonRpcMuxerProofs.*)
(***************************************************************************)
EXTENDS JsonRpcMuxerProofs

\* The requests of batch b that are completed
Done(b) == {i \in 1 .. length[b] : <<b, i>> \in isCompleted}

\* A batch is in the list once, and alive there.
Listed ==
  /\ \A i, k \in 1 .. Len(batches) : batches[i] = batches[k] => i = k
  /\ \A i \in 1 .. Len(batches) : life[batches[i]] = "live"

\* A batch that a thread holds is that thread's alone: not yet, or no longer, in
\* the list.
Apart ==
  \A t \in Thread : held[t] # Nobody =>
    /\ \A i \in 1 .. Len(batches) : batches[i] # held[t]
    /\ \A u \in Thread : held[u] = held[t] => u = t
    /\ pc[t] \in {"submit", "answer", "undefined"}
    /\ pc[t] = "answer" => life[held[t]] = "live"
    /\ verdict[held[t]] # "unsent"

\* A batch lives from its acceptance on, in the list or with a thread.
Alive ==
  /\ \A b \in Batch : life[b] = "live" =>
       \/ \E i \in 1 .. Len(batches) : batches[i] = b
       \/ \E t \in Thread : held[t] = b
  /\ \A b \in Batch : life[b] = "none" <=> verdict[b] # "accepted"

Owned == Listed /\ Apart /\ Alive

\* A request is completed once it was handed out, which is at most once.
HandedOut ==
  /\ \A b \in Batch : current[b] <= length[b]
  /\ \A j \in isCompleted : j[2] <= current[j[1]]

\* _completed counts the completed requests: a batch is COMPLETED with its last.
Counted ==
  \A b \in Batch :
    /\ state[b] # "ABORTED" => completed[b] = Cardinality(Done(b))
    /\ state[b] = "ABORTED" => shuttingDown
    /\ state[b] = "COMPLETED" => Done(b) = 1 .. length[b]
    /\ state[b] = "IN_PROGRESS" /\ length[b] > 0 => completed[b] < length[b]

\* A batch has requests once it passed the checks of Invoke, and they are touched
\* once it was accepted.
Sized ==
  \A b \in Batch :
    /\ verdict[b] = "unsent" => length[b] = 0
    /\ verdict[b] \in {"pending", "accepted"} => length[b] > 0
    /\ verdict[b] # "accepted" => state[b] = "IN_PROGRESS"

Tallied == HandedOut /\ Counted /\ Sized

\* A job under way is not completed, its batch lives, and every request that was
\* handed out and every slot belongs to a job under way or one that is done.
Underway ==
  /\ Outstanding \cap isCompleted = {}
  /\ \A j \in activeJobs :
       \/ j \in Outstanding
       \/ j \in isCompleted /\ \E w \in Worker : pc[w] = "checkout" /\ job[w] = j
  /\ NoRequestLost
  /\ ~shuttingDown => \A j \in Outstanding : life[j[1]] = "live"
  /\ \A b \in Batch :
       Sequential(b) /\ activeCount[b] = 1 =>
         current[b] > 0 /\ <<b, current[b]>> \notin isCompleted

\* A batch is answered when it is finished, once, with what its requests left.
Replied ==
  /\ response = [b \in Batch |-> response[b]]
  /\ \A t \in Thread : pc[t] = "answer" => IsFinished(held[t])
  /\ \A b \in Batch : answers[b] > 0 =>
       /\ answers[b] = 1
       /\ life[b] = "deleted"
       /\ IsFinished(b)
       /\ response[b] = Serialize(b)

\* The code of a request is the one that it was completed with.
Recorded ==
  \A j \in Job :
    /\ returned[j] = "nothing" <=> j \notin isCompleted
    /\ errorCode[j] = IF returned[j] \in {"nothing", "ERROR_NONE"}
                        THEN "ERROR_GENERAL" ELSE returned[j]

-----------------------------------------------------------------------------
\* Erasing an element (Process l.546) keeps the others, in their order.
LEMMA EraseKeeps ==
  ASSUME batches \in Seq(Batch), NEW k \in 1 .. Len(batches),
         batches' = EraseAt(batches, k)
  PROVE  /\ Len(batches') = Len(batches) - 1
         /\ \A i \in 1 .. (Len(batches) - 1) :
              batches'[i] = IF i < k THEN batches[i] ELSE batches[i + 1]
         /\ \A j \in 1 .. Len(batches) :
              j < k => j \in 1 .. (Len(batches) - 1) /\ batches'[j] = batches[j]
         /\ \A j \in 1 .. Len(batches) :
              j > k => j - 1 \in 1 .. (Len(batches) - 1) /\ batches'[j - 1] = batches[j]
<1>1. \A i \in 1 .. (Len(batches) - 1) :
        batches'[i] = IF i < k THEN batches[i] ELSE batches[i + 1]
  BY DEF EraseAt
<1>2. ASSUME NEW j \in 1 .. Len(batches), j < k
      PROVE  j \in 1 .. (Len(batches) - 1) /\ batches'[j] = batches[j]
  <2>1. j \in 1 .. (Len(batches) - 1)
    BY <1>2
  <2> QED
    BY <1>1, <1>2, <2>1
<1>3. ASSUME NEW j \in 1 .. Len(batches), j > k
      PROVE  j - 1 \in 1 .. (Len(batches) - 1) /\ batches'[j - 1] = batches[j]
  <2>1. /\ j - 1 \in 1 .. (Len(batches) - 1)
        /\ ~(j - 1 < k) /\ j - 1 + 1 = j
    BY <1>3
  <2> QED
    BY <1>1, <2>1
<1>4. Len(batches') = Len(batches) - 1
  BY EraseAtSeq
<1> QED
  BY <1>1, <1>2, <1>3, <1>4

\* A batch is created by Submit, moved from the list to the thread that found it
\* finished, and deleted by that thread or by Stop.
LEMMA StepOwned == IndInv /\ Owned /\ [Next]_vars => Owned'
<1> SUFFICES ASSUME IndInv, Owned, [Next]_vars PROVE Owned'
  OBVIOUS
<1>0. /\ batches \in Seq(Batch)
      /\ life \in [Batch -> {"none", "live", "deleted"}]
      /\ verdict \in [Batch -> Verdict]
      /\ pc \in [Thread -> PC]
      /\ held \in [Thread -> Batch \cup {Nobody}]
      /\ \A i \in 1 .. Len(batches) : batches[i] \in Batch
      /\ Nobody \notin Batch
      /\ Client \subseteq Thread /\ Worker \subseteq Thread
  BY NobodyAssumption
     DEF IndInv, TypeOK, ProcessorTypes, BatchTypes, ThreadTypes, ReplyTypes, Thread
<1> USE <1>0
\* A thread that holds a batch stays where it is, or goes astray.
<1>a. ASSUME UNCHANGED <<batches, life, verdict, held>>,
             \A t \in Thread : held[t] # Nobody => pc'[t] \in {pc[t], "undefined"}
      PROVE  Owned'
  BY <1>a DEF Owned, Listed, Apart, Alive
<1>b. ASSUME NEW t \in Thread, NEW l \in PC,
             pc[t] \notin {"submit", "answer", "undefined"} \/ l = "undefined",
             Goto(t, l), UNCHANGED <<batches, life, verdict, held>>
      PROVE  Owned'
  BY <1>a, <1>b DEF Goto, Owned, Listed, Apart, Alive
<1>c. \A l \in {"idle", "process", "scan", "schedule", "dispatch", "invoke",
                "checkout", "leave", "undefined"} : l \in PC
  BY DEF PC
<1>1. ASSUME NEW c \in Client, NEW b \in Batch, NEW n \in Lengths,
             NEW parsed \in BOOLEAN,
             NEW method \in {"parallel", "sequential", "other"},
             Invoke(c, b, method, parsed, n)
      PROVE  Owned'
  <2> DEFINE v == Examine(method, parsed, n)
  <2>1. /\ v # "accepted" /\ v # "unsent"
    BY DEF Examine
  <2>2. /\ verdict' = [verdict EXCEPT ![b] = v] /\ verdict[b] = "unsent"
        /\ UNCHANGED <<batches, life>> /\ pc[c] = "idle"
    BY <1>1 DEF Invoke, processorVars
  <2>3. \/ UNCHANGED <<pc, held>>
        \/ pc' = [pc EXCEPT ![c] = "submit"] /\ held' = [held EXCEPT ![c] = b]
    BY <1>1 DEF Invoke, Goto
  <2>4. /\ life[b] = "none" /\ \A t \in Thread : held[t] # b
        /\ \A i \in 1 .. Len(batches) : batches[i] # b
    BY <2>2 DEF Owned, Listed, Apart, Alive
  <2> HIDE DEF v
  <2> QED
    BY <2>1, <2>2, <2>3, <2>4 DEF Owned, Listed, Apart, Alive
<1>2. ASSUME NEW c \in Client, Submit(c) PROVE Owned'
  <2> DEFINE b == held[c]
  <2>1. /\ pc[c] = "submit" /\ b \in Batch /\ verdict[b] = "pending"
    BY <1>2 DEF Submit, IndInv, Control
  <2>2. life[b] = "none" /\ (\A t \in Thread : held[t] = b => t = c)
        /\ \A i \in 1 .. Len(batches) : batches[i] # b
    BY <2>1 DEF Owned, Listed, Apart, Alive
  <2>3. held' = [held EXCEPT ![c] = Nobody]
    BY <1>2 DEF Submit
  <2>4. CASE shuttingDown
    <3>1. /\ verdict' = [verdict EXCEPT ![b] = "ERROR_ABORTED"]
          /\ pc' = [pc EXCEPT ![c] = "idle"]
          /\ UNCHANGED <<batches, life>>
      BY <1>2, <2>4 DEF Submit, Goto
    <3> QED
      BY <2>1, <2>2, <2>3, <3>1 DEF Owned, Listed, Apart, Alive
  <2>5. CASE ~shuttingDown
    <3>1. /\ verdict' = [verdict EXCEPT ![b] = "accepted"]
          /\ pc' = [pc EXCEPT ![c] = "process"]
          /\ life' = [life EXCEPT ![b] = "live"]
          /\ batches' = Append(batches, b)
      BY <1>2, <2>5 DEF Submit, Goto
    <3>2. /\ Len(batches') = Len(batches) + 1 /\ batches'[Len(batches) + 1] = b
          /\ \A i \in 1 .. Len(batches) : batches'[i] = batches[i]
      BY <2>1, <3>1
    <3>3. \A i \in 1 .. Len(batches') : i \in 1 .. Len(batches) \/ i = Len(batches) + 1
      BY <3>2
    <3> QED
      BY <2>1, <2>2, <2>3, <3>1, <3>2, <3>3 DEF Owned, Listed, Apart, Alive
  <2> QED
    BY <2>4, <2>5
<1>3. ASSUME NEW t \in Thread, Enter(t) PROVE Owned'
  BY <1>3, <1>b, <1>c DEF Enter, Quit, Return, Goto
<1>4. ASSUME NEW t \in Thread, PassOver(t) PROVE Owned'
  BY <1>4, <1>a DEF PassOver, processorVars
<1>5. ASSUME NEW t \in Thread, Remove(t) PROVE Owned'
  <2> DEFINE k == it[t]
             b == batches[k]
  <2>1. k \in 1 .. Len(batches) /\ b \in Batch
    BY <1>5, UnderIterator DEF Remove, IndInv
  <2>2. /\ held' = [held EXCEPT ![t] = b]
        /\ pc' = [pc EXCEPT ![t] = "answer"]
        /\ batches' = EraseAt(batches, k)
        /\ pc[t] = "scan"
        /\ UNCHANGED <<life, verdict>>
    BY <1>5 DEF Remove, Goto
  <2>3. held[t] = Nobody /\ life[b] = "live" /\ \A u \in Thread : held[u] # b
    BY <2>1, <2>2 DEF Owned, Listed, Apart, Alive
  <2>4. /\ Len(batches') = Len(batches) - 1
        /\ \A i \in 1 .. (Len(batches) - 1) :
             batches'[i] = IF i < k THEN batches[i] ELSE batches[i + 1]
        /\ \A j \in 1 .. Len(batches) :
             j < k => j \in 1 .. (Len(batches) - 1) /\ batches'[j] = batches[j]
        /\ \A j \in 1 .. Len(batches) :
             j > k => j - 1 \in 1 .. (Len(batches) - 1) /\ batches'[j - 1] = batches[j]
    BY <2>1, <2>2, EraseKeeps
  <2>5. \A i \in 1 .. Len(batches') : i \in 1 .. Len(batches) /\ i + 1 \in 1 .. Len(batches)
    BY <2>4
  <2>6. \A i \in 1 .. Len(batches') : batches'[i] # b
    BY <2>1, <2>4, <2>5 DEF Owned, Listed, Apart, Alive
  <2>7. \A i, j \in 1 .. Len(batches') : batches'[i] = batches'[j] => i = j
    BY <2>1, <2>4, <2>5 DEF Owned, Listed, Apart, Alive
  <2>8. \A i \in 1 .. Len(batches') : \E j \in 1 .. Len(batches) : batches'[i] = batches[j]
    BY <2>4, <2>5
  <2>9. verdict[b] # "unsent"
    BY <2>1, <2>3 DEF Owned, Listed, Apart, Alive
  <2>10. ASSUME NEW i \in 1 .. Len(batches), batches[i] # b
         PROVE  \E j \in 1 .. Len(batches') : batches'[j] = batches[i]
    <3>1. i < k \/ i > k
      BY <2>1, <2>10
    <3> QED
      BY <2>4, <3>1
  <2> HIDE DEF k, b
  <2>11. \A u \in Thread : /\ held'[u] = IF u = t THEN b ELSE held[u]
                           /\ pc'[u] = IF u = t THEN "answer" ELSE pc[u]
    BY <2>2
  <2>12. \A u \in Thread : held'[u] # Nobody =>
           /\ \A i \in 1 .. Len(batches') : batches'[i] # held'[u]
           /\ \A v \in Thread : held'[v] = held'[u] => v = u
           /\ pc'[u] \in {"submit", "answer", "undefined"}
           /\ pc'[u] = "answer" => life[held'[u]] = "live"
           /\ verdict[held'[u]] # "unsent"
    BY <2>3, <2>6, <2>8, <2>9, <2>11 DEF Owned, Listed, Apart, Alive
  <2>13. \A d \in Batch : life[d] = "live" =>
           \/ \E i \in 1 .. Len(batches') : batches'[i] = d
           \/ \E u \in Thread : held'[u] = d
    BY <2>3, <2>10, <2>11, SMTT(30) DEF Owned, Listed, Apart, Alive
  <2>14. life' = life /\ verdict' = verdict
    BY <2>2
  <2>15. Listed'
    BY <2>7, <2>8, <2>14 DEF Owned, Listed
  <2>16. Apart'
    BY <2>12, <2>14 DEF Apart
  <2>17. Alive'
    BY <2>13, <2>14 DEF Owned, Alive
  <2> QED
    BY <2>15, <2>16, <2>17 DEF Owned
<1>6. ASSUME NEW t \in Thread, Answer(t) PROVE Owned'
  <2> DEFINE b == held[t]
  <2>1. /\ pc[t] = "answer" /\ b \in Batch /\ life[b] = "live"
        /\ \A i \in 1 .. Len(batches) : batches[i] # b
        /\ \A u \in Thread : held[u] = b => u = t
    BY <1>6 DEF Answer, IndInv, Control, Owned, Apart
  <2>2. /\ life' = [life EXCEPT ![b] = "deleted"]
        /\ held' = [held EXCEPT ![t] = Nobody]
        /\ pc' = [pc EXCEPT ![t] = "relock"]
        /\ UNCHANGED <<batches, verdict>>
    BY <1>6 DEF Answer, Goto, processorVars
  <2> HIDE DEF b
  <2>3. \A u \in Thread : /\ held'[u] = IF u = t THEN Nobody ELSE held[u]
                          /\ pc'[u] = IF u = t THEN "relock" ELSE pc[u]
                          /\ u # t => held[u] # b
    BY <2>1, <2>2
  <2>4. \A d \in Batch : life'[d] = IF d = b THEN "deleted" ELSE life[d]
    BY <2>2
  <2>5. held[t] = b
    BY DEF b
  <2> QED
    BY <2>1, <2>2, <2>3, <2>4, <2>5 DEF Owned, Listed, Apart, Alive
<1>7. ASSUME NEW t \in Thread, Relock(t) PROVE Owned'
  BY <1>7, <1>b, <1>c DEF Relock, Goto
<1>8. ASSUME NEW t \in Thread, EndScan(t) PROVE Owned'
  BY <1>8, <1>b, <1>c DEF EndScan, processorVars
<1>9. ASSUME NEW t \in Thread, ScheduleJob(t) PROVE Owned'
  BY <1>9, <1>a DEF ScheduleJob
<1>10. ASSUME NEW t \in Thread, NextBatch(t) PROVE Owned'
  BY <1>10, <1>a DEF NextBatch, processorVars
<1>11. ASSUME NEW t \in Thread, EndPass(t) PROVE Owned'
  BY <1>11, <1>a, <1>b, <1>c DEF EndPass, Return, Goto
<1>12. ASSUME NEW w \in Worker, NEW j \in pool, Take(w, j) PROVE Owned'
  BY <1>12, <1>b, <1>c DEF Take, processorVars
<1>13. ASSUME NEW w \in Worker, Dispatch(w) PROVE Owned'
  BY <1>13, <1>b, <1>c DEF Dispatch, Return, Goto, processorVars
<1>14. ASSUME NEW w \in Worker, NEW code \in Outcomes, Complete(w, code) PROVE Owned'
  BY <1>14, <1>b, <1>c DEF Complete, processorVars
<1>15. ASSUME NEW w \in Worker, Checkout(w) PROVE Owned'
  BY <1>15, <1>b, <1>c DEF Checkout
<1>16. ASSUME NEW w \in Worker, Leave(w) PROVE Owned'
  BY <1>16, <1>b, <1>c DEF Leave, Return, Goto, processorVars
<1>17. ASSUME StopBegin \/ Free \/ \E j \in jobsToRevoke : Revoke(j) PROVE Owned'
  BY <1>17, <1>a DEF StopBegin, Free, Revoke, threadVars, processorVars
<1>18. CASE StopClear
  <2>1. /\ life' = [b \in Batch |-> IF b \in Members(batches) THEN "deleted" ELSE life[b]]
        /\ batches' = << >>
        /\ UNCHANGED <<pc, held, verdict>>
    BY <1>18 DEF StopClear, threadVars
  <2>2. \A b \in Batch : b \in Members(batches) <=> \E i \in 1 .. Len(batches) : batches[i] = b
    BY DEF Members
  <2>3. \A b \in Batch : b \in Members(batches) => life[b] = "live"
    BY <2>2 DEF Owned, Listed, Apart, Alive
  <2>4. \A t \in Thread : held[t] # Nobody => held[t] \notin Members(batches)
    BY <2>2 DEF Owned, Listed, Apart, Alive
  <2>5. Len(batches') = 0
    BY <2>1
  <2> QED
    BY <2>1, <2>2, <2>3, <2>4, <2>5 DEF Owned, Listed, Apart, Alive
<1>19. ASSUME NEW t \in Thread, UseAfterFree(t) PROVE Owned'
  BY <1>19, <1>b, <1>c DEF UseAfterFree, processorVars
<1>20. CASE UNCHANGED vars
  BY <1>20, <1>a DEF vars, processorVars, threadVars
<1> QED
  BY <1>1, <1>2, <1>3, <1>4, <1>5, <1>6, <1>7, <1>8, <1>9, <1>10, <1>11,
     <1>12, <1>13, <1>14, <1>15, <1>16, <1>17, <1>18, <1>19, <1>20
     DEF Next, ClientStep, WorkerStep, Process, Call, Stop, Thread

\* The completed requests of a batch are at most as many as its requests.
LEMMA DoneCount ==
  ASSUME TypeOK, NEW b \in Batch
  PROVE  /\ length[b] \in Nat
         /\ IsFiniteSet(1 .. length[b]) /\ Cardinality(1 .. length[b]) = length[b]
         /\ Done(b) \subseteq 1 .. length[b]
         /\ IsFiniteSet(Done(b)) /\ Cardinality(Done(b)) \in Nat
         /\ Cardinality(Done(b)) <= length[b]
         /\ Cardinality(Done(b)) = length[b] => Done(b) = 1 .. length[b]
<1>1. length[b] \in Nat
  BY LimitAssumption DEF TypeOK, BatchTypes
<1>2. Done(b) \subseteq 1 .. length[b]
  BY DEF Done
<1>3. IsFiniteSet(1 .. length[b]) /\ Cardinality(1 .. length[b]) = length[b]
  <2>1. 1 \in Int /\ length[b] \in Int
    BY <1>1
  <2>2. /\ IsFiniteSet(1 .. length[b])
        /\ Cardinality(1 .. length[b]) = IF 1 > length[b] THEN 0 ELSE length[b] - 1 + 1
    BY <2>1, FS_Interval, Zenon
  <2> QED
    BY <1>1, <2>2
<1>4. /\ IsFiniteSet(Done(b)) /\ Cardinality(Done(b)) <= length[b]
      /\ Cardinality(Done(b)) = length[b] => Done(b) = 1 .. length[b]
  BY <1>2, <1>3, FS_Subset
<1> QED
  BY <1>1, <1>2, <1>3, <1>4, FS_CardinalityType

\* The jobs under way are jobs, of requests that were handed out.
LEMMA OutstandingJobs ==
  ASSUME IndInv, NEW j \in Outstanding
  PROVE  /\ j \in Job
         /\ \E b \in Batch, n \in Index : j = <<b, n>> /\ n <= current[b]
<1>1. j \in Job /\ j[2] <= current[j[1]]
  BY NoJobIsNone DEF IndInv, TypeOK, ProcessorTypes, ThreadTypes, OnePlace,
     Control, Outstanding, Executing, Thread
<1> QED
  BY <1>1 DEF Job

\* CompleteRequest counts each request once.
LEMMA StepTallied == IndInv /\ Owned /\ Tallied /\ Underway /\ [Next]_vars => Tallied'
<1> SUFFICES ASSUME IndInv, Owned, Tallied, Underway, [Next]_vars
             PROVE  Tallied'
  OBVIOUS
<1>0. /\ verdict \in [Batch -> Verdict]
      /\ length \in [Batch -> 0 .. MaxBatchSize]
      /\ state \in [Batch -> {"IN_PROGRESS", "COMPLETED", "ABORTED"}]
      /\ current \in [Batch -> 0 .. MaxBatchSize]
      /\ completed \in [Batch -> Nat]
      /\ isCompleted \subseteq Job
      /\ batches \in Seq(Batch)
  BY DEF IndInv, TypeOK, ProcessorTypes, BatchTypes, RequestTypes, ReplyTypes
<1>j. \A j \in isCompleted : j[1] \in Batch /\ j[2] \in Nat \ {0} /\ j = <<j[1], j[2]>>
  BY <1>0, LimitAssumption DEF Job, Index
<1>n. \A b \in Batch : length[b] \in Nat /\ current[b] \in Nat
  BY <1>0, LimitAssumption
<1> USE <1>0, <1>n
<1>a. ASSUME UNCHANGED <<verdict, length, state, current, completed, isCompleted,
                         shuttingDown>>
      PROVE  Tallied'
  <2>1. \A b \in Batch : Done(b)' = Done(b)
    BY <1>a DEF Done
  <2> QED
    BY <1>a, <2>1 DEF Tallied, HandedOut, Counted, Sized
<1>1. ASSUME NEW c \in Client, NEW b \in Batch, NEW n \in Lengths,
             NEW parsed \in BOOLEAN,
             NEW method \in {"parallel", "sequential", "other"},
             Invoke(c, b, method, parsed, n)
      PROVE  Tallied'
  <2> DEFINE v == Examine(method, parsed, n)
  <2>1. /\ v # "accepted" /\ v # "unsent"
        /\ v = "pending" => n \in Nat /\ n > 0
    BY LengthAssumption DEF Examine
  <2>2. /\ verdict[b] = "unsent"
        /\ verdict' = [verdict EXCEPT ![b] = v]
        /\ UNCHANGED <<state, current, completed, isCompleted, shuttingDown>>
    BY <1>1 DEF Invoke, processorVars, batchVars, requestVars
  <2>3. \/ v = "pending" /\ length' = [length EXCEPT ![b] = n]
        \/ v # "pending" /\ length' = length
    BY <1>1 DEF Invoke, shapeVars
  <2>4. /\ length[b] = 0 /\ current[b] = 0 /\ state[b] = "IN_PROGRESS"
        /\ \A j \in isCompleted : j[1] # b
    BY <1>j, <2>2 DEF IndInv, Admitted, Tallied, HandedOut, Sized
  <2> HIDE DEF v
  <2>5. \A d \in Batch : d # b => length'[d] = length[d] /\ verdict'[d] = verdict[d]
    BY <2>2, <2>3
  <2>6. \A d \in Batch : Done(d)' = Done(d)
    BY <2>2, <2>4, <2>5 DEF Done
  <2>7. completed[b] = 0
    <3>1. Done(b) = {}
      BY <2>4 DEF Done
    <3> QED
      BY <2>4, <3>1, FS_EmptySet DEF Tallied, Counted
  <2>8. HandedOut'
    BY <2>1, <2>2, <2>3, <2>4, <2>5 DEF Tallied, HandedOut
  <2>9. Counted'
    <3> SUFFICES ASSUME NEW d \in Batch
                 PROVE  /\ state[d] # "ABORTED" => completed[d] = Cardinality(Done(d))
                        /\ state[d] = "ABORTED" => shuttingDown
                        /\ state[d] = "COMPLETED" => Done(d) = 1 .. length'[d]
                        /\ state[d] = "IN_PROGRESS" /\ length'[d] > 0 =>
                             completed[d] < length'[d]
      BY <2>2, <2>6 DEF Counted
    <3> QED
      BY <2>4, <2>5, <2>7 DEF Tallied, Counted
  <2>10. Sized'
    BY <2>1, <2>2, <2>3, <2>4, <2>5 DEF Tallied, Sized
  <2> QED
    BY <2>8, <2>9, <2>10 DEF Tallied
<1>2. ASSUME NEW c \in Client, Submit(c) PROVE Tallied'
  <2>1. held[c] \in Batch /\ verdict[held[c]] = "pending"
    BY <1>2 DEF Submit, IndInv, Control, Thread
  <2>2. /\ \/ verdict' = [verdict EXCEPT ![held[c]] = "ERROR_ABORTED"]
           \/ verdict' = [verdict EXCEPT ![held[c]] = "accepted"]
        /\ UNCHANGED <<length, state, current, completed, isCompleted, shuttingDown>>
    BY <1>2 DEF Submit, shapeVars, batchVars, requestVars
  <2>3. HandedOut' /\ Counted'
    <3>1. \A b \in Batch : Done(b)' = Done(b)
      BY <2>2 DEF Done
    <3> QED
      BY <2>2, <3>1 DEF Tallied, HandedOut, Counted
  <2>4. Sized'
    BY <2>1, <2>2 DEF Tallied, Sized
  <2> QED
    BY <2>3, <2>4 DEF Tallied
<1>3. ASSUME NEW t \in Thread, Remove(t) PROVE Tallied'
  BY <1>3, <1>a DEF Remove, shapeVars, batchVars, requestVars
<1>4. ASSUME NEW t \in Thread, ScheduleJob(t) PROVE Tallied'
  <2> DEFINE b == batches[it[t]]
  <2>1. b \in Batch /\ current[b] < length[b]
    BY <1>4, UnderIterator DEF ScheduleJob, MaySchedule, HasRequest, IndInv
  <2>2. /\ current' = [current EXCEPT ![b] = current[b] + 1]
        /\ UNCHANGED <<verdict, length, state, completed, isCompleted, shuttingDown>>
    BY <1>4 DEF ScheduleJob, shapeVars, requestVars
  <2> HIDE DEF b
  <2>3. HandedOut'
    BY <1>j, <2>1, <2>2 DEF Tallied, HandedOut
  <2>4. \A d \in Batch : Done(d)' = Done(d)
    BY <2>2 DEF Done
  <2> QED
    BY <2>2, <2>3, <2>4 DEF Tallied, Counted, Sized
<1>5. ASSUME NEW w \in Worker, NEW j \in pool, Take(w, j) PROVE Tallied'
  BY <1>5, <1>a DEF Take, processorVars, shapeVars, batchVars, requestVars
<1>6. ASSUME NEW w \in Worker, NEW code \in Outcomes, Complete(w, code) PROVE Tallied'
  <2>1. PICK b \in Batch, n \in Index :
          job[w] = <<b, n>> /\ <<b, n>> \in Outstanding /\ n <= current[b]
    <3>1. job[w] \in Outstanding
      BY <1>6 DEF Complete, Outstanding, Executing
    <3> QED
      BY <3>1, OutstandingJobs
  <2>2. /\ <<b, n>> \notin isCompleted /\ verdict[b] = "accepted"
        /\ n \in 1 .. length[b]
    <3>1. life[b] = "live"
      BY <1>6, <2>1 DEF Complete
    <3>2. current[b] <= length[b] /\ n \in Nat \ {0}
      BY LimitAssumption DEF Tallied, HandedOut, Index
    <3> QED
      BY <2>1, <3>1, <3>2 DEF Underway, Owned, Alive
  <2>3. /\ isCompleted' = isCompleted \cup {<<b, n>>}
        /\ UNCHANGED <<verdict, length, current, shuttingDown>>
        /\ IF IsFinished(b)
           THEN UNCHANGED <<completed, state>>
           ELSE /\ completed' = [completed EXCEPT ![b] = @ + 1]
                /\ state' = [state EXCEPT ![b] = IF Last(b) THEN "COMPLETED" ELSE @]
    BY <1>6, <2>1 DEF Complete, CompleteRequest, shapeVars, processorVars
  <2>4. n \notin Done(b)
    BY <2>2 DEF Done
  <2>5. Done(b)' = Done(b) \cup {n}
    BY <2>2, <2>3 DEF Done
  <2>6. \A d \in Batch : d # b => Done(d)' = Done(d)
    BY <2>1, <2>3 DEF Done
  <2>7. Cardinality(Done(b)') = Cardinality(Done(b)) + 1
    BY <2>1, <2>4, <2>5, DoneCount, FS_AddElement DEF IndInv
  <2>8. HandedOut'
    <3>1. \A j \in isCompleted' : j[2] <= current[j[1]]
      BY <2>1, <2>3 DEF Tallied, HandedOut
    <3> QED
      BY <2>3, <3>1 DEF Tallied, HandedOut
  <2>9. Sized'
    BY <2>2, <2>3 DEF Tallied, Sized
  <2>10. CASE IsFinished(b)
    <3>1. state[b] = "ABORTED"
      BY <2>2, <2>4, <2>10 DEF IsFinished, Tallied, Counted
    <3>2. Counted'
      BY <2>3, <2>6, <2>10, <3>1 DEF Tallied, Counted
    <3> QED
      BY <2>8, <2>9, <3>2 DEF Tallied
  <2>11. CASE ~IsFinished(b)
    <3>1. state[b] = "IN_PROGRESS" /\ completed[b] = Cardinality(Done(b))
      BY <2>1, <2>11 DEF IsFinished, Tallied, Counted
    <3>2. /\ completed' = [completed EXCEPT ![b] = completed[b] + 1]
          /\ state' = [state EXCEPT ![b] = IF Last(b) THEN "COMPLETED" ELSE state[b]]
      BY <2>3, <2>11
    <3>3. completed'[b] = Cardinality(Done(b)')
      BY <2>1, <2>7, <3>1, <3>2
    <3>4. /\ Done(b)' \subseteq 1 .. length[b]
          /\ IsFiniteSet(1 .. length[b]) /\ Cardinality(1 .. length[b]) = length[b]
      <4>1. IsFiniteSet(1 .. length[b]) /\ Cardinality(1 .. length[b]) = length[b]
        BY DoneCount DEF IndInv
      <4>2. Done(b) \subseteq 1 .. length[b]
        BY DEF Done
      <4> QED
        BY <2>2, <2>5, <4>1, <4>2
    <3>5. completed'[b] = completed[b] + 1
      BY <2>1, <3>2
    <3>6. ASSUME Last(b) PROVE Done(b)' = 1 .. length[b]
      <4>1. Cardinality(Done(b)') = Cardinality(1 .. length[b])
        BY <3>3, <3>4, <3>5, <3>6 DEF Last
      <4> QED
        BY <3>4, <4>1, FS_Subset
    <3>7. ASSUME ~Last(b) PROVE completed'[b] < length[b]
      <4>1. completed[b] < length[b]
        BY <2>2, <3>1 DEF Tallied, Counted
      <4> QED
        BY <2>1, <3>5, <3>7, <4>1 DEF Last
    <3>8. Counted'
      <4>1. state'[b] = IF Last(b) THEN "COMPLETED" ELSE "IN_PROGRESS"
        BY <2>1, <3>1, <3>2
      <4>2. \A d \in Batch : d # b => /\ state'[d] = state[d]
                                      /\ completed'[d] = completed[d]
        BY <3>2
      <4>3. /\ state'[b] # "ABORTED" => completed'[b] = Cardinality(Done(b)')
            /\ state'[b] # "ABORTED"
            /\ state'[b] = "COMPLETED" => Done(b)' = 1 .. length[b]
            /\ state'[b] = "IN_PROGRESS" => completed'[b] < length[b]
        BY <3>3, <3>6, <3>7, <4>1
      <4> QED
        BY <2>3, <2>6, <4>2, <4>3 DEF Tallied, Counted
    <3> QED
      BY <2>8, <2>9, <3>8 DEF Tallied
  <2> QED
    BY <2>10, <2>11
<1>7. ASSUME NEW w \in Worker, Checkout(w) PROVE Tallied'
  BY <1>7, <1>a DEF Checkout, shapeVars, batchVars, requestVars
<1>8. CASE StopBegin
  <2>1. /\ shuttingDown'
        /\ state' = [b \in Batch |-> IF b \in Members(batches) THEN "ABORTED" ELSE state[b]]
        /\ UNCHANGED <<verdict, length, current, completed, isCompleted>>
    BY <1>8 DEF StopBegin, shapeVars, requestVars
  <2>2. \A b \in Members(batches) : b \in Batch /\ verdict[b] = "accepted"
    BY DEF Members, IndInv, Admitted
  <2>3. HandedOut'
    BY <2>1 DEF Tallied, HandedOut
  <2>4. Counted'
    <3>1. \A b \in Batch : Done(b)' = Done(b)
      BY <2>1 DEF Done
    <3> QED
      BY <2>1, <3>1 DEF Tallied, Counted
  <2>5. Sized'
    BY <2>1, <2>2 DEF Tallied, Sized
  <2> QED
    BY <2>3, <2>4, <2>5 DEF Tallied
<1>9. CASE StopClear \/ \E j \in jobsToRevoke : Revoke(j)
  BY <1>9, <1>a DEF StopClear, Revoke, processorVars, shapeVars, batchVars, requestVars
<1>10. CASE Internal
  BY <1>10, <1>a DEF Internal, batchVars, requestVars
<1> QED
  BY <1>1, <1>2, <1>3, <1>4, <1>5, <1>6, <1>7, <1>8, <1>9, <1>10, StepKinds DEF IndInv

\* A worker completes a job of a batch that lives, which no other one does.
LEMMA CompleteOne ==
  ASSUME IndInv, NEW w \in Worker, NEW code \in Outcomes, Complete(w, code)
  PROVE  \E j \in Outstanding :
           /\ job[w] = j /\ j \in Job /\ life[j[1]] = "live"
           /\ isCompleted' = isCompleted \cup {j}
           /\ j \notin Outstanding'
           /\ Outstanding \subseteq Outstanding' \cup {j}
<1>0. /\ pc \in [Thread -> PC]
      /\ job \in [Thread -> Job \cup {NoJob}]
      /\ Worker \subseteq Thread
  BY DEF IndInv, TypeOK, ThreadTypes, Thread
<1>1. /\ job[w] \in Job /\ job[w] \in Outstanding /\ life[job[w][1]] = "live"
      /\ isCompleted' = isCompleted \cup {job[w]}
      /\ pc' = [pc EXCEPT ![w] = "checkout"]
      /\ UNCHANGED <<pool, job>>
  BY <1>0 DEF Complete, CompleteRequest, Goto, Outstanding, Executing, IndInv, Control
<1>2. job[w] \notin Outstanding'
  BY <1>0, <1>1 DEF IndInv, OnePlace, Outstanding, Executing
<1>3. Outstanding \subseteq Outstanding' \cup {job[w]}
  BY <1>0, <1>1 DEF Outstanding, Executing
<1> QED
  BY <1>1, <1>2, <1>3

\* Until Stop begins a job stays under way until it is completed.
LEMMA OutstandingKept ==
  ASSUME IndInv, Underway, [Next]_vars, ~shuttingDown'
  PROVE  \A j \in Outstanding : j \in Outstanding' \/ j \in isCompleted'
<1> DEFINE Kept == Outstanding \subseteq Outstanding'
<1>0. /\ pc \in [Thread -> PC]
      /\ job \in [Thread -> Job \cup {NoJob}]
      /\ Worker \subseteq Thread /\ Client \subseteq Thread
      /\ Worker \cap Client = {}
  BY ThreadAssumption DEF IndInv, TypeOK, ThreadTypes, Thread
<1> USE <1>0 DEF Goto, Executing, Outstanding, threadVars
<1>1. ASSUME NEW c \in Client, NEW b \in Batch, NEW n \in Lengths,
             NEW parsed \in BOOLEAN,
             NEW method \in {"parallel", "sequential", "other"},
             Invoke(c, b, method, parsed, n)
      PROVE  Kept
  BY <1>1 DEF Invoke
<1>2. ASSUME NEW c \in Client, Submit(c) PROVE Kept
  BY <1>2 DEF Submit
<1>3. ASSUME NEW t \in Thread, Remove(t) PROVE Kept
  BY <1>3 DEF Remove
<1>4. ASSUME NEW t \in Thread, ScheduleJob(t) PROVE Kept
  BY <1>4 DEF ScheduleJob, PoolSubmit
<1>5. ASSUME NEW w \in Worker, NEW j \in pool, Take(w, j) PROVE Kept
  <2>1. /\ pool' = pool \ {j} /\ pc[w] = "idle"
        /\ pc' = [pc EXCEPT ![w] = "dispatch"]
        /\ job' = [job EXCEPT ![w] = j]
    BY <1>5 DEF Take
  <2> QED
    BY <2>1
<1>6. ASSUME NEW w \in Worker, NEW code \in Outcomes, Complete(w, code)
      PROVE  \A j \in Outstanding : j \in Outstanding' \/ j \in isCompleted'
  <2> HIDE DEF Outstanding
  <2> QED
    BY <1>6, CompleteOne
<1>7. ASSUME NEW w \in Worker, Checkout(w) PROVE Kept
  BY <1>7 DEF Checkout
<1>8. StopBegin => FALSE
  BY DEF StopBegin
<1>9. StopClear \/ (\E j \in jobsToRevoke : Revoke(j)) => FALSE
  BY DEF StopClear, Revoke, processorVars, IndInv, Slots
<1>10. CASE Internal
  <2>1. ~shuttingDown /\ stop = "running" /\ pool' = pool
    BY <1>10 DEF Internal, IndInv, Slots
  <2>2. \A w \in Worker : Executing(w) => life[job[w][1]] # "deleted"
    BY <2>1 DEF Underway
  <2>3. \A w \in Worker : Executing(w) => Executing(w)' /\ job'[w] = job[w]
    BY <1>10, <2>1, <2>2 DEF Internal
  <2> QED
    BY <2>1, <2>3
<1> QED
  BY <1>1, <1>2, <1>3, <1>4, <1>5, <1>6, <1>7, <1>8, <1>9, <1>10, StepKinds DEF IndInv

\* ScheduleJob creates a job that never was, of a batch in the list.
LEMMA ScheduleOne ==
  ASSUME IndInv, NEW t \in Thread, ScheduleJob(t)
  PROVE  \E b \in Batch, n \in Index :
           /\ b = batches[it[t]] /\ it[t] \in 1 .. Len(batches)
           /\ n = current[b] + 1 /\ n <= length[b]
           /\ ~shuttingDown /\ ~IsFinished(b)
           /\ Sequential(b) => activeCount[b] <= 0
           /\ Cardinality(activeJobs) < MaxConcurrentJobs
           /\ current' = [current EXCEPT ![b] = n]
           /\ activeCount' = [activeCount EXCEPT ![b] = @ + 1]
           /\ activeJobs' = activeJobs \cup {<<b, n>>}
           /\ pool' = pool \cup {<<b, n>>}
           /\ Outstanding' = Outstanding \cup {<<b, n>>}
           /\ UNCHANGED <<batches, shuttingDown, life, concurrent, length, state,
                          completed, isCompleted, pc, job, held, verdict, answers>>
<1> DEFINE b == batches[it[t]]
           n == current[b] + 1
<1>1. it[t] \in 1 .. Len(batches) /\ b \in Batch
  BY UnderIterator DEF ScheduleJob, IndInv
<1>2. current[b] < length[b] /\ ~IsFinished(b) /\ (Sequential(b) => ~(activeCount[b] > 0))
  BY DEF ScheduleJob, MaySchedule, HasRequest, IsActive
<1>3. /\ current[b] \in 0 .. MaxBatchSize /\ length[b] \in 0 .. MaxBatchSize
      /\ activeCount[b] \in Int
  BY <1>1 DEF IndInv, TypeOK, BatchTypes
<1>4. n \in Index /\ n <= length[b] /\ (Sequential(b) => activeCount[b] <= 0)
  BY <1>2, <1>3, LimitAssumption DEF Index
<1>5. ~shuttingDown
  BY <1>1, <1>2 DEF IndInv, Slots
<1>6. /\ Cardinality(activeJobs) < MaxConcurrentJobs
      /\ current' = [current EXCEPT ![b] = n]
      /\ activeCount' = [activeCount EXCEPT ![b] = @ + 1]
      /\ activeJobs' = activeJobs \cup {<<b, n>>}
      /\ pool' = pool \cup {<<b, n>>}
      /\ UNCHANGED <<batches, shuttingDown, life, concurrent, length, state,
                     completed, isCompleted, pc, job, held, verdict, answers>>
  BY DEF ScheduleJob, PoolSubmit, HasSlot, shapeVars, requestVars, answerVars
<1>7. Outstanding' = Outstanding \cup {<<b, n>>}
  BY <1>6 DEF Outstanding, Executing
<1> QED
  BY <1>1, <1>2, <1>4, <1>5, <1>6, <1>7

\* A job is created with its batch alive and its slot taken, and is completed
\* before the batch goes and the slot is given back.
LEMMA StepUnderway ==
  /\ IndInv /\ Owned /\ Tallied /\ Replied /\ Underway /\ [Next]_vars
  /\ IndInv'
  => Underway'
<1> SUFFICES ASSUME IndInv, Owned, Tallied, Replied, Underway, [Next]_vars, IndInv'
             PROVE  Underway'
  OBVIOUS
<1>0. /\ current \in [Batch -> 0 .. MaxBatchSize]
      /\ activeCount \in [Batch -> Int]
      /\ life \in [Batch -> {"none", "live", "deleted"}]
      /\ pc \in [Thread -> PC] /\ job \in [Thread -> Job \cup {NoJob}]
      /\ activeJobs \subseteq Job
      /\ Worker \subseteq Thread
      /\ \A b \in Batch : current[b] \in Nat /\ length[b] \in Nat
  BY LimitAssumption
     DEF IndInv, TypeOK, ProcessorTypes, BatchTypes, ThreadTypes, Thread
<1>1. ASSUME NEW t \in Thread, ScheduleJob(t) PROVE Underway'
  <2>1. PICK b \in Batch, n \in Index :
          /\ b = batches[it[t]] /\ it[t] \in 1 .. Len(batches)
          /\ n = current[b] + 1
          /\ current' = [current EXCEPT ![b] = n]
          /\ activeJobs' = activeJobs \cup {<<b, n>>}
          /\ Outstanding' = Outstanding \cup {<<b, n>>}
          /\ Sequential(b) => activeCount[b] <= 0
          /\ activeCount' = [activeCount EXCEPT ![b] = @ + 1]
          /\ UNCHANGED <<shuttingDown, life, concurrent, isCompleted, pc, job>>
    BY <1>1, ScheduleOne
  <2>2. <<b, n>> \notin isCompleted
    <3>1. ~(n <= current[b])
      BY <1>0, <2>1
    <3> QED
      BY <3>1 DEF Tallied, HandedOut
  <2>3. (Outstanding \cap isCompleted = {})'
    BY <2>1, <2>2 DEF Underway
  <2>4. (\A j \in activeJobs :
           \/ j \in Outstanding
           \/ j \in isCompleted /\ \E w \in Worker : pc[w] = "checkout" /\ job[w] = j)'
    BY <2>1 DEF Underway
  <2>5. NoRequestLost'
    <3> SUFFICES ASSUME ~shuttingDown, NEW d \in Batch, NEW i \in 1 .. current'[d]
                 PROVE  <<d, i>> \in isCompleted \cup Outstanding'
      BY <2>1 DEF NoRequestLost
    <3>1. CASE d = b /\ i = n
      BY <2>1, <3>1
    <3>2. CASE ~(d = b /\ i = n)
      <4>1. i \in 1 .. current[d]
        BY <1>0, <2>1, <3>2
      <4> QED
        BY <2>1, <4>1 DEF Underway, NoRequestLost
    <3> QED
      BY <3>1, <3>2
  <2>6. life[b] = "live"
    BY <2>1 DEF Owned, Listed
  <2>7. (~shuttingDown => \A j \in Outstanding : life[j[1]] = "live")'
    BY <2>1, <2>6 DEF Underway
  <2>8. (\A d \in Batch :
           Sequential(d) /\ activeCount[d] = 1 =>
             current[d] > 0 /\ <<d, current[d]>> \notin isCompleted)'
    <3> SUFFICES ASSUME NEW d \in Batch, Sequential(d), activeCount'[d] = 1
                 PROVE  current'[d] > 0 /\ <<d, current'[d]>> \notin isCompleted
      BY <2>1 DEF Sequential
    <3>1. current'[b] = n /\ n > 0
      BY <1>0, <2>1, LimitAssumption DEF Index
    <3>2. d # b => current'[d] = current[d] /\ activeCount'[d] = activeCount[d]
      BY <1>0, <2>1
    <3> QED
      BY <2>2, <3>1, <3>2 DEF Underway
  <2> QED
    BY <2>3, <2>4, <2>5, <2>7, <2>8 DEF Underway
<1>2. ASSUME NEW w \in Worker, NEW code \in Outcomes, Complete(w, code) PROVE Underway'
  <2>1. PICK j \in Outstanding :
           /\ job[w] = j /\ j \in Job
           /\ isCompleted' = isCompleted \cup {j}
           /\ j \notin Outstanding'
           /\ Outstanding \subseteq Outstanding' \cup {j}
    BY <1>2, CompleteOne
  <2>2. PICK b \in Batch, n \in Index : j = <<b, n>> /\ n <= current[b]
    BY <2>1, OutstandingJobs
  <2>3. /\ pc' = [pc EXCEPT ![w] = "checkout"]
        /\ activeCount' = [activeCount EXCEPT ![b] = @ - 1]
        /\ UNCHANGED <<activeJobs, shuttingDown, life, concurrent, current, job>>
        /\ pc[w] = "invoke"
    BY <1>2, <2>1, <2>2
       DEF Complete, CompleteRequest, Release, Goto, processorVars, shapeVars
  <2>4. Outstanding' \subseteq Outstanding
    <3>1. pool' = pool
      BY <1>2 DEF Complete
    <3> QED
      BY <1>0, <2>3, <3>1, OutstandingShrinks DEF Executing
  <2>5. (Outstanding \cap isCompleted = {})'
    BY <2>1, <2>4 DEF Underway
  <2>6. (\A i \in activeJobs :
           \/ i \in Outstanding
           \/ i \in isCompleted /\ \E v \in Worker : pc[v] = "checkout" /\ job[v] = i)'
    BY <1>0, <2>1, <2>3 DEF Underway
  <2>7. NoRequestLost'
    BY <2>1, <2>3 DEF Underway, NoRequestLost
  <2>8. (~shuttingDown => \A i \in Outstanding : life[i[1]] = "live")'
    BY <2>3, <2>4 DEF Underway
  <2>9. (\A d \in Batch :
           Sequential(d) /\ activeCount[d] = 1 =>
             current[d] > 0 /\ <<d, current[d]>> \notin isCompleted)'
    <3> SUFFICES ASSUME NEW d \in Batch, Sequential(d), activeCount'[d] = 1
                 PROVE  current[d] > 0 /\ <<d, current[d]>> \notin isCompleted'
      BY <2>3 DEF Sequential
    <3>1. d # b
      BY <1>0, <2>3 DEF IndInv, OneAtATime
    <3> QED
      BY <1>0, <2>1, <2>2, <2>3, <3>1 DEF Underway
  <2> QED
    BY <2>5, <2>6, <2>7, <2>8, <2>9 DEF Underway
\* The other steps neither hand out nor complete a request.
<1>3. ASSUME UNCHANGED <<isCompleted, current>>,
             Outstanding' \subseteq Outstanding,
             \A b \in Batch : Sequential(b)' /\ activeCount'[b] = 1 =>
               Sequential(b) /\ activeCount[b] = 1,
             ~shuttingDown' =>
               /\ ~shuttingDown
               /\ activeJobs' \subseteq activeJobs
               /\ \A j \in Outstanding' : life[j[1]] = "live" => life'[j[1]] = "live"
               /\ \A w \in Worker :
                    pc[w] = "checkout" /\ job[w] \in activeJobs' =>
                      pc'[w] = "checkout" /\ job'[w] = job[w]
      PROVE  Underway'
  <2>1. (Outstanding \cap isCompleted = {})'
    BY <1>3 DEF Underway
  <2>2. (\A i \in activeJobs :
           \/ i \in Outstanding
           \/ i \in isCompleted /\ \E v \in Worker : pc[v] = "checkout" /\ job[v] = i)'
    <3>1. CASE shuttingDown'
      BY <3>1 DEF IndInv, Slots
    <3>2. CASE ~shuttingDown'
      BY <3>2, <1>3, <1>0, OutstandingKept DEF Underway
    <3> QED
      BY <3>1, <3>2
  <2>3. NoRequestLost'
    BY <1>3, OutstandingKept DEF Underway, NoRequestLost
  <2>4. (~shuttingDown => \A i \in Outstanding : life[i[1]] = "live")'
    BY <1>3 DEF Underway
  <2>5. (\A d \in Batch :
           Sequential(d) /\ activeCount[d] = 1 =>
             current[d] > 0 /\ <<d, current[d]>> \notin isCompleted)'
    BY <1>3 DEF Underway
  <2> QED
    BY <2>1, <2>2, <2>3, <2>4, <2>5 DEF Underway
<1> SUFFICES ASSUME Outstanding' \subseteq Outstanding
             PROVE  Underway'
  BY <1>1, OutstandingStep DEF IndInv
<1>4. ASSUME NEW c \in Client, NEW b \in Batch, NEW n \in Lengths,
             NEW parsed \in BOOLEAN,
             NEW method \in {"parallel", "sequential", "other"},
             Invoke(c, b, method, parsed, n)
      PROVE  Underway'
  <2>1. /\ UNCHANGED <<isCompleted, current, activeCount, shuttingDown, activeJobs, life, job>>
        /\ verdict[b] = "unsent" /\ pc[c] = "idle"
        /\ pc' = pc \/ pc' = [pc EXCEPT ![c] = "submit"]
        /\ concurrent' = concurrent
           \/ concurrent' = [concurrent EXCEPT ![b] = (method = "parallel")]
    BY <1>4 DEF Invoke, Goto, processorVars, batchVars, requestVars, shapeVars
  <2>2. activeCount[b] = 0
    BY <2>1 DEF IndInv, Admitted
  <2>3. \A d \in Batch : Sequential(d)' /\ activeCount'[d] = 1 =>
          Sequential(d) /\ activeCount[d] = 1
    BY <2>1, <2>2 DEF Sequential, IndInv, TypeOK, BatchTypes
  <2> QED
    BY <1>0, <1>3, <2>1, <2>3
<1>5. ASSUME UNCHANGED <<isCompleted, current, activeCount, concurrent>>,
             ~shuttingDown' =>
               /\ ~shuttingDown
               /\ activeJobs' \subseteq activeJobs
               /\ \A j \in Outstanding' : life[j[1]] = "live" => life'[j[1]] = "live"
               /\ \A w \in Worker :
                    pc[w] = "checkout" /\ job[w] \in activeJobs' =>
                      pc'[w] = "checkout" /\ job'[w] = job[w]
      PROVE  Underway'
  BY <1>3, <1>5 DEF Sequential
<1>6. ASSUME NEW c \in Client, Submit(c) PROVE Underway'
  <2>1. held[c] \in Batch /\ pc[c] = "submit" /\ c \in Thread
    BY <1>6 DEF Submit, IndInv, Control, Thread
  <2>2. /\ UNCHANGED <<isCompleted, current, activeCount, concurrent, shuttingDown,
                       activeJobs, job>>
        /\ life' = life \/ life' = [life EXCEPT ![held[c]] = "live"]
        /\ pc' = [pc EXCEPT ![c] = "idle"] \/ pc' = [pc EXCEPT ![c] = "process"]
    BY <1>6 DEF Submit, Goto, batchVars, requestVars, shapeVars
  <2>3. \A j \in Outstanding : life[j[1]] = "live" => life'[j[1]] = "live"
    BY <1>0, <2>1, <2>2, OutstandingJobs
  <2>4. \A w \in Worker : pc[w] = "checkout" => pc'[w] = "checkout"
    BY <1>0, <2>1, <2>2
  <2> QED
    BY <1>5, <2>2, <2>3, <2>4
<1>7. ASSUME NEW t \in Thread, Remove(t) PROVE Underway'
  <2>1. /\ UNCHANGED <<isCompleted, current, activeCount, concurrent, shuttingDown,
                       activeJobs, job, life>>
        /\ pc' = [pc EXCEPT ![t] = "answer"] /\ pc[t] = "scan"
    BY <1>7 DEF Remove, Goto, batchVars, requestVars, shapeVars
  <2> QED
    BY <1>0, <1>5, <2>1
<1>8. ASSUME NEW w \in Worker, NEW j \in pool, Take(w, j) PROVE Underway'
  <2>1. /\ UNCHANGED <<isCompleted, current, activeCount, concurrent, shuttingDown,
                       activeJobs, life>>
        /\ pc' = [pc EXCEPT ![w] = "dispatch"] /\ pc[w] = "idle"
        /\ job' = [job EXCEPT ![w] = j]
    BY <1>8 DEF Take, Goto, processorVars, batchVars, requestVars, shapeVars
  <2> QED
    BY <1>0, <1>5, <2>1
<1>9. ASSUME NEW w \in Worker, Checkout(w) PROVE Underway'
  <2>1. /\ UNCHANGED <<isCompleted, current, activeCount, concurrent, shuttingDown,
                       life, job>>
        /\ pc' = [pc EXCEPT ![w] = "leave"]
        /\ activeJobs' = IF shuttingDown THEN activeJobs ELSE activeJobs \ {job[w]}
    BY <1>9 DEF Checkout, Remaining, Goto, batchVars, requestVars, shapeVars
  <2> QED
    BY <1>0, <1>5, <2>1
<1>10. ASSUME NEW t \in Thread, Answer(t) PROVE Underway'
  <2> DEFINE b == held[t]
  <2>1. /\ UNCHANGED <<isCompleted, current, activeCount, concurrent, shuttingDown,
                       activeJobs, job>>
        /\ life' = [life EXCEPT ![b] = "deleted"]
        /\ pc' = [pc EXCEPT ![t] = "relock"] /\ pc[t] = "answer"
        /\ b \in Batch
    BY <1>10 DEF Answer, Goto, processorVars, batchVars, requestVars, shapeVars,
       IndInv, Control
  <2>2. IsFinished(b)
    BY <2>1 DEF Replied
  <2>3. ASSUME ~shuttingDown, NEW j \in Outstanding PROVE j[1] # b
    <3>1. PICK d \in Batch, n \in Index : j = <<d, n>> /\ n <= current[d]
      BY OutstandingJobs
    <3>2. state[b] = "COMPLETED"
      BY <2>1, <2>2, <2>3 DEF IsFinished, Tallied, Counted
    <3>3. Done(b) = 1 .. length[b] /\ current[b] <= length[b]
      BY <2>1, <3>2 DEF Tallied, Counted, HandedOut
    <3>4. j \notin isCompleted
      BY DEF Underway
    <3>5. d = b => n \in Done(b)
      BY <1>0, <3>1, <3>3, LimitAssumption DEF Index
    <3> QED
      BY <3>1, <3>4, <3>5 DEF Done
  <2>4. \A j \in Outstanding : j[1] \in Batch
    BY OutstandingJobs
  <2> HIDE DEF b
  <2> QED
    BY <1>0, <1>5, <2>1, <2>3, <2>4
<1>11. CASE StopBegin
  BY <1>11, <1>5 DEF StopBegin, batchVars, requestVars, shapeVars
<1>12. CASE StopClear \/ \E j \in jobsToRevoke : Revoke(j)
  <2>1. /\ UNCHANGED <<isCompleted, current, activeCount, concurrent, shuttingDown>>
        /\ stop = "revoking"
    BY <1>12 DEF StopClear, Revoke, processorVars, batchVars, requestVars, shapeVars
  <2>2. shuttingDown'
    BY <2>1 DEF IndInv, Slots
  <2> QED
    BY <1>5, <2>1, <2>2
<1>13. ASSUME Internal, life' = life PROVE Underway'
  <2>1. UNCHANGED <<isCompleted, current, activeCount, concurrent, shuttingDown, activeJobs>>
    BY <1>13 DEF Internal, batchVars, requestVars
  <2>2. ~shuttingDown => stop = "running"
    BY DEF IndInv, Slots
  <2>3. ASSUME ~shuttingDown, NEW w \in Worker, pc[w] = "checkout"
        PROVE  pc'[w] = "checkout" /\ job'[w] = job[w]
    BY <1>13, <2>2, <2>3 DEF Internal
  <2> QED
    BY <1>5, <1>13, <2>1, <2>3
<1>14. Internal => life' = life \/ \E t \in Thread : Answer(t)
  BY DEF Internal
<1> QED
  BY <1>1, <1>2, <1>4, <1>6, <1>7, <1>8, <1>9, <1>10, <1>11, <1>12, <1>13, <1>14,
     StepKinds DEF IndInv

\* A batch is finished before it is answered, is deleted with its answer, and
\* nothing that the answer told changes after it.
LEMMA StepReplied == IndInv /\ Owned /\ Replied /\ [Next]_vars => Replied'
<1> SUFFICES ASSUME IndInv, Owned, Replied, [Next]_vars PROVE Replied'
  OBVIOUS
<1>0. /\ life \in [Batch -> {"none", "live", "deleted"}]
      /\ length \in [Batch -> 0 .. MaxBatchSize]
      /\ state \in [Batch -> {"IN_PROGRESS", "COMPLETED", "ABORTED"}]
      /\ pc \in [Thread -> PC]
      /\ held \in [Thread -> Batch \cup {Nobody}]
      /\ verdict \in [Batch -> Verdict]
      /\ answers \in [Batch -> Nat]
      /\ errorCode \in [Job -> Code]
      /\ Worker \subseteq Thread /\ Client \subseteq Thread
      /\ \A b \in Batch : life[b] # "deleted" => answers[b] = 0
  BY DEF IndInv, TypeOK, BatchTypes, RequestTypes, ThreadTypes, ReplyTypes, Thread,
     Replied
<1>s. ASSUME NEW b \in Batch, length'[b] = length[b],
             \A i \in 1 .. length[b] :
               /\ <<b, i>> \in isCompleted' <=> <<b, i>> \in isCompleted
               /\ errorCode'[<<b, i>>] = errorCode[<<b, i>>]
      PROVE  Serialize(b)' = Serialize(b)
  BY <1>s DEF Serialize
\* A step that answers nothing leaves an answered batch and its codes alone.
<1>a. ASSUME UNCHANGED <<answers, response>>,
             \A b \in Batch : answers[b] > 0 =>
               /\ life[b] = "deleted" => life'[b] = "deleted"
               /\ Serialize(b)' = Serialize(b),
             \A b \in Batch : IsFinished(b) => IsFinished(b)',
             \A t \in Thread : pc'[t] = "answer" =>
               \/ pc[t] = "answer" /\ held'[t] = held[t]
               \/ state'[held'[t]] \in {"COMPLETED", "ABORTED"}
      PROVE  Replied'
  <2>1. \A t \in Thread : pc[t] = "answer" => held[t] \in Batch
    BY DEF IndInv, Control
  <2>2. (\A t \in Thread : pc[t] = "answer" => IsFinished(held[t]))'
    BY <1>a, <2>1 DEF Replied, IsFinished
  <2>3. (\A b \in Batch : answers[b] > 0 =>
           /\ answers[b] = 1
           /\ life[b] = "deleted"
           /\ IsFinished(b)
           /\ response[b] = Serialize(b))'
    BY <1>a DEF Replied
  <2>4. response' = [b \in Batch |-> response'[b]]
    BY <1>a DEF Replied
  <2> QED
    BY <2>2, <2>3, <2>4 DEF Replied
\* A step that touches no request, and moves no thread to its answer.
<1>b. ASSUME UNCHANGED <<answers, response, length, isCompleted, errorCode, state>>,
             \A b \in Batch : life[b] = "deleted" => life'[b] = "deleted",
             \A t \in Thread : pc'[t] = "answer" => pc[t] = "answer" /\ held'[t] = held[t]
      PROVE  Replied'
  <2>1. \A b \in Batch : Serialize(b)' = Serialize(b)
    BY <1>b, <1>s
  <2>2. \A b \in Batch : IsFinished(b) => IsFinished(b)'
    BY <1>b DEF IsFinished
  <2> QED
    BY <1>a, <1>b, <2>1, <2>2
<1>1. ASSUME NEW c \in Client, NEW b \in Batch, NEW n \in Lengths,
             NEW parsed \in BOOLEAN,
             NEW method \in {"parallel", "sequential", "other"},
             Invoke(c, b, method, parsed, n)
      PROVE  Replied'
  <2>1. /\ verdict[b] = "unsent" /\ pc[c] = "idle"
        /\ length' = length \/ length' = [length EXCEPT ![b] = n]
        /\ UNCHANGED <<answers, response, life, isCompleted, errorCode, state>>
        /\ \/ UNCHANGED <<pc, held>>
           \/ pc' = [pc EXCEPT ![c] = "submit"] /\ held' = [held EXCEPT ![c] = b]
    BY <1>1 DEF Invoke, Goto, batchVars, requestVars, shapeVars, answerVars
  <2>2. answers[b] = 0
    BY <1>0, <2>1 DEF Owned, Alive
  <2>3. \A d \in Batch : answers[d] > 0 => Serialize(d)' = Serialize(d)
    BY <1>0, <1>s, <2>1, <2>2
  <2>4. \A d \in Batch : IsFinished(d) => IsFinished(d)'
    BY <2>1 DEF IsFinished
  <2>5. \A t \in Thread : pc'[t] = "answer" => pc[t] = "answer" /\ held'[t] = held[t]
    BY <1>0, <2>1
  <2> QED
    BY <1>a, <2>1, <2>3, <2>4, <2>5
<1>2. ASSUME NEW c \in Client, Submit(c) PROVE Replied'
  <2>1. /\ held[c] \in Batch /\ pc[c] = "submit" /\ verdict[held[c]] = "pending"
    BY <1>2 DEF Submit, IndInv, Control, Thread
  <2>2. /\ UNCHANGED <<answers, response, length, isCompleted, errorCode, state>>
        /\ life' = life \/ life' = [life EXCEPT ![held[c]] = "live"]
        /\ held' = [held EXCEPT ![c] = Nobody]
        /\ pc' = [pc EXCEPT ![c] = "idle"] \/ pc' = [pc EXCEPT ![c] = "process"]
    BY <1>2 DEF Submit, Goto, batchVars, requestVars, shapeVars, answerVars
  <2>3. life[held[c]] = "none"
    BY <1>0, <2>1 DEF Owned, Alive
  <2>4. \A b \in Batch : life[b] = "deleted" => life'[b] = "deleted"
    BY <1>0, <2>1, <2>2, <2>3
  <2>5. \A t \in Thread : pc'[t] = "answer" => pc[t] = "answer" /\ held'[t] = held[t]
    BY <1>0, <2>1, <2>2
  <2> QED
    BY <1>b, <2>2, <2>4, <2>5
<1>3. ASSUME NEW t \in Thread, Remove(t) PROVE Replied'
  <2>1. /\ batches[it[t]] \in Batch /\ IsFinished(batches[it[t]])
        /\ held' = [held EXCEPT ![t] = batches[it[t]]]
        /\ pc' = [pc EXCEPT ![t] = "answer"]
        /\ UNCHANGED <<answers, response, length, isCompleted, errorCode, state, life>>
    BY <1>3, UnderIterator
       DEF Remove, IndInv, Goto, batchVars, requestVars, shapeVars, answerVars
  <2>2. \A b \in Batch : Serialize(b)' = Serialize(b)
    BY <1>s, <2>1
  <2>3. \A b \in Batch : IsFinished(b) => IsFinished(b)'
    BY <2>1 DEF IsFinished
  <2>4. \A u \in Thread : pc'[u] = "answer" =>
           \/ pc[u] = "answer" /\ held'[u] = held[u]
           \/ state'[held'[u]] \in {"COMPLETED", "ABORTED"}
    BY <1>0, <2>1 DEF IsFinished
  <2> QED
    BY <1>a, <2>1, <2>2, <2>3, <2>4
<1>4. ASSUME NEW t \in Thread, ScheduleJob(t) PROVE Replied'
  BY <1>4, <1>b DEF ScheduleJob, requestVars, shapeVars, answerVars
<1>5. ASSUME NEW w \in Worker, NEW j \in pool, Take(w, j) PROVE Replied'
  BY <1>0, <1>5, <1>b DEF Take, Goto, batchVars, requestVars, shapeVars, answerVars
<1>6. ASSUME NEW w \in Worker, NEW code \in Outcomes, Complete(w, code) PROVE Replied'
  <2>1. PICK b \in Batch, n \in Index : job[w] = <<b, n>> /\ job[w] \in Job
    BY <1>6 DEF Complete, IndInv, Control, Job, Thread
  <2>2. /\ life[b] = "live"
        /\ isCompleted' = isCompleted \cup {<<b, n>>}
        /\ errorCode' = [errorCode EXCEPT ![<<b, n>>] = Keep(<<b, n>>, code)]
        /\ UNCHANGED <<answers, response, life, length, held>>
        /\ pc' = [pc EXCEPT ![w] = "checkout"]
        /\ \/ state' = state
           \/ state' = [state EXCEPT ![b] = IF Last(b) THEN "COMPLETED" ELSE @]
    BY <1>6, <2>1 DEF Complete, CompleteRequest, Goto, shapeVars, answerVars
  <2>3. ASSUME NEW d \in Batch, answers[d] > 0 PROVE Serialize(d)' = Serialize(d)
    <3>1. d # b
      BY <1>0, <2>2, <2>3
    <3>2. ASSUME NEW i \in 1 .. length[d]
          PROVE  /\ <<d, i>> \in isCompleted' <=> <<d, i>> \in isCompleted
                 /\ errorCode'[<<d, i>>] = errorCode[<<d, i>>]
      <4>1. <<d, i>> # <<b, n>>
        BY <3>1
      <4>2. <<d, i>> \in Job
        BY <1>0, LimitAssumption DEF Job, Index
      <4> QED
        BY <1>0, <2>2, <4>1, <4>2
    <3> QED
      BY <1>s, <2>2, <3>2
  <2>4. \A d \in Batch : IsFinished(d) => IsFinished(d)'
    BY <1>0, <2>2 DEF IsFinished
  <2>5. \A u \in Thread : pc'[u] = "answer" => pc[u] = "answer" /\ held'[u] = held[u]
    BY <1>0, <2>2
  <2> QED
    BY <1>a, <2>2, <2>3, <2>4, <2>5
<1>7. ASSUME NEW w \in Worker, Checkout(w) PROVE Replied'
  BY <1>0, <1>7, <1>b DEF Checkout, Goto, batchVars, requestVars, shapeVars, answerVars
<1>8. CASE StopBegin
  <2>1. /\ UNCHANGED <<answers, response, life, length, isCompleted, errorCode, pc, held>>
        /\ state' = [b \in Batch |-> IF b \in Members(batches) THEN "ABORTED" ELSE state[b]]
    BY <1>8 DEF StopBegin, requestVars, shapeVars, threadVars, answerVars
  <2>2. \A b \in Batch : Serialize(b)' = Serialize(b)
    BY <1>s, <2>1
  <2>3. \A b \in Batch : IsFinished(b) => IsFinished(b)'
    BY <2>1 DEF IsFinished
  <2> QED
    BY <1>a, <2>1, <2>2, <2>3
<1>9. ASSUME NEW j \in jobsToRevoke, Revoke(j) PROVE Replied'
  BY <1>9, <1>b DEF Revoke, batchVars, requestVars, shapeVars, threadVars, answerVars
<1>10. CASE StopClear
  <2>1. /\ UNCHANGED <<answers, response, length, isCompleted, errorCode, state, pc, held>>
        /\ life' = [b \in Batch |-> IF b \in Members(batches) THEN "deleted" ELSE life[b]]
    BY <1>10 DEF StopClear, batchVars, requestVars, shapeVars, threadVars, answerVars
  <2> QED
    BY <1>b, <2>1
<1>11. ASSUME NEW t \in Thread, Answer(t) PROVE Replied'
  <2> DEFINE b == held[t]
  <2>1. /\ pc[t] = "answer" /\ b \in Batch /\ life[b] = "live" /\ IsFinished(b)
        /\ \A u \in Thread : held[u] = b => u = t
    BY <1>11, NobodyAssumption DEF Answer, IndInv, Control, Owned, Apart, Replied
  <2>2. /\ answers' = [answers EXCEPT ![b] = answers[b] + 1]
        /\ response' = [response EXCEPT ![b] = Serialize(b)]
        /\ life' = [life EXCEPT ![b] = "deleted"]
        /\ held' = [held EXCEPT ![t] = Nobody]
        /\ pc' = [pc EXCEPT ![t] = "relock"]
        /\ UNCHANGED <<length, isCompleted, errorCode, state>>
    BY <1>11 DEF Answer, Goto, batchVars, requestVars, shapeVars
  <2>3. answers[b] = 0
    BY <1>0, <2>1
  <2>4. \A d \in Batch : /\ Serialize(d)' = Serialize(d)
                         /\ IsFinished(d)' = IsFinished(d)
    BY <1>s, <2>2 DEF IsFinished
  <2> HIDE DEF b
  <2>5. /\ response' = [d \in Batch |-> response'[d]]
        /\ \A d \in Batch : response'[d] = IF d = b THEN Serialize(b) ELSE response[d]
    BY <2>1, <2>2 DEF Replied
  <2>6. \A d \in Batch : /\ answers'[d] = IF d = b THEN 1 ELSE answers[d]
                         /\ life'[d] = IF d = b THEN "deleted" ELSE life[d]
    BY <1>0, <2>1, <2>2, <2>3
  <2>7. (\A u \in Thread : pc[u] = "answer" => IsFinished(held[u]))'
    <3> SUFFICES ASSUME NEW u \in Thread, pc'[u] = "answer"
                 PROVE  state'[held'[u]] \in {"COMPLETED", "ABORTED"}
      BY DEF IsFinished
    <3>1. u # t /\ pc[u] = "answer" /\ held'[u] = held[u]
      BY <1>0, <2>2
    <3>2. held[u] \in Batch /\ IsFinished(held[u])
      BY <3>1 DEF IndInv, Control, Replied
    <3> QED
      BY <2>2, <3>1, <3>2 DEF IsFinished
  <2>8. (\A d \in Batch : answers[d] > 0 =>
           /\ answers[d] = 1
           /\ life[d] = "deleted"
           /\ IsFinished(d)
           /\ response[d] = Serialize(d))'
    BY <2>1, <2>4, <2>5, <2>6 DEF Replied
  <2> QED
    BY <2>5, <2>7, <2>8 DEF Replied
<1>12. ASSUME Internal PROVE Replied'
  BY <1>11, <1>12, <1>b DEF Internal, batchVars, requestVars
<1> QED
  BY <1>1, <1>2, <1>3, <1>4, <1>5, <1>6, <1>7, <1>8, <1>9, <1>10, <1>12, StepKinds
     DEF IndInv

\* Only CompleteRequest writes a request's code, and it does so once.
LEMMA StepRecorded == IndInv /\ Underway /\ Recorded /\ [Next]_vars => Recorded'
<1> SUFFICES ASSUME IndInv, Underway, Recorded, [Next]_vars PROVE Recorded'
  OBVIOUS
<1>0. /\ errorCode \in [Job -> Code]
      /\ returned \in [Job -> Code \cup {"nothing"}]
  BY DEF IndInv, TypeOK, RequestTypes
<1>1. ASSUME UNCHANGED <<isCompleted, errorCode, returned>> PROVE Recorded'
  BY <1>1 DEF Recorded
<1>2. ASSUME NEW w \in Worker, NEW code \in Outcomes, Complete(w, code) PROVE Recorded'
  <2>1. PICK j \in Outstanding :
          job[w] = j /\ j \in Job /\ isCompleted' = isCompleted \cup {j}
    BY <1>2, CompleteOne
  <2>2. /\ errorCode' = [errorCode EXCEPT ![j] = Keep(j, code)]
        /\ returned' = [returned EXCEPT ![j] = code]
    BY <1>2, <2>1 DEF Complete, CompleteRequest
  <2>3. /\ j \notin isCompleted /\ code # "nothing"
        /\ Keep(j, code) = IF code = "ERROR_NONE" THEN "ERROR_GENERAL" ELSE code
    BY <2>1, OutcomeAssumption DEF Underway, Recorded, Keep
  <2> QED
    BY <1>0, <2>1, <2>2, <2>3 DEF Recorded
<1>3. Internal => UNCHANGED <<isCompleted, errorCode, returned>>
  BY DEF Internal, requestVars
<1> QED
  BY <1>1, <1>2, <1>3, StepKinds, ZenonT(40)
     DEF IndInv, Invoke, Submit, Remove, ScheduleJob, Take, Checkout, StopBegin, Revoke,
         StopClear, requestVars

-----------------------------------------------------------------------------
\* What the service's properties rest on, beside the invariant of the scheduling.
ServiceInv == Owned /\ Tallied /\ Underway /\ Replied /\ Recorded

\* Before any request is sent there is nothing to own, count or answer.
LEMMA InitService == Init => ServiceInv
<1> SUFFICES ASSUME Init PROVE ServiceInv
  OBVIOUS
<1>1. Owned
  BY DEF Init, Owned, Listed, Apart, Alive
<1>2. Outstanding = {}
  BY DEF Init, Outstanding, Executing, Thread
<1>3. Tallied
  <2>1. \A b \in Batch : Done(b) = {}
    BY DEF Init, Done
  <2>2. \A b \in Batch : Cardinality(Done(b)) = 0
    <3>1. Cardinality({}) = 0
      BY FS_EmptySet
    <3> QED
      BY <2>1, <3>1
  <2> QED
    BY <2>1, <2>2 DEF Init, Tallied, HandedOut, Counted, Sized
<1>4. Underway
  BY <1>2 DEF Init, Underway, NoRequestLost
<1>5. Replied
  BY DEF Init, Replied
<1>6. Recorded
  BY DEF Init, Recorded
<1> QED
  BY <1>1, <1>3, <1>4, <1>5, <1>6 DEF ServiceInv

\* The ownership of batches, the counting of requests, the jobs under way and
\* the answers hold in every reachable state.
THEOREM ServiceInvariance == Spec => [](IndInv /\ ServiceInv)
<1>1. Init => IndInv /\ ServiceInv
  BY InitInv, InitService
<1>2. IndInv /\ ServiceInv /\ [Next]_vars => (IndInv /\ ServiceInv)'
  <2>1. IndInv /\ [Next]_vars => IndInv'
    BY StepTypes, StepControl, StepAdmitted, StepOnePlace, StepSlots, StepOneAtATime
       DEF IndInv
  <2> QED
    BY <2>1, StepOwned, StepTallied, StepUnderway, StepReplied, StepRecorded
       DEF ServiceInv
<1> QED
  BY <1>1, <1>2, PTL DEF Spec

\* A batch that lives is in the list once, or held by one thread that submits or
\* answers it (Process l.541-561).
THEOREM OneOwnerHolds == Spec => []OneOwner
<1>1. ASSUME IndInv, ServiceInv PROVE OneOwner
  <2>0. /\ Nobody \notin Batch
        /\ held \in [Thread -> Batch \cup {Nobody}]
    BY <1>1, NobodyAssumption DEF IndInv, TypeOK, ThreadTypes
  <2> SUFFICES ASSUME NEW b \in Batch
               PROVE  LET places  == {i \in 1 .. Len(batches) : batches[i] = b}
                          holders == {t \in Thread : held[t] = b}
                      IN IF life[b] = "live"
                           THEN Cardinality(places) + Cardinality(holders) = 1
                           ELSE places = {} /\ \A t \in holders : pc[t] # "answer"
    BY DEF OneOwner
  <2> DEFINE places  == {i \in 1 .. Len(batches) : batches[i] = b}
             holders == {t \in Thread : held[t] = b}
  <2>3. Cardinality({}) = 0 /\ \A x : Cardinality({x}) = 1
    BY FS_EmptySet, FS_Singleton
  <2>1. ASSUME life[b] = "live"
        PROVE  Cardinality(places) + Cardinality(holders) = 1
    <3>1. CASE \E i \in 1 .. Len(batches) : batches[i] = b
      <4>1. PICK i \in 1 .. Len(batches) : batches[i] = b
        BY <3>1
      <4>2. places = {i}
        BY <1>1, <4>1 DEF ServiceInv, Owned, Listed
      <4>3. holders = {}
        BY <1>1, <2>0, <4>1 DEF ServiceInv, Owned, Apart
      <4>4. Cardinality(places) + Cardinality(holders) = 1 + 0
        BY <2>3, <4>2, <4>3
      <4> QED
        BY <4>4
    <3>2. CASE \A i \in 1 .. Len(batches) : batches[i] # b
      <4>1. PICK t \in Thread : held[t] = b
        BY <1>1, <2>1, <3>2 DEF ServiceInv, Owned, Alive
      <4>2. holders = {t}
        BY <1>1, <2>0, <4>1 DEF ServiceInv, Owned, Apart
      <4>3. places = {}
        BY <3>2
      <4>4. Cardinality(places) + Cardinality(holders) = 0 + 1
        BY <2>3, <4>2, <4>3
      <4> QED
        BY <4>4
    <3> QED
      BY <3>1, <3>2
  <2>2. ASSUME life[b] # "live"
        PROVE  places = {} /\ \A t \in holders : pc[t] # "answer"
    BY <1>1, <2>0, <2>2 DEF ServiceInv, Owned, Listed, Apart
  <2> QED
    BY <2>1, <2>2
<1> QED
  BY <1>1, ServiceInvariance, PTL

\* A finished batch that was not aborted has all its requests completed.
LEMMA FinishedIsDone ==
  ASSUME IndInv, ServiceInv, ~shuttingDown, NEW b \in Batch, IsFinished(b)
  PROVE  \A i \in 1 .. length[b] : <<b, i>> \in isCompleted
<1>1. state[b] = "COMPLETED"
  BY DEF IsFinished, ServiceInv, Tallied, Counted
<1>2. Done(b) = 1 .. length[b]
  BY <1>1 DEF ServiceInv, Tallied, Counted
<1> QED
  BY <1>2 DEF Done

\* Neither the answer, before its requests are done, nor the deletion, under a job
\* that refers to it, comes too early (CompleteRequest l.327, Process l.555).
THEOREM AnsweredInTimeHolds == Spec => []AnsweredInTime
<1>1. ASSUME IndInv, ServiceInv PROVE AnsweredComplete
  <2>1. ASSUME NEW b \in Batch, answers[b] > 0
        PROVE  /\ answers[b] = 1 /\ life[b] = "deleted" /\ IsFinished(b)
    BY <1>1, <2>1 DEF ServiceInv, Replied
  <2>2. ASSUME NEW b \in Batch, answers[b] > 0 PROVE verdict[b] = "accepted"
    BY <1>1, <2>1, <2>2 DEF ServiceInv, Owned, Alive
  <2> QED
    BY <1>1, <2>1, <2>2, FinishedIsDone DEF AnsweredComplete
<1>2. ASSUME IndInv, ServiceInv PROVE BatchOutlivesJobs
  BY <1>2 DEF ServiceInv, Underway, BatchOutlivesJobs
<1> QED
  BY <1>1, <1>2, ServiceInvariance, PTL DEF AnsweredInTime

\* A request's failure reaches its client, and what did not run is told to have
\* failed (Serialize l.242-251, CompleteRequest l.316-321).
THEOREM FailureReportedHolds == Spec => []FailureReported
<1>1. ASSUME IndInv, ServiceInv PROVE FailureReported
  <2> SUFFICES ASSUME NEW b \in Batch, answers[b] > 0, NEW i \in 1 .. length[b]
               PROVE  /\ returned[<<b, i>>] = "nothing" =>
                           shuttingDown /\ response[b][i].code = "ERROR_GENERAL"
                      /\ returned[<<b, i>>] \notin {"nothing", "ERROR_NONE"} =>
                           response[b][i] = [kind |-> "error", code |-> returned[<<b, i>>]]
    BY DEF FailureReported
  <2>1. IsFinished(b) /\ response[b] = Serialize(b)
    BY <1>1 DEF ServiceInv, Replied
  <2>2. <<b, i>> \in Job
    <3>1. length[b] \in 0 .. MaxBatchSize
      BY <1>1 DEF IndInv, TypeOK, BatchTypes
    <3> QED
      BY <3>1, LimitAssumption DEF Job, Index
  <2>3. response[b][i] =
          IF <<b, i>> \in isCompleted
            THEN IF errorCode[<<b, i>>] = "ERROR_NONE"
                   THEN [kind |-> "result", code |-> "ERROR_NONE"]
                   ELSE [kind |-> "error", code |-> errorCode[<<b, i>>]]
            ELSE [kind |-> "error", code |-> "ERROR_GENERAL"]
    BY <2>1 DEF Serialize
  <2>4. ASSUME returned[<<b, i>>] = "nothing"
        PROVE  shuttingDown /\ response[b][i].code = "ERROR_GENERAL"
    <3>1. <<b, i>> \notin isCompleted
      BY <1>1, <2>2, <2>4 DEF ServiceInv, Recorded
    <3>2. shuttingDown
      BY <1>1, <2>1, <3>1, FinishedIsDone
    <3> QED
      BY <2>3, <3>1, <3>2
  <2>5. ASSUME returned[<<b, i>>] \notin {"nothing", "ERROR_NONE"}
        PROVE  response[b][i] = [kind |-> "error", code |-> returned[<<b, i>>]]
    BY <1>1, <2>2, <2>3, <2>5 DEF ServiceInv, Recorded
  <2> QED
    BY <2>4, <2>5
<1> QED
  BY <1>1, ServiceInvariance, PTL
-----------------------------------------------------------------------------
\* What the clients see of a batch, as BatchService tells it
Status ==
  [b \in Batch |-> IF answers[b] > 0 THEN "answered"
                   ELSE IF verdict[b] = "pending" THEN "unsent"
                   ELSE IF verdict[b] \in {"unsent", "accepted"} THEN verdict[b]
                   ELSE "refused"]

\* A step about one batch changes the status of that batch alone.
LEMMA StatusStep ==
  ASSUME NEW b \in Batch,
         \A d \in Batch : d # b => answers'[d] = answers[d] /\ verdict'[d] = verdict[d]
  PROVE  Status' = [Status EXCEPT ![b] = Status'[b]]
BY DEF Status

\* While the processor is up, the requests the service counts as running are jobs
\* under way, and have slots.
LEMMA RunningHasSlot ==
  ASSUME IndInv, ServiceInv, ~shuttingDown
  PROVE  Service!Running \subseteq activeJobs
<1>1. ASSUME NEW j \in Service!Running PROVE j \in activeJobs
  <2>1. PICK b \in Batch, n \in 1 .. MaxBatchSize :
          j = <<b, n>> /\ n <= current[b] /\ j \notin isCompleted
    BY DEF Service!Running
  <2>2. n \in 1 .. current[b]
    BY <2>1 DEF IndInv, TypeOK, BatchTypes
  <2>3. j \in Outstanding
    BY <2>1, <2>2 DEF ServiceInv, Underway, NoRequestLost
  <2> QED
    BY <2>3 DEF IndInv, Slots
<1> QED
  BY <1>1

\* Every step of the Processor is a step of the service or changes nothing in it.
LEMMA StepService ==
  IndInv /\ ServiceInv /\ [Next]_vars => [Service!Next]_(Service!vars)
<1> SUFFICES ASSUME IndInv, ServiceInv, [Next]_vars
             PROVE  Service!Next \/ UNCHANGED Service!vars
  OBVIOUS
<1>0. /\ verdict \in [Batch -> Verdict]
      /\ answers \in [Batch -> Nat]
      /\ length \in [Batch -> 0 .. MaxBatchSize]
      /\ current \in [Batch -> 0 .. MaxBatchSize]
      /\ \A b \in Batch : life[b] # "deleted" => answers[b] = 0
      /\ \A b \in Batch : life[b] = "none" <=> verdict[b] # "accepted"
  BY DEF IndInv, TypeOK, BatchTypes, ReplyTypes, ServiceInv, Replied, Owned, Alive
<1>v. Service!vars = <<Status, concurrent, length, current, isCompleted, shuttingDown>>
  BY DEF Service!vars, Status
<1>u. ASSUME UNCHANGED <<answers, verdict, concurrent, length, current, isCompleted,
                         shuttingDown>>
      PROVE  UNCHANGED Service!vars
  BY <1>u DEF Service!vars
<1>1. ASSUME NEW c \in Client, NEW b \in Batch, NEW n \in Lengths,
             NEW parsed \in BOOLEAN,
             NEW method \in {"parallel", "sequential", "other"},
             Invoke(c, b, method, parsed, n)
      PROVE  Service!Next
  <2> DEFINE v == Examine(method, parsed, n)
  <2>1. /\ v = "pending" => n \in 1 .. MaxBatchSize
        /\ v \notin {"unsent", "accepted"}
    BY LengthAssumption, LimitAssumption DEF Examine
  <2>2. /\ verdict[b] = "unsent" /\ verdict' = [verdict EXCEPT ![b] = v]
        /\ UNCHANGED <<answers, current, isCompleted, shuttingDown>>
        /\ IF v = "pending"
             THEN /\ concurrent' = [concurrent EXCEPT ![b] = (method = "parallel")]
                  /\ length' = [length EXCEPT ![b] = n]
             ELSE UNCHANGED <<concurrent, length>>
    BY <1>1 DEF Invoke, processorVars, batchVars, requestVars, shapeVars, answerVars
  <2>3. answers[b] = 0 /\ length[b] = 0
    BY <1>0, <2>2 DEF ServiceInv, Tallied, Sized
  <2>4. Status[b] = "unsent" /\ Status' = [Status EXCEPT ![b] = Status'[b]]
    BY <1>0, <2>2, <2>3, StatusStep DEF Status
  <2>5. Status'[b] = IF v = "pending" THEN "unsent" ELSE "refused"
    BY <1>0, <2>1, <2>2, <2>3 DEF Status
  <2> HIDE DEF v
  <2>6. CASE v = "pending"
    <3>1. Status' = Status
      BY <2>4, <2>5, <2>6 DEF Status
    <3>2. Service!Receive(b, method = "parallel", n)
      BY <2>2, <2>3, <2>4, <2>6, <3>1 DEF Service!Receive, Status
    <3> QED
      BY <2>1, <2>6, <3>2 DEF Service!Next
  <2>7. CASE v # "pending"
    <3>1. Service!Refuse(b)
      BY <2>2, <2>4, <2>5, <2>7, ZenonT(40) DEF Service!Refuse, Status
    <3> QED
      BY <3>1 DEF Service!Next
  <2> QED
    BY <2>6, <2>7
<1>2. ASSUME NEW c \in Client, Submit(c) PROVE Service!Next
  <2>1. PICK b \in Batch : b = held[c] /\ verdict[b] = "pending"
    BY <1>2 DEF Submit, IndInv, Control, Thread
  <2>2. answers[b] = 0 /\ length[b] > 0
    BY <1>0, <2>1 DEF ServiceInv, Tallied, Sized
  <2>3. /\ IF shuttingDown THEN verdict' = [verdict EXCEPT ![b] = "ERROR_ABORTED"]
                           ELSE verdict' = [verdict EXCEPT ![b] = "accepted"]
        /\ UNCHANGED <<answers, concurrent, length, current, isCompleted, shuttingDown>>
    BY <1>2, <2>1 DEF Submit, batchVars, requestVars, shapeVars, answerVars
  <2>4. Status[b] = "unsent" /\ Status' = [Status EXCEPT ![b] = Status'[b]]
    BY <1>0, <2>1, <2>2, <2>3, StatusStep DEF Status
  <2>5. Status'[b] = IF shuttingDown THEN "refused" ELSE "accepted"
    BY <1>0, <2>1, <2>2, <2>3 DEF Status
  <2>6. CASE shuttingDown
    <3>1. Service!Refuse(b)
      BY <2>3, <2>4, <2>5, <2>6 DEF Service!Refuse, Status
    <3> QED
      BY <2>1, <3>1 DEF Service!Next
  <2>7. CASE ~shuttingDown
    <3>1. Service!Accept(b)
      BY <2>2, <2>3, <2>4, <2>5, <2>7 DEF Service!Accept, Status
    <3> QED
      BY <2>1, <3>1 DEF Service!Next
  <2> QED
    BY <2>6, <2>7
<1>3. ASSUME NEW t \in Thread, ScheduleJob(t) PROVE Service!Next
  <2>1. PICK b \in Batch, n \in Index :
          /\ b = batches[it[t]] /\ it[t] \in 1 .. Len(batches)
          /\ n = current[b] + 1 /\ n <= length[b]
          /\ ~shuttingDown
          /\ Sequential(b) => activeCount[b] <= 0
          /\ Cardinality(activeJobs) < MaxConcurrentJobs
          /\ current' = [current EXCEPT ![b] = n]
          /\ UNCHANGED <<shuttingDown, concurrent, length, isCompleted, verdict, answers>>
    BY <1>3, ScheduleOne
  <2>2. life[b] = "live"
    BY <2>1 DEF ServiceInv, Owned, Listed
  <2>3. Status[b] = "accepted" /\ Status' = Status
    <3>1. answers[b] = 0 /\ verdict[b] = "accepted"
      BY <1>0, <2>2
    <3>2. verdict' = verdict /\ answers' = answers
      BY <2>1
    <3> QED
      BY <3>1, <3>2 DEF Status
  <2>4. current[b] \in Nat /\ length[b] \in Nat /\ current[b] < length[b]
    BY <1>0, <2>1, LimitAssumption
  <2>5. Sequential(b) => \A i \in 1 .. current[b] : <<b, i>> \in isCompleted
    BY <2>1, <2>4 DEF IndInv, OneAtATime
  <2>6. Cardinality(Service!Running) < MaxConcurrentJobs
    <3>1. Service!Running \subseteq activeJobs
      BY <2>1, RunningHasSlot
    <3>2. IsFiniteSet(activeJobs)
      BY DEF IndInv, Slots
    <3>3. /\ Cardinality(Service!Running) <= Cardinality(activeJobs)
          /\ IsFiniteSet(Service!Running)
      BY <3>1, <3>2, FS_Subset
    <3>4. Cardinality(Service!Running) \in Nat /\ Cardinality(activeJobs) \in Nat
      BY <3>2, <3>3, FS_CardinalityType
    <3> QED
      BY <2>1, <3>3, <3>4, LimitAssumption
  <2>7. Service!Start(b)
    <3>1. /\ current' = [current EXCEPT ![b] = @ + 1]
          /\ UNCHANGED <<shuttingDown, concurrent, length, isCompleted>>
          /\ ~shuttingDown
      BY <2>1
    <3>2. ~concurrent[b] => \A i \in 1 .. current[b] : <<b, i>> \in isCompleted
      BY <2>5 DEF Sequential
    <3>3. UNCHANGED <<Status, concurrent, length, isCompleted, shuttingDown>>
      BY <2>3, <3>1
    <3>4. current[b] < length[b]
      BY <2>4
    <3>5. Service!Cardinality(Service!Running) = Cardinality(Service!Running)
      BY DEF Service!Cardinality, Service!IsFiniteSet, Cardinality, IsFiniteSet
    <3> QED
      BY <2>3, <2>6, <3>1, <3>2, <3>3, <3>4, <3>5 DEF Service!Start, Status
  <2> QED
    BY <2>7 DEF Service!Next
<1>4. ASSUME NEW w \in Worker, NEW code \in Outcomes, Complete(w, code) PROVE Service!Next
  <2>1. PICK j \in Outstanding :
          job[w] = j /\ life[j[1]] = "live" /\ isCompleted' = isCompleted \cup {j}
    BY <1>4, CompleteOne
  <2>2. PICK b \in Batch, n \in Index : j = <<b, n>> /\ n <= current[b]
    BY OutstandingJobs
  <2>3. UNCHANGED <<answers, verdict, concurrent, length, current, shuttingDown>>
    BY <1>4 DEF Complete, processorVars, shapeVars, answerVars
  <2>4. Status[b] = "accepted" /\ Status' = Status
    BY <1>0, <2>1, <2>2, <2>3 DEF Status
  <2>5. <<b, n>> \in Service!Running
    BY <2>2 DEF Service!Running, ServiceInv, Underway, Index
  <2>6. Service!Finish(b, n)
    BY <2>1, <2>2, <2>3, <2>4, <2>5 DEF Service!Finish, Status
  <2> QED
    BY <2>6 DEF Service!Next, Index
<1>5. ASSUME NEW t \in Thread, Answer(t) PROVE Service!Next
  <2>1. PICK b \in Batch : b = held[t] /\ life[b] = "live" /\ IsFinished(b)
    BY <1>5, NobodyAssumption
       DEF Answer, IndInv, Control, ServiceInv, Owned, Apart, Replied
  <2>2. /\ answers' = [answers EXCEPT ![b] = answers[b] + 1]
        /\ UNCHANGED <<verdict, concurrent, length, current, isCompleted, shuttingDown>>
    BY <1>5, <2>1 DEF Answer, processorVars, batchVars, requestVars, shapeVars
  <2>3. /\ Status[b] = "accepted" /\ Status'[b] = "answered"
        /\ Status' = [Status EXCEPT ![b] = Status'[b]]
    BY <1>0, <2>1, <2>2, StatusStep DEF Status
  <2>4. shuttingDown \/ \A i \in 1 .. length[b] : <<b, i>> \in isCompleted
    BY <2>1, FinishedIsDone
  <2>5. Service!Answer(b)
    BY <2>2, <2>3, <2>4 DEF Service!Answer, Status
  <2> QED
    BY <2>1, <2>5 DEF Service!Next
<1>6. CASE StopBegin
  <2>1. /\ ~shuttingDown /\ shuttingDown'
        /\ UNCHANGED <<answers, verdict, concurrent, length, current, isCompleted>>
    BY <1>6 DEF StopBegin, IndInv, Slots, TypeOK, ProcessorTypes, requestVars,
       shapeVars, answerVars
  <2>2. Status' = Status
    BY <2>1 DEF Status
  <2>3. Service!Close
    BY <2>1, <2>2 DEF Service!Close, Status, IndInv, TypeOK, ProcessorTypes
  <2> QED
    BY <2>3 DEF Service!Next
<1>7. ASSUME NEW w \in Worker, (\E j \in pool : Take(w, j)) \/ Checkout(w)
      PROVE  UNCHANGED Service!vars
  BY <1>7, <1>u DEF Take, Checkout, processorVars, batchVars, requestVars, shapeVars,
     answerVars
<1>8. ASSUME (\E t \in Thread : Remove(t)) \/ StopClear \/ \E j \in jobsToRevoke : Revoke(j)
      PROVE  UNCHANGED Service!vars
  BY <1>8, <1>u DEF Remove, StopClear, Revoke, processorVars, batchVars, requestVars,
     shapeVars, answerVars
<1>9. ASSUME Internal PROVE Service!Next \/ UNCHANGED Service!vars
  BY <1>5, <1>9, <1>u DEF Internal, batchVars, requestVars
<1> QED
  BY <1>1, <1>2, <1>3, <1>4, <1>5, <1>6, <1>7, <1>8, <1>9, StepKinds DEF IndInv

\* The threads, the lock, the list and the pool together do what BatchService
\* promises its clients: batches are accepted or refused, executed within the
\* limit and in order, and answered once, when their requests are done.
THEOREM ServiceImplemented == Spec => ImplementsService
<1>1. Init => Service!Init
  <2> SUFFICES ASSUME Init PROVE Service!Init
    OBVIOUS
  <2> QED
    BY DEF Init, Service!Init
<1>2. IndInv /\ ServiceInv /\ [Next]_vars => [Service!Next]_(Service!vars)
  BY StepService
<1> QED
  BY <1>1, <1>2, ServiceInvariance, PTL DEF Spec, ImplementsService, Service!Spec
-----------------------------------------------------------------------------
(* Every batch in the list has a thread that will come to it.              *)

\* A job, or a thread on its way to Process, will look at the list from its
\* beginning.
Busy ==
  \/ pool # {}
  \/ \E t \in Thread :
       pc[t] \in {"process", "dispatch", "invoke", "checkout", "leave", "undefined"}

\* Thread t's scan comes to the i-th batch of the list
WillRemove(t, i) == pc[t] \in {"scan", "answer", "relock"} /\ it[t] <= i

\* Thread t's scheduling comes to the i-th batch, in this pass or the next one
WillSchedule(t, i) ==
  \/ pc[t] \in {"scan", "answer", "relock"}
  \/ pc[t] = "schedule" /\ (it[t] <= i \/ scheduledJob[t])

\* Unless the list will be looked at anew, a thread is on its way to each batch:
\* to a finished one in its scan, to another one in its scheduling.
AttendedTo ==
  ~shuttingDown /\ ~Busy =>
    \A i \in 1 .. Len(batches) :
      \E t \in Thread : IF IsFinished(batches[i]) THEN WillRemove(t, i)
                                                  ELSE WillSchedule(t, i)

\* A job under way will make its worker look at the list.
LEMMA OutstandingIsBusy == Outstanding # {} => Busy
BY DEF Outstanding, Executing, Busy, Thread

\* A full list of active jobs has one that is under way, or about to leave.
LEMMA ActiveIsBusy ==
  ASSUME IndInv, ServiceInv, ~HasSlot, MaxConcurrentJobs > 0
  PROVE  Busy
<1>1. activeJobs # {}
  <2>1. Cardinality({}) = 0
    BY FS_EmptySet
  <2> QED
    BY <2>1 DEF HasSlot
<1>2. PICK j \in activeJobs : TRUE
  BY <1>1
<1>3. CASE j \in Outstanding
  BY <1>3, OutstandingIsBusy
<1>4. CASE \E w \in Worker : pc[w] = "checkout" /\ job[w] = j
  BY <1>4 DEF Busy, Thread
<1> QED
  BY <1>2, <1>3, <1>4 DEF ServiceInv, Underway

\* A batch that is not finished and has nothing to schedule has a job under way.
LEMMA WaitingIsBusy ==
  ASSUME IndInv, ServiceInv, ~shuttingDown, NEW b \in Batch,
         verdict[b] = "accepted", ~IsFinished(b), ~MaySchedule(b)
  PROVE  Busy
<1>0. /\ current[b] \in Nat /\ length[b] \in Nat
      /\ activeCount[b] \in Int /\ completed[b] \in Nat
      /\ state[b] \in {"IN_PROGRESS", "COMPLETED", "ABORTED"}
  BY LimitAssumption DEF IndInv, TypeOK, BatchTypes
<1>1. ASSUME NEW i \in 1 .. current[b], <<b, i>> \notin isCompleted PROVE Busy
  <2>1. <<b, i>> \in Outstanding
    BY <1>1 DEF ServiceInv, Underway, NoRequestLost
  <2> QED
    BY <2>1, OutstandingIsBusy
<1>2. CASE Sequential(b) /\ IsActive(b)
  <2>1. activeCount[b] = 1
    BY <1>0, <1>2 DEF IsActive, IndInv, OneAtATime
  <2>2. current[b] > 0 /\ <<b, current[b]>> \notin isCompleted
    BY <1>2, <2>1 DEF ServiceInv, Underway
  <2> QED
    BY <1>0, <1>1, <2>2
<1>3. CASE ~HasRequest(b)
  <2>1. length[b] <= current[b]
    BY <1>0, <1>3 DEF HasRequest
  <2>2. completed[b] = Cardinality(Done(b)) /\ completed[b] < length[b]
    BY <1>0 DEF IsFinished, ServiceInv, Tallied, Counted, Sized
  <2>3. PICK i \in 1 .. length[b] : i \notin Done(b)
    <3>1. Done(b) # 1 .. length[b]
      BY <1>0, <2>2, DoneCount DEF IndInv
    <3> QED
      BY <3>1 DEF Done
  <2>4. <<b, i>> \notin isCompleted /\ i \in 1 .. current[b]
    BY <1>0, <2>1, <2>3 DEF Done
  <2> QED
    BY <1>1, <2>4
<1> QED
  BY <1>2, <1>3 DEF MaySchedule

\* A thread passes a finished batch by only in its scheduling, and one that is
\* not finished only if jobs are left that will look at it again.
LEMMA StepAttendedTo ==
  ASSUME MaxConcurrentJobs > 0, IndInv, IndInv', ServiceInv, AttendedTo, [Next]_vars
  PROVE  AttendedTo'
<1> SUFFICES ASSUME ~shuttingDown', ~Busy'
             PROVE  (\A i \in 1 .. Len(batches) :
                       \E t \in Thread :
                         IF IsFinished(batches[i]) THEN WillRemove(t, i)
                                                   ELSE WillSchedule(t, i))'
  BY DEF AttendedTo
<1> DEFINE Attended ==
      \A i \in 1 .. Len(batches) :
        \E t \in Thread : IF IsFinished(batches[i]) THEN WillRemove(t, i)
                                                    ELSE WillSchedule(t, i)
<1>0. /\ batches \in Seq(Batch)
      /\ pc \in [Thread -> PC]
      /\ it \in [Thread -> Nat]
      /\ scheduledJob \in [Thread -> BOOLEAN]
      /\ Client \subseteq Thread /\ Worker \subseteq Thread
      /\ \A i \in 1 .. Len(batches) : batches[i] \in Batch
  BY DEF IndInv, TypeOK, ProcessorTypes, ThreadTypes, Thread
<1> USE <1>0
<1>d. ~Busy => Attended \/ shuttingDown
  BY DEF AttendedTo
<1>b. ASSUME NEW t \in Thread,
             pc'[t] \in {"process", "dispatch", "invoke", "checkout", "leave", "undefined"}
      PROVE  FALSE
  BY <1>b DEF Busy
<1> HIDE DEF Attended
\* A step that moves one thread, which comes to the batches as it did before
<1>f. ASSUME ~Busy, ~shuttingDown, UNCHANGED <<batches, state>>,
             NEW t \in Thread,
             \A u \in Thread : u # t => /\ pc'[u] = pc[u] /\ it'[u] = it[u]
                                        /\ scheduledJob'[u] = scheduledJob[u],
             \A i \in 1 .. Len(batches) :
               IF IsFinished(batches[i])
                 THEN WillRemove(t, i) => WillRemove(t, i)'
                 ELSE WillSchedule(t, i) => WillSchedule(t, i)'
      PROVE  Attended'
  <2> SUFFICES ASSUME NEW i \in 1 .. Len(batches)
               PROVE  \E u \in Thread : IF IsFinished(batches[i]) THEN WillRemove(u, i)'
                                                                  ELSE WillSchedule(u, i)'
    BY <1>f DEF Attended, IsFinished
  <2>1. PICK u \in Thread : IF IsFinished(batches[i]) THEN WillRemove(u, i)
                                                      ELSE WillSchedule(u, i)
    BY <1>d, <1>f DEF Attended
  <2>2. CASE u = t
    BY <1>f, <2>1, <2>2
  <2>3. CASE u # t
    <3>1. pc'[u] = pc[u] /\ it'[u] = it[u] /\ scheduledJob'[u] = scheduledJob[u]
      BY <1>f, <2>3
    <3> QED
      BY <2>1, <3>1 DEF WillRemove, WillSchedule
  <2> QED
    BY <2>2, <2>3
\* The thread that enters Process comes to every batch.
<1>1. ASSUME NEW t \in Thread, Enter(t) PROVE Attended'
  <2>1. shuttingDown' = shuttingDown
    BY <1>1 DEF Enter
  <2>2. pc' = [pc EXCEPT ![t] = "scan"] /\ it' = [it EXCEPT ![t] = 1]
    BY <1>1, <2>1 DEF Enter, Goto
  <2>3. pc'[t] = "scan" /\ it'[t] = 1
    BY <2>2
  <2> QED
    BY <2>3 DEF Attended, WillRemove, WillSchedule
<1>2. ASSUME NEW t \in Thread, PassOver(t), ~Busy PROVE Attended'
  <2>1. /\ pc[t] = "scan" /\ ~IsFinished(batches[it[t]])
        /\ it' = [it EXCEPT ![t] = it[t] + 1]
        /\ UNCHANGED <<batches, shuttingDown, state, pc, scheduledJob>>
    BY <1>2 DEF PassOver, processorVars, batchVars
  <2>2. it'[t] = it[t] + 1 /\ it[t] \in Nat /\ pc'[t] = pc[t]
    BY <2>1
  <2>3. ASSUME NEW i \in 1 .. Len(batches), IsFinished(batches[i]), WillRemove(t, i)
        PROVE  WillRemove(t, i)'
    <3>1. i # it[t] /\ it[t] <= i
      BY <2>1, <2>3 DEF WillRemove
    <3> QED
      BY <2>1, <2>2, <3>1 DEF WillRemove
  <2>4. \A i \in 1 .. Len(batches) : WillSchedule(t, i)'
    BY <2>1 DEF WillSchedule
  <2> QED
    BY <1>2, <1>f, <2>1, <2>3, <2>4
<1>3. ASSUME NEW t \in Thread, Remove(t), ~Busy PROVE Attended'
  <2> DEFINE k == it[t]
  <2>1. /\ k \in 1 .. Len(batches)
        /\ batches' = EraseAt(batches, k)
        /\ pc[t] = "scan" /\ pc' = [pc EXCEPT ![t] = "answer"]
        /\ UNCHANGED <<shuttingDown, state, it, scheduledJob>>
    BY <1>3, UnderIterator DEF Remove, IndInv, Goto, batchVars
  <2>2. /\ Len(batches') = Len(batches) - 1
        /\ \A i \in 1 .. (Len(batches) - 1) :
             batches'[i] = IF i < k THEN batches[i] ELSE batches[i + 1]
    BY <2>1, EraseKeeps
  <2>3. pc'[t] = "answer" /\ it'[t] = k /\ \A u \in Thread : u # t => pc'[u] = pc[u]
    BY <2>1
  <2>4. ASSUME NEW i \in 1 .. Len(batches'), k <= i
        PROVE  WillRemove(t, i)' /\ WillSchedule(t, i)'
    BY <2>3, <2>4 DEF WillRemove, WillSchedule
  <2>5. ASSUME NEW i \in 1 .. Len(batches'), i < k
        PROVE  \E u \in Thread : IF IsFinished(batches[i]) THEN WillRemove(u, i)'
                                                           ELSE WillSchedule(u, i)'
    <3>1. i \in 1 .. Len(batches)
      BY <2>2
    <3>2. PICK u \in Thread : IF IsFinished(batches[i]) THEN WillRemove(u, i)
                                                        ELSE WillSchedule(u, i)
      BY <1>3, <1>d, <2>1, <3>1 DEF Attended
    <3>3. CASE u = t
      BY <2>1, <2>3, <2>5, <3>2, <3>3 DEF WillRemove, WillSchedule
    <3>4. CASE u # t
      BY <2>1, <2>3, <3>2, <3>4 DEF WillRemove, WillSchedule
    <3> QED
      BY <3>3, <3>4
  <2>6. ASSUME NEW i \in 1 .. Len(batches'), i < k
        PROVE  batches'[i] = batches[i]
    BY <2>2, <2>6
  <2> HIDE DEF k
  <2>7. ASSUME NEW i \in 1 .. Len(batches')
        PROVE  \E u \in Thread :
                 IF state'[batches'[i]] \in {"COMPLETED", "ABORTED"}
                   THEN WillRemove(u, i)' ELSE WillSchedule(u, i)'
    <3>1. CASE k <= i
      BY <2>4, <3>1
    <3>2. CASE i < k
      BY <2>1, <2>5, <2>6, <3>2 DEF IsFinished
    <3> QED
      BY <2>1, <2>2, <3>1, <3>2
  <2> QED
    BY <2>7 DEF Attended, IsFinished
<1>4. ASSUME NEW t \in Thread, Answer(t), ~Busy PROVE Attended'
  <2>1. /\ pc[t] = "answer" /\ pc' = [pc EXCEPT ![t] = "relock"]
        /\ UNCHANGED <<batches, shuttingDown, state, it, scheduledJob>>
    BY <1>4 DEF Answer, Goto, processorVars, batchVars
  <2> QED
    BY <1>4, <1>f, <2>1 DEF WillRemove, WillSchedule
<1>5. ASSUME NEW t \in Thread, Relock(t), ~Busy PROVE Attended'
  <2>1. /\ pc[t] = "relock"
        /\ pc' = [pc EXCEPT ![t] = "undefined"] \/ pc' = [pc EXCEPT ![t] = "scan"]
        /\ UNCHANGED <<batches, shuttingDown, state, it, scheduledJob>>
    BY <1>5 DEF Relock, Goto, batchVars
  <2>2. pc' = [pc EXCEPT ![t] = "scan"]
    BY <1>b, <2>1
  <2> QED
    BY <1>5, <1>f, <2>1, <2>2 DEF WillRemove, WillSchedule
<1>6. ASSUME NEW t \in Thread, EndScan(t), ~Busy PROVE Attended'
  <2>1. /\ pc[t] = "scan" /\ pc' = [pc EXCEPT ![t] = "schedule"]
        /\ it[t] = Len(batches) + 1 /\ it' = [it EXCEPT ![t] = 1]
        /\ UNCHANGED <<batches, shuttingDown, state, scheduledJob>>
    BY <1>6 DEF EndScan, Goto, processorVars, batchVars
  <2>2. pc'[t] = "schedule" /\ it'[t] = 1
    BY <2>1
  <2>3. \A i \in 1 .. Len(batches) : ~WillRemove(t, i) /\ WillSchedule(t, i)'
    BY <2>1, <2>2 DEF WillRemove, WillSchedule
  <2> QED
    BY <1>6, <1>f, <2>1, <2>3
<1>7. ASSUME NEW t \in Thread, ScheduleJob(t) PROVE FALSE
  BY <1>7 DEF ScheduleJob, PoolSubmit, Busy
<1>8. ASSUME NEW t \in Thread, NextBatch(t), ~Busy PROVE Attended'
  <2>1. /\ pc[t] = "schedule" /\ ~MaySchedule(batches[it[t]])
        /\ it' = [it EXCEPT ![t] = it[t] + 1]
        /\ UNCHANGED <<batches, shuttingDown, state, pc, scheduledJob>>
    BY <1>8 DEF NextBatch, processorVars, batchVars
  <2>2. it[t] \in 1 .. Len(batches) /\ batches[it[t]] \in Batch
    BY <1>8, UnderIterator DEF NextBatch, IndInv
  <2>3. IsFinished(batches[it[t]])
    BY <1>8, <2>1, <2>2, WaitingIsBusy DEF IndInv, Admitted
  <2>4. it'[t] = it[t] + 1 /\ it[t] \in Nat /\ pc'[t] = pc[t]
    BY <2>1
  <2>5. ASSUME NEW i \in 1 .. Len(batches), ~IsFinished(batches[i]), WillSchedule(t, i)
        PROVE  WillSchedule(t, i)'
    <3>1. i # it[t] /\ (it[t] <= i \/ scheduledJob[t])
      BY <2>1, <2>3, <2>5 DEF WillSchedule
    <3> QED
      BY <2>1, <2>4, <3>1 DEF WillSchedule
  <2>6. \A i \in 1 .. Len(batches) : ~WillRemove(t, i)
    BY <2>1 DEF WillRemove
  <2> QED
    BY <1>8, <1>f, <2>1, <2>5, <2>6
<1>9. ASSUME NEW t \in Thread, EndPass(t), ~Busy PROVE Attended'
  <2>1. /\ pc[t] = "schedule" /\ it[t] > Len(batches)
        /\ UNCHANGED <<batches, shuttingDown, state>>
    BY <1>9, ActiveIsBusy DEF EndPass, batchVars
  <2>2. CASE scheduledJob[t]
    <3>1. it' = [it EXCEPT ![t] = 1] /\ scheduledJob' = [scheduledJob EXCEPT ![t] = FALSE]
          /\ pc' = pc
      BY <1>9, <2>2, ActiveIsBusy DEF EndPass
    <3>2. it'[t] = 1 /\ pc'[t] = "schedule"
      BY <2>1, <3>1
    <3>3. \A i \in 1 .. Len(batches) : ~WillRemove(t, i) /\ WillSchedule(t, i)'
      BY <2>1, <3>2 DEF WillRemove, WillSchedule
    <3> QED
      BY <1>9, <1>f, <2>1, <3>1, <3>3
  <2>3. CASE ~scheduledJob[t]
    <3>1. Return(t)
      BY <1>9, <2>3 DEF EndPass
    <3>2. \A u \in Thread : u # t => /\ pc'[u] = pc[u] /\ it'[u] = it[u]
                                     /\ scheduledJob'[u] = scheduledJob[u]
      BY <3>1 DEF Return
    <3>3. \A i \in 1 .. Len(batches) : ~WillRemove(t, i) /\ ~WillSchedule(t, i)
      BY <2>1, <2>3 DEF WillRemove, WillSchedule
    <3> QED
      BY <1>9, <1>f, <2>1, <3>2, <3>3
  <2> QED
    BY <2>2, <2>3
<1>10. ASSUME NEW c \in Client, NEW b \in Batch, NEW n \in Lengths,
              NEW parsed \in BOOLEAN,
              NEW method \in {"parallel", "sequential", "other"},
              Invoke(c, b, method, parsed, n), ~Busy
       PROVE  Attended'
  <2>1. /\ pc[c] = "idle" /\ \A u \in Thread : u # c => pc'[u] = pc[u]
        /\ UNCHANGED <<batches, shuttingDown, state, it, scheduledJob>>
    BY <1>10 DEF Invoke, Goto, processorVars, batchVars
  <2>2. \A i \in 1 .. Len(batches) : ~WillRemove(c, i) /\ ~WillSchedule(c, i)
    BY <2>1 DEF WillRemove, WillSchedule
  <2> QED
    BY <1>10, <1>f, <2>1, <2>2
<1>11. ASSUME NEW c \in Client, Submit(c) PROVE FALSE
  <2>1. ~shuttingDown
    BY <1>11 DEF Submit
  <2> QED
    BY <1>11, <1>b, <2>1 DEF Submit, Goto
<1>12. ASSUME NEW w \in Worker, NEW j \in pool, Take(w, j) PROVE FALSE
  BY <1>12, <1>b DEF Take, Goto
<1>13. ASSUME NEW w \in Worker, Dispatch(w) PROVE FALSE
  <2>1. ~shuttingDown
    BY <1>13 DEF Dispatch, processorVars
  <2> QED
    BY <1>13, <1>b, <2>1 DEF Dispatch, Goto
<1>14. ASSUME NEW w \in Worker, NEW code \in Outcomes, Complete(w, code) PROVE FALSE
  BY <1>14, <1>b DEF Complete, Goto
<1>15. ASSUME NEW w \in Worker, Checkout(w) PROVE FALSE
  BY <1>15, <1>b DEF Checkout, Goto
<1>16. ASSUME NEW w \in Worker, Leave(w) PROVE FALSE
  <2>1. ~shuttingDown
    BY <1>16 DEF Leave, processorVars
  <2> QED
    BY <1>16, <1>b, <2>1 DEF Leave, Goto
<1>17. ASSUME Stop PROVE FALSE
  <2>1. StopBegin => shuttingDown'
    BY DEF StopBegin
  <2>2. StopClear \/ Free \/ (\E j \in jobsToRevoke : Revoke(j)) =>
          stop # "running" /\ shuttingDown' = shuttingDown
    BY DEF StopClear, Free, Revoke, processorVars
  <2> QED
    BY <1>17, <2>1, <2>2 DEF Stop, IndInv, Slots
<1>18. ASSUME NEW t \in Thread, UseAfterFree(t) PROVE FALSE
  BY <1>18, <1>b DEF UseAfterFree, Goto
<1>19. ASSUME UNCHANGED vars PROVE Attended'
  <2>1. UNCHANGED <<batches, shuttingDown, state, pool, pc, it, scheduledJob>>
    BY <1>19 DEF vars, processorVars, batchVars, threadVars
  <2>2. Busy' = Busy /\ Attended' = Attended
    BY <2>1 DEF Busy, Attended, IsFinished, WillRemove, WillSchedule
  <2> QED
    BY <1>d, <2>1, <2>2
\* Only the thread that enters Process ends a time in which the list will be
\* looked at anew.
<1>20. ASSUME Busy, NEW t \in Thread,
              PassOver(t) \/ Remove(t) \/ Answer(t) \/ Relock(t) \/ EndScan(t)
                \/ NextBatch(t) \/ EndPass(t)
       PROVE  FALSE
  <2>1. pool' = pool
    BY <1>20 DEF PassOver, Remove, Answer, Relock, EndScan, NextBatch, EndPass
  <2>2. /\ pc[t] \in {"scan", "answer", "relock", "schedule"}
        /\ \A u \in Thread : u # t => pc'[u] = pc[u]
    BY <1>20 DEF PassOver, Remove, Answer, Relock, EndScan, NextBatch, EndPass, Goto, Return
  <2> QED
    BY <1>20, <2>1, <2>2 DEF Busy
<1>21. ASSUME Busy, NEW c \in Client, NEW b \in Batch, NEW n \in Lengths,
              NEW parsed \in BOOLEAN,
              NEW method \in {"parallel", "sequential", "other"},
              Invoke(c, b, method, parsed, n)
       PROVE  FALSE
  <2>1. pool' = pool /\ pc[c] = "idle" /\ \A u \in Thread : u # c => pc'[u] = pc[u]
    BY <1>21 DEF Invoke, Goto
  <2> QED
    BY <1>21, <2>1 DEF Busy
<1>22. Attended'
  BY <1>1, <1>2, <1>3, <1>4, <1>5, <1>6, <1>7, <1>8, <1>9, <1>10, <1>11, <1>12,
     <1>13, <1>14, <1>15, <1>16, <1>17, <1>18, <1>19, <1>20, <1>21
     DEF Next, ClientStep, WorkerStep, Process, Call, Thread
<1> QED
  BY <1>22 DEF Attended

\* Whatever the limit, no request that was handed out is dropped before a
\* shutdown, and no slot is held by a job that no thread works on (GetRequest,
\* Checkout).
THEOREM NothingDropped == Spec => [](NoRequestLost /\ NoSlotLeak)
<1>1. ASSUME IndInv, ServiceInv PROVE NoRequestLost /\ NoSlotLeak
  BY <1>1 DEF ServiceInv, Underway, NoSlotLeak, Outstanding
<1> QED
  BY <1>1, ServiceInvariance, PTL

\* With a slot at all, no batch is left behind either: when the threads are
\* through, each one that was accepted has been answered (Process l.541-583).
THEOREM NothingLostHolds ==
  ASSUME MaxConcurrentJobs > 0
  PROVE  Spec => []NothingLost
<1>1. Init => AttendedTo
  BY DEF Init, AttendedTo
<1>2. /\ IndInv /\ ServiceInv /\ AttendedTo /\ [Next]_vars
      /\ IndInv'
      => AttendedTo'
  BY StepAttendedTo
<1>3. ASSUME IndInv, ServiceInv, AttendedTo PROVE NothingLeftBehind
  <2> SUFFICES ASSUME \A t \in Thread : pc[t] = "idle", pool = {}, ~shuttingDown,
                      NEW b \in Batch, life[b] = "live"
               PROVE  FALSE
    BY DEF NothingLeftBehind
  <2>1. ~Busy
    BY DEF Busy
  <2>2. \A t \in Thread : held[t] # b
    BY <1>3, NobodyAssumption DEF ServiceInv, Owned, Apart
  <2>3. PICK i \in 1 .. Len(batches) : batches[i] = b
    BY <1>3, <2>2 DEF ServiceInv, Owned, Alive
  <2> QED
    BY <1>3, <2>1, <2>3 DEF AttendedTo, WillRemove, WillSchedule
<1> QED
  BY <1>1, <1>2, <1>3, ServiceInvariance, NothingDropped, PTL DEF Spec, NothingLost
=============================================================================
