--------------------------- MODULE SequencerProofs ---------------------------
(***************************************************************************)
(* Proofs about Sequencer, for any number of requests and any lists: the   *)
(* command that executes stays the one under the index, no list is left    *)
(* behind LOADED, a run keeps its job unless a Revoke takes it, an abort is*)
(* final, and a label leads to the nearest step that has it.               *)
(*                                                                         *)
(* Forward, Backward and Create are recursive functions over the list.     *)
(* What they return is proved by showing that a function with the wanted   *)
(* values satisfies the recursion, and that two that do are the same: at a *)
(* least index where they differ the recursion would make them equal.      *)
(***************************************************************************)
EXTENDS Sequencer, WellFoundedInduction, TLAPS

\* The initial state satisfies the invariant.
LEMMA InitInv == Init => IndInv
BY DEF Init, IndInv, ControlTypes, PC, Answers, WorkerHasJob, CurrentStep,
       LoadedIsHeld, RunHasJob, IsActive

\* Requests that the map does not know, or that find the Sequencer (Process).
LEMMA FindStep ==
  ASSUME IndInv, NEW r \in Request, NEW l \in Lists, NEW wellFormed \in BOOLEAN,
         Find(r, l, wellFormed)
  PROVE  IndInv'
<1>1. /\ pc[r] = "idle"
      /\ UNCHANGED <<runVars, job, workerVars, endVars, revoked>>
  BY DEF Find
<1>2. ControlTypes'
  BY <1>1 DEF Find, Respond, Goto, IndInv, ControlTypes, PC, Answers, runVars,
              workerVars, endVars
<1>3. \A u \in Request : pc[u] \in {"execute", "submit"} => pc'[u] = pc[u]
  BY <1>1 DEF Find, Respond, Goto, IndInv, ControlTypes
<1>4. LoadedIsHeld' /\ RunHasJob'
  BY <1>1, <1>3 DEF IndInv, LoadedIsHeld, RunHasJob, IsActive, runVars,
                    workerVars
<1>5. WorkerHasJob' /\ CurrentStep'
  BY <1>1 DEF IndInv, WorkerHasJob, CurrentStep, IsActive, runVars, workerVars
<1> QED
  BY <1>2, <1>4, <1>5 DEF IndInv

\* A PUT on its way to the job (Check, Load, Execute, Submit).
LEMMA PutStep ==
  ASSUME IndInv, NEW r \in Request,
         Check(r) \/ Load(r) \/ Execute(r) \/ Submit(r)
  PROVE  IndInv'
<1>1. CASE Check(r)
  <2>1. /\ pc[r] = "check"
        /\ UNCHANGED <<runVars, job, workerVars, endVars, revoked>>
    BY <1>1 DEF Check
  <2>2. ControlTypes'
    BY <1>1, <2>1 DEF Check, Respond, Goto, IndInv, ControlTypes, PC, Answers,
                      runVars, workerVars, endVars
  <2>3. \A u \in Request : pc[u] \in {"execute", "submit"} => pc'[u] = pc[u]
    BY <1>1, <2>1 DEF Check, Respond, Goto, IndInv, ControlTypes
  <2>4. LoadedIsHeld' /\ RunHasJob'
    BY <2>1, <2>3 DEF IndInv, LoadedIsHeld, RunHasJob, IsActive, runVars,
                      workerVars
  <2>5. WorkerHasJob' /\ CurrentStep'
    BY <2>1 DEF IndInv, WorkerHasJob, CurrentStep, IsActive, runVars, workerVars
  <2> QED
    BY <2>2, <2>4, <2>5 DEF IndInv
<1>2. CASE Load(r)
  <2>1. /\ pc[r] = "load"
        /\ pc' = [pc EXCEPT ![r] = "execute"]
        /\ UNCHANGED <<job, workerVars, endVars, answer, revoked>>
        /\ IF IsActive THEN UNCHANGED runVars
                       ELSE state' \in {state, "LOADED"}
    BY <1>2 DEF Load, Goto, Refuses
  <2>2. ControlTypes'
    BY <2>1 DEF IndInv, ControlTypes, PC, runVars, workerVars, endVars
  <2>3. /\ pc'[r] = "execute"
        /\ \A u \in Request : pc[u] \in {"execute", "submit"} => pc'[u] = pc[u]
    BY <2>1 DEF IndInv, ControlTypes
  <2>4. LoadedIsHeld' /\ RunHasJob'
    BY <2>1, <2>3 DEF IndInv, LoadedIsHeld, RunHasJob, IsActive, runVars,
                      workerVars
  <2>5. WorkerHasJob' /\ CurrentStep'
    BY <2>1 DEF IndInv, WorkerHasJob, CurrentStep, IsActive, runVars, workerVars
  <2> QED
    BY <2>2, <2>4, <2>5 DEF IndInv
<1>3. CASE Execute(r)
  <2>1. /\ pc[r] = "execute"
        /\ pc' = [pc EXCEPT ![r] = "submit"]
        /\ state' = IF state = "LOADED" THEN "RUNNING" ELSE state
        /\ UNCHANGED <<sequenceList, currentIndex, job, workerVars, endVars,
                       answer, revoked>>
    BY <1>3 DEF Execute, Goto, Executable
  <2>2. ControlTypes'
    BY <2>1 DEF IndInv, ControlTypes, PC, workerVars, endVars
  <2>3. pc'[r] = "submit" /\ state' # "LOADED"
    BY <2>1 DEF IndInv, ControlTypes
  <2>4. LoadedIsHeld' /\ RunHasJob'
    BY <2>3 DEF LoadedIsHeld, RunHasJob
  <2>5. WorkerHasJob' /\ CurrentStep'
    BY <2>1 DEF IndInv, WorkerHasJob, CurrentStep, IsActive, workerVars
  <2> QED
    BY <2>2, <2>4, <2>5 DEF IndInv
<1>4. CASE Submit(r)
  <2>1. /\ pc[r] = "submit"
        /\ job' = CASE job = "idle" -> "submitted"
                    [] job = "executing" -> "again"
                    [] OTHER -> job
        /\ pc' = [pc EXCEPT ![r] = "done"]
        /\ answer' = [answer EXCEPT ![r] = "OK"]
        /\ UNCHANGED <<runVars, workerVars, endVars, revoked>>
    BY <1>4 DEF Submit, SubmitJob, Respond, Goto
  <2>2. /\ job' \in {"submitted", "again"}
        /\ job' = "submitted" <=> job \in {"idle", "submitted"}
    BY <2>1 DEF IndInv, ControlTypes
  <2>3. ControlTypes'
    BY <2>1, <2>2 DEF IndInv, ControlTypes, PC, Answers, runVars, workerVars,
                      endVars
  <2>4. \A u \in Request : pc[u] = "execute" => pc'[u] = "execute"
    BY <2>1 DEF IndInv, ControlTypes
  <2>5. LoadedIsHeld' /\ RunHasJob'
    BY <2>1, <2>2, <2>4 DEF IndInv, LoadedIsHeld, RunHasJob, runVars
  <2>6. WorkerHasJob' /\ CurrentStep'
    BY <2>1, <2>2 DEF IndInv, WorkerHasJob, CurrentStep, IsActive, runVars,
                      workerVars
  <2> QED
    BY <2>3, <2>5, <2>6 DEF IndInv
<1> QED
  BY <1>1, <1>2, <1>3, <1>4

\* A DELETE, Deinitialize and the destructor: they abort and revoke.
LEMMA EndStep ==
  ASSUME IndInv,
         (\E r \in Request : Abort(r) \/ Revoke(r)) \/ StopAbort \/ StopStep
  PROVE  IndInv'
<1>1. CASE (\E r \in Request : Abort(r)) \/ StopAbort \/ DestroyAbort
  <2>1. /\ state' = state \/ (state = "RUNNING" /\ state' = "ABORTING")
        /\ UNCHANGED <<sequenceList, currentIndex, job, workerVars, revoked>>
    BY <1>1 DEF Abort, StopAbort, DestroyAbort, AbortRun, requestVars
  <2>2. ControlTypes'
    BY <1>1, <2>1 DEF Abort, StopAbort, DestroyAbort, Respond, Goto, IndInv, ControlTypes, PC,
                      Answers, workerVars, endVars, requestVars
  <2>3. \A u \in Request : pc[u] \in {"execute", "submit"} => pc'[u] = pc[u]
    BY <1>1 DEF Abort, StopAbort, DestroyAbort, Respond, Goto, IndInv, ControlTypes, requestVars
  <2>4. LoadedIsHeld' /\ RunHasJob'
    BY <2>1, <2>3 DEF IndInv, LoadedIsHeld, RunHasJob, IsActive, workerVars
  <2>5. WorkerHasJob' /\ CurrentStep'
    BY <2>1 DEF IndInv, WorkerHasJob, CurrentStep, IsActive, workerVars
  <2> QED
    BY <2>2, <2>4, <2>5 DEF IndInv
<1>2. CASE \/ \E r \in Request : Revoke(r)
           \/ StopRevoke \/ Destroy \/ DestroyRevoke
  <2>1. UNCHANGED <<runVars, workerVars>>
    BY <1>2 DEF Revoke, StopRevoke, Destroy, DestroyRevoke
  <2>2. \/ UNCHANGED <<job, revoked>>
        \/ /\ job \in {"idle", "submitted"}
           /\ job' = "idle"
           /\ revoked' = (revoked \/ job = "submitted")
    BY <1>2 DEF Revoke, StopRevoke, Destroy, DestroyRevoke, RevokeJob
  <2>3. revoked' \in BOOLEAN
    BY <2>2, Zenon DEF IndInv, ControlTypes
  <2>4. ControlTypes'
    BY <1>2, <2>1, <2>2, <2>3 DEF Revoke, StopRevoke, Destroy,
       DestroyRevoke, Respond, Goto, IndInv, ControlTypes, PC, Answers, runVars,
       workerVars, endVars, requestVars
  <2>5. \A u \in Request : pc[u] \in {"execute", "submit"} => pc'[u] = pc[u]
    BY <1>2 DEF Revoke, StopRevoke, Destroy, DestroyRevoke, Respond,
                Goto, IndInv, ControlTypes, requestVars
  <2>6. LoadedIsHeld'
    BY <2>1, <2>5 DEF IndInv, LoadedIsHeld, runVars
  <2>7. RunHasJob'
    <3>1. CASE UNCHANGED <<job, revoked>>
      BY <2>1, <2>5, <3>1 DEF IndInv, RunHasJob, IsActive, runVars, workerVars
    <3>2. CASE job = "submitted" /\ revoked' = (revoked \/ job = "submitted")
      BY <3>2 DEF RunHasJob
    <3>3. CASE job = "idle" /\ job' = "idle" /\ revoked' = (revoked \/ job = "submitted")
      <4>1. revoked' = revoked
        BY <3>3 DEF IndInv, ControlTypes
      <4> QED
        BY <2>1, <2>5, <3>3, <4>1 DEF IndInv, RunHasJob, IsActive, runVars,
                                      workerVars
    <3> QED
      BY <2>2, <3>1, <3>2, <3>3
  <2>8. WorkerHasJob' /\ CurrentStep'
    BY <2>1, <2>2 DEF IndInv, WorkerHasJob, CurrentStep, IsActive, runVars,
                      workerVars
  <2> QED
    BY <2>4, <2>6, <2>7, <2>8 DEF IndInv
<1> QED
  BY <1>1, <1>2 DEF StopStep

\* The head of Dispatch's loop, at whatever index: either the command there is
\* the one that executes, or the run is over.
LEMMA ProceedStep ==
  ASSUME IndInv, NEW i, wpc \in {"dispatch", "execute", "waiting"}, Proceed(i)
  PROVE  IndInv'
<1>1. /\ currentIndex' = i
      /\ UNCHANGED <<job, stop, destructor, pc, answer, revoked>>
      /\ \/ /\ i < Len(sequenceList)
            /\ state = "RUNNING"
            /\ step' = sequenceList[i + 1]
            /\ wpc' = "execute"
            /\ UNCHANGED <<state, sequenceList>>
         \/ (wpc' = "return" /\ state' = "IDLE")
  BY DEF Proceed, Continues, endVars, requestVars
<1>2. ControlTypes'
  BY <1>1 DEF IndInv, ControlTypes
<1>3. WorkerHasJob'
  BY <1>1 DEF IndInv, WorkerHasJob
<1>4. CurrentStep'
  BY <1>1 DEF CurrentStep, IsActive
<1>5. LoadedIsHeld' /\ RunHasJob'
  BY <1>1, <1>3 DEF IndInv, ControlTypes, WorkerHasJob, LoadedIsHeld, RunHasJob,
                    IsActive
<1> QED
  BY <1>2, <1>3, <1>4, <1>5 DEF IndInv

\* The thread that executes the job.
LEMMA WorkerInv ==
  ASSUME IndInv, WorkerStep \/ Notify
  PROVE  IndInv'
<1>1. CASE Take
  <2>1. /\ job = "submitted" /\ job' = "executing" /\ wpc' = "dispatch"
        /\ UNCHANGED <<runVars, step, endVars, requestVars, revoked>>
    BY <1>1 DEF Take
  <2> QED
    BY <2>1 DEF IndInv, ControlTypes, WorkerHasJob, CurrentStep, LoadedIsHeld,
       RunHasJob, IsActive, runVars, endVars, requestVars
<1>2. CASE Dispatch
  BY <1>2, ProceedStep DEF Dispatch
<1>3. CASE Control
  <2>1. wpc = "execute"
    BY <1>3 DEF Control
  <2>2. PICK i : Proceed(i)
    BY <1>3 DEF Control
  <2> QED
    BY <2>1, <2>2, ProceedStep
<1>4. CASE Observe \/ Notify
  <2>1. /\ wpc \in {"execute", "waiting"} /\ wpc' = "waiting"
        /\ UNCHANGED <<runVars, job, step, endVars, requestVars, revoked>>
    BY <1>4 DEF Observe, Notify, workerVars
  <2> QED
    BY <2>1 DEF IndInv, ControlTypes, WorkerHasJob, CurrentStep, LoadedIsHeld,
       RunHasJob, IsActive, runVars, endVars, requestVars
<1>5. CASE Observed
  BY <1>5, ProceedStep DEF Observed
<1>6. CASE Return
  <2>1. /\ wpc = "return" /\ wpc' = "none"
        /\ job' = IF job = "again" THEN "submitted" ELSE "idle"
        /\ UNCHANGED <<runVars, step, endVars, requestVars, revoked>>
    BY <1>6 DEF Return
  <2> QED
    BY <2>1 DEF IndInv, ControlTypes, WorkerHasJob, CurrentStep, LoadedIsHeld,
       RunHasJob, IsActive, runVars, endVars, requestVars
<1> QED
  BY <1>1, <1>2, <1>3, <1>4, <1>5, <1>6 DEF WorkerStep

\* A step that changes nothing.
LEMMA StutterStep ==
  ASSUME IndInv, UNCHANGED vars
  PROVE  IndInv'
BY DEF IndInv, ControlTypes, WorkerHasJob, CurrentStep, LoadedIsHeld, RunHasJob,
       IsActive, vars, runVars, workerVars, endVars, requestVars

\* The invariant is inductive.
THEOREM Invariance == Spec => []IndInv
<1>1. ASSUME IndInv, [Next]_vars PROVE IndInv'
  <2>1. CASE Next
    <3>1. CASE \E r \in Request, l \in Lists, wellFormed \in BOOLEAN :
                 Find(r, l, wellFormed)
      BY <1>1, <3>1, FindStep
    <3>2. CASE \E r \in Request : Process(r)
      BY <1>1, <3>2, PutStep, EndStep DEF Process
    <3>3. CASE WorkerStep \/ Notify
      BY <1>1, <3>3, WorkerInv
    <3>4. CASE StopAbort \/ StopStep
      BY <1>1, <3>4, EndStep
    <3> QED
      BY <2>1, <3>1, <3>2, <3>3, <3>4 DEF Next
  <2>2. CASE UNCHANGED vars
    BY <1>1, <2>2, StutterStep
  <2> QED
    BY <1>1, <2>1, <2>2
<1> QED
  BY InitInv, <1>1, PTL DEF Spec

\* While a command executes without the lock, it stays the one under the index
\* of an unchanged list (Dispatch l.413-419 against Load l.329).
THEOREM CurrentStepHolds == Spec => []CurrentStep
<1>1. IndInv => CurrentStep
  BY DEF IndInv
<1> QED
  BY Invariance, <1>1, PTL

\* No list is left behind in LOADED (Load, Execute, Dispatch l.454).
THEOREM LoadedIsHeldHolds == Spec => []LoadedIsHeld
<1>1. IndInv => LoadedIsHeld
  BY DEF IndInv
<1> QED
  BY Invariance, <1>1, PTL

\* A run has a job that will see it, unless a Revoke took it (Execute, Submit
\* and the end of Dispatch).
THEOREM RunHasJobHolds == Spec => []RunHasJob
<1>1. IndInv => RunHasJob
  BY DEF IndInv
<1> QED
  BY Invariance, <1>1, PTL

-----------------------------------------------------------------------------
(* Where a label leads.                                                    *)

\* A set of natural numbers that is not empty has a least one.
LEMMA Least ==
  ASSUME NEW T, T \subseteq Nat, T # {}
  PROVE  \E n \in T : \A m \in T : n <= m
<1>1. IsWellFoundedOn(OpToRel(<, Nat), Nat)
  BY NatLessThanWellFounded
<1>2. PICK n \in T : \A m \in T : ~(<<m, n>> \in OpToRel(<, Nat))
  BY <1>1, WFMin
<1>3. \A m \in T : ~(m < n)
  BY <1>2 DEF OpToRel
<1> QED
  BY <1>3

\* The scan of Dispatch to the end (l.427-436) stops at the first step with the label.
LEMMA ForwardFinds ==
  ASSUME NEW l, Len(sequenceList) \in Nat, NEW i \in 0 .. Len(sequenceList)
  PROVE  /\ Forward(l, i) \in i .. Len(sequenceList)
         /\ Forward(l, i) < Len(sequenceList) => LabelAt(Forward(l, i)) = l
         /\ \A k \in i .. (Forward(l, i) - 1) : LabelAt(k) # l
<1> DEFINE n == Len(sequenceList)
           stops == {m \in i .. n : m = n \/ LabelAt(m) = l}
           found(k, m) == m \in stops /\ k <= m /\ \A j \in stops : k <= j => m <= j
           scan == CHOOSE g : g = [k \in i .. n |->
                                     IF k < n /\ LabelAt(k) # l THEN g[k + 1] ELSE k]
<1>0. n \in Nat /\ i \in Nat /\ i <= n
  OBVIOUS
<1>1. ASSUME NEW k \in i .. n PROVE \E m : found(k, m)
  <2> DEFINE T == {m \in stops : k <= m}
  <2>1. T \subseteq Nat /\ n \in T
    BY <1>0
  <2>2. PICK m \in T : \A j \in T : m <= j
    BY <2>1, Least
  <2> QED
    BY <2>2
<1>2. PICK w : /\ w = [k \in i .. n |-> w[k]]
               /\ \A k \in i .. n : found(k, w[k])
  <2> HIDE DEF found, n
  <2> WITNESS [k \in i .. n |-> CHOOSE m : found(k, m)]
  <2>1. \A k \in i .. n : found(k, CHOOSE m : found(k, m))
    BY <1>1
  <2> QED
    BY <2>1
<1>3. \A k \in i .. n : w[k] = IF k < n /\ LabelAt(k) # l THEN w[k + 1] ELSE k
  <2> SUFFICES ASSUME NEW k \in i .. n
               PROVE  w[k] = IF k < n /\ LabelAt(k) # l THEN w[k + 1] ELSE k
    OBVIOUS
  <2>1. CASE k < n /\ LabelAt(k) # l
    <3>1. k + 1 \in i .. n /\ k \notin stops
      BY <1>0, <2>1
    <3>2. found(k, w[k]) /\ found(k + 1, w[k + 1])
      BY <1>2, <3>1
    <3> QED
      BY <1>0, <2>1, <3>1, <3>2
  <2>2. CASE ~(k < n /\ LabelAt(k) # l)
    <3>1. k \in stops /\ found(k, w[k])
      BY <1>0, <1>2, <2>2
    <3> QED
      BY <1>0, <2>2, <3>1
  <2> QED
    BY <2>1, <2>2
<1>4. w = [k \in i .. n |-> IF k < n /\ LabelAt(k) # l THEN w[k + 1] ELSE k]
  BY <1>2, <1>3
<1>5. scan = [k \in i .. n |-> IF k < n /\ LabelAt(k) # l THEN scan[k + 1] ELSE k]
  BY <1>4
<1>6. Forward(l, i) = scan[i]
  BY DEF Forward
<1> HIDE DEF scan
<1>7. \A k \in i .. n : scan[k] = w[k]
  <2> DEFINE D == {d \in 0 .. n - i : scan[n - d] # w[n - d]}
  <2>1. SUFFICES ASSUME D # {} PROVE FALSE
    <3>1. \A k \in i .. n : n - k \in 0 .. n - i /\ n - (n - k) = k
      BY <1>0
    <3> QED
      BY <2>1, <3>1
  <2>2. PICK d \in D : \A e \in D : d <= e
    <3>1. D \subseteq Nat
      BY <1>0
    <3> QED
      BY <2>1, <3>1, Least
  <2> DEFINE k == n - d
  <2>3. k \in i .. n /\ scan[k] # w[k]
    BY <1>0
  <2>4. k < n => d - 1 \in 0 .. n - i /\ n - (d - 1) = k + 1 /\ k + 1 \in i .. n
    BY <1>0
  <2>5. k < n => scan[k + 1] = w[k + 1]
    BY <2>2, <2>4
  <2>6. /\ scan[k] = IF k < n /\ LabelAt(k) # l THEN scan[k + 1] ELSE k
        /\ w[k] = IF k < n /\ LabelAt(k) # l THEN w[k + 1] ELSE k
    BY <1>3, <1>5, <2>3
  <2> QED
    BY <2>3, <2>5, <2>6
<1>8. found(i, Forward(l, i))
  BY <1>0, <1>2, <1>6, <1>7
<1> QED
  BY <1>0, <1>8

\* A set of natural numbers up to n that is not empty has a greatest one.
LEMMA Greatest ==
  ASSUME NEW n \in Nat, NEW T, T \subseteq 0 .. n, T # {}
  PROVE  \E m \in T : \A j \in T : j <= m
<1> DEFINE U == {n - t : t \in T}
<1>1. U \subseteq Nat /\ U # {}
  <2>1. PICK t \in T : TRUE
    OBVIOUS
  <2>2. n - t \in U
    BY <2>1
  <2> QED
    BY <2>2
<1>2. PICK u \in U : \A v \in U : u <= v
  BY <1>1, Least
<1>3. n - u \in T /\ u \in 0 .. n
  OBVIOUS
<1>4. \A j \in T : u <= n - j
  BY <1>2
<1> QED
  BY <1>3, <1>4

\* The scan back to the first step (l.439-447) stops after the last step with
\* the label.
LEMMA BackwardFinds ==
  ASSUME NEW l, NEW i \in Nat
  PROVE  /\ Backward(l, i) \in 0 .. i
         /\ Backward(l, i) > 0 => LabelAt(Backward(l, i) - 1) = l
         /\ \A k \in Backward(l, i) .. (i - 1) : LabelAt(k) # l
<1> DEFINE stops == {m \in 0 .. i : m = 0 \/ LabelAt(m - 1) = l}
           found(k, m) == m \in stops /\ m <= k /\ \A j \in stops : j <= k => j <= m
           scan == CHOOSE g : g = [k \in 0 .. i |->
                                     IF k > 0 /\ LabelAt(k - 1) # l THEN g[k - 1] ELSE k]
<1>1. ASSUME NEW k \in 0 .. i PROVE \E m : found(k, m)
  <2> DEFINE T == {m \in stops : m <= k}
  <2>1. T \subseteq 0 .. i /\ 0 \in T
    OBVIOUS
  <2>2. PICK m \in T : \A j \in T : j <= m
    BY <2>1, Greatest
  <2> QED
    BY <2>2
<1>2. PICK w : /\ w = [k \in 0 .. i |-> w[k]]
               /\ \A k \in 0 .. i : found(k, w[k])
  <2> HIDE DEF found
  <2> WITNESS [k \in 0 .. i |-> CHOOSE m : found(k, m)]
  <2>1. \A k \in 0 .. i : found(k, CHOOSE m : found(k, m))
    BY <1>1
  <2> QED
    BY <2>1
<1>3. \A k \in 0 .. i : w[k] = IF k > 0 /\ LabelAt(k - 1) # l THEN w[k - 1] ELSE k
  <2> SUFFICES ASSUME NEW k \in 0 .. i
               PROVE  w[k] = IF k > 0 /\ LabelAt(k - 1) # l THEN w[k - 1] ELSE k
    OBVIOUS
  <2>1. CASE k > 0 /\ LabelAt(k - 1) # l
    <3>1. k - 1 \in 0 .. i /\ k \notin stops
      BY <2>1
    <3>2. found(k, w[k]) /\ found(k - 1, w[k - 1])
      BY <1>2, <3>1
    <3> QED
      BY <2>1, <3>1, <3>2
  <2>2. CASE ~(k > 0 /\ LabelAt(k - 1) # l)
    <3>1. k \in stops /\ found(k, w[k])
      BY <1>2, <2>2
    <3> QED
      BY <2>2, <3>1
  <2> QED
    BY <2>1, <2>2
<1>4. w = [k \in 0 .. i |-> IF k > 0 /\ LabelAt(k - 1) # l THEN w[k - 1] ELSE k]
  BY <1>2, <1>3
<1>5. scan = [k \in 0 .. i |-> IF k > 0 /\ LabelAt(k - 1) # l THEN scan[k - 1] ELSE k]
  BY <1>4
<1>6. Backward(l, i) = scan[i]
  BY DEF Backward
<1> HIDE DEF scan
<1>7. \A k \in 0 .. i : scan[k] = w[k]
  <2> DEFINE D == {k \in 0 .. i : scan[k] # w[k]}
  <2> SUFFICES ASSUME D # {} PROVE FALSE
    OBVIOUS
  <2>1. PICK k \in D : \A e \in D : k <= e
    <3>1. D \subseteq Nat
      OBVIOUS
    <3> QED
      BY <3>1, Least
  <2>2. k > 0 => k - 1 \in 0 .. i /\ scan[k - 1] = w[k - 1]
    BY <2>1
  <2>3. /\ scan[k] = IF k > 0 /\ LabelAt(k - 1) # l THEN scan[k - 1] ELSE k
        /\ w[k] = IF k > 0 /\ LabelAt(k - 1) # l THEN w[k - 1] ELSE k
    BY <1>3, <1>5
  <2> QED
    BY <2>2, <2>3
<1>8. found(i, Backward(l, i))
  BY <1>2, <1>6, <1>7
<1> QED
  BY <1>8

\* Create makes a list of command objects of the PUT, of whatever it is given.
LEMMA CreateType ==
  ASSUME NEW r \in Put, NEW l, Len(l) \in Nat
  PROVE  Create(r, l) \in Seq({r} \X (Nat \ {0}))
<1> DEFINE Own == {r} \X (Nat \ {0})
           n == Len(l)
           next(s, k) == IF l[k].kind # "unknown" THEN Append(s, <<r, k>>) ELSE s
           makes(m, g) == g = [k \in 0 .. m |-> IF k = 0 THEN << >> ELSE next(g[k - 1], k)]
           made == CHOOSE g : makes(n, g)
<1>1. \A m \in 0 .. n : \E g : makes(m, g)
  <2> DEFINE D == {m \in 0 .. n : ~\E g : makes(m, g)}
  <2> SUFFICES ASSUME D # {} PROVE FALSE
    OBVIOUS
  <2>1. PICK m \in D : \A e \in D : m <= e
    <3>1. D \subseteq Nat
      OBVIOUS
    <3> HIDE DEF D
    <3> QED
      BY <3>1, Least
  <2> HIDE DEF next
  <2>2. CASE m = 0
    <3>1. makes(0, [k \in 0 .. 0 |-> << >>])
      OBVIOUS
    <3> QED
      BY <2>2, <3>1
  <2>3. CASE m > 0
    <3>1. m - 1 \in 0 .. n /\ m - 1 \notin D
      <4>1. m \in 0 .. n
        BY <2>1
      <4> HIDE DEF D
      <4> QED
        BY <2>1, <2>3, <4>1
    <3>2. PICK g : makes(m - 1, g)
      BY <3>1
    <3> DEFINE h == [k \in 0 .. m |-> IF k = m THEN next(g[m - 1], m) ELSE g[k]]
    <3>3. \A k \in 0 .. m : h[k] = IF k = 0 THEN << >> ELSE next(h[k - 1], k)
      <4> TAKE k \in 0 .. m
      <4>1. CASE k = m
        BY <2>3, <4>1
      <4>2. CASE k # m
        <5>1. k \in 0 .. (m - 1) /\ h[k] = g[k]
          BY <4>2
        <5>2. g[k] = IF k = 0 THEN << >> ELSE next(g[k - 1], k)
          BY <3>2, <5>1
        <5>3. k # 0 => h[k - 1] = g[k - 1]
          BY <5>1
        <5> QED
          BY <5>1, <5>2, <5>3
      <4> QED
        BY <4>1, <4>2
    <3>4. h = [k \in 0 .. m |-> h[k]]
      OBVIOUS
    <3> HIDE DEF h
    <3>5. makes(m, h)
      BY <3>3, <3>4
    <3> QED
      BY <3>5
  <2> QED
    BY <2>2, <2>3
<1>2. makes(n, made)
  <2> HIDE DEF makes
  <2>1. n \in 0 .. n
    OBVIOUS
  <2>2. \E g : makes(n, g)
    BY <1>1, <2>1
  <2> QED
    BY <2>2
<1>3. Create(r, l) = made[n]
  BY DEF Create
<1> HIDE DEF made, Own
<1>4. \A k \in 0 .. n : made[k] \in Seq(Own)
  <2> DEFINE D == {k \in 0 .. n : made[k] \notin Seq(Own)}
  <2> SUFFICES ASSUME D # {} PROVE FALSE
    OBVIOUS
  <2>1. PICK k \in D : \A e \in D : k <= e
    <3>1. D \subseteq Nat
      OBVIOUS
    <3> HIDE DEF D
    <3> QED
      BY <3>1, Least
  <2>2. k > 0 => k - 1 \in 0 .. n /\ made[k - 1] \in Seq(Own)
    BY <2>1
  <2>3. made[k] = IF k = 0 THEN << >> ELSE next(made[k - 1], k)
    BY <1>2
  <2>4. k > 0 => <<r, k>> \in Own
    BY <2>1 DEF Own
  <2>5. CASE k = 0
    <3>1. made[k] = << >>
      BY <2>3, <2>5, Zenon
    <3>2. << >> \in Seq(Own)
      OBVIOUS
    <3>3. made[k] \notin Seq(Own)
      BY <2>1
    <3> QED
      BY <3>1, <3>2, <3>3, Zenon
  <2>6. CASE k > 0
    <3>1. made[k] \in {made[k - 1], Append(made[k - 1], <<r, k>>)}
      BY <2>3, <2>6
    <3>2. Append(made[k - 1], <<r, k>>) \in Seq(Own)
      BY <2>2, <2>4, <2>6
    <3> QED
      BY <2>1, <2>2, <2>6, <3>1, <3>2
  <2> QED
    BY <2>1, <2>5, <2>6
<1> QED
  BY <1>3, <1>4 DEF Own

\* NextIndex goes where Nearest says.
LEMMA NextIsNearest ==
  ASSUME NEW result, currentIndex \in Nat, Len(sequenceList) \in Nat,
         currentIndex < Len(sequenceList)
  PROVE  /\ NextIndex(result) \in Nat
         /\ Nearest(currentIndex, result, NextIndex(result))
<1> DEFINE i == currentIndex
           n == Len(sequenceList)
           to == NextIndex(result)
           labelled == {k \in 0 .. (n - 1) : result # NoLabel /\ LabelAt(k) = result}
           after == {k \in labelled : k > i}
           fwd == Forward(result, i + 1)
           bwd == Backward(result, i + 1)
<1>1. to = IF result = NoLabel THEN i + 1
           ELSE IF fwd < n THEN fwd
           ELSE IF bwd > 0 THEN bwd - 1
           ELSE i + 1
  BY DEF NextIndex
<1>2. /\ fwd \in (i + 1) .. n
      /\ fwd < n => LabelAt(fwd) = result
      /\ \A k \in (i + 1) .. (fwd - 1) : LabelAt(k) # result
  BY ForwardFinds, i + 1 \in 0 .. n
<1>3. /\ bwd \in 0 .. (i + 1)
      /\ bwd > 0 => LabelAt(bwd - 1) = result
      /\ \A k \in bwd .. i : LabelAt(k) # result
  BY BackwardFinds, i + 1 \in Nat, (i + 1) - 1 = i
<1> HIDE DEF to, fwd, bwd
<1>4. to \in Nat
  BY <1>1, <1>2, <1>3
<1>5. \/ labelled = {} /\ to = i + 1
      \/ /\ to \in IF after # {} THEN after ELSE labelled
         /\ \A k \in labelled : k <= i \/ k >= to
         /\ after = {} => \A k \in labelled : k <= to
  <2>1. CASE result = NoLabel
    BY <1>1, <2>1
  <2>2. CASE result # NoLabel /\ fwd < n
    <3>1. to \in after
      BY <1>1, <1>2, <2>2
    <3>2. ASSUME NEW k \in labelled, k > i PROVE k >= to
      BY <1>1, <1>2, <2>2, <3>2
    <3> QED
      BY <3>1, <3>2
  <2>3. CASE result # NoLabel /\ ~(fwd < n)
    <3>1. after = {}
      BY <1>2, <2>3
    <3>2. CASE bwd > 0
      <4>1. to = bwd - 1 /\ to \in labelled
        BY <1>1, <1>3, <2>3, <3>2
      <4>2. ASSUME NEW k \in labelled PROVE k <= i /\ k <= to
        BY <1>3, <3>1, <4>1
      <4> QED
        BY <3>1, <4>1, <4>2
    <3>3. CASE ~(bwd > 0)
      <4>1. to = i + 1 /\ bwd = 0
        BY <1>1, <1>3, <2>3, <3>3
      <4>2. labelled = {}
        BY <1>3, <3>1, <4>1
      <4> QED
        BY <4>1, <4>2
    <3> QED
      BY <3>2, <3>3
  <2> QED
    BY <2>1, <2>2, <2>3
<1>6. Nearest(i, result, to)
  <2> HIDE DEF i
  <2>1. labelled # {} => to \in IF after # {} THEN after ELSE labelled
    BY <1>5
  <2>2. labelled = {} => to = i + 1
    BY <1>5
  <2> QED
    BY <1>5, <2>1, <2>2 DEF Nearest
<1> QED
  BY <1>4, <1>6 DEF to
-----------------------------------------------------------------------------
(* The types of the list, the index and the commands.                      *)

\* Only a PUT checks and loads.
LoaderIsPut == \A r \in Request : pc[r] \in {"check", "load"} => r \in Put

\* The inductive invariant of the data, relative to IndInv
ListInv == ListTypes /\ LoaderIsPut

\* The initial state satisfies the invariant.
LEMMA InitLists == Init => ListInv
BY DEF Init, ListInv, ListTypes, LoaderIsPut

\* The command at an index within the list.
LEMMA Element ==
  ASSUME sequenceList \in Seq(Object), NEW i \in Nat, i < Len(sequenceList)
  PROVE  sequenceList[i + 1] \in Object
<1>1. i + 1 \in 1 .. Len(sequenceList)
  OBVIOUS
<1> QED
  BY <1>1

\* Abort notes an object of the list, and the PUT of it.
LEMMA AbortTypes ==
  ASSUME ListTypes, AbortRun
  PROVE  signalled' \subseteq Object /\ aborted' \subseteq Put
<1>1. CASE state = "RUNNING" /\ ~Outside
  <2>1. sequenceList[currentIndex + 1] \in Object
    BY <1>1, Element DEF Outside, ListTypes
  <2>2. sequenceList[currentIndex + 1][1] \in Put
    BY <2>1 DEF Object
  <2> QED
    BY <1>1, <2>1, <2>2 DEF AbortRun, ListTypes
<1>2. CASE ~(state = "RUNNING" /\ ~Outside)
  BY <1>2 DEF AbortRun, abortVars, ListTypes
<1> QED
  BY <1>1, <1>2

\* Requests.
LEMMA RequestLists ==
  ASSUME ListInv, IndInv, NEW r \in Request,
         (\E l \in Lists, wellFormed \in BOOLEAN : Find(r, l, wellFormed)) \/ Process(r)
  PROVE  ListInv'
<1>1. CASE \E l \in Lists, wellFormed \in BOOLEAN : Find(r, l, wellFormed)
  <2>1. PICK l \in Lists, wellFormed \in BOOLEAN : Find(r, l, wellFormed)
    BY <1>1
  <2>2. ListTypes'
    BY <2>1 DEF Find, ListInv, ListTypes, runVars, workerVars, abortVars
  <2>3. LoaderIsPut'
    BY <2>1 DEF Find, Respond, Goto, ListInv, LoaderIsPut, IndInv, ControlTypes
  <2> QED
    BY <2>2, <2>3 DEF ListInv
<1>2. CASE Load(r)
  <2> DEFINE l == Create(r, body[r])
  <2>1. pc[r] = "load" /\ r \in Put
    BY <1>2 DEF Load, ListInv, LoaderIsPut
  <2>2. Len(body[r]) \in Nat
    <3>1. body[r] \in Seq(Commands) \/ body[r] = << >>
      BY <2>1, ListAssumption DEF ListInv, ListTypes
    <3>2. Len(<< >>) = 0
      OBVIOUS
    <3> QED
      BY <3>1, <3>2
  <2>3. l \in Seq(Object)
    <3>1. l \in Seq({r} \X (Nat \ {0}))
      BY <2>1, <2>2, CreateType
    <3>2. {r} \X (Nat \ {0}) \subseteq Object
      BY <2>1 DEF Object
    <3> QED
      BY <3>1, <3>2
  <2>4. ListTypes'
    BY <1>2, <2>1, <2>3 DEF Load, First, ListInv, ListTypes, runVars, workerVars, abortVars
  <2>5. LoaderIsPut'
    BY <1>2 DEF Load, Goto, ListInv, LoaderIsPut, IndInv, ControlTypes
  <2> QED
    BY <2>4, <2>5 DEF ListInv
<1>3. CASE Abort(r)
  <2>1. signalled' \subseteq Object /\ aborted' \subseteq Put
    BY <1>3, AbortTypes DEF Abort, ListInv
  <2>2. ListTypes'
    BY <1>3, <2>1 DEF Abort, ListInv, ListTypes, workerVars, abortVars
  <2>3. LoaderIsPut'
    BY <1>3 DEF Abort, Respond, Goto, ListInv, LoaderIsPut, IndInv, ControlTypes
  <2> QED
    BY <2>2, <2>3 DEF ListInv
<1>4. CASE Check(r) \/ Execute(r) \/ Submit(r) \/ Revoke(r)
  <2>1. ListTypes'
    BY <1>4 DEF Check, Execute, Submit, Revoke, ListInv, ListTypes, runVars, workerVars, abortVars
  <2>2. LoaderIsPut'
    BY <1>4 DEF Check, Execute, Submit, Revoke, Respond, Goto, ListInv, LoaderIsPut,
                IndInv, ControlTypes
  <2> QED
    BY <2>1, <2>2 DEF ListInv
<1> QED
  BY <1>1, <1>2, <1>3, <1>4 DEF Process

\* The head of the loop, at an index that is a number.
LEMMA ProceedLists ==
  ASSUME ListInv, NEW i \in Nat, Proceed(i), UNCHANGED abortVars
  PROVE  ListInv'
<1>1. step' \in Object \cup {NoStep}
  BY Element DEF Proceed, Continues, ListInv, ListTypes
<1>2. sequenceList' \in Seq(Object)
  <2>1. << >> \in Seq(Object)
    OBVIOUS
  <2> QED
    BY <2>1 DEF Proceed, ListInv, ListTypes
<1>3. currentIndex' \in Nat
  BY DEF Proceed
<1> QED
  BY <1>1, <1>2, <1>3 DEF Proceed, requestVars, abortVars, ListInv, ListTypes,
                          LoaderIsPut

\* The thread that executes the job.
LEMMA WorkerLists ==
  ASSUME ListInv, IndInv, WorkerStep \/ Notify
  PROVE  ListInv'
<1>1. /\ currentIndex \in Nat
      /\ Len(sequenceList) \in Nat
      /\ wpc \in {"execute", "waiting"} =>
           currentIndex < Len(sequenceList) /\ step = sequenceList[currentIndex + 1]
  BY DEF ListInv, ListTypes, IndInv, CurrentStep
<1>2. CASE Dispatch
  BY <1>1, <1>2, ProceedLists DEF Dispatch, ListInv, ListTypes
<1>3. CASE Control
  <2>1. PICK result : Proceed(NextIndex(result))
    BY <1>3 DEF Control
  <2>2. NextIndex(result) \in Nat
    BY <1>1, <1>3, NextIsNearest DEF Control
  <2> QED
    BY <1>3, <2>1, <2>2, ProceedLists DEF Control, ListInv, ListTypes
<1>4. CASE Observed
  <2>1. NextIndex(NoLabel) \in Nat
    BY <1>1, <1>4, NextIsNearest DEF Observed
  <2> QED
    BY <1>4, <2>1, ProceedLists DEF Observed, ListInv, ListTypes
<1>5. CASE Observe \/ Notify
  <2>1. step \in Object
    BY <1>1, <1>5, Element DEF Observe, Notify, ListInv, ListTypes
  <2> QED
    BY <1>5, <2>1 DEF Observe, Notify, ListInv, ListTypes, LoaderIsPut, runVars,
                      workerVars, requestVars, abortVars
<1>6. CASE Take \/ Return
  BY <1>6 DEF Take, Return, ListInv, ListTypes, LoaderIsPut, runVars, workerVars,
              requestVars, abortVars
<1> QED
  BY <1>2, <1>3, <1>4, <1>5, <1>6 DEF WorkerStep

\* Deinitialize, the destructor, and a step that changes nothing.
LEMMA EndLists ==
  ASSUME ListInv, StopAbort \/ StopStep \/ UNCHANGED vars
  PROVE  ListInv'
<1>1. signalled' \subseteq Object /\ aborted' \subseteq Put
  BY AbortTypes DEF StopAbort, StopStep, StopRevoke, Destroy, DestroyRevoke,
     DestroyAbort, vars, abortVars, ListInv, ListTypes
<1>2. UNCHANGED <<sequenceList, currentIndex, step, pc, body, imported>>
  BY DEF StopAbort, StopStep, StopRevoke, Destroy, DestroyRevoke, DestroyAbort,
         vars, runVars, workerVars, requestVars
<1> QED
  BY <1>1, <1>2 DEF ListInv, ListTypes, LoaderIsPut

\* The types of the data are an invariant.
THEOREM ListInvariance == Spec => []ListInv
<1>1. ASSUME ListInv, IndInv, [Next]_vars PROVE ListInv'
  BY <1>1, RequestLists, WorkerLists, EndLists DEF Next
<1> QED
  BY InitLists, Invariance, <1>1, PTL DEF Spec

\* Every variable of the Sequencer, its job and its requests keeps its type.
THEOREM TypeCorrect == Spec => []TypeOK
<1>1. IndInv /\ ListInv => TypeOK
  BY DEF IndInv, ListInv, TypeOK
<1> QED
  BY Invariance, ListInvariance, <1>1, PTL

\* A label leads to the nearest step that has it (Dispatch l.421-450).
THEOREM JumpsToNearestHolds == Spec => JumpsToNearest
<1> DEFINE Jump == /\ wpc = "execute"
                   /\ Command(step).kind = "control"
                   /\ <<wpc, currentIndex>>' # <<wpc, currentIndex>>
                   => \E result \in {Command(step).success, Command(step).failure} :
                        Nearest(currentIndex, result, currentIndex')
<1>1. ASSUME ListInv, IndInv, [Next]_vars PROVE [Jump]_vars
  <2> SUFFICES ASSUME Next, wpc = "execute", Command(step).kind = "control",
                      <<wpc, currentIndex>>' # <<wpc, currentIndex>>
               PROVE  \E result \in {Command(step).success, Command(step).failure} :
                        Nearest(currentIndex, result, currentIndex')
    BY <1>1
  <2>1. /\ currentIndex \in Nat
        /\ Len(sequenceList) \in Nat
        /\ currentIndex < Len(sequenceList)
    BY <1>1 DEF ListInv, ListTypes, IndInv, CurrentStep
  <2>2. ~\E r \in Request : Load(r) /\ ~IsActive
    BY <1>1 DEF IndInv, CurrentStep
  <2>3. Control
    BY <1>1, <2>2 DEF IndInv, CurrentStep, Next, Find, Process, Check, Load, Refuses, Execute,
       Submit, Abort, Revoke, WorkerStep, Take, Dispatch, Observe, Notify, Observed,
       Return, StopAbort, StopStep, StopRevoke, Destroy, DestroyRevoke, DestroyAbort, runVars,
       workerVars, IndInv, WorkerHasJob
  <2>4. PICK result \in {Command(step).success, Command(step).failure} :
          Proceed(NextIndex(result))
    BY <2>3 DEF Control
  <2>5. currentIndex' = NextIndex(result)
    BY <2>4 DEF Proceed
  <2> QED
    BY <2>1, <2>5, NextIsNearest
<1> QED
  BY Invariance, ListInvariance, <1>1, PTL DEF Spec, JumpsToNearest
-----------------------------------------------------------------------------
(* An abort is final.                                                      *)

\* A list in place was loaded by a PUT that is past Load, and so was one that
\* was aborted; while the latter is still in place the run is ABORTING.
AbortInv ==
  /\ \A k \in 1 .. Len(sequenceList) :
       /\ pc[sequenceList[k][1]] \notin {"idle", "check", "load"}
       /\ sequenceList[k][1] \in aborted => state = "ABORTING"
  /\ \A r \in aborted : pc[r] \notin {"idle", "check", "load"}

\* Abort says of the list in place that it is aborted, and makes it so.
LEMMA AbortAborts ==
  ASSUME AbortInv, ListInv, IndInv, AbortRun, UNCHANGED sequenceList,
         \A r \in Request : pc[r] \notin {"idle", "check", "load"} =>
                            pc'[r] \notin {"idle", "check", "load"}
  PROVE  AbortInv'
<1>1. \A k \in 1 .. Len(sequenceList) : sequenceList[k][1] \in Request
  BY DEF ListInv, ListTypes, Object, Request
<1>2. aborted \subseteq Request
  BY DEF ListInv, ListTypes, Request
<1>3. CASE state = "RUNNING" /\ ~Outside
  <2> DEFINE k == currentIndex + 1
  <2>1. k \in 1 .. Len(sequenceList)
    BY <1>3 DEF Outside, ListInv, ListTypes
  <2>2. state' = "ABORTING" /\ aborted' = aborted \cup {sequenceList[k][1]}
    BY <1>3 DEF AbortRun
  <2> HIDE DEF k
  <2> QED
    BY <1>1, <1>2, <2>1, <2>2 DEF AbortInv
<1>4. CASE ~(state = "RUNNING" /\ ~Outside)
  <2>1. UNCHANGED <<state, aborted>>
    BY <1>4 DEF AbortRun, abortVars
  <2> QED
    BY <1>1, <1>2, <2>1 DEF AbortInv
<1> QED
  BY <1>3, <1>4

\* The invariant survives every step: a PUT that loads was not aborted, Execute
\* starts only what was LOADED, and the end of Dispatch clears the list.
LEMMA AbortStep ==
  ASSUME AbortInv, ListInv, IndInv, [Next]_vars
  PROVE  AbortInv'
<1> DEFINE Past(r) == pc[r] \notin {"idle", "check", "load"}
<1>0. /\ \A k \in 1 .. Len(sequenceList) : sequenceList[k][1] \in Request
      /\ aborted \subseteq Request
  BY DEF ListInv, ListTypes, Object, Request
<1>1. ASSUME \A r \in Request : Past(r) => Past(r)',
             UNCHANGED <<sequenceList, aborted>>,
             state' = state \/ state # "ABORTING"
      PROVE  AbortInv'
  BY <1>0, <1>1 DEF AbortInv
<1>2. CASE \E r \in Request, l \in Lists, wellFormed \in BOOLEAN :
             Find(r, l, wellFormed)
  <2>1. UNCHANGED <<sequenceList, aborted, state>>
    BY <1>2 DEF Find, runVars, abortVars
  <2>2. \A r \in Request : Past(r) => Past(r)'
    BY <1>2 DEF Find, Respond, Goto, IndInv, ControlTypes
  <2> QED
    BY <1>1, <2>1, <2>2
<1>3. ASSUME NEW r \in Request, Check(r) \/ Execute(r) \/ Submit(r) \/ Revoke(r)
      PROVE  AbortInv'
  <2>1. UNCHANGED <<sequenceList, aborted>>
    BY <1>3 DEF Check, Execute, Submit, Revoke, runVars, abortVars
  <2>2. state' = state \/ (state = "LOADED" /\ state' = "RUNNING")
    BY <1>3 DEF Check, Execute, Executable, Submit, Revoke, runVars
  <2>3. \A u \in Request : Past(u) => Past(u)'
    BY <1>3 DEF Check, Execute, Submit, Revoke, Respond, Goto, IndInv, ControlTypes
  <2> QED
    BY <1>1, <2>1, <2>2, <2>3
<1>4. ASSUME NEW r \in Request, Load(r) PROVE AbortInv'
  <2>1. /\ pc[r] = "load" /\ r \in Put /\ aborted' = aborted
        /\ pc' = [pc EXCEPT ![r] = "execute"]
    BY <1>4 DEF Load, Goto, abortVars, ListInv, LoaderIsPut
  <2>2. /\ pc'[r] = "execute"
        /\ \A u \in Request : Past(u) => Past(u)'
    BY <2>1 DEF IndInv, ControlTypes
  <2>3. CASE IsActive
    BY <1>1, <1>4, <2>1, <2>2, <2>3 DEF Load, Refuses, runVars
  <2>4. CASE ~IsActive
    <3> DEFINE l == Create(r, body[r])
    <3>1. sequenceList' = l
      BY <1>4, <2>4 DEF Load, Refuses
    <3>2. Len(body[r]) \in Nat
      <4>1. body[r] \in Seq(Commands) \/ body[r] = << >>
        BY <2>1, ListAssumption DEF ListInv, ListTypes
      <4>2. Len(<< >>) = 0
        OBVIOUS
      <4> QED
        BY <4>1, <4>2
    <3>3. l \in Seq({r} \X (Nat \ {0}))
      BY <2>1, <3>2, CreateType
    <3> HIDE DEF l
    <3>4. \A k \in 1 .. Len(sequenceList') : sequenceList'[k][1] = r
      BY <3>1, <3>3
    <3>5. r \notin aborted
      BY <2>1 DEF AbortInv
    <3> QED
      BY <1>0, <2>1, <2>2, <3>4, <3>5 DEF AbortInv
  <2> QED
    BY <2>3, <2>4
<1>5. ASSUME NEW r \in Request, Abort(r) PROVE AbortInv'
  <2>1. AbortRun /\ UNCHANGED sequenceList
    BY <1>5 DEF Abort
  <2>2. \A u \in Request : Past(u) => Past(u)'
    BY <1>5 DEF Abort, Respond, Goto, IndInv, ControlTypes
  <2> QED
    BY <2>1, <2>2, AbortAborts
<1>6. CASE StopAbort \/ DestroyAbort
  BY <1>6, AbortAborts DEF StopAbort, DestroyAbort, requestVars
<1>7. ASSUME NEW i, Proceed(i), UNCHANGED abortVars PROVE AbortInv'
  <2>1. CASE sequenceList' = sequenceList /\ state' = state
    BY <1>1, <1>7, <2>1 DEF Proceed, requestVars, abortVars
  <2>2. CASE sequenceList' = << >>
    <3>1. 1 .. Len(sequenceList') = {}
      BY <2>2
    <3> QED
      BY <1>7, <3>1 DEF Proceed, requestVars, abortVars, AbortInv
  <2> QED
    BY <1>7, <2>1, <2>2 DEF Proceed
<1>8. CASE Dispatch \/ Control \/ Observed
  BY <1>7, <1>8 DEF Dispatch, Control, Observed
<1>9. CASE \/ Take \/ Observe \/ Notify \/ Return
           \/ StopRevoke \/ Destroy \/ DestroyRevoke \/ UNCHANGED vars
  <2>1. UNCHANGED <<runVars, aborted, pc>>
    BY <1>9 DEF Take, Observe, Notify, Return, StopRevoke, Destroy, DestroyRevoke,
                vars, abortVars, requestVars
  <2> QED
    BY <1>1, <2>1 DEF runVars
<1> QED
  BY <1>2, <1>3, <1>4, <1>5, <1>6, <1>8, <1>9
     DEF Next, Process, WorkerStep, StopStep

\* An abort is final: no other command of the list is started and the run stays
\* ABORTING, whatever comes late (Execute, Load, Dispatch, Abort).
THEOREM AbortIsFinalHolds == Spec => AbortIsFinal
<1> DEFINE Final == wpc' \in {"execute", "waiting"} /\ step'[1] \in aborted
                    => step' = step /\ state' = "ABORTING"
<1>1. Init => AbortInv
  BY DEF Init, AbortInv
<1>2. ASSUME AbortInv, ListInv, IndInv, [Next]_vars PROVE [Final]_vars
  <2> SUFFICES ASSUME Next, wpc' \in {"execute", "waiting"}, step'[1] \in aborted
               PROVE  step' = step /\ state' = "ABORTING"
    BY <1>2
  <2>0. /\ currentIndex \in Nat /\ Len(sequenceList) \in Nat
        /\ wpc \in {"execute", "waiting"} => currentIndex < Len(sequenceList)
    BY <1>2 DEF IndInv, CurrentStep, ListInv, ListTypes
  <2>1. ~\E i \in Nat : Proceed(i)
    <3> SUFFICES ASSUME NEW i \in Nat, Proceed(i) PROVE FALSE
      OBVIOUS
    <3>1. /\ i + 1 \in 1 .. Len(sequenceList) /\ state = "RUNNING"
          /\ step' = sequenceList[i + 1]
      BY <2>0 DEF Proceed, Continues
    <3> QED
      BY <1>2, <3>1 DEF AbortInv
  <2>2. ~(Dispatch \/ Control \/ Observed)
    <3>1. ~Dispatch
      BY <2>0, <2>1 DEF Dispatch
    <3>2. ~Control
      BY <2>0, <2>1, NextIsNearest DEF Control
    <3>3. ~Observed
      BY <2>0, <2>1, NextIsNearest DEF Observed
    <3> QED
      BY <3>1, <3>2, <3>3
  <2>3. step' = step /\ wpc \in {"execute", "waiting"}
    BY <2>2 DEF Next, Find, Process, Check, Load, Execute, Submit, Abort, Revoke,
       WorkerStep, Take, Observe, Notify, Return, StopAbort, StopStep, StopRevoke,
       Destroy, DestroyRevoke, DestroyAbort, workerVars
  <2>4. /\ currentIndex + 1 \in 1 .. Len(sequenceList)
        /\ sequenceList[currentIndex + 1] = step
    BY <1>2, <2>3 DEF IndInv, CurrentStep, ListInv, ListTypes
  <2>5. state = "ABORTING"
    BY <1>2, <2>3, <2>4 DEF AbortInv
  <2>6. state' = "ABORTING"
    BY <2>2, <2>5 DEF Next, Find, Process, Check, Load, Refuses, IsActive, Execute,
       Executable, Submit, Abort, Revoke, AbortRun, WorkerStep, Take,
       Observe, Notify, Return, StopAbort, StopStep, StopRevoke,
       Destroy, DestroyRevoke, DestroyAbort, runVars
  <2> QED
    BY <2>3, <2>6
<1> QED
  BY Invariance, ListInvariance, AbortStep, <1>1, <1>2, PTL DEF Spec, AbortIsFinal
=============================================================================
