------------------------------ MODULE Sequencer ------------------------------
(***************************************************************************)
(* One Sequencer of the Commander plugin.  A PUT loads a list of commands, *)
(* a job of the worker pool executes them one after the other, following   *)
(* the labels the commands return, a DELETE aborts the run.  Web requests  *)
(* come in on threads of their own, Deinitialize on another.               *)
(*                                                                         *)
(* Every critical section of Sequencer::_adminLock is short and is one     *)
(* step here; Dispatch gives the lock up while a command executes.         *)
(* Assertions are off, as in a release build.                              *)
(***************************************************************************)
EXTENDS Integers, Sequences

CONSTANTS
  Put,        \* PUT requests, each sent once at most
  Delete,     \* DELETE requests, each sent once at most
  Commands,   \* the commands a list may hold: a kind ("control", "observer" or,
              \* of a class nobody registered, "unknown"), a label, and what it
              \* returns on success and on failure
  Lists,      \* the lists a PUT may carry
  NoLabel,    \* the empty string, for a label or a result
  NoStep      \* no command

Request == Put \cup Delete

ASSUME RequestAssumption == Put \cap Delete = {}
ASSUME ListAssumption == Lists \subseteq Seq(Commands)

\* A command object: the list it came with, and where
Object == Put \X (Nat \ {0})

ASSUME NoStepAssumption == NoStep \notin Object

VARIABLES
  state,         \* Sequencer::_state
  sequenceList,  \* Sequencer::_sequenceList, of command objects
  currentIndex,  \* Sequencer::_currentIndex
  job,           \* the state of Sequencer::_job in the worker pool
  wpc, step,     \* the thread inside Dispatch, and the command it executes
  signalled,     \* observers whose _waitEvent is set
  stop,          \* Commander::Deinitialize
  destructor,    \* Sequencer::~Sequencer
  pc, body,      \* the request threads, and the lists that were sent
  answer,        \* history: the responses,
  imported,      \* the PUTs whose list Load put in place,
  aborted,       \* the PUTs whose run was aborted,
  revoked        \* and whether a Revoke took a job out of the queue

runVars     == <<state, sequenceList, currentIndex>>
workerVars  == <<wpc, step>>
requestVars == <<pc, body, answer>>
endVars     == <<stop, destructor>>
abortVars   == <<signalled, aborted>>

vars == <<runVars, job, workerVars, abortVars, endVars, requestVars, imported,
          revoked>>

-----------------------------------------------------------------------------
(* Commands and labels.                                                    *)

Command(e) == body[e[1]][e[2]]

\* Administrator::Create makes an object of each command whose class it knows
Create(r, l) ==
  LET made[k \in 0 .. Len(l)] ==
        IF k = 0 THEN << >>
        ELSE IF l[k].kind # "unknown" THEN Append(made[k - 1], <<r, k>>)
        ELSE made[k - 1]
  IN made[Len(l)]

\* The label of the step at a (zero-based) index
LabelAt(k) == Command(sequenceList[k + 1]).label

\* The first index from i on that has label l, or the length of the list
Forward(l, i) ==
  LET n == Len(sequenceList)
      scan[k \in i .. n] == IF k < n /\ LabelAt(k) # l THEN scan[k + 1] ELSE k
  IN scan[i]

\* One more than the last index below i that has label l, or zero
Backward(l, i) ==
  LET scan[k \in 0 .. i] ==
        IF k > 0 /\ LabelAt(k - 1) # l THEN scan[k - 1] ELSE k
  IN scan[i]

\* Variants that a slip in the code would give are kept beside the definitions
\* they vary, named Slip..., to show that the properties notice them.
SlipNext(result) ==
  LET i == currentIndex IN
  IF result = NoLabel THEN i + 1
  ELSE IF Forward(result, i + 1) < Len(sequenceList) THEN Forward(result, i + 1)
  ELSE IF Backward(result, i) > 0 THEN Backward(result, i) - 1
  ELSE i + 1

SlipBackFirst(result) ==
  LET i == currentIndex IN
  IF result = NoLabel THEN i + 1
  ELSE IF Backward(result, i + 1) > 0 THEN Backward(result, i + 1) - 1
  ELSE IF Forward(result, i + 1) < Len(sequenceList) THEN Forward(result, i + 1)
  ELSE i + 1

\* Where Dispatch goes after a command that returned result
NextIndex(result) ==
  LET i == currentIndex IN
  IF result = NoLabel THEN i + 1
  ELSE IF Forward(result, i + 1) < Len(sequenceList) THEN Forward(result, i + 1)
  ELSE IF Backward(result, i + 1) > 0 THEN Backward(result, i + 1) - 1
  ELSE i + 1

-----------------------------------------------------------------------------
Init ==
  /\ state = "IDLE"
  /\ sequenceList = << >>
  /\ currentIndex = 0
  /\ job = "idle"
  /\ wpc = "none" /\ step = NoStep
  /\ signalled = {}
  /\ stop = "running" /\ destructor = "alive"
  /\ pc = [r \in Request |-> "idle"]
  /\ body = [r \in Put |-> << >>]
  /\ answer = [r \in Request |-> "none"]
  /\ imported = {} /\ aborted = {}
  /\ revoked = FALSE

IsActive == state \notin {"IDLE", "LOADED"}

Goto(r, l) == pc' = [pc EXCEPT ![r] = l]

Respond(r, code) ==
  /\ answer' = [answer EXCEPT ![r] = code]
  /\ Goto(r, "done")

\* The requests that hold a reference to the Sequencer
Holder == {r \in Request : pc[r] \notin {"idle", "done"}}

\* Someone aborted a command that the list does not hold
Crashed ==
  \/ stop = "undefined" \/ destructor = "undefined"
  \/ \E r \in Request : pc[r] = "undefined"

Outside == state = "RUNNING" /\ currentIndex >= Len(sequenceList)

\* Sequencer::Abort: the command under the index is told to give up, and only
\* an observer has something to do then.
AbortRun ==
  IF state = "RUNNING" /\ ~Outside
    THEN /\ state' = "ABORTING"
         /\ signalled' = signalled \cup {sequenceList[currentIndex + 1]}
         /\ aborted' = aborted \cup {sequenceList[currentIndex + 1][1]}
    ELSE UNCHANGED <<state, abortVars>>

\* WorkerPool::Revoke: out of the queue, or wait for the thread that runs it
RevokeJob ==
  /\ job \in {"idle", "submitted"}
  /\ job' = "idle"
  /\ revoked' = (revoked \/ job = "submitted")

-----------------------------------------------------------------------------
(* Commander::Process, on the thread of a request.                         *)

\* The request finds the Sequencer in the map and takes a reference to it,
\* unless it is malformed or the map is empty.
Find(r, l, wellFormed) ==
  /\ pc[r] = "idle"
  /\ IF ~wellFormed \/ stop = "cleared"
       THEN Respond(r, "BAD_REQUEST") /\ UNCHANGED body
       ELSE /\ IF r \in Put
                 THEN Goto(r, "check") /\ body' = [body EXCEPT ![r] = l]
                 ELSE Goto(r, "abort") /\ UNCHANGED body
            /\ UNCHANGED answer
  /\ UNCHANGED <<runVars, job, workerVars, abortVars, endVars, imported, revoked>>

\* PUT looks at _state without the lock
Check(r) ==
  /\ pc[r] = "check"
  /\ IF IsActive THEN Respond(r, "TEMPORARY_REDIRECT")
                 ELSE Goto(r, "load") /\ UNCHANGED answer
  /\ UNCHANGED <<runVars, job, workerVars, abortVars, endVars, body, imported,
                 revoked>>

SlipRefuses == FALSE
\* Load looks at _state again, with the lock
Refuses == IsActive

\* A list that was loaded starts at its first command
First == 0

Load(r) ==
  LET l == Create(r, body[r]) IN
  /\ pc[r] = "load"
  /\ Goto(r, "execute")
  /\ IF Refuses
       THEN UNCHANGED <<runVars, imported>>
       ELSE /\ sequenceList' = l
            /\ imported' = imported \cup {r}
            /\ IF l # << >> THEN state' = "LOADED" /\ currentIndex' = First
                            ELSE UNCHANGED <<state, currentIndex>>
  /\ UNCHANGED <<job, workerVars, abortVars, endVars, body, answer, revoked>>

SlipExecutable == state \in {"LOADED", "ABORTING"}
\* Execute is called whatever Load returned: only its own test keeps it away
\* from the run of another PUT
Executable == state = "LOADED"

Execute(r) ==
  /\ pc[r] = "execute"
  /\ state' = IF Executable THEN "RUNNING" ELSE state
  /\ Goto(r, "submit")
  /\ UNCHANGED <<sequenceList, currentIndex, job, workerVars, abortVars, endVars,
                 body, answer, imported, revoked>>

SlipSubmitJob == job' = IF job = "idle" THEN "submitted" ELSE job
\* JobType::Submit: a job that is being executed will be executed once more
SubmitJob ==
  job' = CASE job = "idle" -> "submitted"
           [] job = "executing" -> "again"
           [] OTHER -> job

\* Submit, whatever Load and Execute returned
Submit(r) ==
  /\ pc[r] = "submit"
  /\ SubmitJob
  /\ Respond(r, "OK")
  /\ UNCHANGED <<runVars, workerVars, abortVars, endVars, body, imported, revoked>>

\* DELETE aborts the run
Abort(r) ==
  /\ pc[r] = "abort"
  /\ AbortRun
  /\ IF state = "RUNNING"
       THEN Goto(r, IF Outside THEN "undefined" ELSE "revoke") /\ UNCHANGED answer
       ELSE Respond(r, "NO_CONTENT")
  /\ UNCHANGED <<sequenceList, currentIndex, job, workerVars, endVars, body,
                 imported, revoked>>

\* DELETE: wait for the job, or take it from the queue
Revoke(r) ==
  /\ pc[r] = "revoke"
  /\ RevokeJob
  /\ Respond(r, "OK")
  /\ UNCHANGED <<runVars, workerVars, abortVars, endVars, body, imported>>

Process(r) ==
  Check(r) \/ Load(r) \/ Execute(r) \/ Submit(r) \/ Abort(r) \/ Revoke(r)

-----------------------------------------------------------------------------
(* Sequencer::Dispatch, on a thread of the worker pool.                    *)

Take ==
  /\ job = "submitted"
  /\ job' = "executing"
  /\ wpc' = "dispatch"
  /\ UNCHANGED <<runVars, step, abortVars, endVars, requestVars, imported, revoked>>

\* The condition of the while loop
Continues(i) == i < Len(sequenceList) /\ state = "RUNNING"

\* The head of the loop, at index i: the next command, or the end of the run
Proceed(i) ==
  /\ currentIndex' = i
  /\ IF Continues(i)
       THEN /\ step' = sequenceList[i + 1]
            /\ wpc' = "execute"
            /\ UNCHANGED <<state, sequenceList>>
       ELSE /\ step' = NoStep
            /\ wpc' = "return"
            /\ state' = "IDLE"
            /\ sequenceList' = << >>
  /\ UNCHANGED <<job, endVars, requestVars, imported, revoked>>

Dispatch ==
  /\ wpc = "dispatch"
  /\ Proceed(currentIndex)
  /\ UNCHANGED abortVars

\* PluginControl::Execute, whatever became of the plugin it controls
Control ==
  /\ wpc = "execute"
  /\ Command(step).kind = "control"
  /\ \E result \in {Command(step).success, Command(step).failure} :
       Proceed(NextIndex(result))
  /\ UNCHANGED abortVars

\* PluginObserver::Execute resets its event, though Abort may have set it, and
\* then waits for it
Observe ==
  /\ wpc = "execute"
  /\ Command(step).kind = "observer"
  /\ signalled' = signalled \ {step}
  /\ wpc' = "waiting"
  /\ UNCHANGED <<runVars, job, step, aborted, endVars, requestVars, imported,
                 revoked>>

\* The observed plugin changes its state as the observer wants it
Notify ==
  /\ wpc = "waiting"
  /\ signalled' = signalled \cup {step}
  /\ UNCHANGED <<runVars, job, workerVars, aborted, endVars, requestVars,
                 imported, revoked>>

Observed ==
  /\ wpc = "waiting"
  /\ step \in signalled
  /\ Proceed(NextIndex(NoLabel))
  /\ UNCHANGED abortVars

\* Dispatch returns to the worker pool
Return ==
  /\ wpc = "return"
  /\ wpc' = "none"
  /\ job' = IF job = "again" THEN "submitted" ELSE "idle"
  /\ UNCHANGED <<runVars, step, abortVars, endVars, requestVars, imported, revoked>>

WorkerStep == Take \/ Dispatch \/ Control \/ Observe \/ Observed \/ Return

-----------------------------------------------------------------------------
(* Commander::Deinitialize and Sequencer::~Sequencer.                      *)

\* Abort the run, if there is one
StopAbort ==
  /\ stop = "running"
  /\ AbortRun
  /\ stop' = IF Outside THEN "undefined" ELSE "revoke"
  /\ UNCHANGED <<sequenceList, currentIndex, job, workerVars, destructor,
                 requestVars, imported, revoked>>

StopRevoke ==
  /\ stop = "revoke"
  /\ RevokeJob
  /\ stop' = "cleared"
  /\ UNCHANGED <<runVars, workerVars, abortVars, destructor, requestVars, imported>>

\* The map has let go of the Sequencer, and so did the last request
Destroy ==
  /\ stop = "cleared"
  /\ Holder = {}
  /\ destructor = "alive"
  /\ destructor' = "revoke"
  /\ UNCHANGED <<runVars, job, workerVars, abortVars, stop, requestVars, imported,
                 revoked>>

DestroyRevoke ==
  /\ destructor = "revoke"
  /\ RevokeJob
  /\ destructor' = "abort"
  /\ UNCHANGED <<runVars, workerVars, abortVars, stop, requestVars, imported>>

\* The destructor aborts only after that, when no job is left to see it
DestroyAbort ==
  /\ destructor = "abort"
  /\ AbortRun
  /\ destructor' = IF Outside THEN "undefined" ELSE "gone"
  /\ UNCHANGED <<sequenceList, currentIndex, job, workerVars, stop, requestVars,
                 imported, revoked>>

StopStep == StopRevoke \/ Destroy \/ DestroyRevoke \/ DestroyAbort

Next ==
  /\ ~Crashed
  /\ \/ \E r \in Request, l \in Lists, wellFormed \in BOOLEAN :
           Find(r, l, wellFormed)
     \/ \E r \in Request : Process(r)
     \/ WorkerStep
     \/ Notify
     \/ StopAbort
     \/ StopStep

Spec == Init /\ [][Next]_vars

\* Requests that came in go on, the pool serves its queue, and a Deinitialize
\* that was begun goes on; no plugin has to change its state.
Fairness ==
  /\ \A r \in Request : WF_vars(~Crashed /\ Process(r))
  /\ WF_vars(~Crashed /\ WorkerStep)
  /\ WF_vars(~Crashed /\ StopStep)

FairSpec == Spec /\ Fairness
-----------------------------------------------------------------------------
(* Type invariant.                                                         *)

PC == {"idle", "check", "load", "execute", "submit", "abort", "revoke", "done",
       "undefined"}

Answers == {"none", "OK", "TEMPORARY_REDIRECT", "NO_CONTENT", "BAD_REQUEST"}

ControlTypes ==
  /\ state \in {"IDLE", "LOADED", "RUNNING", "ABORTING"}
  /\ job \in {"idle", "submitted", "executing", "again"}
  /\ wpc \in {"none", "dispatch", "execute", "waiting", "return"}
  /\ stop \in {"running", "revoke", "cleared", "undefined"}
  /\ destructor \in {"alive", "revoke", "abort", "gone", "undefined"}
  /\ pc \in [Request -> PC]
  /\ answer \in [Request -> Answers]
  /\ revoked \in BOOLEAN

ListTypes ==
  /\ sequenceList \in Seq(Object)
  /\ currentIndex \in Nat
  /\ step \in Object \cup {NoStep}
  /\ signalled \subseteq Object
  /\ body \in [Put -> Lists \cup {<< >>}]
  /\ imported \subseteq Put /\ aborted \subseteq Put

\* Every variable of the Sequencer, its job and its requests keeps its type.
TypeOK == ControlTypes /\ ListTypes

-----------------------------------------------------------------------------
(* Safety.                                                                 *)

\* While a command executes without the lock, the list and the index stay what
\* they were: nobody loads, and the command is the one under the index
\* (Dispatch l.413-419 against Load l.329).
CurrentStep ==
  wpc \in {"execute", "waiting"} =>
    /\ IsActive
    /\ currentIndex < Len(sequenceList)
    /\ sequenceList[currentIndex + 1] = step

\* A list that is LOADED is about to be executed by the PUT that loaded it: the
\* Sequencer is never left behind in LOADED (Load, Execute, Dispatch l.454).
LoadedIsHeld == state = "LOADED" => \E r \in Request : pc[r] = "execute"

\* A run has a job that will see it, also when the PUT came while the job of
\* the run before was leaving: it can be stranded only by a Revoke
\* (Execute, Submit and the end of Dispatch against Revoke).
RunHasJob ==
  IsActive =>
    \/ job \in {"submitted", "again"}
    \/ job = "executing" /\ wpc # "return"
    \/ \E r \in Request : pc[r] = "submit"
    \/ revoked

\* An abort is final: once it has met the run of a PUT, no other command of the
\* list is started and the run stays ABORTING while its last command ends,
\* whichever PUT comes late with its Execute and Submit, and however often the
\* job is executed (Execute l.362-377, Load l.329, Dispatch l.411, Abort).
AbortIsFinal ==
  [][wpc' \in {"execute", "waiting"} /\ step'[1] \in aborted
     => step' = step /\ state' = "ABORTING"]_vars

\* From step i, a result that is the label of a step leads to the nearest such
\* step after i, or else to the nearest one before it, i included; any other
\* result leads to the next step (Dispatch l.421-450).
Nearest(i, result, n) ==
  LET labelled == {k \in 0 .. (Len(sequenceList) - 1) :
                     result # NoLabel /\ LabelAt(k) = result}
      after    == {k \in labelled : k > i}
  IN IF labelled = {} THEN n = i + 1
     ELSE /\ n \in IF after # {} THEN after ELSE labelled
          /\ \A k \in labelled : k <= i \/ k >= n
          /\ after = {} => \A k \in labelled : k <= n

JumpsToNearest ==
  [][/\ wpc = "execute"
     /\ Command(step).kind = "control"
     /\ <<wpc, currentIndex>>' # <<wpc, currentIndex>>
     => \E result \in {Command(step).success, Command(step).failure} :
            Nearest(currentIndex, result, currentIndex')]_vars

\* The job is being executed exactly while a thread is inside Dispatch
WorkerHasJob == wpc = "none" <=> job \in {"idle", "submitted"}

\* The inductive invariant behind CurrentStep, LoadedIsHeld and RunHasJob
IndInv ==
  ControlTypes /\ WorkerHasJob /\ CurrentStep /\ LoadedIsHeld /\ RunHasJob

-----------------------------------------------------------------------------
(* Liveness.                                                               *)

\* A run comes to its end or is aborted, unless Deinitialize or the Revoke of a
\* DELETE steps in (Dispatch).
RunEnds ==
  state = "RUNNING" ~> state # "RUNNING" \/ stop # "running" \/ revoked \/ Crashed

\* A DELETE that aborted a run is answered, also when the run it then waits for
\* is another one (Revoke waits for Dispatch to end).
DeleteEnds == \A r \in Delete : pc[r] = "revoke" ~> pc[r] = "done" \/ Crashed

\* A Deinitialize that was begun ends, and so does the destructor
\* (Deinitialize l.107-119, ~Sequencer l.267).
DestructionEnds ==
  /\ stop = "revoke" ~> stop = "cleared" \/ Crashed
  /\ destructor = "revoke" ~> destructor = "gone" \/ Crashed

\* Nobody waits for a job forever: neither a DELETE nor Deinitialize nor the
\* destructor (Revoke).
WaitsEnd == DeleteEnds /\ DestructionEnds

-----------------------------------------------------------------------------
(* What the code says of itself and does not do.                           *)

\* An aborted observer is told so, and the run gets to a safe position (l.392).
AbortReaches == wpc = "waiting" /\ state = "ABORTING" => step \in signalled
=============================================================================
