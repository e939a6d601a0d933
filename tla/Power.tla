------------------------------- MODULE Power -------------------------------
(***************************************************************************)
(* The Power plugin with its Linux implementation: requests for a state of *)
(* the device, the one job that carries them out, and the plugins that are *)
(* suspended before and resumed after.                                     *)
(*                                                                         *)
(* SetState asks for the state, suspends the clients one after the other,  *)
(* saves the state and submits the job, all without a lock; the job's      *)
(* callback resumes the clients, and saves the state, at the same time.    *)
(* Each client is read, noted and asked in steps of their own.             *)
(*                                                                         *)
(* A behaviour is followed until a request is refused when its first steps *)
(* are done, or a walk over the clients meets a change of them.            *)
(***************************************************************************)
CONSTANTS
  Caller,       \* the threads that call SetState
  Client        \* the plugins that can be suspended

On == "On"
Standby == {"PassiveStandby", "SuspendToRAM"}
States == {On} \cup Standby

VARIABLES
  trigger,           \* _triggerFile is open
  powerState,        \* PowerImplementation::_currentState
  mode, queued,      \* its _job: the mode, and whether it is submitted
  updating, at,      \* the state UpdateState changes to, and where it is
  persisted,         \* the persisted state
  plugin,            \* the state of each client: "none" when not active
  remembered,        \* the _clients whose _lastStateResumed is set
  call, wanted,      \* where each call is, and what it asks for
  todo,              \* whom a walk over the _clients has still before it, for
                     \* each call and for the job
  doing,             \* and what it is going to do with which of them
  owed,              \* history: whom a SUSPEND suspended, and neither a RESUME
                     \* nor others reached since
  overtaken,         \* history: whose _lastStateResumed was cleared between
                     \* being set and the SUSPEND that it was set for
  refused,           \* history: a request was refused after its first steps
  lost               \* history: a walk met a change of the _clients

powerVars == <<trigger, powerState, mode, queued, updating, at, persisted,
               plugin, remembered, call, wanted, todo, doing, owed, overtaken,
               refused, lost>>

jobVars     == <<mode, queued, updating, at>>
clientVars  == <<plugin, remembered, owed, overtaken>>
walkVars    == <<todo, doing>>
stopVars    == <<refused, lost>>

Walker == Caller \cup {"job"}
Step == {"remember", "suspend", "forget", "resume"}

\* A persisted state other than On is asked for at once
Init ==
  /\ trigger \in BOOLEAN
  /\ powerState = On
  /\ persisted \in States
  /\ mode = persisted
  /\ queued = (trigger /\ persisted # On)
  /\ updating = On
  /\ at = "idle"
  /\ plugin \in [Client -> {"resumed", "suspended"}]
  /\ remembered = {}
  /\ call = [c \in Caller |-> "idle"]
  /\ wanted = [c \in Caller |-> On]
  /\ todo = [w \in Walker |-> {}]
  /\ doing = [w \in Walker |-> {}]
  /\ owed = {}
  /\ overtaken = {}
  /\ refused = (~trigger /\ persisted # On)
  /\ lost = FALSE

Known == {p \in Client : plugin[p] # "none"}

-----------------------------------------------------------------------------
(* ControlClients, one client at a time.                                   *)

\* The walk goes on in a step with the client, or to the next one
GoesOn(w, step, p) ==
  doing' = [doing EXCEPT ![w] = {<<step, p>>}] /\ UNCHANGED todo
IsThrough(w, p) ==
  doing' = [doing EXCEPT ![w] = {}] /\ todo' = [todo EXCEPT ![w] = @ \ {p}]

\* Suspend of an Entry reads State(), Resume reads _lastStateResumed
Concerns(state, p) == IF state = On THEN p \in remembered ELSE plugin[p] = "resumed"

Reach(w, state, p) ==
  /\ doing[w] = {}
  /\ IF Concerns(state, p)
     THEN GoesOn(w, IF state = On THEN "forget" ELSE "remember", p)
     ELSE IsThrough(w, p)
  /\ UNCHANGED clientVars

\* Suspend sets _lastStateResumed, and requests SUSPEND, which may be refused
Remember(w, p) ==
  /\ <<"remember", p>> \in doing[w]
  /\ remembered' = remembered \cup {p}
  /\ GoesOn(w, "suspend", p)
  /\ UNCHANGED <<plugin, owed, overtaken>>

Suspend(w, p) ==
  /\ <<"suspend", p>> \in doing[w]
  /\ \/ UNCHANGED <<plugin, owed>>
     \/ /\ plugin[p] = "resumed"
        /\ plugin' = [plugin EXCEPT ![p] = "suspended"]
        /\ owed' = owed \cup {p}
  /\ IsThrough(w, p)
  /\ UNCHANGED <<remembered, overtaken>>

\* A SUSPEND of the client is on its way
Suspending(p) == \E w \in Walker : <<"suspend", p>> \in doing[w]

\* It was asked to resume, or did so for another
Reached(p) ==
  /\ owed' = owed \ {p}
  /\ overtaken' = overtaken \ {q \in {p} : ~Suspending(q)}

\* Resume clears it, and requests RESUME, which may be refused
Forget(w, p) ==
  /\ <<"forget", p>> \in doing[w]
  /\ remembered' = remembered \ {p}
  /\ overtaken' = overtaken \cup {q \in {p} : Suspending(q)}
  /\ GoesOn(w, "resume", p)
  /\ UNCHANGED <<plugin, owed>>

Resume(w, p) ==
  /\ <<"resume", p>> \in doing[w]
  /\ plugin' \in {plugin, [plugin EXCEPT ![p] = "resumed"]}
  /\ Reached(p)
  /\ IsThrough(w, p)
  /\ UNCHANGED remembered

\* A step of the walk of a call, or of the job
Control(w, state) ==
  \E p \in todo[w] :
    Reach(w, state, p) \/ Remember(w, p) \/ Suspend(w, p) \/ Forget(w, p) \/ Resume(w, p)

-----------------------------------------------------------------------------
(* The calls: SetState, and the POST that controls the clients before it.  *)

Call(c) ==
  /\ call[c] = "idle"
  /\ \E state \in States :
       /\ wanted' = [wanted EXCEPT ![c] = state]
       /\ \/ /\ call' = [call EXCEPT ![c] = "ask"]
             /\ UNCHANGED todo
          \/ /\ call' = [call EXCEPT ![c] = "post"]
             /\ todo' = [todo EXCEPT ![c] = Known]
  /\ UNCHANGED <<powerState, jobVars, persisted, clientVars, doing, stopVars>>

Walk(c) ==
  /\ Control(c, wanted[c])
  /\ UNCHANGED <<powerState, jobVars, persisted, call, wanted, stopVars>>

\* A call ends, and what it wanted with it
Ends(c) ==
  /\ call' = [call EXCEPT ![c] = "idle"]
  /\ wanted' = [wanted EXCEPT ![c] = On]

\* SetState, up to the clients.  A POST has touched the clients before it is
\* told that the state is the present one
Ask(c) ==
  /\ call[c] \in {"ask", "post"}
  /\ todo[c] = {}
  /\ IF powerState = wanted[c]
     THEN /\ Ends(c)
          /\ refused' = (call[c] = "post")
          /\ UNCHANGED todo
     ELSE /\ call' = [call EXCEPT ![c] = "save"]
          /\ todo' = [todo EXCEPT ![c] = IF wanted[c] = On THEN {} ELSE Known]
          /\ UNCHANGED <<wanted, refused>>
  /\ UNCHANGED <<powerState, jobVars, persisted, clientVars, doing, lost>>

Save(c) ==
  /\ call[c] = "save"
  /\ todo[c] = {}
  /\ persisted' = wanted[c]
  /\ call' = [call EXCEPT ![c] = "submit"]
  /\ UNCHANGED <<powerState, jobVars, clientVars, wanted, walkVars, stopVars>>

\* power_set_state: there is one job.  When it is being executed it depends on
\* the framework whether it can be submitted again
Submit(state) ==
  \/ trigger /\ ~queued /\ queued' = TRUE /\ mode' = state
  \/ (~trigger \/ queued \/ at # "idle") /\ UNCHANGED <<queued, mode>>

Request(c) ==
  /\ call[c] = "submit"
  /\ Submit(wanted[c])
  /\ refused' = (refused \/ queued' = queued)
  /\ Ends(c)
  /\ UNCHANGED <<powerState, updating, at, persisted, clientVars, walkVars, lost>>

-----------------------------------------------------------------------------
(* The job: UpdateState with its callbacks.                                *)

Start ==
  /\ queued
  /\ at = "idle"
  /\ queued' = FALSE
  /\ IF powerState = mode
     THEN UNCHANGED <<at, updating>>
     ELSE at' = "before" /\ updating' = mode
  /\ UNCHANGED <<powerState, mode, persisted, clientVars, call, wanted,
                 walkVars, stopVars>>

\* From one state to the next; a device that was suspended wakes up, revokes
\* what was asked for meanwhile, and asks for On
Change ==
  /\ at = "before"
  /\ powerState' = updating
  /\ at' = IF updating = "SuspendToRAM" THEN "awake" ELSE "after"
  /\ UNCHANGED <<mode, queued, updating, persisted, clientVars, call, wanted,
                 walkVars, stopVars>>

RevokeJob ==
  /\ at = "awake"
  /\ queued' = FALSE
  /\ at' = "revoked"
  /\ UNCHANGED <<powerState, mode, updating, persisted, clientVars, call,
                 wanted, walkVars, stopVars>>

Return ==
  /\ at = "revoked"
  /\ Submit(On)
  /\ at' = "after"
  /\ UNCHANGED <<powerState, updating, persisted, clientVars, call, wanted,
                 walkVars, stopVars>>

SlipResumes == updating # On
\* Only a return to On resumes the clients
Resumes == updating = On

\* PowerChange(After)
PowerChange ==
  /\ at = "after"
  /\ todo' = [todo EXCEPT !["job"] = IF Resumes THEN Known ELSE {}]
  /\ at' = "resuming"
  /\ UNCHANGED <<powerState, mode, queued, updating, persisted, clientVars,
                 call, wanted, doing, stopVars>>

WalkBack ==
  /\ Control("job", On)
  /\ UNCHANGED <<powerState, jobVars, persisted, call, wanted, stopVars>>

SlipKept == persisted
\* The state may be another than the one that was saved with the request
Kept == updating

Changed ==
  /\ at = "resuming"
  /\ todo["job"] = {}
  /\ persisted' = Kept
  /\ at' = "idle"
  /\ updating' = On
  /\ UNCHANGED <<powerState, mode, queued, clientVars, call, wanted,
                 walkVars, stopVars>>

-----------------------------------------------------------------------------
(* The clients: they are activated, deactivated, suspended and resumed by  *)
(* others.                                                                 *)

Walking == \E w \in DOMAIN todo : todo[w] # {}

Activated(p) ==
  /\ plugin[p] = "none"
  /\ plugin' \in {[plugin EXCEPT ![p] = s] : s \in {"resumed", "suspended"}}
  /\ lost' = Walking
  /\ UNCHANGED <<powerState, jobVars, persisted, remembered, owed, overtaken,
                 call, wanted, walkVars, refused>>

Deactivated(p) ==
  /\ plugin[p] # "none"
  /\ plugin' = [plugin EXCEPT ![p] = "none"]
  /\ remembered' = remembered \ {p}
  /\ owed' = owed \ {p}
  /\ overtaken' = overtaken \ {p}
  /\ lost' = Walking
  /\ UNCHANGED <<powerState, jobVars, persisted, call, wanted, walkVars, refused>>

Others(p) ==
  /\ plugin[p] # "none"
  /\ plugin' = [plugin EXCEPT ![p] = IF @ = "resumed" THEN "suspended" ELSE "resumed"]
  /\ Reached(p)
  /\ UNCHANGED <<powerState, jobVars, persisted, remembered, call, wanted,
                 walkVars, stopVars>>

Next ==
  /\ ~refused /\ ~lost
  /\ UNCHANGED trigger
  /\ \/ \E c \in Caller : Call(c) \/ Walk(c) \/ Ask(c) \/ Save(c) \/ Request(c)
     \/ Start \/ Change \/ RevokeJob \/ Return \/ PowerChange \/ WalkBack \/ Changed
     \/ \E p \in Client : Activated(p) \/ Deactivated(p) \/ Others(p)

Spec == Init /\ [][Next]_powerVars

-----------------------------------------------------------------------------
\* Every variable keeps its type.
TypeOK ==
  /\ {powerState, mode, updating, persisted} \subseteq States
  /\ at \in {"idle", "before", "awake", "revoked", "after", "resuming"}
  /\ plugin \in [Client -> {"none", "resumed", "suspended"}]
  /\ remembered \subseteq Known
  /\ call \in [Caller -> {"idle", "post", "ask", "save", "submit"}]
  /\ wanted \in [Caller -> States]
  /\ todo \in [Walker -> SUBSET Client]
  /\ doing \in [Walker -> SUBSET (Step \X Client)]
  /\ {owed, overtaken} \subseteq SUBSET Client
  /\ {trigger, queued, refused, lost} \subseteq BOOLEAN

Quiet == ~queued /\ at = "idle" /\ \A c \in Caller : call[c] = "idle"

\* A device that is on, and at rest, has asked every client to resume that it had
\* suspended and that no other resumed, however the steps of calls and of the job
\* met, unless _lastStateResumed was cleared by a Resume in between its setting and
\* the SUSPEND request of the same client: such a client the code forgets.
NobodyForgotten ==
  Quiet /\ powerState = On /\ ~refused /\ ~lost => owed \subseteq overtaken

\* What a reboot would find is the state the device is in.
PersistedIsCurrent ==
  Quiet /\ ~refused /\ ~lost => persisted = powerState
=============================================================================
