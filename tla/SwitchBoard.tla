---------------------------- MODULE SwitchBoard ----------------------------
(***************************************************************************)
(* The SwitchBoard plugin: of a group of plugins it keeps one active, the  *)
(* one that was asked for last, or else a default.  Requests come in on    *)
(* threads of their own, notifications on those of the framework and of    *)
(* the plugins, a job of the worker pool re-evaluates the group, and       *)
(* Initialize and Deinitialize run on another thread.                      *)
(*                                                                         *)
(* SwitchBoard::_state INPROGRESS serves as a token: who sets it switches, *)
(* without the lock, and whoever is done sets IDLE.  What a thread asks of *)
(* one plugin (Entry::Activate, Entry::Deactivate) is one step.  A use of  *)
(* an Entry that Deinitialize has destroyed is undefined, and the model    *)
(* stops there.                                                            *)
(***************************************************************************)
EXTENDS Integers, FiniteSets

CONSTANTS
  Plugin,       \* the group: the entries of _switches
  Default,      \* _defaultCallsign, or Nobody
  Nobody,       \* nullptr
  Unknown,      \* a callsign that is not of the group
  Controlled,   \* the plugins that have an IStateControl,
  Autostart,    \* whose StartMode is ACTIVATED,
  Reluctant,    \* that may wait for preconditions, or refuse to be resumed,
  Stubborn,     \* that may refuse to be suspended or deactivated,
  Foreign,      \* and that others may start
  Request,      \* the requests, each made once at most
  MaxOutside    \* how often others start, stop or suspend a plugin

ASSUME DefaultAssumption == Default \in Plugin \cup {Nobody}
ASSUME NobodyAssumption == Nobody \notin Plugin \cup {Unknown}
ASSUME UnknownAssumption == Unknown \notin Plugin

VARIABLES
  state,           \* SwitchBoard::_state
  switches,        \* SwitchBoard::_switches
  activeCallsign,  \* SwitchBoard::_activeCallsign
  job, wpc,        \* SwitchBoard::_job, and the thread that evaluates
  main, todo,      \* Initialize and Deinitialize
  pc, callsign,    \* the requests, and the plugin each asks for
  shell, control,  \* the state of a plugin and of its IStateControl
  registered,      \* the plugins that have our sink
  events,          \* notifications under way
  outside,         \* how much others did so far
  strayed          \* history: Initialize gave up on the group, or Deactivate
                   \* took a plugin for the active one

ownVars     == <<state, activeCallsign>>
jobVars     == <<job, wpc>>
mainVars    == <<main, todo, switches>>
requestVars == <<pc, callsign>>
historyVars == <<outside, strayed>>
pluginVars  == <<shell, control, registered, events>>

vars == <<ownVars, jobVars, mainVars, requestVars, pluginVars,
          historyVars>>

-----------------------------------------------------------------------------
(* The plugins of the group: Entry.                                        *)

\* A plugin that has still to meet its preconditions counts as active
IsActive(p) ==
  \/ shell[p] = "PRECONDITION"
  \/ shell[p] = "ACTIVATED" /\ (p \in Controlled => control[p] # "SUSPENDED")

\* What becomes of plugin p: its state, that of its control, who listens to it,
\* and a notification that may come now or later
Becomes(p, s, c, r, e) ==
  /\ shell' = [shell EXCEPT ![p] = s]
  /\ control' = [control EXCEPT ![p] = c]
  /\ registered' = r
  /\ events' = events \cup e

SlipListeners(p) == IF p \in switches THEN registered \cup {p} ELSE registered
\* The framework activated p, and so called Activated, which registers the sink
Listeners(p) ==
  IF p \in Controlled \cap switches THEN registered \cup {p} ELSE registered

\* IStateControl::Request(RESUME) on a plugin that is ACTIVATED
Resume(p, r, code) ==
  \/ /\ code = "ERROR_NONE"
     /\ Becomes(p, "ACTIVATED", IF p \in Controlled THEN "RESUMED" ELSE control[p],
                r, {})
  \/ /\ code = "ERROR_GENERAL"
     /\ p \in Controlled \cap Reluctant
     /\ control[p] # "RESUMED"
     /\ Becomes(p, "ACTIVATED", control[p], r, {})

\* Entry::Activate
Activate(p, code) ==
  \/ /\ shell[p] = "ACTIVATED"
     /\ Resume(p, registered, code)
  \/ /\ shell[p] # "ACTIVATED"
     /\ \/ Resume(p, Listeners(p), code)
        \/ /\ code = "ERROR_GENERAL"
           /\ UNCHANGED pluginVars
        \/ /\ code = "ERROR_NONE"   \* for ERROR_PENDING_CONDITIONS
           /\ p \in Reluctant
           /\ Becomes(p, "PRECONDITION", control[p], registered, {})

\* IShell::Deactivate; the framework calls Deactivated before it returns
Shutdown(p, c, e, code) ==
  \/ /\ code = "ERROR_NONE"
     /\ Becomes(p, "DEACTIVATED", "UNINITIALIZED", registered \ {p}, e)
  \/ /\ code = "ERROR_GENERAL"
     /\ p \in Stubborn
     /\ Becomes(p, "ACTIVATED", c, registered, e)

\* The StateChange of a plugin that was suspended, if we listen to it
Suspended(p) == {<<"suspended", q>> : q \in {p} \cap registered}

\* Entry::Deactivate
Deactivate(p, code) ==
  \/ /\ shell[p] # "ACTIVATED"
     /\ code = "ERROR_NONE"
     /\ UNCHANGED pluginVars
  \/ /\ shell[p] = "ACTIVATED"
     /\ p \in Controlled
     /\ control[p] = "RESUMED"
     /\ \/ /\ p \in Autostart
           /\ code = "ERROR_NONE"
           /\ Becomes(p, "ACTIVATED", "SUSPENDED", registered, Suspended(p))
        \/ /\ p \notin Autostart
           /\ Shutdown(p, "SUSPENDED", Suspended(p), code)
        \/ /\ p \in Stubborn
           /\ Shutdown(p, "RESUMED", {}, code)
  \/ /\ shell[p] = "ACTIVATED"
     /\ p \in Controlled
     /\ control[p] # "RESUMED"
     /\ IF p \in Autostart
          THEN code = "ERROR_NONE" /\ UNCHANGED pluginVars
          ELSE Shutdown(p, control[p], {}, code)
  \/ /\ shell[p] = "ACTIVATED"
     /\ p \notin Controlled
     /\ Shutdown(p, control[p], {}, code)

Codes == {"ERROR_NONE", "ERROR_GENERAL"}

\* Activated(Entry&): the entry that was started is the active one, if it is
\* still active
Report(p) ==
  activeCallsign' = IF IsActive(p) THEN p ELSE activeCallsign

-----------------------------------------------------------------------------
Init ==
  /\ state = "INACTIVE"
  /\ switches = {}
  /\ activeCallsign = Nobody
  /\ job = "idle" /\ wpc = "none"
  /\ main = "populate" /\ todo = {}
  /\ pc = [r \in Request |-> "idle"]
  /\ callsign = [r \in Request |-> Unknown]
  /\ shell \in [Plugin -> {"DEACTIVATED", "ACTIVATED"}]
  /\ control = [p \in Plugin |-> IF shell[p] = "ACTIVATED" /\ p \in Controlled
                                   THEN "RESUMED" ELSE "UNINITIALIZED"]
  /\ registered = {}
  /\ events = {}
  /\ outside = 0
  /\ strayed = FALSE

Crashed == main = "undefined" \/ wpc = "undefined"
             \/ \E r \in Request : pc[r] = "undefined"

\* The entries are gone
Destroyed == switches = {}

-----------------------------------------------------------------------------
(* ISwitchBoard::Activate and Deactivate, on the thread of a request.      *)

Goto(r, l) == pc' = [pc EXCEPT ![r] = l]

\* Whoever finds the SwitchBoard IDLE may take the token
Free == state = "IDLE"

\* Take the token, or be refused with ERROR_INPROGRESS or ERROR_ILLEGAL_STATE
Begin(r, operation, c) ==
  /\ pc[r] = "idle"
  /\ main \notin {"populate", "stop", "start", "report"}
  /\ IF Free
       THEN /\ state' = "INPROGRESS"
            /\ Goto(r, operation)
            /\ callsign' = [callsign EXCEPT ![r] = c]
       ELSE Goto(r, "done") /\ UNCHANGED <<state, callsign>>
  /\ UNCHANGED <<activeCallsign, jobVars, mainVars, pluginVars, historyVars>>

\* The callsign is not known, or there is nothing to do
Pass(r) ==
  /\ Goto(r, "finish")
  /\ UNCHANGED <<activeCallsign, pluginVars>>

SlipDeactivateFirst(code) == TRUE
\* Only when the active plugin is gone the other one is started
DeactivateFirst(code) == code = "ERROR_NONE"

\* ISwitchBoard::Activate, up to the start of the plugin
Switch(r) ==
  LET c == callsign[r] IN
  /\ pc[r] = "activate"
  /\ IF c \notin switches \/ (c = activeCallsign /\ IsActive(c)) THEN Pass(r)
     ELSE IF activeCallsign \in {c, Nobody}
       THEN Goto(r, "start") /\ UNCHANGED <<activeCallsign, pluginVars>>
     ELSE \E code \in Codes :
            /\ Deactivate(activeCallsign, code)
            /\ IF DeactivateFirst(code)
                 THEN activeCallsign' = Nobody /\ Goto(r, "start")
                 ELSE UNCHANGED activeCallsign /\ Goto(r, "finish")
  /\ UNCHANGED <<state, jobVars, mainVars, callsign, historyVars>>

\* ISwitchBoard::Deactivate.  When it stopped a plugin other than the active one
\* it clears _activeCallsign, and starts the default.
Stop(r) ==
  LET c == callsign[r] IN
  /\ pc[r] = "deactivate"
  /\ IF c \notin switches \/ ~IsActive(c) \/ (c = activeCallsign /\ c = Default)
       THEN Pass(r) /\ UNCHANGED <<callsign, strayed>>
     ELSE \E code \in Codes :
            /\ Deactivate(c, code)
            /\ IF code = "ERROR_NONE" /\ c # activeCallsign
                 THEN /\ activeCallsign' = Nobody
                      /\ callsign' = [callsign EXCEPT ![r] = Default]
                      /\ Goto(r, IF Default = Nobody THEN "finish" ELSE "start")
                      /\ strayed' = TRUE
                 ELSE /\ Goto(r, "finish")
                      /\ UNCHANGED <<activeCallsign, callsign, strayed>>
  /\ UNCHANGED <<state, jobVars, mainVars, outside>>

Start(r) ==
  /\ pc[r] = "start"
  /\ IF Destroyed
       THEN Goto(r, "undefined") /\ UNCHANGED pluginVars
       ELSE \E code \in Codes :
              /\ Activate(callsign[r], code)
              /\ Goto(r, IF code = "ERROR_NONE" THEN "report" ELSE "finish")
  /\ UNCHANGED <<ownVars, jobVars, mainVars, callsign, historyVars>>

ReportStart(r) ==
  /\ pc[r] = "report"
  /\ IF Destroyed
       THEN Goto(r, "undefined") /\ UNCHANGED activeCallsign
       ELSE Report(callsign[r]) /\ Goto(r, "finish")
  /\ UNCHANGED <<state, jobVars, mainVars, callsign, pluginVars, historyVars>>

Finish(r) ==
  /\ pc[r] = "finish"
  /\ state' = "IDLE"
  /\ Goto(r, "done")
  /\ callsign' = [callsign EXCEPT ![r] = Unknown]
  /\ UNCHANGED <<activeCallsign, jobVars, mainVars, pluginVars, historyVars>>

RequestStep(r) == Switch(r) \/ Stop(r) \/ Start(r) \/ ReportStart(r) \/ Finish(r)

-----------------------------------------------------------------------------
(* Notifications, and the job that evaluates the group.                    *)

SlipPoolSubmit == UNCHANGED job
\* JobType::Submit: a job that is being executed will be executed once more
PoolSubmit ==
  job' = IF job = "executing" THEN "again"
         ELSE IF job = "idle" THEN "submitted"
         ELSE job

\* Take the token for the job
Reevaluate ==
  IF Free THEN state' = "INPROGRESS" /\ PoolSubmit
          ELSE UNCHANGED <<state, job>>

\* A notification reaches the sink, which is there until Deinitialize is done
Receive(e) ==
  /\ e \in events
  /\ main # "offline"
  /\ events' = events \ {e}
  /\ UNCHANGED <<activeCallsign, wpc, mainVars, requestVars, shell, control,
                 historyVars>>

Activated(p) ==
  /\ Receive(<<"activated", p>>)
  /\ registered' = IF shell[p] = "ACTIVATED" THEN Listeners(p) ELSE registered
  /\ UNCHANGED <<state, job>>

Deactivated(p) ==
  /\ Receive(<<"deactivated", p>>)
  /\ IF p \in switches
       THEN /\ registered' = registered \ {p}
            /\ IF p = activeCallsign THEN Reevaluate ELSE UNCHANGED <<state, job>>
       ELSE UNCHANGED <<state, job, registered>>

StateChange(p) ==
  /\ Receive(<<"suspended", p>>)
  /\ Reevaluate
  /\ UNCHANGED registered

Notification == \E p \in Plugin : Activated(p) \/ Deactivated(p) \/ StateChange(p)

Take ==
  /\ job = "submitted"
  /\ job' = "executing"
  /\ wpc' = "evaluate"
  /\ UNCHANGED <<ownVars, mainVars, requestVars, pluginVars, historyVars>>

\* Is the active plugin still active?  If not, make room for the default.
Evaluate ==
  /\ wpc = "evaluate"
  /\ IF Nobody \in {activeCallsign, Default}
       THEN wpc' = "release" /\ UNCHANGED <<activeCallsign, pluginVars>>
     ELSE IF Destroyed
       THEN wpc' = "undefined" /\ UNCHANGED <<activeCallsign, pluginVars>>
     ELSE IF IsActive(activeCallsign)
       THEN wpc' = "release" /\ UNCHANGED <<activeCallsign, pluginVars>>
     ELSE /\ IF activeCallsign = Default
               THEN UNCHANGED pluginVars
               ELSE \E code \in Codes : Deactivate(activeCallsign, code)
          /\ activeCallsign' = Nobody
          /\ wpc' = "start"
  /\ UNCHANGED <<state, job, mainVars, requestVars, historyVars>>

EvaluateStart ==
  /\ wpc = "start"
  /\ IF Destroyed
       THEN wpc' = "undefined" /\ UNCHANGED pluginVars
       ELSE \E code \in Codes :
              /\ Activate(Default, code)
              /\ wpc' = IF code = "ERROR_NONE" THEN "report" ELSE "release"
  /\ UNCHANGED <<ownVars, job, mainVars, requestVars, historyVars>>

EvaluateReport ==
  /\ wpc = "report"
  /\ IF Destroyed
       THEN wpc' = "undefined" /\ UNCHANGED activeCallsign
       ELSE Report(Default) /\ wpc' = "release"
  /\ UNCHANGED <<state, job, mainVars, requestVars, pluginVars, historyVars>>

SlipRelease == UNCHANGED state
Released == state' = "IDLE"

Release ==
  /\ wpc = "release"
  /\ Released
  /\ wpc' = "return"
  /\ UNCHANGED <<activeCallsign, job, mainVars, requestVars, pluginVars, historyVars>>

\* The job returns to the worker pool
Return ==
  /\ wpc = "return"
  /\ wpc' = "none"
  /\ job' = IF job = "again" THEN "submitted" ELSE "idle"
  /\ UNCHANGED <<ownVars, mainVars, requestVars, pluginVars, historyVars>>

WorkerStep ==
  Take \/ Evaluate \/ EvaluateStart \/ EvaluateReport \/ Release \/ Return

-----------------------------------------------------------------------------
(* Initialize and Deinitialize.                                            *)

\* Fill _switches; Activated came too early for what is active already
Populate ==
  /\ main = "populate"
  /\ switches' = Plugin
  /\ todo' = Plugin
  /\ main' = "stop"
  /\ UNCHANGED <<ownVars, jobVars, requestVars, pluginVars, historyVars>>

\* Stop what is active and not the default, until a plugin refuses
StopOthers ==
  /\ main = "stop"
  /\ \/ /\ \E p \in todo :
             IF IsActive(p) /\ p # Default
               THEN \E code \in Codes :
                      /\ Deactivate(p, code)
                      /\ todo' = IF code = "ERROR_NONE" THEN todo \ {p} ELSE {}
                      /\ strayed' = (strayed \/ code # "ERROR_NONE")
               ELSE todo' = todo \ {p} /\ UNCHANGED <<pluginVars, strayed>>
        /\ UNCHANGED <<state, main>>
     \/ /\ todo = {}
        /\ state' = "IDLE"
        /\ main' = IF Default = Nobody THEN "running" ELSE "start"
        /\ UNCHANGED <<todo, pluginVars, strayed>>
  /\ UNCHANGED <<activeCallsign, jobVars, switches, requestVars, outside>>

StartDefault ==
  /\ main = "start"
  /\ \E code \in Codes :
       /\ Activate(Default, code)
       /\ main' = IF code = "ERROR_NONE" THEN "report" ELSE "running"
  /\ UNCHANGED <<ownVars, jobVars, switches, todo, requestVars, historyVars>>

ReportDefault ==
  /\ main = "report"
  /\ Report(Default)
  /\ main' = "running"
  /\ UNCHANGED <<state, jobVars, switches, todo, requestVars, pluginVars,
                 historyVars>>

Initialize == Populate \/ StopOthers \/ StartDefault \/ ReportDefault

\* Deinitialize destroys the entries first
Clear ==
  /\ main = "running"
  /\ main' = "wait"
  /\ switches' = {}
  /\ registered' = {}
  /\ UNCHANGED <<ownVars, jobVars, todo, requestVars, shell, control, events,
                 historyVars>>

SlipIdle == TRUE
\* It waits for whoever has the token
WaitsFor == state = "IDLE"

Wait ==
  /\ main = "wait"
  /\ WaitsFor
  /\ state' = "INACTIVE"
  /\ main' = "last"
  /\ UNCHANGED <<activeCallsign, jobVars, switches, todo, requestVars, pluginVars,
                 historyVars>>

\* The active plugin is to be stopped, but its entry is gone
StopLast ==
  /\ main = "last"
  /\ main' = IF activeCallsign = Nobody THEN "offline" ELSE "undefined"
  /\ events' = {}
  /\ UNCHANGED <<ownVars, jobVars, switches, todo, requestVars, shell, control,
                 registered, historyVars>>

Deinitialize == Wait \/ StopLast

-----------------------------------------------------------------------------
(* What others do to the plugins of the group.                             *)

Outside(p, s, c, e) ==
  /\ main # "populate"
  /\ outside < MaxOutside
  /\ outside' = outside + 1
  /\ Becomes(p, s, c, registered, e)
  /\ UNCHANGED <<ownVars, jobVars, mainVars, requestVars, strayed>>

\* A plugin is deactivated, or it crashes
OutsideStop(p) ==
  /\ shell[p] = "ACTIVATED"
  /\ Outside(p, "DEACTIVATED", "UNINITIALIZED", {<<"deactivated", p>>})

OutsideSuspend(p) ==
  /\ shell[p] = "ACTIVATED"
  /\ control[p] = "RESUMED"
  /\ Outside(p, "ACTIVATED", "SUSPENDED", Suspended(p))

\* A plugin is activated by someone else, and resumed or not
OutsideStart(p) ==
  /\ p \in Foreign
  /\ ~IsActive(p)
  /\ \E c \in IF p \in Controlled THEN {"RESUMED", "UNINITIALIZED"}
                                  ELSE {"UNINITIALIZED"} :
       Outside(p, "ACTIVATED", c, {<<"activated", p>>})

\* The preconditions of a plugin are met
Met(p) ==
  /\ shell[p] = "PRECONDITION"
  /\ Outside(p, "ACTIVATED", "UNINITIALIZED", {<<"activated", p>>})

Environment ==
  \E p \in Plugin :
    OutsideStop(p) \/ OutsideSuspend(p) \/ OutsideStart(p) \/ Met(p)

-----------------------------------------------------------------------------
Next ==
  /\ ~Crashed
  /\ \/ Initialize
     \/ \E r \in Request, operation \in {"activate", "deactivate"},
           c \in Plugin \cup {Unknown} : Begin(r, operation, c)
     \/ \E r \in Request : RequestStep(r)
     \/ Notification
     \/ WorkerStep
     \/ Clear
     \/ Deinitialize
     \/ Environment

Spec == Init /\ [][Next]_vars

\* Requests that have the token go on, the pool serves its queue, and so does a
\* Deinitialize that was begun.
Fairness ==
  /\ \A r \in Request : WF_vars(~Crashed /\ RequestStep(r))
  /\ WF_vars(~Crashed /\ WorkerStep)
  /\ WF_vars(~Crashed /\ Deinitialize)

FairSpec == Spec /\ Fairness

-----------------------------------------------------------------------------
(* Type invariant.                                                         *)

Kinds == {"activated", "deactivated", "suspended"}

ControlTypes ==
  /\ state \in {"INACTIVE", "IDLE", "INPROGRESS"}
  /\ job \in {"idle", "submitted", "executing", "again"}
  /\ wpc \in {"none", "evaluate", "start", "report", "release", "return",
              "undefined"}
  /\ main \in {"populate", "stop", "start", "report", "running", "wait", "last",
               "offline", "undefined"}
  /\ pc \in [Request -> {"idle", "activate", "deactivate", "start", "report",
                         "finish", "done", "undefined"}]

PluginTypes ==
  /\ shell \in [Plugin -> {"DEACTIVATED", "PRECONDITION", "ACTIVATED"}]
  /\ control \in [Plugin -> {"UNINITIALIZED", "RESUMED", "SUSPENDED"}]
  /\ registered \subseteq Plugin \cap Controlled
  /\ events \subseteq Kinds \X Plugin

DataTypes ==
  /\ switches \in {{}, Plugin}
  /\ activeCallsign \in Plugin \cup {Nobody}
  /\ todo \subseteq Plugin
  /\ callsign \in [Request -> Plugin \cup {Unknown, Nobody}]
  /\ PluginTypes
  /\ outside \in Nat
  /\ strayed \in BOOLEAN

\* Every variable of the SwitchBoard, its threads and its plugins keeps its type.
TypeOK == ControlTypes /\ DataTypes

-----------------------------------------------------------------------------
(* Safety.                                                                 *)

Switching(r) == pc[r] \notin {"idle", "done"}

\* The job has the token from the moment it is submitted, until it gives it back
Evaluating ==
  \/ job \in {"submitted", "again"}
  \/ wpc \in {"evaluate", "start", "report", "release", "undefined"}

\* One at a time switches, a request or the job, and it is under way as long as
\* the state is INPROGRESS: no one switches beside another, and the token is not
\* lost when it passes to the job (Activate l.245, Deactivate l.292,
\* Deactivated l.450, StateChange l.464).
OneSwitcher ==
  /\ \A r, s \in Request : Switching(r) /\ Switching(s) => r = s
  /\ \A r \in Request : ~(Switching(r) /\ Evaluating)
  /\ state = "INPROGRESS" <=> Evaluating \/ \E r \in Request : Switching(r)

\* Once Deinitialize has the SwitchBoard INACTIVE nobody starts to switch again
\* (Deinitialize l.367-374).
StaysInactive ==
  [][(main \in {"last", "offline"}) => state = "INACTIVE" /\ UNCHANGED state]_vars

\* Plugins that only the SwitchBoard starts, and that then are active or not
Plain == Plugin \ (Foreign \cup Reluctant)

\* While nobody switches, a plugin of the group that is active is the one that
\* _activeCallsign names: at most one is, also when plugins refuse to be
\* deactivated or go down by themselves (Activate l.261-271, Evaluate l.409-423).
OneActive ==
  state = "IDLE" /\ main = "running" =>
    \A p \in Plain : IsActive(p) => p = activeCallsign

\* That is so as long as Initialize stopped every other plugin, and Deactivate
\* did not clear _activeCallsign for another one (l.342, l.307).
OneActiveUnlessStrayed == ~strayed => OneActive

\* A job that is to run again has given the token back, and taken it again
JobShape ==
  /\ wpc = "none" <=> job \in {"idle", "submitted"}
  /\ job = "again" => wpc = "return"

\* The SwitchBoard is INACTIVE before Initialize is done, and after Deinitialize
\* got hold of it.
InactiveOutside ==
  state = "INACTIVE" <=> main \in {"populate", "stop", "last", "offline", "undefined"}

\* The inductive invariant behind OneSwitcher and StaysInactive
TokenInv == ControlTypes /\ JobShape /\ InactiveOutside /\ OneSwitcher

\* Who starts a plugin has seen to it that no other one is _activeCallsign, and
\* Initialize has the SwitchBoard for itself.
Targets ==
  /\ \A r \in Request : pc[r] \in {"start", "report"} =>
       callsign[r] \in Plugin /\ activeCallsign \in {Nobody, callsign[r]}
  /\ wpc \in {"start", "report"} => Default \in Plugin /\ activeCallsign = Nobody
  /\ main \in {"start", "report"} => Default \in Plugin
  /\ main \in {"populate", "stop", "start", "report"} =>
       /\ activeCallsign = Nobody
       /\ wpc \notin {"start", "report"}
       /\ \A r \in Request : pc[r] \in {"idle", "done"}

\* A plugin that only the SwitchBoard starts is never half active
PlainShape ==
  \A p \in Plain :
    /\ shell[p] # "PRECONDITION"
    /\ shell[p] = "ACTIVATED" /\ p \in Controlled => control[p] # "UNINITIALIZED"

\* What is active is _activeCallsign, or is about to be
Accounted(p) ==
  \/ p = activeCallsign
  \/ \E r \in Request : pc[r] = "report" /\ callsign[r] = p
  \/ p = Default /\ (wpc = "report" \/ main \in {"stop", "start", "report"})
  \/ p \in todo /\ main = "stop"
  \/ main = "populate"

AllAccounted ==
  ~strayed /\ ~Crashed => \A p \in Plain : IsActive(p) => Accounted(p)

GroupInv == DataTypes /\ Targets /\ PlainShape /\ AllAccounted

\* The inductive invariant behind OneActiveUnlessStrayed
IndInv == TokenInv /\ GroupInv

-----------------------------------------------------------------------------
(* Liveness.                                                               *)

\* Whoever switches comes to an end, and the next one may (Finish, Evaluate).
TokenReturns == state = "INPROGRESS" ~> state # "INPROGRESS" \/ Crashed

\* Deinitialize gets its turn, however many requests and notifications compete
\* with it (Deinitialize l.367-372).
DeinitializeEnds == main = "wait" ~> main = "offline" \/ Crashed

\* Nobody who switches, or waits for the end of a switch, does so forever.
SwitchesEnd == TokenReturns /\ DeinitializeEnds
=============================================================================
