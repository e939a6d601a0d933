------------------------- MODULE SwitchBoardProofs -------------------------
(* Proofs about SwitchBoard, for any group of plugins and any requests.    *)
(*                                                                         *)
(* First the token, of which the control state alone decides; then the     *)
(* group, for which it matters that only the holder of the token starts    *)
(* and stops plugins.                                                      *)
EXTENDS SwitchBoard, TLAPS

USE DEF ownVars, jobVars, mainVars, requestVars, pluginVars, historyVars

\* The control state, which is all that TokenInv speaks of.
controlVars == <<state, job, wpc, main, pc>>

\* The invariant holds in the beginning, when nobody switches (constructor).
LEMMA InitToken == Init => TokenInv
  BY DEF Init, TokenInv, ControlTypes, JobShape, InactiveOutside, OneSwitcher,
         Switching, Evaluating

\* A step that leaves the control state alone preserves the invariant, whatever
\* it does to the plugins (StopOthers, Environment).
LEMMA StutterToken ==
  ASSUME TokenInv, UNCHANGED controlVars
  PROVE  TokenInv'
  BY DEF controlVars, TokenInv, ControlTypes, JobShape, InactiveOutside,
         OneSwitcher, Switching, Evaluating

\* Whoever takes the token finds it free (Begin).
LEMMA BeginToken ==
  ASSUME TokenInv, NEW r \in Request, NEW c,
         NEW operation \in {"activate", "deactivate"}, Begin(r, operation, c)
  PROVE  TokenInv'
  BY DEF Begin, Free, Goto, TokenInv, ControlTypes, JobShape, InactiveOutside,
         OneSwitcher, Switching, Evaluating

\* A request that switches goes on, or gives the token back (RequestStep).
LEMMA RequestToken ==
  ASSUME TokenInv, NEW r \in Request, RequestStep(r)
  PROVE  TokenInv'
<1>1. CASE /\ Switching(r)
           /\ \E l \in {"start", "report", "finish", "undefined"} : Goto(r, l)
           /\ UNCHANGED <<state, job, wpc, main>>
  BY <1>1 DEF Goto, TokenInv, ControlTypes, JobShape, InactiveOutside, OneSwitcher,
              Switching, Evaluating
<1>2. CASE Finish(r)
  BY <1>2 DEF Finish, Goto, TokenInv, ControlTypes, JobShape, InactiveOutside,
              OneSwitcher, Switching, Evaluating
<1>3. CASE Switch(r)
  BY <1>1, <1>3 DEF Switch, Pass, Switching
<1>4. CASE Stop(r)
  BY <1>1, <1>4 DEF Stop, Pass, Switching
<1>5. CASE Start(r)
  BY <1>1, <1>5 DEF Start, Switching
<1>6. CASE ReportStart(r)
  BY <1>1, <1>6 DEF ReportStart, Switching
<1> QED
  BY <1>2, <1>3, <1>4, <1>5, <1>6 DEF RequestStep

\* A notification takes the token for the job, if it is free (Reevaluate).
LEMMA NotifyToken ==
  ASSUME TokenInv, Notification
  PROVE  TokenInv'
<1>1. UNCHANGED <<main, pc, wpc>> /\ (Reevaluate \/ UNCHANGED <<state, job>>)
  BY DEF Notification, Activated, Deactivated, StateChange, Receive
<1>2. CASE Reevaluate
  BY <1>1, <1>2 DEF Reevaluate, Free, PoolSubmit, TokenInv, ControlTypes, JobShape,
                    InactiveOutside, OneSwitcher, Switching, Evaluating
<1> QED
  BY <1>1, <1>2, StutterToken DEF controlVars

\* The job goes on, and gives the token back before it returns (WorkerStep).
LEMMA WorkerToken ==
  ASSUME TokenInv, WorkerStep
  PROVE  TokenInv'
<1> USE DEF TokenInv, ControlTypes, JobShape, InactiveOutside, OneSwitcher,
            Switching, Evaluating
<1>1. CASE Take
  BY <1>1 DEF Take
<1>2. CASE Evaluate
  BY <1>2 DEF Evaluate
<1>3. CASE EvaluateStart
  BY <1>3 DEF EvaluateStart
<1>4. CASE EvaluateReport
  BY <1>4 DEF EvaluateReport
<1>5. CASE Release
  BY <1>5 DEF Release, Released
<1>6. CASE Return
  BY <1>6 DEF Return
<1> QED
  BY <1>1, <1>2, <1>3, <1>4, <1>5, <1>6 DEF WorkerStep

\* Initialize opens the SwitchBoard when nobody has the token, and Deinitialize
\* closes it only then (Wait).
LEMMA MainToken ==
  ASSUME TokenInv, Initialize \/ Clear \/ Deinitialize
  PROVE  TokenInv'
<1> USE DEF TokenInv, ControlTypes, JobShape, InactiveOutside, OneSwitcher,
            Switching, Evaluating
<1>1. CASE Initialize
  BY <1>1 DEF Initialize, Populate, StopOthers, StartDefault, ReportDefault
<1>2. CASE Clear
  BY <1>2 DEF Clear
<1>3. CASE Deinitialize
  BY <1>3 DEF Deinitialize, Wait, WaitsFor, StopLast
<1> QED
  BY <1>1, <1>2, <1>3

\* Every step preserves the invariant.
LEMMA NextToken ==
  ASSUME TokenInv, [Next]_vars
  PROVE  TokenInv'
<1>1. CASE Environment
  BY <1>1, StutterToken DEF Environment, OutsideStop, OutsideSuspend, OutsideStart,
                          Met, Outside, controlVars
<1>2. CASE UNCHANGED vars
  BY <1>2, StutterToken DEF vars, controlVars
<1> QED
  BY <1>1, <1>2, BeginToken, RequestToken, NotifyToken, WorkerToken, MainToken DEF Next

\* The invariant holds in every state of every behaviour.
THEOREM TokenInvariance == Spec => []TokenInv
  BY InitToken, NextToken, PTL DEF Spec

\* One at a time switches, and the token is never lost (Activate, Deactivate,
\* Deactivated, StateChange, Evaluate).
THEOREM OneSwitcherHolds == Spec => []OneSwitcher
<1>1. TokenInv => OneSwitcher
  BY DEF TokenInv
<1> QED
  BY <1>1, TokenInvariance, PTL

\* After Deinitialize got hold of the SwitchBoard nobody switches again
\* (Deinitialize l.367-374).
THEOREM StaysInactiveHolds == Spec => StaysInactive
<1>1. ASSUME TokenInv, [Next]_vars
      PROVE  [(main \in {"last", "offline"}) =>
                state = "INACTIVE" /\ UNCHANGED state]_vars
  <2> SUFFICES ASSUME main \in {"last", "offline"}
               PROVE  state = "INACTIVE" /\ UNCHANGED state
    OBVIOUS
  <2>0. state = "INACTIVE"
    BY <1>1 DEF TokenInv, InactiveOutside
  <2>1. ~Evaluating /\ \A r \in Request : ~Switching(r)
    BY <1>1, <2>0 DEF TokenInv, OneSwitcher
  <2>2. ASSUME NEW r \in Request, NEW c, NEW operation, Begin(r, operation, c)
        PROVE  UNCHANGED state
    BY <2>0, <2>2 DEF Begin, Free
  <2>3. ASSUME NEW r \in Request, RequestStep(r)
        PROVE  UNCHANGED state
    BY <2>1, <2>3 DEF RequestStep, Switch, Stop, Start, ReportStart, Finish,
                      Switching
  <2>4. CASE Notification
    BY <2>0, <2>4 DEF Notification, Activated, Deactivated, StateChange, Receive,
                      Reevaluate, Free
  <2>5. CASE WorkerStep
    BY <2>0, <2>1, <2>5 DEF WorkerStep, Take, Evaluate, EvaluateStart, EvaluateReport,
                      Release, Return, Evaluating
  <2>6. CASE Initialize \/ Clear \/ Deinitialize
    BY <2>0, <2>6 DEF Initialize, Populate, StopOthers, StartDefault,
                      ReportDefault, Clear, Deinitialize, Wait, StopLast
  <2>7. CASE Environment
    BY <2>0, <2>7 DEF Environment, OutsideStop, OutsideSuspend, OutsideStart, Met,
                Outside
  <2>8. CASE UNCHANGED vars
    BY <2>0, <2>8 DEF vars
  <2> QED
    BY <1>1, <2>0, <2>2, <2>3, <2>4, <2>5, <2>6, <2>7, <2>8 DEF Next
<1> QED
  BY <1>1, TokenInvariance, PTL DEF Spec, StaysInactive

-----------------------------------------------------------------------------
(* The group: who is active, and whom _activeCallsign names.               *)

\* What Entry::Deactivate does to the group: no plugin becomes active by it, and
\* one that only the SwitchBoard starts is not active when it succeeded.
LEMMA DeactivateEffect ==
  ASSUME PluginTypes, PlainShape, NEW p \in Plugin, NEW code, Deactivate(p, code)
  PROVE  /\ PluginTypes'
         /\ PlainShape'
         /\ \A q \in Plugin : IsActive(q)' => IsActive(q)
         /\ code = "ERROR_NONE" /\ p \in Plain => ~IsActive(p)'
<1> DEFINE S == {"DEACTIVATED", "PRECONDITION", "ACTIVATED"}
           C == {"UNINITIALIZED", "RESUMED", "SUSPENDED"}
<1>1. /\ shell' \in [Plugin -> S] /\ control' \in [Plugin -> C]
      /\ \A q \in Plugin \ {p} : shell'[q] = shell[q] /\ control'[q] = control[q]
  BY DEF Deactivate, Shutdown, Becomes, PluginTypes
<1>2. registered' \subseteq registered /\ events' \subseteq events \cup Suspended(p)
  BY DEF Deactivate, Shutdown, Becomes
<1>3. shell'[p] = "ACTIVATED" =>
        /\ shell[p] = "ACTIVATED"
        /\ p \in Controlled =>
             /\ control'[p] = "UNINITIALIZED" => control[p] = "UNINITIALIZED"
             /\ control[p] = "SUSPENDED" => control'[p] = "SUSPENDED"
        /\ code = "ERROR_NONE" =>
             p \in Controlled /\ (control[p] # "UNINITIALIZED" => control'[p] = "SUSPENDED")
  BY DEF Deactivate, Shutdown, Becomes, PluginTypes
<1>4. shell'[p] = "PRECONDITION" => shell[p] = "PRECONDITION"
  BY DEF Deactivate, Shutdown, Becomes, PluginTypes
<1>5. PluginTypes'
  BY <1>1, <1>2 DEF PluginTypes, Suspended, Kinds
<1> HIDE DEF S, C
<1>6. PlainShape'
  BY <1>1, <1>3, <1>4 DEF PlainShape, Plain
<1>7. \A q \in Plugin : IsActive(q)' => IsActive(q)
  BY <1>1, <1>3, <1>4 DEF PluginTypes, IsActive
<1>8. code = "ERROR_NONE" /\ p \in Plain => ~IsActive(p)'
  BY <1>3, <1>4 DEF PlainShape, Plain, IsActive
<1> QED
  BY <1>5, <1>6, <1>7, <1>8

\* What Entry::Activate does to the group: no other plugin becomes active by it,
\* and one that only the SwitchBoard starts is active only when it succeeded.
LEMMA ActivateEffect ==
  ASSUME PluginTypes, PlainShape, NEW p \in Plugin, NEW code, Activate(p, code)
  PROVE  /\ PluginTypes'
         /\ PlainShape'
         /\ \A q \in Plugin \ {p} : IsActive(q)' => IsActive(q)
         /\ code # "ERROR_NONE" /\ p \in Plain => ~IsActive(p)'
<1> DEFINE S == {"DEACTIVATED", "PRECONDITION", "ACTIVATED"}
           C == {"UNINITIALIZED", "RESUMED", "SUSPENDED"}
<1>1. /\ shell' \in [Plugin -> S] /\ control' \in [Plugin -> C]
      /\ \A q \in Plugin \ {p} : shell'[q] = shell[q] /\ control'[q] = control[q]
  BY DEF Activate, Resume, Becomes, PluginTypes
<1>2. registered' \subseteq registered \cup (Controlled \cap {p}) /\ events' = events
  BY DEF Activate, Resume, Listeners, Becomes
<1>3. p \in Plain =>
        /\ shell'[p] = "PRECONDITION" => shell[p] = "PRECONDITION"
        /\ shell'[p] = "ACTIVATED" =>
             code = "ERROR_NONE" /\ (p \in Controlled => control'[p] = "RESUMED")
  BY DEF Activate, Resume, Becomes, PluginTypes, Plain
<1>4. PluginTypes'
  BY <1>1, <1>2 DEF PluginTypes
<1> HIDE DEF S, C
<1>5. PlainShape'
  BY <1>1, <1>3 DEF PlainShape, Plain
<1>6. \A q \in Plugin \ {p} : IsActive(q)' => IsActive(q)
  BY <1>1 DEF IsActive
<1>7. code # "ERROR_NONE" /\ p \in Plain => ~IsActive(p)'
  BY <1>3 DEF PlainShape, Plain, IsActive
<1> QED
  BY <1>4, <1>5, <1>6, <1>7

\* A request that switches is the only one, and what is active is known.
LEMMA Alone ==
  ASSUME IndInv, ~Crashed, NEW r \in Request, Switching(r)
  PROVE  /\ \A s \in Request \ {r} : pc[s] \in {"idle", "done"}
         /\ wpc \notin {"evaluate", "start", "report"}
         /\ main \notin {"populate", "stop", "start", "report"}
         /\ ~strayed =>
              \A q \in Plain : IsActive(q) =>
                q = activeCallsign \/ (pc[r] = "report" /\ callsign[r] = q)
<1>1. /\ \A s \in Request \ {r} : pc[s] \in {"idle", "done"}
      /\ wpc \notin {"evaluate", "start", "report"}
  BY DEF IndInv, TokenInv, OneSwitcher, Switching, Evaluating
<1>2. main \notin {"populate", "stop", "start", "report"}
  BY DEF IndInv, GroupInv, Targets, Switching
<1> QED
  BY <1>1, <1>2 DEF IndInv, GroupInv, AllAccounted, Accounted

\* Whoever begins touches no plugin, and names the one it asks for (Begin).
LEMMA BeginGroup ==
  ASSUME IndInv, NEW r \in Request, NEW c \in Plugin \cup {Unknown},
         NEW operation \in {"activate", "deactivate"}, Begin(r, operation, c)
  PROVE  GroupInv'
<1>1. /\ UNCHANGED <<activeCallsign, wpc, main, todo, switches, pluginVars,
                     historyVars>>
      /\ pc[r] = "idle" /\ pc' = [pc EXCEPT ![r] = pc'[r]]
      /\ pc'[r] \in {"activate", "deactivate", "done"}
      /\ main \notin {"populate", "stop", "start", "report"}
  BY DEF Begin, Goto, IndInv, TokenInv, ControlTypes
<1>2. callsign' \in [Request -> Plugin \cup {Unknown, Nobody}]
      /\ \A s \in Request \ {r} : callsign'[s] = callsign[s]
  BY DEF Begin, IndInv, GroupInv, DataTypes
<1>3. DataTypes' /\ PlainShape'
  BY <1>1, <1>2 DEF IndInv, GroupInv, DataTypes, PluginTypes, PlainShape
<1>4. Targets'
  BY <1>1, <1>2 DEF IndInv, TokenInv, ControlTypes, GroupInv, Targets
<1>5. \A q \in Plain : Accounted(q) => Accounted(q)'
  BY <1>1, <1>2 DEF Accounted, IndInv, TokenInv, ControlTypes
<1>6. Crashed => Crashed'
  BY <1>1 DEF Crashed, IndInv, TokenInv, ControlTypes
<1>7. AllAccounted'
  BY <1>1, <1>5, <1>6 DEF AllAccounted, IsActive, IndInv, GroupInv
<1> QED
  BY <1>3, <1>4, <1>7 DEF GroupInv

\* A switch deactivates the active plugin, and nobody else, before it goes on to
\* start another one (Switch).
LEMMA SwitchGroup ==
  ASSUME IndInv, ~Crashed, NEW r \in Request, Switch(r)
  PROVE  GroupInv'
<1> DEFINE c == callsign[r]
<1>1. /\ UNCHANGED <<wpc, main, todo, switches, callsign, historyVars>>
      /\ pc[r] = "activate" /\ pc' = [pc EXCEPT ![r] = pc'[r]]
      /\ pc'[r] \in {"start", "finish"}
  BY DEF Switch, Pass, Goto, IndInv, TokenInv, ControlTypes
<1>2. pc'[r] = "start" => c \in Plugin /\ activeCallsign' \in {c, Nobody}
  BY <1>1 DEF Switch, Pass, Goto, IndInv, TokenInv, ControlTypes, GroupInv,
              DataTypes, Codes
<1>3. activeCallsign' \in Plugin \cup {Nobody}
  BY DEF Switch, Pass, IndInv, GroupInv, DataTypes
<1>4. \/ UNCHANGED <<activeCallsign, pluginVars>>
      \/ /\ activeCallsign \in Plugin
         /\ \E code \in Codes :
              /\ Deactivate(activeCallsign, code)
              /\ \/ code = "ERROR_NONE" /\ activeCallsign' = Nobody
                 \/ code # "ERROR_NONE" /\ UNCHANGED activeCallsign
  BY DEF Switch, Pass, DeactivateFirst, IndInv, GroupInv, DataTypes
<1>5. Switching(r)
  BY <1>1 DEF Switching
<1>6. /\ PluginTypes' /\ PlainShape'
      /\ \A q \in Plain : IsActive(q)' =>
           IsActive(q) /\ (q = activeCallsign => q = activeCallsign')
  <2>1. CASE UNCHANGED <<activeCallsign, pluginVars>>
    BY <2>1 DEF IndInv, GroupInv, DataTypes, PluginTypes, PlainShape, IsActive
  <2>2. CASE \E code \in Codes :
              /\ Deactivate(activeCallsign, code)
              /\ \/ code = "ERROR_NONE" /\ activeCallsign' = Nobody
                 \/ code # "ERROR_NONE" /\ UNCHANGED activeCallsign
    BY <1>4, <2>1, <2>2, DeactivateEffect DEF IndInv, GroupInv, DataTypes, Plain
  <2> QED
    BY <1>4, <2>1, <2>2
<1>7. DataTypes'
  BY <1>1, <1>3, <1>6 DEF IndInv, GroupInv, DataTypes
<1>8. Targets'
  BY <1>1, <1>2, <1>5, Alone DEF IndInv, TokenInv, ControlTypes, GroupInv, Targets
<1>9. AllAccounted'
  BY <1>1, <1>5, <1>6, Alone DEF AllAccounted, Accounted
<1> QED
  BY <1>6, <1>7, <1>8, <1>9 DEF GroupInv

\* A stop deactivates the plugin it is asked for; when that was not the active
\* one the group has strayed (Stop).
LEMMA StopGroup ==
  ASSUME IndInv, ~Crashed, NEW r \in Request, Stop(r)
  PROVE  GroupInv'
<1>1. /\ UNCHANGED <<wpc, main, todo, switches, outside>>
      /\ pc[r] = "deactivate" /\ pc' = [pc EXCEPT ![r] = pc'[r]]
      /\ pc'[r] \in {"start", "finish"}
      /\ strayed' \in BOOLEAN /\ (strayed => strayed')
  BY DEF Stop, Pass, Goto, IndInv, TokenInv, ControlTypes, GroupInv, DataTypes
<1>2. /\ callsign' \in [Request -> Plugin \cup {Unknown, Nobody}]
      /\ \A s \in Request \ {r} : callsign'[s] = callsign[s]
      /\ pc'[r] = "start" => callsign'[r] \in Plugin /\ activeCallsign' = Nobody
  BY <1>1, DefaultAssumption
     DEF Stop, Pass, Goto, IndInv, TokenInv, ControlTypes, GroupInv, DataTypes
<1>3. activeCallsign' \in {activeCallsign, Nobody}
  BY DEF Stop, Pass
<1>4. \/ UNCHANGED <<activeCallsign, pluginVars>>
      \/ /\ callsign[r] \in Plugin
         /\ \E code \in Codes : Deactivate(callsign[r], code)
         /\ UNCHANGED activeCallsign \/ strayed'
  BY DEF Stop, Pass, IndInv, GroupInv, DataTypes
<1>5. Switching(r)
  BY <1>1 DEF Switching
<1>6. /\ PluginTypes' /\ PlainShape'
      /\ \A q \in Plain : IsActive(q)' => IsActive(q)
  <2>1. CASE UNCHANGED <<activeCallsign, pluginVars>>
    BY <2>1 DEF IndInv, GroupInv, DataTypes, PluginTypes, PlainShape, IsActive
  <2>2. CASE \E code \in Codes : Deactivate(callsign[r], code)
    BY <1>4, <2>1, <2>2, DeactivateEffect DEF IndInv, GroupInv, DataTypes, Plain
  <2> QED
    BY <1>4, <2>1, <2>2
<1>7. DataTypes'
  BY <1>1, <1>2, <1>3, <1>6 DEF IndInv, GroupInv, DataTypes
<1>8. Targets'
  BY <1>1, <1>2, <1>5, Alone DEF IndInv, TokenInv, ControlTypes, GroupInv, Targets
<1>9. AllAccounted'
  BY <1>1, <1>4, <1>5, <1>6, Alone DEF AllAccounted, Accounted
<1> QED
  BY <1>6, <1>7, <1>8, <1>9 DEF GroupInv

\* Who starts a plugin goes on to report it, unless it could not be started
\* (Start).
LEMMA StartGroup ==
  ASSUME IndInv, ~Crashed, NEW r \in Request, Start(r)
  PROVE  GroupInv'
<1>1. /\ UNCHANGED <<activeCallsign, wpc, main, todo, switches, callsign,
                     historyVars>>
      /\ pc[r] = "start" /\ pc' = [pc EXCEPT ![r] = pc'[r]]
      /\ pc'[r] \in {"report", "finish", "undefined"}
  BY DEF Start, Goto, IndInv, TokenInv, ControlTypes
<1>2. /\ callsign[r] \in Plugin
      /\ activeCallsign \in {Nobody, callsign[r]}
  BY <1>1 DEF IndInv, GroupInv, Targets
<1>3. Switching(r)
  BY <1>1 DEF Switching
<1>4. /\ PluginTypes' /\ PlainShape'
      /\ \A q \in Plain : IsActive(q)' /\ pc'[r] # "undefined" =>
           \/ q # callsign[r] /\ IsActive(q)
           \/ q = callsign[r] /\ pc'[r] = "report"
  <2>1. CASE Destroyed
    BY <1>1, <2>1 DEF Start, Goto, IndInv, TokenInv, ControlTypes, GroupInv,
                      DataTypes, PluginTypes, PlainShape, IsActive
  <2>2. CASE ~Destroyed
    <3>1. PICK code \in Codes :
            /\ Activate(callsign[r], code)
            /\ Goto(r, IF code = "ERROR_NONE" THEN "report" ELSE "finish")
      BY <2>2 DEF Start
    <3>2. code = "ERROR_NONE" => pc'[r] = "report"
      BY <3>1 DEF Goto, IndInv, TokenInv, ControlTypes
    <3> QED
      BY <1>2, <3>1, <3>2, ActivateEffect DEF IndInv, GroupInv, DataTypes, Plain
  <2> QED
    BY <2>1, <2>2
<1>5. DataTypes'
  BY <1>1, <1>4 DEF IndInv, GroupInv, DataTypes
<1>6. Targets'
  BY <1>1, <1>2, <1>3, Alone DEF IndInv, TokenInv, ControlTypes, GroupInv, Targets
<1>7. AllAccounted'
  <2>1. ~Crashed' => pc'[r] # "undefined"
    BY DEF Crashed
  <2> QED
    BY <1>1, <1>2, <1>3, <1>4, <2>1, Alone, NobodyAssumption
       DEF AllAccounted, Accounted, Plain
<1> QED
  BY <1>4, <1>5, <1>6, <1>7 DEF GroupInv

\* The plugin that was started is the active one, or it is not active any more
\* (ReportStart, Finish).
LEMMA ReportGroup ==
  ASSUME IndInv, ~Crashed, NEW r \in Request, ReportStart(r) \/ Finish(r)
  PROVE  GroupInv'
<1>1. /\ UNCHANGED <<wpc, main, todo, switches, pluginVars, historyVars>>
      /\ pc[r] \in {"report", "finish"} /\ pc' = [pc EXCEPT ![r] = pc'[r]]
      /\ pc'[r] \in {"finish", "done", "undefined"}
  BY DEF ReportStart, Finish, Goto, IndInv, TokenInv, ControlTypes
<1>2. /\ callsign' \in [Request -> Plugin \cup {Unknown, Nobody}]
      /\ \A s \in Request \ {r} : callsign'[s] = callsign[s]
  BY DEF ReportStart, Finish, IndInv, GroupInv, DataTypes
<1>3. activeCallsign' \in Plugin \cup {Nobody}
  BY DEF ReportStart, Finish, Report, IndInv, GroupInv, DataTypes, Targets
<1>4. Switching(r)
  BY <1>1 DEF Switching
<1>5. \A q \in Plain :
        /\ IsActive(q) /\ pc'[r] # "undefined"
        /\ q = activeCallsign \/ (pc[r] = "report" /\ callsign[r] = q)
        => q = activeCallsign'
  BY <1>1, NobodyAssumption
     DEF ReportStart, Finish, Report, Goto, Plain, IndInv, TokenInv, ControlTypes,
         GroupInv, Targets
<1>6. DataTypes' /\ PlainShape'
  BY <1>1, <1>2, <1>3 DEF IndInv, GroupInv, DataTypes, PluginTypes, PlainShape
<1>7. Targets'
  BY <1>1, <1>2, <1>4, Alone DEF IndInv, TokenInv, ControlTypes, GroupInv, Targets
<1>8. AllAccounted'
  <2>1. ~Crashed' => pc'[r] # "undefined"
    BY DEF Crashed
  <2> QED
    BY <1>1, <1>4, <1>5, <2>1, Alone DEF AllAccounted, Accounted, IsActive
<1> QED
  BY <1>6, <1>7, <1>8 DEF GroupInv

\* All that GroupInv speaks of, but the lists that a step may shorten or extend.
groupVars == <<shell, control, activeCallsign, todo, pc, callsign, wpc, main, strayed>>

\* A step that starts and stops nobody preserves the invariant (Take, Return,
\* Clear, Notification).
LEMMA StutterGroup ==
  ASSUME IndInv, UNCHANGED groupVars, switches' \in {{}, Plugin},
         registered' \subseteq Plugin \cap Controlled,
         events' \subseteq Kinds \X Plugin, outside' \in Nat, Crashed => Crashed'
  PROVE  GroupInv'
<1>1. DataTypes' /\ Targets' /\ PlainShape'
  BY DEF groupVars, IndInv, GroupInv, DataTypes, PluginTypes, Targets, PlainShape
<1>2. AllAccounted'
  BY DEF groupVars, IndInv, GroupInv, AllAccounted, Accounted, IsActive
<1> QED
  BY <1>1, <1>2 DEF GroupInv

\* A notification starts and stops nobody (Activated, Deactivated, StateChange).
LEMMA NotifyGroup ==
  ASSUME IndInv, Notification
  PROVE  GroupInv'
<1>1. UNCHANGED <<groupVars, switches, outside>> /\ events' \subseteq events
  BY DEF Notification, Activated, Deactivated, StateChange, Receive, groupVars
<1>2. registered' \subseteq Plugin \cap Controlled
  BY DEF Notification, Activated, Deactivated, StateChange, Receive, Listeners,
         IndInv, GroupInv, DataTypes, PluginTypes
<1> QED
  BY <1>1, <1>2, StutterGroup
     DEF IndInv, GroupInv, DataTypes, PluginTypes, Crashed, groupVars

\* The job stops a plugin that is not active any more, and then starts the
\* default (Evaluate, EvaluateStart, EvaluateReport).
LEMMA WorkerGroup ==
  ASSUME IndInv, ~Crashed, WorkerStep
  PROVE  GroupInv'
<1> USE DEF IndInv, GroupInv
<1>1. UNCHANGED <<main, todo, switches, pc, callsign, historyVars>>
  BY DEF WorkerStep, Take, Evaluate, EvaluateStart, EvaluateReport, Release, Return
<1>2. wpc \in {"evaluate", "start", "report"} =>
        \A r \in Request : pc[r] \in {"idle", "done"}
  BY DEF TokenInv, OneSwitcher, Switching, Evaluating
<1>3. CASE Take \/ Release \/ Return
  <2>1. UNCHANGED <<activeCallsign, pluginVars>>
        /\ wpc \notin {"report", "undefined"}
        /\ wpc' \in {"evaluate", "return", "none"}
    BY <1>3 DEF Take, Release, Return, TokenInv, JobShape
  <2>2. DataTypes' /\ Targets' /\ PlainShape'
    BY <1>1, <2>1 DEF DataTypes, PluginTypes, Targets, PlainShape
  <2>3. AllAccounted'
    BY <1>1, <2>1 DEF AllAccounted, Accounted, IsActive, Crashed
  <2> QED
    BY <2>2, <2>3
<1>4. CASE Evaluate
  <2>1. wpc = "evaluate" /\ wpc' \in {"release", "start", "undefined"}
    BY <1>4 DEF Evaluate
  <2>2. \/ UNCHANGED <<activeCallsign, pluginVars>> /\ wpc' # "start"
        \/ /\ activeCallsign \in Plugin /\ Default \in Plugin
           /\ activeCallsign' = Nobody
           /\ ~IsActive(activeCallsign)
           /\ \/ UNCHANGED pluginVars
              \/ \E code \in Codes : Deactivate(activeCallsign, code)
    BY <1>4, DefaultAssumption DEF Evaluate, DataTypes
  <2>3. /\ PluginTypes' /\ PlainShape'
        /\ \A q \in Plain : IsActive(q)' => IsActive(q)
    <3>1. CASE UNCHANGED pluginVars
      BY <3>1 DEF DataTypes, PluginTypes, PlainShape, IsActive
    <3> QED
      BY <2>2, <3>1, DeactivateEffect DEF DataTypes, Plain
  <2>4. DataTypes'
    BY <1>1, <2>2, <2>3 DEF DataTypes
  <2>5. Targets'
    BY <1>1, <1>2, <2>1, <2>2, NobodyAssumption DEF Targets
  <2>6. AllAccounted'
    BY <1>1, <1>2, <2>1, <2>2, <2>3 DEF AllAccounted, Accounted
  <2> QED
    BY <2>3, <2>4, <2>5, <2>6
<1>5. CASE EvaluateStart
  <2>1. /\ UNCHANGED activeCallsign
        /\ wpc = "start" /\ wpc' \in {"report", "release", "undefined"}
        /\ Default \in Plugin /\ activeCallsign = Nobody
        /\ main \notin {"populate", "stop", "start", "report"}
    BY <1>5 DEF EvaluateStart, Targets
  <2>2. /\ PluginTypes' /\ PlainShape'
        /\ \A q \in Plain : IsActive(q)' /\ wpc' # "undefined" =>
             \/ q # Default /\ IsActive(q)
             \/ q = Default /\ wpc' = "report"
    <3>1. CASE Destroyed
      BY <1>5, <3>1 DEF EvaluateStart, DataTypes, PluginTypes, PlainShape, IsActive
    <3>2. CASE ~Destroyed
      BY <1>5, <2>1, <3>2, ActivateEffect DEF EvaluateStart, DataTypes, Plain
    <3> QED
      BY <3>1, <3>2
  <2>3. DataTypes' /\ Targets'
    BY <1>1, <1>2, <2>1, <2>2 DEF DataTypes, Targets
  <2>4. AllAccounted'
    BY <1>1, <1>2, <2>1, <2>2, NobodyAssumption
       DEF AllAccounted, Accounted, Plain, Crashed
  <2> QED
    BY <2>2, <2>3, <2>4
<1>6. CASE EvaluateReport
  <2>1. /\ UNCHANGED pluginVars
        /\ wpc = "report" /\ wpc' \in {"release", "undefined"}
        /\ Default \in Plugin /\ activeCallsign = Nobody
        /\ main \notin {"populate", "stop", "start", "report"}
        /\ activeCallsign' \in {Default, Nobody}
        /\ IsActive(Default) /\ wpc' # "undefined" => activeCallsign' = Default
    BY <1>6 DEF EvaluateReport, Targets, Report
  <2>2. DataTypes' /\ Targets' /\ PlainShape'
    BY <1>1, <1>2, <2>1 DEF DataTypes, PluginTypes, Targets, PlainShape
  <2>3. AllAccounted'
    BY <1>1, <1>2, <2>1, NobodyAssumption
       DEF AllAccounted, Accounted, IsActive, Plain, Crashed
  <2> QED
    BY <2>2, <2>3
<1> QED
  BY <1>3, <1>4, <1>5, <1>6 DEF WorkerStep

\* Initialize stops whatever is active, then starts the default; a refusal leaves
\* the group astray (Populate, StopOthers, StartDefault, ReportDefault).
LEMMA InitializeGroup ==
  ASSUME IndInv, ~Crashed, Initialize
  PROVE  GroupInv'
<1> USE DEF IndInv, GroupInv
<1>1. UNCHANGED <<wpc, pc, callsign, outside>>
      /\ main \in {"populate", "stop", "start", "report"}
  BY DEF Initialize, Populate, StopOthers, StartDefault, ReportDefault
<1>2. /\ activeCallsign = Nobody
      /\ wpc \notin {"start", "report"}
      /\ \A r \in Request : pc[r] \in {"idle", "done"}
  BY <1>1 DEF Targets
<1>3. CASE Populate
  <2>1. DataTypes' /\ Targets' /\ PlainShape'
    BY <1>1, <1>2, <1>3 DEF Populate, DataTypes, PluginTypes, Targets, PlainShape
  <2>2. AllAccounted'
    BY <1>1, <1>3 DEF Populate, AllAccounted, Accounted, Plain
  <2> QED
    BY <2>1, <2>2
<1>4. CASE StopOthers
  <2>1. main = "stop" /\ UNCHANGED <<activeCallsign, switches>>
    BY <1>4 DEF StopOthers
  <2>2. CASE /\ todo = {}
             /\ main' = IF Default = Nobody THEN "running" ELSE "start"
             /\ UNCHANGED <<todo, pluginVars, strayed>>
    <3>1. DataTypes' /\ Targets' /\ PlainShape'
      BY <1>1, <1>2, <2>1, <2>2, DefaultAssumption
         DEF DataTypes, PluginTypes, Targets, PlainShape
    <3>2. AllAccounted'
      BY <1>1, <1>2, <2>1, <2>2, NobodyAssumption
         DEF AllAccounted, Accounted, IsActive, Plain, Crashed
    <3> QED
      BY <3>1, <3>2
  <2>3. CASE /\ UNCHANGED main
             /\ \E p \in todo :
                  IF IsActive(p) /\ p # Default
                    THEN \E code \in Codes :
                           /\ Deactivate(p, code)
                           /\ todo' = IF code = "ERROR_NONE" THEN todo \ {p} ELSE {}
                           /\ strayed' = (strayed \/ code # "ERROR_NONE")
                    ELSE todo' = todo \ {p} /\ UNCHANGED <<pluginVars, strayed>>
    <3>1. PICK p \in todo :
            /\ todo' \in {todo \ {p}, {}} /\ (strayed => strayed')
            /\ \/ /\ \E code \in Codes :
                      Deactivate(p, code) /\ (code = "ERROR_NONE" \/ strayed')
                  /\ todo' = todo \ {p} \/ strayed'
               \/ /\ UNCHANGED pluginVars /\ ~(IsActive(p) /\ p # Default)
                  /\ todo' = todo \ {p}
            /\ strayed' \in BOOLEAN
      BY <2>3 DEF DataTypes
    <3>2. p \in Plugin
      BY DEF DataTypes
    <3>3. /\ PluginTypes' /\ PlainShape'
          /\ \A q \in Plain : IsActive(q)' =>
               IsActive(q) /\ (q # p \/ q = Default \/ strayed')
      <4>1. CASE UNCHANGED pluginVars /\ ~(IsActive(p) /\ p # Default)
        BY <4>1 DEF DataTypes, PluginTypes, PlainShape, IsActive
      <4>2. CASE \E code \in Codes :
                   Deactivate(p, code) /\ (code = "ERROR_NONE" \/ strayed')
        BY <3>2, <4>2, DeactivateEffect DEF DataTypes, Plain
      <4> QED
        BY <3>1, <4>1, <4>2
    <3>4. DataTypes' /\ Targets'
      BY <1>1, <1>2, <2>1, <2>3, <3>1, <3>3 DEF DataTypes, Targets
    <3>5. AllAccounted'
      BY <1>1, <1>2, <2>1, <2>3, <3>1, <3>3, NobodyAssumption
         DEF AllAccounted, Accounted, Plain, Crashed
    <3> QED
      BY <3>3, <3>4, <3>5
  <2> QED
    BY <1>4, <2>2, <2>3 DEF StopOthers
<1>5. CASE StartDefault
  <2>1. /\ main = "start" /\ main' \in {"report", "running"}
        /\ Default \in Plugin
        /\ UNCHANGED <<activeCallsign, switches, todo, strayed>>
    BY <1>5 DEF StartDefault, Targets
  <2>2. /\ PluginTypes' /\ PlainShape'
        /\ \A q \in Plain : IsActive(q)' =>
             \/ q # Default /\ IsActive(q)
             \/ q = Default /\ main' = "report"
    BY <1>5, <2>1, ActivateEffect DEF StartDefault, DataTypes, Plain
  <2>3. DataTypes' /\ Targets'
    BY <1>1, <1>2, <2>1, <2>2 DEF DataTypes, Targets
  <2>4. AllAccounted'
    BY <1>1, <1>2, <2>1, <2>2, NobodyAssumption
       DEF AllAccounted, Accounted, Plain, Crashed
  <2> QED
    BY <2>2, <2>3, <2>4
<1>6. CASE ReportDefault
  <2>1. /\ main = "report" /\ main' = "running" /\ Default \in Plugin
        /\ UNCHANGED <<switches, todo, pluginVars, strayed>>
        /\ activeCallsign' = IF IsActive(Default) THEN Default ELSE Nobody
    BY <1>2, <1>6 DEF ReportDefault, Report, Targets
  <2>2. DataTypes' /\ Targets' /\ PlainShape'
    BY <1>1, <1>2, <2>1 DEF DataTypes, PluginTypes, Targets, PlainShape
  <2>3. AllAccounted'
    BY <1>1, <1>2, <2>1, NobodyAssumption
       DEF AllAccounted, Accounted, IsActive, Plain, Crashed
  <2> QED
    BY <2>2, <2>3
<1> QED
  BY <1>3, <1>4, <1>5, <1>6 DEF Initialize

\* Deinitialize stops nobody: the entries are gone (Clear, Wait, StopLast).
LEMMA DeinitializeGroup ==
  ASSUME IndInv, ~Crashed, Clear \/ Deinitialize
  PROVE  GroupInv'
<1> USE DEF IndInv, GroupInv
<1>1. /\ UNCHANGED <<wpc, pc, callsign, activeCallsign, todo, shell, control,
                     historyVars>>
      /\ main \in {"running", "wait", "last"}
      /\ main' \in {"wait", "last", "offline", "undefined"}
  BY DEF Clear, Deinitialize, Wait, StopLast
<1>2. /\ switches' \in {{}, Plugin}
      /\ registered' \subseteq Plugin \cap Controlled
      /\ events' \subseteq Kinds \X Plugin
  BY DEF Clear, Deinitialize, Wait, StopLast, DataTypes, PluginTypes
<1>3. DataTypes' /\ Targets' /\ PlainShape'
  BY <1>1, <1>2 DEF DataTypes, PluginTypes, Targets, PlainShape
<1>4. AllAccounted'
  BY <1>1 DEF AllAccounted, Accounted, IsActive
<1> QED
  BY <1>3, <1>4

\* Others start only what is not Plain, and what they stop is not active any more
\* (Environment).
LEMMA EnvironmentGroup ==
  ASSUME IndInv, Environment
  PROVE  GroupInv'
<1> USE DEF IndInv, GroupInv
<1>1. PICK p \in Plugin : OutsideStop(p) \/ OutsideSuspend(p) \/ OutsideStart(p) \/ Met(p)
  BY DEF Environment
<1>2. /\ UNCHANGED <<switches, activeCallsign, todo, pc, callsign, wpc, main, strayed>>
      /\ outside' \in Nat
      /\ registered' = registered
  BY <1>1 DEF OutsideStop, OutsideSuspend, OutsideStart, Met, Outside, Becomes,
              DataTypes
<1>3. /\ shell' \in [Plugin -> {"DEACTIVATED", "PRECONDITION", "ACTIVATED"}]
      /\ control' \in [Plugin -> {"UNINITIALIZED", "RESUMED", "SUSPENDED"}]
      /\ \A q \in Plugin \ {p} : shell'[q] = shell[q] /\ control'[q] = control[q]
  BY <1>1 DEF OutsideStop, OutsideSuspend, OutsideStart, Met, Outside, Becomes,
              DataTypes, PluginTypes
<1>4. events' \subseteq Kinds \X Plugin
  BY <1>1 DEF OutsideStop, OutsideSuspend, OutsideStart, Met, Outside, Becomes,
              Suspended, DataTypes, PluginTypes, Kinds
<1>5. p \in Plain =>
        /\ shell'[p] # "PRECONDITION"
        /\ shell'[p] = "ACTIVATED" => shell[p] = "ACTIVATED" /\ control'[p] = "SUSPENDED"
  BY <1>1 DEF OutsideStop, OutsideSuspend, OutsideStart, Met, Outside, Becomes,
              DataTypes, PluginTypes, Plain, PlainShape
<1>6. PlainShape'
  BY <1>3, <1>5 DEF PlainShape, Plain
<1>7. \A q \in Plain : IsActive(q)' => IsActive(q)
  <2>1. ASSUME p \in Plain, IsActive(p)'
        PROVE  IsActive(p)
    BY <1>5, <2>1 DEF IsActive
  <2> QED
    BY <1>3, <2>1 DEF IsActive, Plain
<1>8. DataTypes'
  BY <1>2, <1>3, <1>4 DEF DataTypes, PluginTypes
<1>9. Targets'
  BY <1>2 DEF Targets
<1>10. AllAccounted'
  BY <1>2, <1>7 DEF AllAccounted, Accounted, Crashed
<1> QED
  BY <1>6, <1>8, <1>9, <1>10

\* The group is well formed in the beginning, when nothing was done yet.
LEMMA InitGroup == Init => GroupInv
<1> SUFFICES ASSUME Init PROVE GroupInv
  OBVIOUS
<1>1. DataTypes
  BY DEF Init, DataTypes, PluginTypes, Kinds
<1>2. Targets /\ PlainShape
  BY DEF Init, Targets, PlainShape, Plain
<1>3. AllAccounted
  BY DEF Init, AllAccounted, Accounted
<1> QED
  BY <1>1, <1>2, <1>3 DEF GroupInv

\* Every step preserves both halves of the invariant.
LEMMA NextInv ==
  ASSUME IndInv, [Next]_vars
  PROVE  IndInv'
<1>1. TokenInv'
  BY NextToken DEF IndInv
<1>2. ASSUME UNCHANGED vars
      PROVE  GroupInv'
  BY <1>2, StutterGroup DEF vars, groupVars, IndInv, GroupInv, DataTypes,
                            PluginTypes, Crashed
<1>3. ASSUME Next
      PROVE  GroupInv'
  <2>1. ~Crashed
    BY <1>3 DEF Next
  <2>2. ASSUME NEW r \in Request, RequestStep(r)
        PROVE  GroupInv'
    BY <2>1, <2>2, SwitchGroup, StopGroup, StartGroup, ReportGroup DEF RequestStep
  <2> QED
    BY <1>3, <2>1, <2>2, BeginGroup, NotifyGroup, WorkerGroup, InitializeGroup,
       DeinitializeGroup, EnvironmentGroup DEF Next
<1>4. GroupInv'
  BY <1>2, <1>3
<1> QED
  BY <1>1, <1>4 DEF IndInv

\* The inductive invariant holds in every state of every behaviour.
THEOREM Invariance == Spec => []IndInv
<1>1. Init => IndInv
  BY InitToken, InitGroup DEF IndInv
<1> QED
  BY <1>1, NextInv, PTL DEF Spec

\* Every variable keeps its type, for any group of plugins and any requests.
THEOREM TypeCorrect == Spec => []TypeOK
<1>1. IndInv => TypeOK
  BY DEF IndInv, TokenInv, GroupInv, TypeOK
<1> QED
  BY <1>1, Invariance, PTL

\* While nobody switches, at most one plugin that only the SwitchBoard starts is
\* active, the one that _activeCallsign names, unless the group has strayed
\* (Activate, Evaluate, Initialize).
THEOREM OneActiveHolds == Spec => []OneActiveUnlessStrayed
<1>1. IndInv => OneActiveUnlessStrayed
  <2> SUFFICES ASSUME IndInv, ~strayed, state = "IDLE", main = "running",
                      NEW p \in Plain, IsActive(p)
               PROVE  p = activeCallsign
    BY DEF OneActiveUnlessStrayed, OneActive
  <2>1. ~Evaluating /\ \A r \in Request : ~Switching(r)
    BY DEF IndInv, TokenInv, OneSwitcher
  <2>2. ~Crashed
    BY <2>1 DEF Crashed, Evaluating, Switching
  <2> QED
    BY <2>1, <2>2 DEF IndInv, GroupInv, AllAccounted, Accounted, Switching,
                      Evaluating
<1> QED
  BY <1>1, Invariance, PTL
=============================================================================
