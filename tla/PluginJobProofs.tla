-------------------------- MODULE PluginJobProofs --------------------------
(***************************************************************************)
(* Proofs about the plugins whose work is one job that others revoke and   *)
(* submit again: TimeSync, ProcessMonitor, WifiControl's AutoConnect and   *)
(* FirmwareControl, for any constants.                                     *)
(***************************************************************************)
EXTENDS Plugins, WellFoundedInduction, TLAPS

\* What a step is for each plugin: one of its own, or nothing.
LEMMA BoxSteps ==
  [Next]_vars => /\ [Time!Next]_syncVars
                 /\ [Firmware!Next]_firmwareVars
                 /\ [Monitor!Next]_monitorVars
                 /\ [Device!Next]_powerVars
                 /\ [Wifi!Next]_autoVars
                 /\ [Files!Next]_fileVars
                 /\ [Proxy!Next]_proxyVars
<1>1. UNCHANGED vars => UNCHANGED <<syncVars, firmwareVars, monitorVars, powerVars,
                                    autoVars, fileVars, proxyVars>>
  BY DEF vars
<1> QED
  BY <1>1 DEF Next

-----------------------------------------------------------------------------
(* TimeSync.                                                               *)

\* The job announces an end under the client's lock, and so sees no other state
\* meanwhile; a call that revokes the job has the lock as well.
Announcing ==
  /\ job \in {"update", "notify"} => clientLock = "job" /\ ~Time!Busy
  /\ api = "revoke" => clientLock = "api"

TimeInv == Announcing /\ GoesOn

LEMMA TimeInit == Time!Init => TimeInv
BY DEF Time!Init, TimeInv, Announcing, GoesOn, Time!GoesOn, Time!Busy

LEMMA TimeStep == TimeInv /\ [Time!Next]_syncVars => TimeInv'
<1> SUFFICES ASSUME TimeInv, [Time!Next]_syncVars PROVE TimeInv'
  OBVIOUS
<1> USE DEF TimeInv, Announcing, GoesOn, Time!GoesOn, Time!Busy
<1>1. CASE Time!Start
  BY <1>1 DEF Time!Start
<1>2. CASE Time!Dispatch
  BY <1>2 DEF Time!Dispatch
<1>3. CASE Time!Reschedule
  BY <1>3 DEF Time!Reschedule, Time!Watchdog
<1>4. CASE Time!Update \/ Time!Notify
  BY <1>4 DEF Time!Update, Time!Notify
<1>5. CASE Time!Hear \/ Time!ReceiveData \/ Time!StateChange
  BY <1>5 DEF Time!Hear, Time!ReceiveData, Time!StateChange
<1>6. CASE Time!SocketRevokes
  BY <1>6 DEF Time!SocketRevokes
<1>7. CASE \E c \in {"synchronize", "time"}, l \in BOOLEAN : Time!Begin(c, l)
  BY <1>7 DEF Time!Begin
<1>8. CASE Time!CallSynchronize \/ Time!TimerDispatch
  BY <1>8 DEF Time!CallSynchronize, Time!TimerDispatch, Time!Synchronize, Time!Accepts
<1>9. CASE Time!Cancel
  BY <1>9 DEF Time!Cancel
<1>10. CASE Time!CancelRevokes
  BY <1>10 DEF Time!CancelRevokes
<1>11. CASE Time!RevokeTimer \/ Time!SetTime \/ Time!TimerStarts \/ Time!Deinitialize
  BY <1>11 DEF Time!RevokeTimer, Time!SetTime, Time!TimerStarts, Time!Deinitialize
<1>12. CASE UNCHANGED syncVars
  BY <1>12 DEF syncVars
<1> QED
  BY <1>1, <1>2, <1>3, <1>4, <1>5, <1>6, <1>7, <1>8, <1>9, <1>10, <1>11, <1>12
     DEF Time!Next, Time!Job, Time!Socket, Time!Timer, Time!Api

\* TimeSync: while NTPClient is in a synchronisation, or has an end to
\* announce, its job is submitted or running, or the thread that revoked it is
\* about to submit it (Synchronize, Cancel, ReceiveData, StateChange, Dispatch).
THEOREM GoesOnHolds == Spec => []GoesOn
<1>1. Init => TimeInv
  BY TimeInit DEF Init
<1>2. TimeInv /\ [Next]_vars => TimeInv'
  BY TimeStep, BoxSteps
<1>3. TimeInv => GoesOn
  BY DEF TimeInv
<1> QED
  BY <1>1, <1>2, <1>3, PTL DEF Spec

-----------------------------------------------------------------------------
(* ProcessMonitor.                                                         *)

Entry == [id : Nat, exit : Nat]

MonitorTypes ==
  /\ time \in Nat \ {0} /\ started \in Nat /\ scheduled \in Nat /\ dispatching \in Nat
  /\ watched \in [Callsign -> Entry]

MonitorInv == MonitorTypes /\ NextIsScheduled

\* Earliest is zero or the least of the exit times that are set.
LEMMA EarliestOfAll ==
  ASSUME NEW map \in [Callsign -> Entry]
  PROVE  /\ Monitor!Earliest(map) \in Nat
         /\ \A c \in Callsign : map[c].exit # 0 =>
              Monitor!Earliest(map) # 0 /\ Monitor!Earliest(map) <= map[c].exit
<1> DEFINE times == {map[c].exit : c \in Callsign} \ {0}
<1>0. \A c \in Callsign : map[c].exit \in Nat
  BY DEF Entry
<1>1. times \subseteq Nat \ {0}
  BY <1>0
<1> HIDE DEF times
<1>2. CASE times = {}
  <2>1. \A c \in Callsign : map[c].exit = 0
    BY <1>2 DEF times
  <2>2. Monitor!Earliest(map) = 0
    BY <1>2 DEF Monitor!Earliest, times
  <2> QED
    BY <2>1, <2>2
<1>3. CASE times # {}
  <2>1. times \subseteq Nat
    BY <1>1
  <2>2. IsWellFoundedOn(OpToRel(<, Nat), Nat)
    BY NatLessThanWellFounded
  <2>3. PICK n \in times : \A m \in times : ~(<<m, n>> \in OpToRel(<, Nat))
    BY <1>3, <2>1, <2>2, WFMin
  <2>4. \A m \in times : n =< m
    <3>1. \A m \in times : ~(m < n)
      BY <2>1, <2>3 DEF OpToRel
    <3> QED
      BY <2>1, <3>1
  <2>5. Monitor!Min(times) \in times /\ \A m \in times : Monitor!Min(times) =< m
    BY <2>4 DEF Monitor!Min
  <2>6. Monitor!Earliest(map) = Monitor!Min(times)
    BY <1>3 DEF Monitor!Earliest, times
  <2>7. \A c \in Callsign : map[c].exit # 0 => map[c].exit \in times
    BY DEF times
  <2> QED
    BY <1>1, <2>5, <2>6, <2>7
<1> QED
  BY <1>2, <1>3

LEMMA MonitorInit == Monitor!Init => MonitorInv
<1> SUFFICES ASSUME Monitor!Init PROVE MonitorInv
  OBVIOUS
<1>1. MonitorTypes
  BY DEF Monitor!Init, MonitorTypes, Entry, Monitor!NoEntry
<1>2. {watched[c].exit : c \in Callsign} \ {0} = {}
  BY DEF Monitor!Init, Monitor!NoEntry
<1>3. Monitor!Earliest(watched) = 0
  BY <1>2 DEF Monitor!Earliest
<1> QED
  BY <1>1, <1>3 DEF MonitorInv, NextIsScheduled, Monitor!NextIsScheduled

LEMMA MonitorStep == MonitorInv /\ [Monitor!Next]_monitorVars => MonitorInv'
<1> SUFFICES ASSUME MonitorInv, [Monitor!Next]_monitorVars PROVE MonitorInv'
  OBVIOUS
<1>0. MonitorTypes /\ NextIsScheduled
  BY DEF MonitorInv
<1> USE CountAssumption DEF MonitorInv
\* The job was set anew from the map.
<1>a. ASSUME MonitorTypes', Monitor!ScheduleJob(watched') PROVE MonitorInv'
  <2>1. /\ Monitor!Earliest(watched') \in Nat
        /\ \A c \in Callsign : watched'[c].exit # 0 =>
              Monitor!Earliest(watched') # 0 /\ Monitor!Earliest(watched') <= watched'[c].exit
    BY <1>a, EarliestOfAll DEF MonitorTypes
  <2> QED
    BY <1>a, <2>1 DEF Monitor!ScheduleJob, NextIsScheduled, Monitor!NextIsScheduled
\* No exit time is set or forgotten.
<1>b. ASSUME MonitorTypes', UNCHANGED <<scheduled, dispatching, locked>>,
             \A c \in Callsign : watched'[c].exit = watched[c].exit
      PROVE  MonitorInv'
  <2>1. Monitor!Earliest(watched') = Monitor!Earliest(watched)
    BY <1>b DEF Monitor!Earliest
  <2> QED
    BY <1>0, <1>b, <2>1 DEF NextIsScheduled, Monitor!NextIsScheduled
<1>1. CASE \E c \in Callsign : Monitor!Activated(c)
  <2>1. PICK c \in Callsign : Monitor!Activated(c)
    BY <1>1
  <2>2. /\ watched' = Monitor!Added(c, started') /\ started' = started + 1
        /\ UNCHANGED <<time, scheduled, dispatching, locked>>
    BY <2>1 DEF Monitor!Activated
  <2>3. watched' \in [Callsign -> Entry]
        /\ \A d \in Callsign : watched'[d].exit = watched[d].exit
    BY <1>0, <2>2 DEF Monitor!Added, Monitor!NoEntry, MonitorTypes, Entry
  <2> QED
    BY <1>0, <1>b, <2>2, <2>3 DEF MonitorTypes
<1>2. CASE \E c \in Callsign : Monitor!Deactivated(c)
  <2>1. PICK c \in Callsign : Monitor!Deactivated(c)
    BY <1>2
  <2>2. UNCHANGED <<time, started, dispatching>>
    BY <2>1 DEF Monitor!Deactivated
  <2>3. CASE watched[c] = Monitor!NoEntry
    BY <1>0, <1>b, <2>1, <2>2, <2>3 DEF Monitor!Deactivated, MonitorTypes
  <2>4. CASE watched[c] # Monitor!NoEntry
    <3>1. watched' = [watched EXCEPT ![c].exit = time + ExitTimeout]
      BY <2>1, <2>4 DEF Monitor!Deactivated
    <3>2. watched' \in [Callsign -> Entry]
      BY <1>0, <3>1 DEF MonitorTypes, Entry
    <3>3. CASE dispatching = 0
      <4>1. Monitor!ScheduleJob(watched')
        BY <2>1, <2>4, <3>3 DEF Monitor!Deactivated
      <4>2. scheduled' \in Nat
        BY <1>0, <3>2, <4>1, EarliestOfAll DEF Monitor!ScheduleJob, MonitorTypes
      <4> QED
        BY <1>0, <1>a, <2>2, <3>2, <4>1, <4>2 DEF MonitorTypes
    <3>4. CASE dispatching # 0
      <4>1. locked' = TRUE /\ scheduled' = scheduled
        BY <2>1, <2>4, <3>4 DEF Monitor!Deactivated
      <4> QED
        BY <1>0, <2>2, <3>2, <4>1 DEF MonitorTypes, NextIsScheduled, Monitor!NextIsScheduled
    <3> QED
      BY <3>3, <3>4
  <2> QED
    BY <2>3, <2>4
<1>3. CASE Monitor!Dispatch
  <2> DEFINE overdue == {c \in Callsign : watched[c] # Monitor!NoEntry
                                            /\ Monitor!Over(watched[c])}
  <2>1. /\ watched' = [c \in Callsign |->
                         IF c \in overdue THEN Monitor!NoEntry ELSE watched[c]]
        /\ Monitor!ScheduleJob(watched') /\ dispatching' = 0
        /\ UNCHANGED <<time, started>>
    BY <1>3 DEF Monitor!Dispatch
  <2>2. watched' \in [Callsign -> Entry]
    BY <1>0, <2>1 DEF MonitorTypes, Monitor!NoEntry, Entry
  <2>3. scheduled' \in Nat
    BY <1>0, <2>1, <2>2, EarliestOfAll DEF Monitor!ScheduleJob, MonitorTypes
  <2> QED
    BY <1>0, <1>a, <2>1, <2>2, <2>3 DEF MonitorTypes
<1>4. CASE Monitor!DispatchStarts
  BY <1>0, <1>4 DEF Monitor!DispatchStarts, MonitorTypes, NextIsScheduled,
     Monitor!NextIsScheduled
<1>5. CASE \E p \in 1 .. Processes : Monitor!Exit(p)
  BY <1>0, <1>5, <1>b DEF Monitor!Exit, MonitorTypes
<1>6. CASE Monitor!Tick
  BY <1>0, <1>6, <1>b DEF Monitor!Tick, MonitorTypes
<1>7. CASE UNCHANGED monitorVars
  BY <1>0, <1>7, <1>b DEF monitorVars, MonitorTypes
<1> QED
  BY <1>1, <1>2, <1>3, <1>4, <1>5, <1>6, <1>7 DEF Monitor!Next

\* ProcessMonitor: when no Dispatch is under way the job is scheduled for
\* the next exit time, or before it, however many processes are deactivated,
\* restarted and killed (Deactivated, ScheduleJob and Dispatch).
THEOREM NextIsScheduledHolds == Spec => []NextIsScheduled
<1>1. Init => MonitorInv
  BY MonitorInit DEF Init
<1>2. MonitorInv /\ [Next]_vars => MonitorInv'
  BY MonitorStep, BoxSteps
<1>3. MonitorInv => NextIsScheduled
  BY DEF MonitorInv
<1> QED
  BY <1>1, <1>2, <1>3, PTL DEF Spec

-----------------------------------------------------------------------------
(* WifiControl's AutoConnect.                                              *)

\* A call that revokes AutoConnect keeps its lock up to the end of the
\* ConnectRequest's Revoke, and from then on nothing is left that could move it.
Revoked ==
  /\ user \in {"drop", "dropping", "connect", "waiting", "answered", "off"} =>
       autoState = "IDLE" /\ attempts = 0 /\ dispatch \in {"idle", "waiting"}
  /\ user \in {"connect", "waiting", "answered", "off"} =>
       callback # "auto" /\ input \notin {"completed", "move", "moved"}

WifiInv == KeepsTrying /\ Revoked

LEMMA WifiInit == Wifi!Init => WifiInv
BY DEF Wifi!Init, WifiInv, KeepsTrying, Wifi!KeepsTrying, Revoked

LEMMA WifiStep == WifiInv /\ [Wifi!Next]_autoVars => WifiInv'
<1> SUFFICES ASSUME WifiInv, [Wifi!Next]_autoVars PROVE WifiInv'
  OBVIOUS
<1> USE DEF WifiInv, KeepsTrying, Wifi!KeepsTrying, Revoked, Wifi!listVars,
            Wifi!requestVars, Wifi!userVars, Wifi!AutoFree, Wifi!ControllerFree
<1>1. CASE Wifi!Respond
  BY <1>1 DEF Wifi!Respond, Wifi!Deliver
<1>2. CASE Wifi!Connected
  BY <1>2 DEF Wifi!Connected, Wifi!Deliver
<1>3. CASE Wifi!SubmitDisconnect \/ Wifi!Event \/ Wifi!Notify
             \/ \E result \in {"unknown", "failed"} : Wifi!Failed(result)
  BY <1>3 DEF Wifi!SubmitDisconnect, Wifi!Event, Wifi!Notify, Wifi!Failed
<1>4. CASE Wifi!Completed
  BY <1>4 DEF Wifi!Completed, Wifi!Move
<1>5. CASE Wifi!Scanned
  BY <1>5 DEF Wifi!Scanned, Wifi!Move
<1>6. CASE Wifi!Disconnected
  BY <1>6 DEF Wifi!Disconnected, Wifi!Move
<1>7. CASE Wifi!RevokeJob \/ Wifi!Moved
  BY <1>7 DEF Wifi!RevokeJob, Wifi!Moved
<1>8. CASE Wifi!Start
  BY <1>8 DEF Wifi!Start
<1>9. CASE Wifi!Dispatch
  BY <1>9 DEF Wifi!Dispatch, Wifi!Reschedule, Wifi!Again
<1>10. CASE Wifi!List
  BY <1>10 DEF Wifi!List, Wifi!Reschedule, Wifi!Again
<1>11. CASE Wifi!Drop \/ Wifi!Dropping \/ Wifi!Connect \/ Wifi!Scan
  BY <1>11 DEF Wifi!Drop, Wifi!Dropping, Wifi!Dropped, Wifi!Connect, Wifi!Scan,
     Wifi!Reschedule, Wifi!Again, Wifi!Revoke, Wifi!Forget, Wifi!Invoke
<1>12. CASE Wifi!UserRevokes \/ Wifi!UserRevokesJob
  BY <1>12 DEF Wifi!UserRevokes, Wifi!UserRevokesJob
<1>13. CASE Wifi!UserMoved
  BY <1>13 DEF Wifi!UserMoved, Wifi!Left
<1>14. CASE Wifi!UserDrops \/ Wifi!UserDropping \/ Wifi!UserAnswered \/ Wifi!Answered
  BY <1>14 DEF Wifi!UserDrops, Wifi!UserDropping, Wifi!UserAnswered, Wifi!Answered,
     Wifi!Revoke, Wifi!Forget
<1>15. CASE Wifi!UserConnects
  BY <1>15 DEF Wifi!UserConnects, Wifi!Invoke
<1>16. CASE Wifi!SetPreferred \/ Wifi!UpdateStatus \/ Wifi!SubmitJob
  BY <1>16 DEF Wifi!SetPreferred, Wifi!UpdateStatus, Wifi!SubmitJob
<1>17. CASE UNCHANGED autoVars
  BY <1>17 DEF autoVars
<1> QED
  BY <1>1, <1>2, <1>3, <1>4, <1>5, <1>6, <1>7, <1>8, <1>9, <1>10, <1>11, <1>12,
     <1>13, <1>14, <1>15, <1>16, <1>17
     DEF Wifi!Next, Wifi!Supplicant, Wifi!Job, Wifi!User

LEMMA WifiInvariance == Spec => []WifiInv
<1>1. Init => WifiInv
  BY WifiInit DEF Init
<1>2. WifiInv /\ [Next]_vars => WifiInv'
  BY WifiStep, BoxSteps
<1> QED
  BY <1>1, <1>2, PTL DEF Spec

\* AutoConnect: out of IDLE its job is submitted or running, or a
\* MoveState that has revoked it is about to end (MoveState, Dispatch and
\* UpdateStatus).
THEOREM KeepsTryingHolds == Spec => []KeepsTrying
<1>1. WifiInv => KeepsTrying
  BY DEF WifiInv
<1> QED
  BY <1>1, WifiInvariance, PTL

\* AutoConnect: after Revoke no answer, event or job that was late moves it
\* out of IDLE or takes the ConnectRequest, until the call ends.
THEOREM StaysRevokedHolds == Spec => []StaysRevoked
<1>1. WifiInv => StaysRevoked
  BY DEF WifiInv, Revoked, StaysRevoked, Wifi!StaysRevoked
<1> QED
  BY <1>1, WifiInvariance, PTL

-----------------------------------------------------------------------------
(* FirmwareControl.                                                        *)

Final == installStatus \in {"COMPLETED", "ABORTED"}

\* What the event says, and what the engine does, in each phase of an upgrade:
\* the event is set in the wait for the engine only by the callback that this wait
\* is for, unless that of an old installation was late; the engine is closed when
\* the installation begins.
Phases ==
  ~astray =>
    /\ upgradeJob => upgrade = "idle"
    /\ late => Final
    /\ upgrade \in {"idle", "install", "initiated", "installing"} => engine = "none"
    /\ upgrade \in {"reset", "remove"} /\ ending = "installed" => engine = "none"
    /\ upgrade \in {"completed", "install", "initiated", "installing"} /\ signalled =>
         Final
    /\ ~late =>
         /\ upgradeJob \/ upgrade \in {"resume", "download"} => ~signalled
         /\ upgrade \in {"resume", "download", "completed"} => engine = "none"
         /\ upgrade = "collecting" /\ signalled => engine = "none"
         /\ upgrade \in {"opened", "downloading"} =>
              /\ image # "none" /\ engine # "info"
              /\ signalled => engine = "none" /\
                              (downloadStatus = "none" => image = Firmware!Complete)
         /\ upgrade \in {"completed", "install", "initiated", "installing"} =>
              image = Firmware!Complete

Nothing == \A r \in Caller : requests[r] # "started"

\* A final status was given back, and is left alone until a request starts.
GivenBack ==
  ~astray /\ ~upgradeJob /\ upgrade \in {"idle", "remove", "close"} /\ Nothing
    => upgradeStatus = "NONE"

RequestTypes == requests \in [Caller -> {"idle", "checked", "started"}]

FirmwareInv == RequestTypes /\ Phases /\ GivenBack

LEMMA FirmwareInit == Firmware!Init => FirmwareInv
BY DEF Firmware!Init, FirmwareInv, RequestTypes, Phases, Final, GivenBack

LEMMA StepPhases == FirmwareInv /\ [Firmware!Next]_firmwareVars => Phases'
<1> SUFFICES ASSUME Phases, [Firmware!Next]_firmwareVars PROVE Phases'
  BY DEF FirmwareInv
<1> USE DEF Phases, Final, Firmware!jobVars, Firmware!engineVars, Firmware!installVars,
            Firmware!orderVars, Firmware!historyVars, Firmware!Finish, Firmware!Report,
            Firmware!Wait, Firmware!AfterWait, Firmware!Underway, Firmware!Complete
<1>0. CASE UNCHANGED firmwareVars
  BY <1>0 DEF firmwareVars
<1>1. ASSUME ~astray, NEW r \in Caller,
             Firmware!Check(r) \/ Firmware!Begin(r) \/ Firmware!Refuse(r)
      PROVE  Phases'
  BY <1>1 DEF Firmware!Check, Firmware!Begin, Firmware!Refuse
<1>2. ASSUME ~astray, NEW r \in Caller, NEW resume \in BOOLEAN,
             Firmware!Schedule(r, resume)
      PROVE  Phases'
  BY <1>2 DEF Firmware!Schedule
<1>3. ASSUME ~astray, Firmware!Start PROVE Phases'
  BY <1>3 DEF Firmware!Start
<1>4. ASSUME ~astray, Firmware!Resume PROVE Phases'
  BY <1>4 DEF Firmware!Resume
<1>5. ASSUME ~astray, Firmware!Collected PROVE Phases'
  BY <1>5 DEF Firmware!Collected
<1>6. ASSUME ~astray, Firmware!Download PROVE Phases'
  BY <1>6 DEF Firmware!Download
<1>7. ASSUME ~astray, Firmware!DownloadStarted \/ Firmware!InstallInitiated PROVE Phases'
  BY <1>7 DEF Firmware!DownloadStarted, Firmware!InstallInitiated
<1>8. ASSUME ~astray, Firmware!DownloadEnded PROVE Phases'
  BY <1>8 DEF Firmware!DownloadEnded, Firmware!Downloaded
<1>9. ASSUME ~astray, Firmware!ResetStatus \/ Firmware!RemoveDownloadedFile PROVE Phases'
  BY <1>9 DEF Firmware!ResetStatus, Firmware!RemoveDownloadedFile
<1>10. ASSUME ~astray, Firmware!Close PROVE Phases'
  BY <1>10 DEF Firmware!Close
<1>11. ASSUME ~astray, Firmware!Install PROVE Phases'
  BY <1>11 DEF Firmware!Install
<1>12. ASSUME ~astray, Firmware!InstallEnded PROVE Phases'
  BY <1>12 DEF Firmware!InstallEnded
<1>13. ASSUME ~astray, Firmware!InfoCollected PROVE Phases'
  BY <1>13 DEF Firmware!InfoCollected
<1>14. ASSUME ~astray, Firmware!Transferred PROVE Phases'
  BY <1>14 DEF Firmware!Transferred
<1>15. ASSUME ~astray, Firmware!NotifyInstallStatus PROVE Phases'
  BY <1>15 DEF Firmware!NotifyInstallStatus, Firmware!Downloading
<1> QED
  BY <1>0, <1>1, <1>2, <1>3, <1>4, <1>5, <1>6, <1>7, <1>8, <1>9, <1>10, <1>11, <1>12,
     <1>13, <1>14, <1>15 DEF Firmware!Next, Firmware!Upgrade

LEMMA StepGivenBack ==
  FirmwareInv /\ [Firmware!Next]_firmwareVars => RequestTypes' /\ GivenBack'
<1> SUFFICES ASSUME FirmwareInv, [Firmware!Next]_firmwareVars
             PROVE  RequestTypes' /\ GivenBack'
  OBVIOUS
<1>p. RequestTypes /\ Phases /\ GivenBack
  BY DEF FirmwareInv
<1> USE DEF GivenBack, Nothing, RequestTypes, Firmware!jobVars, Firmware!historyVars,
            Firmware!Finish, Firmware!Report, Firmware!Underway
<1>0. CASE UNCHANGED firmwareVars
  BY <1>p, <1>0 DEF firmwareVars
<1>1. ASSUME ~astray, NEW r \in Caller, Firmware!Check(r) PROVE RequestTypes' /\ GivenBack'
  BY <1>p, <1>1 DEF Firmware!Check
<1>2. ASSUME ~astray, NEW r \in Caller, Firmware!Begin(r) PROVE RequestTypes' /\ GivenBack'
  BY <1>p, <1>2 DEF Firmware!Begin
<1>3. ASSUME ~astray, NEW r \in Caller, Firmware!Refuse(r) PROVE RequestTypes' /\ GivenBack'
  BY <1>p, <1>3 DEF Firmware!Refuse
<1>4. ASSUME ~astray, NEW r \in Caller, NEW resume \in BOOLEAN,
             Firmware!Schedule(r, resume)
      PROVE  RequestTypes' /\ GivenBack'
  BY <1>p, <1>4 DEF Firmware!Schedule
\* The job, but for the three steps in which an upgrade ends, is under way after
\* its step.
<1>5. ASSUME ~astray,
             Firmware!Start \/ Firmware!Resume \/ Firmware!Collected \/ Firmware!Download
               \/ Firmware!DownloadStarted \/ Firmware!DownloadEnded \/ Firmware!Install
               \/ Firmware!InstallInitiated
      PROVE  RequestTypes' /\ GivenBack'
  <2>1. upgrade' \notin {"idle", "remove", "close"} /\ requests' = requests
    BY <1>5 DEF Firmware!Start, Firmware!Resume, Firmware!Collected, Firmware!Download,
       Firmware!DownloadStarted, Firmware!DownloadEnded, Firmware!Install,
       Firmware!InstallInitiated
  <2> QED
    BY <1>p, <2>1
<1>6. ASSUME ~astray, Firmware!ResetStatus PROVE RequestTypes' /\ GivenBack'
  BY <1>p, <1>6 DEF Firmware!ResetStatus
<1>7. ASSUME ~astray, Firmware!RemoveDownloadedFile \/ Firmware!Close
      PROVE  RequestTypes' /\ GivenBack'
  BY <1>p, <1>7 DEF Firmware!RemoveDownloadedFile, Firmware!Close, Firmware!engineVars
<1>8. ASSUME ~astray, Firmware!InstallEnded PROVE RequestTypes' /\ GivenBack'
  <2>1. upgrade' = "reset" /\ requests' = requests
    BY <1>p, <1>8 DEF Firmware!InstallEnded, Firmware!Wait, Phases, Final
  <2> QED
    BY <1>p, <2>1
<1>9. ASSUME ~astray,
             Firmware!InfoCollected \/ Firmware!Transferred \/ Firmware!NotifyInstallStatus
      PROVE  RequestTypes' /\ GivenBack'
  <2>1. UNCHANGED <<upgradeStatus, requests, upgradeJob, upgrade>>
    BY <1>9 DEF Firmware!InfoCollected, Firmware!Transferred, Firmware!NotifyInstallStatus
  <2> QED
    BY <1>p, <1>9, <2>1
<1> QED
  BY <1>0, <1>1, <1>2, <1>3, <1>4, <1>5, <1>6, <1>7, <1>8, <1>9
     DEF Firmware!Next, Firmware!Upgrade

LEMMA FirmwareInvariance == Spec => []FirmwareInv
<1>1. Init => FirmwareInv
  BY FirmwareInit DEF Init
<1>2. FirmwareInv /\ [Next]_vars => FirmwareInv'
  BY StepPhases, StepGivenBack, BoxSteps DEF FirmwareInv
<1> QED
  BY <1>1, <1>2, PTL DEF Spec

\* FirmwareControl: what Install hands to the library was downloaded to its end, and
\* verified when a hash was given; the one event of all phases, and the status that
\* a callback left, are not mistaken for those of another phase.  Excepted are an
\* upgrade scheduled beside another, and the callback of an installation given up
\* before (NotifyInstallStatus) that comes while this upgrade is downloading.
THEOREM InstalledIsWholeHolds == Spec => []InstalledIsWhole
<1>1. FirmwareInv => InstalledIsWhole
  BY DEF FirmwareInv, Phases, InstalledIsWhole, Firmware!InstalledIsWhole
<1> QED
  BY <1>1, FirmwareInvariance, PTL

\* FirmwareControl: when nothing is under way the status is NONE again,
\* however the last upgrade ended, so that the next request is accepted.
THEOREM NextIsAcceptedHolds == Spec => []NextIsAccepted
<1>1. FirmwareInv => NextIsAccepted
  BY DEF FirmwareInv, GivenBack, Nothing, NextIsAccepted, Firmware!NextIsAccepted,
     Firmware!Underway
<1> QED
  BY <1>1, FirmwareInvariance, PTL
=============================================================================
