------------------------------ MODULE Plugins ------------------------------
(***************************************************************************)
(* Plugins that share nothing: a behaviour is one of TimeSync, of          *)
(* FirmwareControl, of ProcessMonitor, of Power, of WifiControl's          *)
(* AutoConnect, of FileTransfer or of WebProxy, whichever is chosen at the *)
(* start, and the others stay in an initial state.                         *)
(***************************************************************************)
EXTENDS Naturals

CONSTANTS
  Servers, Attempts, Periodic, Callsign, Processes, ExitTimeout,
  LastTime, Caller, Client, Retries, Endless, Networks,
  LastPiece, Size, MaxSend, LastByte

\* What the modules say of their constants
ASSUME CountAssumption ==
  {Servers, Attempts, Processes, ExitTimeout, LastTime, Retries, Networks,
   LastByte} \subseteq Nat
ASSUME PieceAssumption == LastPiece \in Nat \ {0}
ASSUME BufferAssumption == Size \in Nat /\ Size > 1 /\ MaxSend \in Nat \ {0}
ASSUME CallerAssumption == "job" \notin Caller

VARIABLES
  chosen,
  syncState, pointing, attempt, open, stamp, submitted, job, timer, timing, api,
  socket, pluginLock, clientLock, registered, clock, told,
  upgradeStatus, signalled, downloadStatus, installStatus, resuming, hash,
  image, requests, upgradeJob, upgrade, ending, engine, resumable, writing, late,
  astray,
  time, started, process, alive, watched, scheduled, dispatching, locked,
  trigger, powerState, mode, queued, updating, at, persisted, plugin, remembered,
  call, wanted, todo, doing, owed, overtaken, refused, lost,
  autoState, attempts, networks, watch, dispatch, callback, connection, failure,
  command, input, target, user, answer,
  log, pieces, position, observing, changed, reading, sendQueue, offset, waking,
  sentLine, again,
  head, tail, buffer, written, arrived, requested, channel, link, gap

syncVars == <<syncState, pointing, attempt, open, stamp, submitted, job, timer,
              timing, api, socket, pluginLock, clientLock, registered, clock,
              told>>
firmwareVars == <<upgradeStatus, signalled, downloadStatus, installStatus, resuming,
                  hash, image, requests, upgradeJob, upgrade, ending, engine,
                  resumable, writing, late, astray>>
monitorVars == <<time, started, process, alive, watched, scheduled, dispatching,
                 locked>>
powerVars == <<trigger, powerState, mode, queued, updating, at, persisted,
               plugin, remembered, call, wanted, todo, doing, owed, overtaken,
               refused, lost>>
autoVars == <<autoState, attempts, networks, watch, dispatch, callback,
              connection, failure, command, input, target, user, answer>>
fileVars == <<log, pieces, position, observing, changed, reading, sendQueue,
              offset, waking, sentLine, again>>
proxyVars == <<head, tail, buffer, written, arrived, requested, channel, link, gap>>

Time     == INSTANCE TimeSync
Firmware == INSTANCE FirmwareControl
Monitor  == INSTANCE ProcessMonitor
Device   == INSTANCE Power
Wifi     == INSTANCE AutoConnect
Files    == INSTANCE FileTransfer
Proxy    == INSTANCE WebProxy

vars == <<chosen, syncVars, firmwareVars, monitorVars, powerVars, autoVars,
          fileVars, proxyVars>>

Init ==
  /\ chosen \in {"TimeSync", "FirmwareControl", "ProcessMonitor", "Power",
                "WifiControl", "FileTransfer", "WebProxy"}
  /\ Time!Init
  /\ Firmware!Init
  /\ Monitor!Init
  /\ Device!Init
  /\ Wifi!Init
  /\ Files!Init
  /\ Proxy!Init
  /\ chosen # "FirmwareControl" => image = "none"
  /\ chosen # "Power" =>
       trigger /\ persisted = "On" /\ \A p \in Client : plugin[p] = "resumed"
  /\ chosen # "FileTransfer" => log = <<>>

Next ==
  \/ /\ chosen = "TimeSync"
     /\ Time!Next
     /\ UNCHANGED <<chosen, firmwareVars, monitorVars, powerVars, autoVars, fileVars,
                    proxyVars>>
  \/ /\ chosen = "FirmwareControl"
     /\ Firmware!Next
     /\ UNCHANGED <<chosen, syncVars, monitorVars, powerVars, autoVars, fileVars,
                    proxyVars>>
  \/ /\ chosen = "ProcessMonitor"
     /\ Monitor!Next
     /\ UNCHANGED <<chosen, syncVars, firmwareVars, powerVars, autoVars, fileVars,
                    proxyVars>>
  \/ /\ chosen = "Power"
     /\ Device!Next
     /\ UNCHANGED <<chosen, syncVars, firmwareVars, monitorVars, autoVars, fileVars,
                    proxyVars>>
  \/ /\ chosen = "WifiControl"
     /\ Wifi!Next
     /\ UNCHANGED <<chosen, syncVars, firmwareVars, monitorVars, powerVars, fileVars,
                    proxyVars>>
  \/ /\ chosen = "FileTransfer"
     /\ Files!Next
     /\ UNCHANGED <<chosen, syncVars, firmwareVars, monitorVars, powerVars, autoVars,
                    proxyVars>>
  \/ /\ chosen = "WebProxy"
     /\ Proxy!Next
     /\ UNCHANGED <<chosen, syncVars, firmwareVars, monitorVars, powerVars, autoVars,
                    fileVars>>

Spec == Init /\ [][Next]_vars

-----------------------------------------------------------------------------
\* Every variable of each plugin keeps its type.
TypeOK ==
  /\ Time!TypeOK /\ Firmware!TypeOK /\ Monitor!TypeOK /\ Device!TypeOK /\ Wifi!TypeOK
  /\ Files!TypeOK /\ Proxy!TypeOK

\* NTPClient (TimeSync): a synchronisation under way, and an end that was not
\* announced, always have a job that goes on with them.
GoesOn == Time!GoesOn

\* FirmwareControl: an image that is installed was downloaded to its end, and
\* verified when a hash was given, unless an installation that was given up before
\* is over while it is downloaded.
InstalledIsWhole == Firmware!InstalledIsWhole

\* FirmwareControl: once nothing is under way the next upgrade is accepted.
NextIsAccepted == Firmware!NextIsAccepted

\* ProcessMonitor: the job is set for the next process whose time is over.
NextIsScheduled == Monitor!NextIsScheduled

\* Power: a device that is on has asked every client to resume that it had
\* suspended, unless the job's Resume cleared the client's flag between the flag's
\* setting and the SUSPEND.
NobodyForgotten == Device!NobodyForgotten

\* Power: the persisted state is the one the device is in.
PersistedIsCurrent == Device!PersistedIsCurrent

\* AutoConnect: while it looks for a network it has its job to go on with.
KeepsTrying == Wifi!KeepsTrying

\* AutoConnect: once an API call has revoked it, it neither looks for a network
\* nor connects to one, whatever answer, event or job was late.
StaysRevoked == Wifi!StaysRevoked

\* FileTransfer and WebProxy: what they forward arrives in the order in which it
\* was written and nothing twice, unless the position in the file is lost, and what
\* waits to be sent will be.
ArrivesInOrder == Files!LinesInOrder /\ Proxy!BytesInOrder
=============================================================================
