---------------------------- MODULE AutoConnect ----------------------------
(***************************************************************************)
(* WifiControl's AutoConnect with the ConnectRequest of its Controller: the*)
(* job that scans and tries one known network after the other, the answers *)
(* and events of the supplicant that the socket's thread hands out, and the*)
(* API calls that connect or disconnect instead.                           *)
(*                                                                         *)
(* The locks are those of AutoConnect, of the Controller and of WifiControl*)
(* itself.  The socket's thread holds the Controller's, and often that of  *)
(* the ConnectRequest, while it calls back.  One API call at a time.       *)
(*                                                                         *)
(* A behaviour ends when the list of networks is popped though it is empty.*)
(***************************************************************************)
EXTENDS Integers

CONSTANTS
  Retries,      \* _maxRetries, a natural number
  Endless,      \* the configured number is -1: _attempts is not counted down
  Networks      \* how many known networks a scan finds at most: a bound

VARIABLES
  autoState,       \* AutoConnect::_state
  attempts,        \* its _attempts
  networks,        \* the length of its _ssidList; -1 when popped too often
  watch,           \* its _job is submitted or scheduled
  dispatch,        \* where its Dispatch is
  callback,        \* ConnectRequest::_callback: "none", "auto" or "user"
  connection,      \* its _state
  failure,         \* its _error
  command,         \* it is among the Controller's _requests
  input, target,   \* where the socket's thread is, and the state it moves to
  user,            \* where the API call is; "off" after a Disconnect
  answer           \* what the call's ConnectSink was told

autoVars == <<autoState, attempts, networks, watch, dispatch, callback,
              connection, failure, command, input, target, user, answer>>

listVars    == <<attempts, networks>>
requestVars == <<callback, connection, failure, command>>
userVars    == <<user, answer>>

\* Configure has started a scan
Init ==
  /\ autoState = "SCANNING"
  /\ attempts = Retries
  /\ networks = 0
  /\ watch = TRUE
  /\ dispatch = "idle"
  /\ callback = "none"
  /\ connection = "SELECT"
  /\ failure = "failed"
  /\ command = FALSE
  /\ input = "idle"
  /\ target = "IDLE"
  /\ user = "idle"
  /\ answer = "none"

\* Nobody holds the lock of AutoConnect, of the Controller, of WifiControl.
\* Dispatch and Revoke keep the first one when they wait for the second
AutoFree == dispatch \in {"idle", "waiting"} /\ user \notin {"drop", "dropping"}
ControllerFree == input \in {"idle", "failed"}
WifiFree == user \notin {"prefer", "update", "submit"}

-----------------------------------------------------------------------------
(* ConnectRequest.                                                         *)

\* Invoke, but for what cannot be connected to: it is taken by nobody, nor is
\* its message being processed
Invoke(who) ==
  /\ callback = "none" /\ ~command
  /\ callback' = who
  /\ connection' = "SELECT"
  /\ command' = TRUE
  /\ UNCHANGED failure

\* Revoke takes back what it finds to be the request of its caller, ...
Revoke(who) ==
  /\ callback = who
  /\ command' = FALSE
  /\ UNCHANGED <<callback, connection, failure>>

\* ... and forgets the caller when it has its lock again
Forget ==
  /\ callback' = "none"
  /\ UNCHANGED <<connection, failure, command>>

\* The callback's Completed.  That of AutoConnect begins with a Revoke
Deliver(result) ==
  /\ callback' = IF callback = "auto" THEN "none" ELSE callback
  /\ command' = FALSE
  /\ input' = IF callback = "auto" THEN "completed" ELSE input
  /\ target' = IF callback = "auto" THEN result ELSE target
  /\ answer' = IF callback = "user" THEN result ELSE answer

\* Completed(response): the next command is submitted, or there is an end
Respond ==
  /\ command
  /\ input = "idle"
  /\ \/ \E step \in {<<"SELECT", "RECONNECT", TRUE>>,
                     <<"RECONNECT", "AUTHORIZE", TRUE>>,
                     <<"AUTHORIZE", "WAITING", FALSE>>} :
          /\ connection = step[1]
          /\ connection' = step[2]
          /\ command' = step[3]
          /\ UNCHANGED <<callback, input, target, answer>>
     \/ connection = "ERROR" /\ Deliver(failure) /\ UNCHANGED connection
     \/ Deliver("failed") /\ UNCHANGED connection
  /\ UNCHANGED <<autoState, listVars, watch, dispatch, failure, user>>

\* Completed(result) of CTRL_EVENT_CONNECTED, which says nothing when the
\* answers to the commands are not all there
Connected ==
  /\ input = "idle"
  /\ IF connection = "WAITING" /\ callback # "none"
     THEN Deliver("ok")
     ELSE UNCHANGED <<callback, command, input, target, answer>>
  /\ UNCHANGED <<autoState, listVars, watch, dispatch, connection, failure, user>>

\* Completed(result) of an event that a network is not there, or is disabled:
\* it is noted, and a DISCONNECT is submitted unless a command is
Failed(result) ==
  /\ input = "idle"
  /\ failure' = result
  /\ connection' = "ERROR"
  /\ input' = "failed"
  /\ UNCHANGED <<autoState, listVars, watch, dispatch, callback, command, target,
                 userVars>>

SubmitDisconnect ==
  /\ input = "failed"
  /\ command' = TRUE
  /\ input' = "idle"
  /\ UNCHANGED <<autoState, listVars, watch, dispatch, callback, connection,
                 failure, target, userVars>>

-----------------------------------------------------------------------------
(* The socket's thread in AutoConnect.                                     *)

\* WifiEvent of the results of a scan, or of the end of a connection
Event ==
  /\ input = "idle"
  /\ input' \in {"scanned", "lost"}
  /\ UNCHANGED <<autoState, listVars, watch, dispatch, requestVars, target, userVars>>

\* NotifyConnectionChange and NotifyNetworkChange
Notify ==
  /\ input \in {"lost", "report"}
  /\ WifiFree
  /\ input' = IF input = "lost" THEN "disconnected" ELSE "idle"
  /\ UNCHANGED <<autoState, listVars, watch, dispatch, requestVars, target, userVars>>

\* MoveState, up to the job's Revoke
Move(state) ==
  /\ autoState' = "IDLE"
  /\ input' = "move"
  /\ target' = state

Completed ==
  /\ input = "completed"
  /\ AutoFree
  /\ \/ target = "ok" /\ Move("IDLE") /\ UNCHANGED <<networks, watch>>
     \/ target = "failed" /\ Move("CONNECTING") /\ UNCHANGED <<networks, watch>>
     \/ /\ target = "unknown"
        /\ networks' = networks - 1
        /\ watch' = TRUE
        /\ input' = "idle"
        /\ UNCHANGED <<autoState, target>>
  /\ UNCHANGED <<attempts, dispatch, requestVars, userVars>>

Scanned ==
  /\ input = "scanned"
  /\ AutoFree
  /\ IF autoState \in {"SCANNING", "RETRY"}
     THEN Move("SCANNED")
     ELSE input' = "report" /\ UNCHANGED <<autoState, target>>
  /\ UNCHANGED <<listVars, watch, dispatch, requestVars, userVars>>

\* The reason of the end may be one that is left alone
Disconnected ==
  /\ input = "disconnected"
  /\ AutoFree
  /\ \/ autoState = "IDLE" /\ attempts > 0 /\ Move("SCANNING")
     \/ input' = "idle" /\ UNCHANGED <<autoState, target>>
  /\ UNCHANGED <<listVars, watch, dispatch, requestVars, userVars>>

\* MoveState revokes the job without the lock
RevokeJob ==
  /\ input = "move"
  /\ dispatch = "idle"
  /\ watch' = FALSE
  /\ input' = "moved"
  /\ UNCHANGED <<autoState, listVars, dispatch, requestVars, target, userVars>>

\* The end of MoveState, and what is done after it
Moved ==
  /\ input = "moved"
  /\ AutoFree
  /\ autoState' = target
  /\ networks' = IF target = "IDLE" THEN 0 ELSE networks
  /\ watch' = (watch \/ target # "IDLE")
  /\ input' = IF target \in {"SCANNED", "IDLE"} THEN "report" ELSE "idle"
  /\ UNCHANGED <<attempts, dispatch, requestVars, target, userVars>>

-----------------------------------------------------------------------------
(* The job.                                                                *)

Start ==
  /\ watch
  /\ dispatch = "idle"
  /\ watch' = FALSE
  /\ dispatch' = "waiting"
  /\ UNCHANGED <<autoState, listVars, requestVars, input, target, userVars>>

SlipAgain == autoState # "CONNECTING"
\* Dispatch ends with Reschedule, in whatever state
Again == TRUE

Reschedule ==
  /\ watch' = (watch \/ Again)
  /\ dispatch' = "idle"

Counted == IF Endless THEN attempts ELSE attempts - 1

\* Dispatch, up to where it needs the Controller
Dispatch ==
  /\ dispatch = "waiting"
  /\ AutoFree
  /\ \/ /\ autoState = "IDLE" \/ (autoState = "RETRY" /\ attempts = 0)
        /\ autoState' = "IDLE"
        /\ dispatch' = "idle"
        /\ UNCHANGED <<listVars, watch>>
     \/ /\ autoState = "SCANNING"
        /\ autoState' = "RETRY"
        /\ Reschedule
        /\ UNCHANGED listVars
     \/ /\ autoState = "SCANNED"
        /\ dispatch' = "list"
        /\ UNCHANGED <<autoState, listVars, watch>>
     \/ /\ autoState = "CONNECTING"
        /\ networks' = IF networks > 0 THEN networks - 1 ELSE 0
        /\ dispatch' = "drop"
        /\ UNCHANGED <<autoState, attempts, watch>>
     \/ /\ autoState = "RETRY" /\ attempts > 0
        /\ attempts' = Counted
        /\ autoState' = "SCANNING"
        /\ dispatch' = "scan"
        /\ UNCHANGED <<networks, watch>>
  /\ UNCHANGED <<requestVars, input, target, userVars>>

\* The known networks of the scan, and the next one of them
List ==
  /\ dispatch = "list"
  /\ ControllerFree
  /\ networks' \in 0 .. Networks
  /\ IF networks' = 0
     THEN autoState' = "RETRY" /\ Reschedule
     ELSE autoState' = "CONNECTING" /\ dispatch' = "connect" /\ UNCHANGED watch
  /\ UNCHANGED <<attempts, requestVars, input, target, userVars>>

\* The next network of the list, if there is one
Dropped ==
  IF networks = 0
  THEN autoState' = "RETRY" /\ Reschedule
  ELSE dispatch' = "connect" /\ UNCHANGED <<autoState, watch>>

Drop ==
  /\ dispatch = "drop"
  /\ ControllerFree
  /\ \/ Revoke("auto") /\ dispatch' = "dropping" /\ UNCHANGED <<autoState, watch>>
     \/ callback # "auto" /\ Dropped /\ UNCHANGED requestVars
  /\ UNCHANGED <<listVars, input, target, userVars>>

Dropping ==
  /\ dispatch = "dropping"
  /\ ControllerFree
  /\ Forget
  /\ Dropped
  /\ UNCHANGED <<listVars, input, target, userVars>>

\* The result of Connect is not looked at
Connect ==
  /\ dispatch = "connect"
  /\ ControllerFree
  /\ Invoke("auto") \/ UNCHANGED requestVars
  /\ Reschedule
  /\ UNCHANGED <<autoState, listVars, input, target, userVars>>

Scan ==
  /\ dispatch = "scan"
  /\ ControllerFree
  /\ Reschedule
  /\ UNCHANGED <<autoState, listVars, requestVars, input, target, userVars>>

-----------------------------------------------------------------------------
(* The API calls, Connect and Disconnect.                                  *)

\* Revoke of AutoConnect: MoveState(IDLE), ...
UserRevokes ==
  /\ user \in {"idle", "off"}
  /\ AutoFree
  /\ autoState' = "IDLE"
  /\ user' = "move"
  /\ UNCHANGED <<listVars, watch, dispatch, requestVars, input, target, answer>>

UserRevokesJob ==
  /\ user = "move"
  /\ dispatch = "idle"
  /\ watch' = FALSE
  /\ user' = "moved"
  /\ UNCHANGED <<autoState, listVars, dispatch, requestVars, input, target, answer>>

SlipLeft == attempts
\* No attempts are left to a later Disconnected
Left == 0

\* ... and the end of it, up to the Controller
UserMoved ==
  /\ user = "moved"
  /\ AutoFree
  /\ autoState' = "IDLE"
  /\ attempts' = Left
  /\ user' = "drop"
  /\ UNCHANGED <<networks, watch, dispatch, requestVars, input, target, answer>>

UserDrops ==
  /\ user = "drop"
  /\ ControllerFree
  /\ \/ Revoke("auto") /\ user' = "dropping"
     \/ callback # "auto" /\ user' \in {"connect", "off"} /\ UNCHANGED requestVars
  /\ UNCHANGED <<autoState, listVars, watch, dispatch, input, target, answer>>

UserDropping ==
  /\ user = "dropping"
  /\ ControllerFree
  /\ Forget
  /\ user' \in {"connect", "off"}
  /\ UNCHANGED <<autoState, listVars, watch, dispatch, input, target, answer>>

\* Controller::Connect: it waits, or has failed already, or is in progress
UserConnects ==
  /\ user = "connect"
  /\ ControllerFree
  /\ \/ /\ Invoke("user")
        /\ user' = "waiting"
        /\ answer' = "none"
     \/ /\ user' = "prefer"
        /\ answer' \in {"ok", "failed"}
        /\ UNCHANGED requestVars
     \/ /\ callback # "none"
        /\ user' = "idle"
        /\ UNCHANGED <<requestVars, answer>>
  /\ UNCHANGED <<autoState, listVars, watch, dispatch, input, target>>

\* The end of the wait, or of its time
UserAnswered ==
  /\ user = "waiting"
  /\ ControllerFree
  /\ \/ Revoke("user") /\ user' = "answered"
     \/ callback # "user" /\ user' = "prefer" /\ UNCHANGED requestVars
  /\ UNCHANGED <<autoState, listVars, watch, dispatch, input, target, answer>>

Answered ==
  /\ user = "answered"
  /\ ControllerFree
  /\ Forget
  /\ user' = "prefer"
  /\ UNCHANGED <<autoState, listVars, watch, dispatch, input, target, answer>>

SetPreferred ==
  /\ user = "prefer"
  /\ AutoFree
  /\ attempts' = Retries
  /\ user' = IF answer = "ok" THEN "idle" ELSE "update"
  /\ UNCHANGED <<autoState, networks, watch, dispatch, requestVars, input, target,
                 answer>>

\* UpdateStatus of a failure: AutoConnect goes on where its list ended
UpdateStatus ==
  /\ user = "update"
  /\ AutoFree
  /\ autoState' = "CONNECTING"
  /\ user' = "submit"
  /\ UNCHANGED <<listVars, watch, dispatch, requestVars, input, target, answer>>

SubmitJob ==
  /\ user = "submit"
  /\ watch' = TRUE
  /\ user' = "idle"
  /\ UNCHANGED <<autoState, listVars, dispatch, requestVars, input, target, answer>>

Supplicant ==
  \/ Respond \/ Connected \/ SubmitDisconnect \/ Event \/ Notify
  \/ \E result \in {"unknown", "failed"} : Failed(result)
  \/ Completed \/ Scanned \/ Disconnected \/ RevokeJob \/ Moved
Job  == Start \/ Dispatch \/ List \/ Drop \/ Dropping \/ Connect \/ Scan
User ==
  \/ UserRevokes \/ UserRevokesJob \/ UserMoved \/ UserDrops \/ UserDropping
  \/ UserConnects \/ UserAnswered \/ Answered \/ SetPreferred \/ UpdateStatus
  \/ SubmitJob

Next == networks >= 0 /\ (Supplicant \/ Job \/ User)

Spec == Init /\ [][Next]_autoVars

-----------------------------------------------------------------------------
\* Every variable keeps its type.
TypeOK ==
  /\ autoState \in {"IDLE", "SCANNING", "SCANNED", "CONNECTING", "RETRY"}
  /\ attempts \in 0 .. Retries
  /\ networks \in -1 .. Networks
  /\ dispatch \in {"idle", "waiting", "list", "drop", "dropping", "connect",
                   "scan"}
  /\ callback \in {"none", "auto", "user"}
  /\ connection \in {"SELECT", "RECONNECT", "AUTHORIZE", "WAITING", "ERROR"}
  /\ failure \in {"unknown", "failed"}
  /\ input \in {"idle", "failed", "lost", "report", "completed", "scanned",
                "disconnected", "move", "moved"}
  /\ user \in {"idle", "off", "move", "moved", "drop", "dropping", "connect",
               "waiting", "answered", "prefer", "update", "submit"}
  /\ answer \in {"none", "ok", "unknown", "failed"}
  /\ {watch, command} \subseteq BOOLEAN

\* Somebody holds AutoConnect's lock and waits for the Controller's, while the
\* socket's thread has that one and waits for the first, for the job's end, or
\* for WifiControl's lock, whose holder waits for the first
Embraced ==
  /\ ~AutoFree /\ ~ControllerFree
  /\ \/ input \in {"completed", "scanned", "disconnected", "moved"}
     \/ input = "move" /\ dispatch # "idle"
     \/ input \in {"lost", "report"} /\ user \in {"prefer", "update"}

\* While it looks for a network it has its job to go on with, whoever revokes
\* the job meanwhile to move elsewhere.
KeepsTrying ==
  autoState # "IDLE" =>
    watch \/ dispatch # "idle" \/ input \in {"move", "moved"}
          \/ user \in {"move", "moved", "submit"}

\* Once a call has revoked it, and until the call ends with a failure, no late
\* answer, event or job makes it look for a network again or connect to one.
StaysRevoked ==
  user \in {"connect", "waiting", "answered", "off"} =>
    autoState = "IDLE" /\ callback # "auto"
=============================================================================
