------------------------------ MODULE TimeSync ------------------------------
(***************************************************************************)
(* The TimeSync plugin with its NTPClient: the states of a synchronisation,*)
(* the client's job, which is request, watchdog and announcement in one,   *)
(* the periodic job of the plugin, and the clock that is set.              *)
(*                                                                         *)
(* Four threads meet: an API call (Synchronize or the setting of the time),*)
(* the client's job, the periodic job, and the socket's thread; and there  *)
(* are two locks, the plugin's and the client's, which are taken in both   *)
(* orders.  Revoke waits for the job that is running.                      *)
(***************************************************************************)
EXTENDS Naturals

CONSTANTS
  Servers,      \* the number of _servers, a natural number
  Attempts,     \* _retryAttempts, a natural number
  Periodic      \* whether _periodicity is not zero

VARIABLES
  syncState,       \* NTPClient::_state
  pointing,        \* _serverIndex.IsValid()
  attempt,         \* _currentAttempt
  open,            \* its socket is open
  stamp,           \* _syncedTimestamp: "none", "fresh", "used" to set the clock
  submitted, job,  \* NTPClient::_job: submitted, and where its Dispatch is
  timer, timing,   \* TimeSync::_job: scheduled, and running
  api, socket,     \* where the API call and the socket's thread are
  pluginLock, clientLock, \* who holds the _adminLock of each
  registered,      \* the _sink is among the _clients: the plugin is active
  clock,           \* the system's time: who set it last, and by what
  told             \* history: the end of the last synchronisation was announced

syncVars == <<syncState, pointing, attempt, open, stamp, submitted, job, timer,
              timing, api, socket, pluginLock, clientLock, registered, clock,
              told>>

Busy == syncState \in {"SENDREQUEST", "INPROGRESS"}

Init ==
  /\ syncState = "INITIAL"
  /\ pointing = FALSE
  /\ attempt = 0
  /\ open = FALSE
  /\ stamp = "none"
  /\ submitted = FALSE
  /\ job = "idle"
  /\ timer = FALSE
  /\ timing = FALSE
  /\ api = "idle"
  /\ socket = "idle"
  /\ pluginLock = "free"
  /\ clientLock = "free"
  /\ registered = TRUE
  /\ clock = "unset"
  /\ told = TRUE

-----------------------------------------------------------------------------
(* NTPClient.                                                              *)

\* Synchronize starts anew, but after a failure only without a server
Accepts == syncState \in {"INITIAL", "SUCCESS"} \/ (syncState = "FAILED" /\ ~pointing)

\* Synchronize, a critical section of the client
Synchronize ==
  IF Accepts THEN syncState' = "SENDREQUEST" /\ submitted' = TRUE
             ELSE UNCHANGED <<syncState, submitted>>

\* The job is started, and waits for the client's lock
Start ==
  /\ submitted
  /\ job = "idle"
  /\ submitted' = FALSE
  /\ job' = "waiting"
  /\ UNCHANGED <<syncState, pointing, attempt, open, stamp, timer, timing, api,
                 socket, pluginLock, clientLock, registered, clock, told>>

SlipAttempts == IF syncState = "SENDREQUEST" THEN Attempts + 1 ELSE attempt
\* A new synchronisation tries the servers from the first one
AttemptsLeft == IF syncState = "SENDREQUEST" THEN Attempts ELSE attempt

\* Dispatch, to the end of what it does before Update or its end.  FireRequest
\* goes on to the next server that can be resolved and opened, if there is one;
\* it is valid that it points to one afterwards, whether it found one or not
Dispatch ==
  /\ job = "waiting"
  /\ clientLock = "free"
  /\ \/ /\ Busy /\ Servers > 0
        /\ syncState' = "INPROGRESS"
        /\ open' = TRUE
        /\ attempt' = AttemptsLeft
        /\ job' = "waits"
        /\ UNCHANGED clientLock
     \/ /\ Busy /\ AttemptsLeft > 0
        /\ syncState' = "INPROGRESS"
        /\ open' = FALSE
        /\ attempt' = AttemptsLeft - 1
        /\ job' = "waits"
        /\ UNCHANGED clientLock
     \/ /\ Busy /\ AttemptsLeft = 0
        /\ syncState' = "FAILED"
        /\ open' = FALSE
        /\ UNCHANGED attempt
        /\ job' = "update"
        /\ clientLock' = "job"
     \/ /\ ~Busy
        /\ UNCHANGED <<syncState, open, attempt>>
        /\ job' = "update"
        /\ clientLock' = "job"
  /\ pointing' = (pointing \/ (Busy /\ Servers > 0))
  /\ told' = (told /\ (syncState' # "FAILED" \/ syncState = "FAILED"))
  /\ UNCHANGED <<stamp, submitted, timer, timing, api, socket, pluginLock,
                 registered, clock>>

SlipWatchdog == submitted
\* The response's watchdog, or the wait for the network
Watchdog == TRUE

Reschedule ==
  /\ job = "waits"
  /\ job' = "idle"
  /\ submitted' = Watchdog
  /\ UNCHANGED <<syncState, pointing, attempt, open, stamp, timer, timing, api,
                 socket, pluginLock, clientLock, registered, clock, told>>

\* What was received is right but for the time that has passed since
Known == stamp # "none"

\* Update, with the sink's Completed and SyncedTime: a time that is known sets
\* the clock, also when the synchronisation failed.  INITIAL is announced to
\* nobody
Update ==
  /\ job = "update"
  /\ IF registered /\ Known /\ syncState \in {"FAILED", "SUCCESS"}
     THEN /\ clock' = IF stamp = "fresh" THEN "synced" ELSE "stale"
          /\ stamp' = "used"
          /\ timer' = (timer \/ Periodic)
          /\ job' = "notify"
          /\ UNCHANGED <<clientLock, told>>
     ELSE /\ UNCHANGED <<clock, stamp, timer>>
          /\ job' = "idle"
          /\ clientLock' = "free"
          /\ told' = TRUE
  /\ UNCHANGED <<syncState, pointing, attempt, open, submitted, timing, api,
                 socket, pluginLock, registered>>

\* NotifyTimeChanged takes the plugin's lock, under the client's
Notify ==
  /\ job = "notify"
  /\ Periodic => pluginLock = "free"
  /\ job' = "idle"
  /\ clientLock' = "free"
  /\ told' = TRUE
  /\ UNCHANGED <<syncState, pointing, attempt, open, stamp, submitted, timer,
                 timing, api, socket, pluginLock, registered, clock>>

-----------------------------------------------------------------------------
(* The socket's thread.                                                    *)

\* A packet, or an error, is taken from the open socket
Hear ==
  /\ open
  /\ socket = "idle"
  /\ socket' \in {"packet", "error"}
  /\ UNCHANGED <<syncState, pointing, attempt, open, stamp, submitted, job,
                 timer, timing, api, pluginLock, clientLock, registered, clock,
                 told>>

\* ReceiveData, up to Revoke: whatever the state has become
ReceiveData ==
  /\ socket = "packet"
  /\ clientLock = "free"
  /\ clientLock' = "socket"
  /\ stamp' = "fresh"
  /\ syncState' = "SUCCESS"
  /\ told' = FALSE
  /\ open' = FALSE
  /\ socket' = "revoke"
  /\ UNCHANGED <<pointing, attempt, submitted, job, timer, timing, api,
                 pluginLock, registered, clock>>

\* StateChange with an error; it takes no lock
StateChange ==
  /\ socket = "error"
  /\ open' = FALSE
  /\ socket' = "revoke"
  /\ UNCHANGED <<syncState, pointing, attempt, stamp, submitted, job, timer,
                 timing, api, pluginLock, clientLock, registered, clock, told>>

\* Revoke and Submit: the watchdog is replaced by a job that runs at once
SocketRevokes ==
  /\ socket = "revoke"
  /\ job = "idle"
  /\ submitted' = TRUE
  /\ socket' = "idle"
  /\ clientLock' = IF clientLock = "socket" THEN "free" ELSE clientLock
  /\ UNCHANGED <<syncState, pointing, attempt, open, stamp, job, timer, timing,
                 api, pluginLock, registered, clock, told>>

-----------------------------------------------------------------------------
(* The plugin: its periodic job, the API, Initialize and Deinitialize.     *)

\* Initialize starts a synchronisation, unless it is deferred; the API does
Begin(call, locked) ==
  /\ api = "idle"
  /\ registered
  /\ pluginLock = "free"
  /\ api' = call
  /\ pluginLock' = IF locked THEN "api" ELSE "free"
  /\ UNCHANGED <<syncState, pointing, attempt, open, stamp, submitted, job,
                 timer, timing, socket, clientLock, registered, clock, told>>

Unlock == pluginLock' = IF pluginLock = "api" THEN "free" ELSE pluginLock

CallSynchronize ==
  /\ api = "synchronize"
  /\ clientLock = "free"
  /\ Synchronize
  /\ api' = "idle"
  /\ Unlock
  /\ UNCHANGED <<pointing, attempt, open, stamp, job, timer, timing, socket,
                 clientLock, registered, clock, told>>

\* Time(time): Cancel, up to Revoke
Cancel ==
  /\ api = "time"
  /\ clientLock = "free"
  /\ IF Busy
     THEN /\ syncState' = "FAILED"
          /\ told' = FALSE
          /\ open' = FALSE
          /\ clientLock' = "api"
          /\ api' = "revoke"
     ELSE /\ UNCHANGED <<syncState, told, open, clientLock>>
          /\ api' = "timer"
  /\ UNCHANGED <<pointing, attempt, stamp, submitted, job, timer, timing,
                 socket, pluginLock, registered, clock>>

CancelRevokes ==
  /\ api = "revoke"
  /\ job = "idle"
  /\ submitted' = TRUE
  /\ clientLock' = "free"
  /\ api' = "timer"
  /\ UNCHANGED <<syncState, pointing, attempt, open, stamp, job, timer, timing,
                 socket, pluginLock, registered, clock, told>>

\* The periodic job is revoked as well, and then the clock is set
RevokeTimer ==
  /\ api = "timer"
  /\ ~timing
  /\ timer' = FALSE
  /\ api' = "set"
  /\ Unlock
  /\ UNCHANGED <<syncState, pointing, attempt, open, stamp, submitted, job,
                 timing, socket, clientLock, registered, clock, told>>

SetTime ==
  /\ api = "set"
  /\ clock' = "user"
  /\ api' = "idle"
  /\ UNCHANGED <<syncState, pointing, attempt, open, stamp, submitted, job,
                 timer, timing, socket, pluginLock, clientLock, registered,
                 told>>

TimerStarts ==
  /\ timer /\ ~timing
  /\ timer' = FALSE
  /\ timing' = TRUE
  /\ UNCHANGED <<syncState, pointing, attempt, open, stamp, submitted, job, api,
                 socket, pluginLock, clientLock, registered, clock, told>>

TimerDispatch ==
  /\ timing
  /\ clientLock = "free"
  /\ Synchronize
  /\ timing' = FALSE
  /\ UNCHANGED <<pointing, attempt, open, stamp, job, timer, api, socket,
                 pluginLock, clientLock, registered, clock, told>>

\* Deinitialize revokes the periodic job and unregisters the sink
Deinitialize ==
  /\ registered /\ api = "idle"
  /\ \/ timer /\ ~timing /\ timer' = FALSE /\ UNCHANGED registered
     \/ clientLock = "free" /\ ~timing /\ registered' = FALSE /\ UNCHANGED timer
  /\ UNCHANGED <<syncState, pointing, attempt, open, stamp, submitted, job,
                 timing, api, socket, pluginLock, clientLock, clock, told>>

Job    == Start \/ Dispatch \/ Reschedule \/ Update \/ Notify
Socket == ReceiveData \/ StateChange \/ SocketRevokes
Timer  == TimerStarts \/ TimerDispatch
Api    == CallSynchronize \/ Cancel \/ CancelRevokes \/ RevokeTimer \/ SetTime

Next ==
  \/ Job \/ Hear \/ Socket \/ Timer \/ Api
  \/ \E call \in {"synchronize", "time"}, locked \in BOOLEAN : Begin(call, locked)
  \/ Deinitialize

Spec == Init /\ [][Next]_syncVars

-----------------------------------------------------------------------------
\* Every variable keeps its type.
TypeOK ==
  /\ syncState \in {"INITIAL", "SENDREQUEST", "INPROGRESS", "FAILED", "SUCCESS"}
  /\ attempt \in 0 .. Attempts
  /\ stamp \in {"none", "fresh", "used"}
  /\ job \in {"idle", "waiting", "waits", "update", "notify"}
  /\ api \in {"idle", "synchronize", "time", "revoke", "timer", "set"}
  /\ socket \in {"idle", "packet", "error", "revoke"}
  /\ pluginLock \in {"free", "api"}
  /\ clientLock \in {"free", "api", "job", "socket"}
  /\ clock \in {"unset", "user", "synced", "stale"}
  /\ {pointing, open, submitted, timer, timing, registered, told} \subseteq BOOLEAN

\* Somebody waits in Revoke for a job that waits for the lock he holds, or the
\* job announces with the client's lock while a call holds the plugin's and
\* waits for the client's
Embraced ==
  \/ job = "waiting" /\ (api = "revoke" \/ (socket = "revoke" /\ clientLock = "socket"))
  \/ job = "notify" /\ pluginLock = "api"

\* A synchronisation that is under way, and an end that was not announced, are
\* never left without a job that goes on with them, whoever revokes it.
GoesOn ==
  Busy \/ ~told => submitted \/ job # "idle" \/ api = "revoke" \/ socket # "idle"
=============================================================================
