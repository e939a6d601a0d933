--------------------------- MODULE ProcessMonitor ---------------------------
(***************************************************************************)
(* The ProcessMonitor plugin: it remembers the process of every plugin that*)
(* runs out of process, and after the plugin's deactivation gives it some  *)
(* time to end before its job kills it.                                    *)
(*                                                                         *)
(* The notifications and the job meet under one lock; ScheduleJob revokes  *)
(* the job under it, and so waits for a Dispatch that waits for the lock.  *)
(***************************************************************************)
EXTENDS Naturals, FiniteSetsExt

CONSTANTS
  Callsign,     \* the plugins that run in a process of their own
  Processes,    \* how many processes are ever started: a bound
  ExitTimeout,  \* _exittimeout, greater than zero
  LastTime      \* where the clock stops: a bound

VARIABLES
  time,         \* Core::Time::Now()
  started,      \* how many processes were started; the last one's id
  process,      \* the process of each active plugin, or zero
  alive,        \* the processes that have not ended
  watched,      \* _processMap: an entry, or none, for each callsign
  scheduled,    \* the time of _job, or zero
  dispatching,  \* the time Dispatch has read, waiting for the lock, or zero
  locked        \* somebody holds the lock and waits for the job's end

monitorVars == <<time, started, process, alive, watched, scheduled,
                 dispatching, locked>>

NoEntry == [id |-> 0, exit |-> 0]

Init ==
  /\ time = 1
  /\ started = 0
  /\ process = [c \in Callsign |-> 0]
  /\ alive = {}
  /\ watched = [c \in Callsign |-> NoEntry]
  /\ scheduled = 0
  /\ dispatching = 0
  /\ locked = FALSE

SlipEarliest(map) ==
  Max({map[c].exit : c \in Callsign} \cup {0})
\* ScheduleJob: the earliest of the exit times that are set, or zero
Earliest(map) ==
  LET times == {map[c].exit : c \in Callsign} \ {0}
  IN  IF times = {} THEN 0 ELSE Min(times)

ScheduleJob(map) ==
  scheduled' = IF Earliest(map) = 0 THEN scheduled ELSE Earliest(map)

\* AddProcess: an entry that is there already is kept
Added(c, id) ==
  IF watched[c] = NoEntry THEN [watched EXCEPT ![c] = [id |-> id, exit |-> 0]]
                          ELSE watched

\* A plugin is activated, and its process connects
Activated(c) ==
  /\ process[c] = 0
  /\ started < Processes
  /\ started' = started + 1
  /\ process' = [process EXCEPT ![c] = started']
  /\ alive' = alive \cup {started'}
  /\ watched' = Added(c, started')
  /\ UNCHANGED <<time, scheduled, dispatching, locked>>

\* A plugin is deactivated, or the connection to its process is lost
Deactivated(c) ==
  /\ process[c] # 0
  /\ process' = [process EXCEPT ![c] = 0]
  /\ IF watched[c] = NoEntry
     THEN UNCHANGED <<watched, scheduled, locked>>
     ELSE /\ watched' = [watched EXCEPT ![c].exit = time + ExitTimeout]
          /\ IF dispatching = 0 THEN ScheduleJob(watched') /\ UNCHANGED locked
                                ELSE locked' = TRUE /\ UNCHANGED scheduled
  /\ UNCHANGED <<time, started, alive, dispatching>>

\* A process ends by itself
Exit(p) ==
  /\ p \in alive
  /\ \A c \in Callsign : process[c] # p
  /\ alive' = alive \ {p}
  /\ UNCHANGED <<time, started, process, watched, scheduled, dispatching,
                 locked>>

\* Dispatch, up to the lock
DispatchStarts ==
  /\ scheduled # 0
  /\ scheduled <= time
  /\ dispatching = 0
  /\ scheduled' = 0
  /\ dispatching' = time
  /\ UNCHANGED <<time, started, process, alive, watched, locked>>

Over(entry) == entry.exit # 0 /\ entry.exit <= dispatching

\* Dispatch, under the lock: what is overdue is killed if it is still there,
\* and forgotten
Dispatch ==
  /\ dispatching # 0
  /\ LET overdue == {c \in Callsign : watched[c] # NoEntry /\ Over(watched[c])}
         victims == {watched[c].id : c \in overdue} \cap alive
     IN  /\ alive' = alive \ victims
         /\ watched' = [c \in Callsign |-> IF c \in overdue THEN NoEntry ELSE watched[c]]
  /\ ScheduleJob(watched')
  /\ dispatching' = 0
  /\ UNCHANGED <<time, started, process, locked>>

Tick ==
  /\ time < LastTime
  /\ time' = time + 1
  /\ UNCHANGED <<started, process, alive, watched, scheduled, dispatching,
                 locked>>

Next ==
  \/ ~locked /\ \/ \E c \in Callsign : Activated(c) \/ Deactivated(c)
                \/ Dispatch
  \/ DispatchStarts
  \/ \E p \in 1 .. Processes : Exit(p)
  \/ Tick

Spec == Init /\ [][Next]_monitorVars

-----------------------------------------------------------------------------
\* Every variable keeps its type.
TypeOK ==
  /\ started \in 0 .. Processes
  /\ alive \subseteq 1 .. started
  /\ \A c \in Callsign :
        process[c] \in 0 .. started /\ watched[c].id \in 0 .. started
  /\ dispatching \in 0 .. time

\* Whatever was deactivated and restarted meanwhile, the job is set for the
\* next process whose time is over, if there is one.
NextIsScheduled ==
  Earliest(watched) # 0 /\ dispatching = 0 /\ ~locked
    => scheduled # 0 /\ \A c \in Callsign :
          watched[c].exit # 0 => scheduled <= watched[c].exit
=============================================================================
