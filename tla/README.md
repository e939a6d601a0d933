# A verification development for ThunderNanoServices

TLA+ models of the plugins of this repository that have concurrency, control
state and promises of their own; TLC runs that check them on small instances;
and proofs, checked by TLAPS, of what matters most for every instance.
`PROJECT.json` lists the components, the runs, the mutants that show that each
property can fail, the source lines of every definition, the hazards, the
findings and the theorems.

Contents: 1 the system, 2 the modules, 3 how the models correspond to the code,
4 the runs, 5 the proofs, 6 what the models showed, 7 what is not modelled,
8 the plan.

## 1. The system

ThunderNanoServices is a collection of plugins for the Thunder framework.  The
framework loads a plugin as a shared library, calls `Initialize` and
`Deinitialize` on a thread of its own, hands in web and JSON-RPC requests on
the threads of its channels, executes jobs on the threads of the worker pool
(`Core::IWorkerPool`), and notifies plugins when other plugins change
(`IPlugin::INotification`, `IStateControl::INotification`).  A plugin keeps its
state in member variables under a lock (`_adminLock`, `_lock`) of its own.  The
plugins share nothing but the framework, so each is a component, and the models
compose a plugin with its surroundings: request threads, workers, notifications,
the thread of `Deinitialize`.

What makes the plugins hard to test is the same everywhere:

- a critical section ends before the work is done (a callback, a command, a
  response), and state read before is used after it;
- a job of the worker pool is submitted, revoked and rescheduled by several
  threads, while it is being executed;
- `Deinitialize` and destructors run against requests, jobs and notifications
  that are under way;
- one call of several fails.

### Components

| Component | State it keeps | Operations | Hard behaviours |
|---|---|---|---|
| **JsonRpcMuxer** | the list of batches, the slots of active jobs, a batch's progress | `Invoke`, `Submit`, `Process`, `Job::Dispatch`, `Checkout`, `CompleteRequest`, `Stop` | several threads scan and change the list, which is unlocked while a batch is answered; shutdown against running jobs |
| **Commander** | per sequencer: state, command list, current index, job | `Load`, `Execute`, `Submit`, `Dispatch`, `Abort`, `Revoke`, `Deinitialize`, destructor | a command executes without the lock; load and abort against the run; a job that is submitted while it ends |
| **SwitchBoard** | state, the entries of the group, the active one, job | `Activate`, `Deactivate`, notifications, `Evaluate`, `Initialize`, `Deinitialize` | a state variable that serves as a token and passes between threads; plugins that refuse or go down |
| **DHCPServer** | leases, next free address, queue of responses, the file of leases | `Discover`, `Request`, `SendData`, `ReceiveData`, `Open`, `Close`, save and load | offers, acknowledgements, repetitions and expiry; a restart while the file is written; a queue that must be triggered |
| **NetworkControl** | the engine's offers, retries and job, the client's transaction and lease, the adapter's address | `Dispatch`, `ReceiveData`, `Flush`, `Activity` | answers that are late, lost or doubled; three threads without a common lock |
| **TimeSync** | NTP state, server, attempts, two jobs, the clock | `Synchronize`, `Cancel`, `Dispatch`, `ReceiveData`, `StateChange`, setting the time | timeouts racing answers, retries, cancel, two locks in both orders |
| **FirmwareControl** | upgrade and download status, one event, the file | `upgrade`, `resume`, the upgrade job, callbacks | one event for several phases, time-outs, late callbacks |
| **Power** | current and persisted state, clients | `SetState`, `PowerChange`, notifications, the Linux implementation's job | a transition without a lock against the job's callback |
| **ProcessMonitor** | processes with an exit time, job | `Activated`, `Deactivated`, `Dispatch` | rescheduling one job for many deadlines |
| **WifiControl** | AutoConnect's state, networks and job, the ConnectRequest | `Dispatch`, `Scanned`, `Disconnected`, `Completed`, `Revoke`, `Connect`, `Disconnect` | locks that are given up in the middle of a move; late answers and events |
| **FileTransfer** | position in a file, send queue | `Updated`, `Dispatch`, `NewLine`, `SendData` | a file that grows while it is read |
| **WebProxy** | two cyclic buffers, a channel and a link | `Attach`, `Detach`, `Inbound`, `Outbound`, `SendData`, `ReceiveData` | buffers that wrap and run over; a channel that goes before its link |
| all others | see `PROJECT.json` | | adapters of drivers and libraries, formatting, I/O |

What makes them correct, and so what is checked:

- *JsonRpcMuxer*: never more jobs in the pool than configured; a sequential
  batch runs its requests one after the other; every accepted batch is answered
  once, when all its requests are done; no request or slot is lost; nothing new
  starts after a shutdown began, and the shutdown ends.
- *Commander*: the list and the index are not changed under a command that is
  executing; a label leads to the nearest step of that label; a run always has a
  job that will see it; an aborted run starts no other command and stays
  ABORTING to its end; a run, a `DELETE` and a `Deinitialize` end.
- *SwitchBoard*: one thread at a time switches, and the token is given back;
  of the group, one plugin is active; `Deinitialize` gets its turn, and nobody
  switches afterwards.
- *DHCPServer*: no address is held by two clients, also after a restart that
  finds what was saved; nobody is refused while an address is free; what is
  queued is sent.
- *NetworkControl*: an interface is never without the job that will get it an
  address; a lease is one that was asked for; its address is the installed one.
- *TimeSync*: a synchronisation that is under way has a job, or a thread, that
  goes on with it or announces its end.
- *FirmwareControl*: what is installed was downloaded to its end, and verified if
  a hash was given; after an end of whatever kind the next upgrade is accepted.
- *Power*: who was suspended is asked to resume; the persisted state is the
  current one.
- *ProcessMonitor*: no deadline is forgotten.
- *WifiControl*: AutoConnect goes on until it succeeds or is revoked, and then
  stays revoked.
- *FileTransfer, WebProxy*: what is forwarded arrives in order and nothing twice.

Several of these hold only up to a step at which the code gives them up: two
locks that wait for each other, a save that fails, a file that does not open.
Section 6 names these steps, and the properties say what holds up to them.

## 2. The modules

| Module | What it is |
|---|---|
| `JsonRpcMuxer` | the Processor, its batches, client threads, workers, `Deinitialize` |
| `BatchService` | the abstract service that the JsonRpcMuxer promises its clients |
| `MCJsonRpcMuxer` | instances for TLC (symmetry) |
| `JsonRpcMuxerProofs` | inductive invariant of JsonRpcMuxer; the job limit, the order, Stop |
| `MuxerServiceProofs` | on top of it: owners, answers, what is lost, and the refinement of `BatchService` |
| `Sequencer` | one Sequencer of the Commander, with its requests, job and end |
| `MCSequencer` | instances for TLC: the command lists |
| `SequencerProofs` | inductive invariants and theorems of Sequencer; what its searches find |
| `SwitchBoard` | the SwitchBoard and the plugins of its group |
| `MCSwitchBoard` | instances for TLC |
| `SwitchBoardProofs` | inductive invariant and theorems of SwitchBoard |
| `DhcpServer`, `MCDhcpServer` | a server of DHCPServer with its clients, restarts and time; the instance |
| `DhcpServerProofs` | inductive invariant and theorems of DhcpServer |
| `DhcpClient`, `MCDhcpClient` | an interface of NetworkControl with its DHCP client and the network; the instance |
| `DhcpClientProofs` | inductive invariant and theorems of DhcpClient |
| `TimeSync` | the plugin with its NTPClient, the socket and the API |
| `FirmwareControl` | the requests, the upgrade job, the callbacks |
| `ProcessMonitor` | the notifications, the job, the processes |
| `Power` | the plugin with its Linux implementation and the clients |
| `AutoConnect` | WifiControl's AutoConnect with the Controller's ConnectRequest |
| `FileTransfer` | the observed file, the job, the sending |
| `WebProxy` | a connector with its two buffers |
| `Plugins` | the last seven, one of them in each behaviour: their constants and properties |
| `MCPlugins` | its instance for TLC (symmetry) |
| `PluginJobProofs` | theorems of TimeSync, ProcessMonitor, AutoConnect, FirmwareControl |
| `PluginDataProofs` | theorems of Power, FileTransfer, WebProxy, and the types of all seven |

`Plugins` is a choice, not a composition: the plugins have no state in common,
so the states of a product would be those of each, over and over.  Its initial
state says which plugin runs, and the variables of the others stay as they are.

Each component's module has the same layout: constants with named assumptions,
variables grouped as the source groups them, helpers, one action per step of a
handler, `Next`, `Spec`, `Fairness`, the type invariant, the safety properties,
the inductive invariant
(where it needs notions of its own, in the module of the proofs), the liveness
properties.  An operator `Slip...` stands
before some definition: it is that definition with a slip a programmer could
make, and only the mutants use it.

## 3. Models and code

General rules.  A step is a critical section, or the part of one between two
points where another thread can see a difference.  When the code gives up the
lock in the middle of a function, the function has a program counter there.
A use of freed memory or of an invalid iterator puts the thread into
`"undefined"`; the predicate `Crashed` then disables `Next`, and every property
says what holds up to that point.  The worker pool is external: it holds the
submitted jobs as a set (any of them may be next), a job that is submitted while
it is executed is executed once more, and `Revoke` takes a job out of the queue
or waits until it is done.

### JsonRpcMuxer (`src/JsonRpcMuxer`)

`Call` and `Examine` are `Invoke`: the parameters are parsed and checked in the
code's order (empty, too long, the limits of `Submit`), a refusal ends the call.
`Submit` is the critical section of `Processor::Submit` and continues into
`Process`.  `Process` is the loop at l.533-608: `Enter` takes the lock, then one
step examines one batch of the list (`PassOver`, `Remove`); `Remove` gives the
lock up, `Answer` sends the response and deletes the batch, `Relock` takes the
lock again and goes on *with the iterator it had*.  Since the list is a
`std::vector`, the iterator is a position that another thread's `erase` or a
reallocation may have invalidated: `dangling` and `capacity` record that, and a
dereference puts the thread into `"undefined"`.  `ScheduleJob`, `NextBatch` and
`EndPass` are the second half, one scheduled job a step.  A worker's `Take`,
`Dispatch`, `Complete` (which is `CompleteRequest`), `Checkout` and `Leave` are
`Job::Dispatch` in its order.  `StopBegin`, `Revoke`, `StopClear` and `Free` are
`Processor::Stop` and its destruction; `Stop`'s loop of `Abort` over the
batches is one step, because it holds the lock.

Data: a request is its index in the batch, the message itself does not appear; a
response is the kind and the code of each of its elements.

### Commander (`src/Commander`)

`Find` looks the sequencer up and decides on the request (`Commander::Process`);
`Check` is the unlocked `IsActive`; `Load`, `Execute`, `Submit` are the three
critical sections of a PUT, `Abort` and `Revoke` the two of a DELETE.  `Proceed`
is the part of `Dispatch` between two commands, with the search for a label
(`NextIndex`: forward from the next step, then backward including the current
one).  `Control` and `Observe` are the two kinds of commands; an observer waits
on its event (`Observed`), which `Notify` or an `Abort` sets.  `StopAbort`,
`StopRevoke`, `Destroy`, `DestroyRevoke`, `DestroyAbort` are `Deinitialize` and
the destructor, in the code's order (the destructor revokes before it aborts).
The history `aborted` holds the PUTs whose run met an Abort.

Data: a command is a record of its kind, its label and the labels it returns; a
list is a sequence of those.  Assertions are off, as in a release build.

### SwitchBoard (`src/SwitchBoard`)

`Begin` takes the token (`_state` from `IDLE` to `INPROGRESS`) or is refused.
`Switch` is `Activate` up to the start of the plugin, `Stop` is `Deactivate` up
to the start of the default; `Start`, `ReportStart` and `Finish` end both.
`Activated`, `Deactivated` and `StateChange` are the notifications; the last two
take the token for the job (`Reevaluate`).  `Evaluate`, `EvaluateStart`,
`EvaluateReport` and `Release` are the job.  `Populate`, `StopOthers`,
`StartDefault`, `ReportDefault` are `Initialize`, and `Clear`, `Wait`,
`StopLast` `Deinitialize`; the polling loop is the guard of `Wait`.

What the SwitchBoard asks of one plugin (`Entry::Activate`,
`Entry::Deactivate`) is one step with an outcome: success, refusal, or waiting
for preconditions.  The plugins are external: which of them have an
`IStateControl`, are started automatically, may refuse, or are started by others
are constants.  Notifications are delivered later, in any order.

`OneSwitcher` counts who has the token, and `Initialize` until it sets IDLE
(l.351).  The start of the default after that is not counted: it is a start
beside whoever takes the token then, which the code permits.

Two histories: `outside` bounds what others do, and `strayed` records that
`Initialize` gave up at a plugin that refused (l.342), or that `Deactivate`
cleared `_activeCallsign` for another plugin (l.307).

### DHCPServer (`src/DHCPServer`)

`Discover`, `Acknowledge`, `Refuse` and `Unsupported` are `ReceiveData` by kind of
message; the sockets have one thread, so each is a step, but for `SaveLeases` in
an acknowledgement: it writes the list into an emptied file, which is `"written"`
until `Saved` leaves it `"whole"`, or `"torn"` when the writing failed on the way
(the code does not look), or it writes nothing, since there is no path or
`Create` fails, and the file is `"stale"`.  The client is acknowledged in each
case.  `Pick` is the choice of an address in the code's order: the client's
lease, the address it asks for, the first free one from `_nextFreeIp` on, the
first expired one.  `SendData` takes the first of `responses`, of which only the
validity is kept.  `Crash` and `Initialize` are a restart of the process or of
the plugin; the latter reads the file (`ReadLeases`), of a torn one any part, or
starts without leases, as there is no path or the file does not open
(`NoLeases`).  A crash with a file that is not whole, and a start that does not
read what is there, are recorded as `"parted"` until what was acknowledged has
run out.  An expiration is the time that is left, which `Tick` counts down;
`grant` is what the clients believe.  Clients are not modelled beyond that: they
send what they like.

### NetworkControl (`src/NetworkControl`)

`Dispatch` reads which of its cases it is in (`Case`) and acts on that in later
steps, each a disjunct of `Worker`: give up, discover again, install, repeat, go
on to the next offer.  `ReceiveOffer`, `ReceiveAck` and `ReceiveNak` are
`ProcessMessage` on the socket's thread, with `Wakes` for the callback into the
engine.  `Flush`, `ActivityUp` and `ActivityDown` are the calls that hold
`_adminLock`; `Revoked` is where they wait for the worker, `Unlocked` where the
worker waits for them.  A server offers one address, and an address is named by
its server; a message is the server and the transaction.  What was `sent` stays
answerable: late, twice or never.  A late acknowledgement is taken for the offer
that is asked for now, as the code takes it, and the behaviour goes on; it ends
only where the code uses the first of an empty list (`"undefined"`).

### TimeSync (`src/TimeSync`)

`Synchronize`, `Cancel`, `Dispatch`, `ReceiveData` and `StateChange` are the
client's; where one of them revokes the job under the lock there is a step that
waits (`SocketRevokes`, `CancelRevokes`).  `Notify`, `CallSynchronize`, `SetTime`
and the periodic job (`TimerStarts`, `TimerDispatch`) are the plugin's.  Both
locks are variables, as they are taken in both orders; a behaviour in which
each waits for the other stops (`Embraced`).

### FirmwareControl (`src/FirmwareControl`)

`Check`, `Begin`, `Refuse` and `Schedule` are `endpoint_upgrade`, and `resume`,
with their three critical sections.  `Start` to `InstallEnded` are the job;
`Wait` ends with the event or the time-out.  `InfoCollected`, `Transferred` and
`NotifyInstallStatus` are the callbacks.  `hash` says whether `_hash` holds one:
only then a transferred image is `"verified"`, otherwise it is `"whole"`
(`Complete`).  The manufacturer's library is external; an installation that was
given up goes on in it (`writing`), and its callback sets the event of the
upgrade that is downloading by then, which `late` records.  A behaviour goes on
after that; it ends when a second upgrade is scheduled beside the first
(`astray`).

### ProcessMonitor (`src/ProcessMonitor`)

`Activated`, `Deactivated` and the two halves of `Dispatch` (before and after it
has the lock).  `ScheduleJob` revokes under the lock that a started `Dispatch`
waits for; `locked` is that deadlock, and the behaviour ends there.

### Power (`src/Power`)

`Call`, `Walk`, `Ask`, `Save` and `Request` are `SetState`, and the POST that
controls the clients before it; `Start`, `Change`, `RevokeJob`, `Return`,
`PowerChange`, `WalkBack` and `Changed` are the job with its callback.  `Submit`
is `power_set_state` of the Linux implementation, which refuses when its
`trigger` file is not open or its job is submitted already; the state asked for
at boot passes it too.  `Control` is `ControlClients` without a lock, one client
at a time and each in steps of its own, for every thread that walks: `Reach`
reads the client's state or its `_lastStateResumed`, `Remember` sets the flag,
`Suspend` requests SUSPEND, `Forget` clears the flag, `Resume` requests RESUME;
either request may be refused.  Others use the clients' `IStateControl` too.
`owed` is whom a SUSPEND suspended and neither a RESUME nor others reached since.

### WifiControl (`src/WifiControl`)

`Invoke`, `Revoke`, `Forget` and `Respond` are the `ConnectRequest`; a Revoke gives
its lock up between finding the caller's request and forgetting it, so each of its
callers goes on in a step of its own (`Dropping`, `UserDropping`, `Answered`).  `Move`, `RevokeJob`
and `Moved` are `MoveState`, which gives the lock up to revoke the job;
`Scanned`, `Disconnected` and `Completed` use it on the socket's thread, and
`User...` are the steps of a `Connect` or `Disconnect` on the caller's.
`Dispatch` chooses between scanning, dropping a network and connecting.  The
supplicant answers and sends events as it likes.

### FileTransfer (`src/FileTransfer`)

`Write` is whoever appends to the file or empties it, with the notification;
`Dispatch`, `NewLine` and `EndDispatch` are the job, a line a step.  The file is
a sequence of pieces that are read as a line each; the position counts them.  The
file may fail to open, for `Dispatch`, which then reads nothing, and for
`GetCurrentPosition`, which then returns 0 (`TakePosition`); when that happens to
a file with lines it is read from its beginning `again`.

### WebProxy (`src/WebProxy`)

`Write` and `Read` are the cyclic buffer, byte by byte numbered, `ReceiveData`,
`ChannelReceive`, `ChannelSend` and `SendData` the four that use it.  Sockets and
serial ports are a `link` that is opened, closed, and delivers until then.

## 4. The runs

`CHECK_DEADLOCK FALSE` everywhere: clients send finitely many requests, and the
systems may then rest, be shut down, or stop in a deadlock the code has (section
6).  Twelve runs; each of the eight that pass takes a minute or two, the four
that end in a violation less.  Symmetry is used in runs without liveness only.

| Run | Instance | Shows |
|---|---|---|
| `mux_safety` | 2 batches of up to 2 requests and arrays of length 0 to 3, 2 workers, 1 client, limit 2; 405,706 states | job limit, order, no lost request or slot, complete answers, one owner for each batch, nothing scheduled after Stop, and the refinement of `BatchService` |
| `mux_live` | 2 batches of 1 or 2 requests that all fail, limit 1; 280,292 states | failures are reported; every accepted batch is answered, Stop ends |
| `mux_result` | smallest instance; violation | a successful request is answered as an error |
| `mux_scan` | 3 batches, 2 clients; violation | a scanning thread leaves the list with no shutdown involved |
| `seq_safety` | 2 PUTs, 2 DELETEs; lists that jump, wait, are empty or unknown; 1,185,731 states | the command that executes is the current one, no run without a job, an abort is final, a result leads to the nearest step of its label |
| `seq_live` | 2 PUTs, 1 DELETE, lists that end; 56,624 states | a run, a DELETE and a Deinitialize end |
| `seq_abort` | 1 PUT, 1 DELETE, an observer; violation | an Abort that the observer's ResetEvent forgets |
| `switch_safety` | plugins `a` (controlled, may refuse to stop), `c` (controlled, automatic, may wait, started by others), default `d`; 2 requests, 2 outside events; 237,704 states | one switcher, one active plugin unless strayed, INACTIVE stays, the token returns, Deinitialize ends |
| `switch_one` | the same, nobody refuses; violation | Deactivate of a plugin that is not the active one leaves two active |
| `dhcp_server` | 2 clients, 2 addresses, an offer lasts 1 tick and a lease 2, 2 queued responses; saves that fail, restarts; 2,104,743 states | no address is held twice, nobody is refused in vain, one lease a client, responses flow |
| `network` | 2 servers, 2 transactions, 1 retry, 2 offers, late answers; 5,156,557 states | the job is not lost, a lease was asked for, its address is installed |
| `plugins` | TimeSync: 1 server, 1 attempt, periodic; FirmwareControl and Power: 2 callers, Power 1 client; ProcessMonitor: 2 plugins, 3 processes; AutoConnect: 1 retry, 2 networks; FileTransfer: 4 pieces; WebProxy: buffers of 3, 5 bytes each way, reads of 1; 1,622,647 states | the properties of each |

**Bounds.**  JsonRpcMuxer: two workers and a client give three threads in
`Process` at once, which is what the list's races need; `mux_scan` needs a third
batch to have one before, at and after a position.  Arrays of length 0 and 3 meet
both refusals; a limit of 1 with two batches makes each wait for the other's slot.
Commander: two PUTs interleave between `Check`, `Load`, `Execute` and `Submit`;
two DELETEs let a `Revoke` meet a run that is not the one its `Abort` ended; three
commands have a forward, a backward and a missing label.  SwitchBoard: an active
plugin, another one and the default, of different kinds; two requests and the job
are three contenders for the token.  DHCPServer: two clients for two addresses
meet every branch of `Pick`; with two responses there is one behind the first; a
lease that outlives an offer expires in another order.  NetworkControl: a second
server is the next offer when the first does not answer, a second transaction
makes an answer late, one retry has a repeated request.  TimeSync: with one
server and one attempt the last attempt is the first; a longer list only repeats
`INPROGRESS`.  FirmwareControl: the library writes at most two images at a time
(`MaxWriting`), one that was given up beside the present one.  ProcessMonitor: three processes of two plugins are one restart
beside another deadline.  AutoConnect: two networks are one to drop and one to go
on with.  FileTransfer: the position of a file with lines is lost once at most; what
follows a second loss follows the first.  WebProxy: three bytes wrap, run over and are filled exactly.

**Fairness** (`FairSpec` of the first three modules).  JsonRpcMuxer: weak fairness
of each client's call in progress, of each worker (with `Take`: the pool serves
its queue) and of a shutdown that was begun; nothing obliges a client to call or
the framework to shut down.  Commander: each request in progress, the worker and
a shutdown that was begun; no plugin has to change its state, so an observer may
wait forever.  SwitchBoard: each request that has the token, the worker and
`Deinitialize`; requests and outside events are finitely many, so weak fairness
suffices for the polling in `Deinitialize`: with unbounded contention the code
gives no guarantee.  The later modules state no liveness under fairness: each has
a deadlock, or drops a response or a request for good, in the code (section 6).
What must happen is stated there as an invariant instead: while something is
under way, somebody is set to go on with it (`Awake`, `GoesOn`,
`NextIsScheduled`, `KeepsTrying`, `ResponsesFlow`).

Every property of a passing run has a mutant in `PROJECT.json` for which TLC
finds it violated.

## 5. The proofs

The theorems hold for every value of the constants under the named assumptions
of the modules: any number of batches, threads, requests, plugins, clients,
addresses; any lists; any limits.  Every invariant and every action property
that a passing run checks is stated by a theorem, and so is the refinement.

| Module | Theorems |
|---|---|
| `JsonRpcMuxerProofs` | `Invariance`, `TypeCorrect`, `JobLimitHolds`, `InOrderHolds`, `NothingScheduledHolds` |
| `MuxerServiceProofs` | `ServiceInvariance`, `OneOwnerHolds`, `AnsweredInTimeHolds`, `FailureReportedHolds`, `ServiceImplemented`, `NothingDropped`, `NothingLostHolds` |
| `SequencerProofs` | `Invariance`, `CurrentStepHolds`, `LoadedIsHeldHolds`, `RunHasJobHolds`, `AbortIsFinalHolds`, `ListInvariance`, `TypeCorrect`, `JumpsToNearestHolds` |
| `SwitchBoardProofs` | `Invariance`, `TypeCorrect`, `OneSwitcherHolds`, `StaysInactiveHolds`, `OneActiveHolds` |
| `DhcpServerProofs` | `Invariance`, `TypeCorrect`, `OneLeaseEachHolds`, `GrantExclusiveHolds`, `ResponsesFlowHolds`, `RefusedOnlyWhenFullHolds` |
| `DhcpClientProofs` | `Invariance`, `TypeCorrect`, `AwakeHolds`, `LeaseAskedForHolds`, `InstalledHolds` |
| `PluginJobProofs` | `GoesOnHolds`, `NextIsScheduledHolds`, `KeepsTryingHolds`, `StaysRevokedHolds`, `InstalledIsWholeHolds`, `NextIsAcceptedHolds` |
| `PluginDataProofs` | `NobodyForgottenHolds`, `PersistedIsCurrentHolds`, `ArrivesInOrderHolds`, `TypeCorrect` |

**JsonRpcMuxer, the jobs.**  `JobLimit` is not inductive: that the pool stays
within the limit after Stop depends on the slots Stop took away, that a sequential
batch has one job out depends on `activeCount`, and that nothing is scheduled
after Stop depends on every batch in the list being aborted while a thread is
between `Answer` and `Relock`.  `IndInv` = `TypeOK`, `Control` (where a thread is
decides what its locals hold and whether it has the lock), `Admitted`
(only accepted batches are in the list), `OnePlace` (a job is in the pool or on
one worker), `Slots` (every outstanding job has a slot, of `_activeJobs` or of
the list Stop revokes), `OneAtATime`.  The assumptions are that threads and
batches are disjoint from `Nobody`, workers from clients, and that the limits
are natural numbers.

**JsonRpcMuxer, the service.**  `ServiceInv` is inductive relative to `IndInv`:
`Owned` (a batch that lives is in the list once or with one thread, which nobody
else holds), `Tallied` (`_completed` counts the completed requests, so a batch is
COMPLETED with its last), `Underway` (a request that was handed out is completed
or outstanding, and its batch lives), `Replied` (an answered batch is deleted, and
the answer is what its requests left), `Recorded` (a request has the code it was
completed with).  Two lemmas say what erasing an element of the list does to the
positions before and after it.  From these follow `OneOwner`, `AnsweredInTime`
and `FailureReported`.  `ServiceImplemented` maps every step: the steps of the
lock, the list and the scan are none of `BatchService`; a submission, a start, a
completion, an answer and Stop are its steps.

That no batch is left behind (`NothingLost`) needs an argument about threads that
have not arrived yet.  `AttendedTo` says: unless a job is out or a thread is on
its way to `Process`, there is for each batch of the list a thread whose pass will
come to it, to a finished batch in its scan (its position is not beyond it), to
another one in its scheduling (in this pass, or in the next one if it scheduled
something).  An unfinished batch with nothing to schedule has a job out
(`WaitingIsBusy`), and so has a full list of active jobs (`ActiveIsBusy`).  That
last lemma, and only it, needs `MaxConcurrentJobs > 0`, which is why the theorem
states it.  The code does not check the configured value
(`JsonRpcMuxer.cpp:659`): with 0, the loop at l.564 is never entered, and no batch
that was accepted is executed or answered.  `NothingDropped` is the part
that holds for every limit.

**Sequencer.**  `IndInv` = `ControlTypes`, `WorkerHasJob` (a thread is in
`Dispatch` exactly while the job executes), `CurrentStep`, `LoadedIsHeld`,
`RunHasJob`.  `CurrentStep` needs that nobody loads while a run is active
(`Refuses`), `RunHasJob` that a `Submit` on an executing job is not dropped.
`JumpsToNearest` rests on three lemmas about recursive functions: where the two
scans of `Dispatch` stop (`ForwardFinds`, `BackwardFinds`), and that `Create`
makes a list of command objects (`CreateType`).  Each is proved from the least
index at which something would go wrong, as an induction over an operator is out
of reach: a function with the wanted values satisfies the recursion, and two that
satisfy it agree.  `ListInv` then says that the list is one of command objects and
the index a number, and with `CurrentStep` that the index is one of the list, so
that `NextIndex` is where `Nearest` says.  `AbortIsFinal` is about a run and not
about the state: as long as the list of an aborted PUT is loaded the state is
ABORTING, although an `Execute` may come late, and a PUT that was aborted, or whose
list is loaded, loads no other (`AbortInv`).

**SwitchBoard.**  The invariant has two halves.  `TokenInv` speaks of control
only: who switches, whether the job has the token, when the state is INACTIVE.
It suffices for `OneSwitcher` and `StaysInactive`, whatever the plugins do.
`GroupInv` adds the plugins: `Targets` (who starts a plugin has seen to it that
no other one is `_activeCallsign`), `PlainShape`, and `AllAccounted` (what is
active is `_activeCallsign`, or about to be reported, or still to be stopped by
`Initialize`).  Its proof uses the first half in every step (`Alone`): only the
holder of the token starts and stops plugins.  Two lemmas say what
`Entry::Activate` and `Entry::Deactivate` do to the group.  `OneActive` is about
`Plain` plugins, those that only the SwitchBoard starts and that need not wait
for preconditions.

**DhcpServer.**  `OneLeaseEach` is inductive with the types: `Pick` offers a lease
to a client only when it has none, or its own (`PickFree`), and the file is
always a state the list was in.  `GrantExclusive` is not: that an address is not
given to a second client depends on the lease behind the first one's grant, and
across a restart on the file.  `AllBacked` says that the list of a running
server, and the file unless it is stale or torn, lease the granted address to the
client for at least as long as the grant; with `OneLeaseEach` nothing else can be
`Picked` for it.  So a save that fails does no harm while the server runs, nor
when a later one succeeds.  `TornWhere` says that an end of the process with a
file that is not whole is recorded, after which nothing is claimed until what was
acknowledged has run out.  `Attended` gives `ResponsesFlow`
across `Close` and `Open`.  `RefusedOnlyWhenFull` needs `SearchedAll`: every
address before `_nextFreeIp` is leased, since the search stops at the least free
one (`LeastExists`) and no step of an open server takes an owner away.  The
assumptions are that `Nobody` is no client, `Nowhere` no address, and the times
positive; the pool may be any interval.

**DhcpClient.**  `Awake`, `LeaseAskedFor` and `Installed` are invariants of three
threads without a common lock, and none is inductive.  `IndInv` adds the types,
`Transaction` (the offer that is asked for is of the present transaction, unless a
Discover is just being started), `Leased` (a lease ended the exchange, was asked
for, and its offer is still the first one or the list was emptied), `Storing` (the
lease stays while `Dispatch` stores it and sets the address), `Configured` (beside
the address of the settings the adapter has at most the one that is being tried)
and `Scheduled` (a Discover leaves its job scheduled until a Dispatch takes it).
`Awake` holds after late acknowledgements too, up to the use of an empty list;
`LeaseAskedFor` and `Installed` speak of what happens before one.
The assumptions are that `Nobody` and `All` are no servers and differ, that `NoXid`
is no transaction, and that the bounds are natural numbers.

**The seven plugins.**  The theorems are about `Plugins`, where one of them runs.
Each has an invariant relative to its own variables and the others stay as they
are; the last step combines the seven.

- *TimeSync* (`TimeInv`): `GoesOn` is inductive with `Announcing`, which says that
  the job announces an end under the client's lock and so sees no other state.
- *ProcessMonitor* (`MonitorInv`): the types, and that the earliest exit time is
  what `Earliest` returns; for any processes, times and time-out.
- *AutoConnect* (`WifiInv`): `KeepsTrying` by itself, `StaysRevoked` from
  `Revoked`: from the moment Revoke has the lock nothing is left, neither a
  callback nor a move that was begun, that could bring it back.
- *FirmwareControl* (`FirmwareInv`): `Phases` says what the one event, the engine
  and the image are in each phase of an upgrade, so that a callback of one phase
  is not taken for another's, until a late installation sets it; `GivenBack` that the final status is set before the
  job ends and is then left alone until a request starts.
- *Power* (`PowerInv`): `Updated`, `Saved`, `Walks`, `Doing`, `Flagged`,
  `Resuming`.  What is persisted is the present state, or what a call or a queued
  job is about to make it; whom a SUSPEND suspended, or is on its way to, has its
  flag set, or is being resumed, or its flag was cleared in between
  (`overtaken`); a flag that is set in On belongs to a client the job has still
  to look at, or somebody is about to leave On.
- *FileTransfer* (`FileInv`): what will be read next was written after everything
  that is queued (`Forward`, `Rising`), as lines are numbered in the order they
  were `Written`, until the position of a file with lines is lost; that the queue
  has the socket's attention (`Queue`) holds always.
- *WebProxy* (`ProxyInv`): each byte of the buffer is known by its age, the number
  of bytes written since (`Age`); a byte not older than what the buffer holds is
  the one that was written then (`Held`), and what arrived is what was written
  less what is held (`Counted`), until the buffer ran full.
- `BoxTypes` is `TypeOK` with the relations that it needs.

The assumptions are that counts are natural numbers (`CountAssumption`), a buffer
has at least two bytes and a send one (`BufferAssumption`), the file one piece
(`PieceAssumption`), and that `"job"`, the name of the thread of Power's job, is no
caller (`CallerAssumption`).

**Model-checked only.**  The liveness properties `EveryBatchAnswered`, `StopEnds`,
`RunEnds`, `WaitsEnd` and `SwitchesEnd`: TLAPS proves neither liveness under
fairness nor ENABLED.  The library's induction theorems take an operator as a
parameter, which the provers cannot instantiate; where a recursive definition had
to be reasoned about, least elements (`WFMin`) took their place.
`LoadedIsHeld` and the `TypeOK` of `Sequencer` and `DhcpClient`, on the other
hand, are proved and checked by no run.

## 6. What the models showed

Runs that end in a violation, each quoted against the code's own words in
`PROJECT.json` (`findings`):

1. `mux_result`: a successful request is answered with an error object, since
   `_errorCode` keeps the `ERROR_GENERAL` it was constructed with.
2. `mux_scan`: `Process` keeps an iterator over an unlock; concurrent batches
   take a thread out of the list without any shutdown.
3. `seq_abort`: an Abort between the unlock in `Dispatch` and the observer's
   `ResetEvent` is forgotten.
4. `switch_one`: `Deactivate`'s last comparison is inverted.

Seen in the models, without a run of their own:

- JsonRpcMuxer: a thread that answers while Stop begins goes on to answer the
  aborted batches (against `Readme.md:315`); the processor may be deleted under a
  worker in `Checkout`, between its unlock and its read of `_shuttingDown`.
- Commander: a DELETE that takes the job from the queue leaves the sequencer
  ABORTING for good and answers that it is available (`Commander.cpp:227`); two
  PUTs may both pass the unlocked check, so that the assertion at
  `Commander.h:327` fails in a debug build, and the refused one is answered
  "Sequence List Imported"; an empty list submits a job for which the assertion
  at l.453 fails; the destructor revokes before it aborts, and waits forever when
  an observer waits.
- SwitchBoard: `Deinitialize` uses `_activeCallsign` after it cleared the map it
  points into; a plugin that goes down while a switch is in progress is not
  replaced; a plugin that waits for preconditions is active for `IsActive`, but
  not deactivated.
- DHCPServer: `Request` acknowledges the address that was asked for, not the
  lease's, whichever server was named ("parted"); a REQUEST without a server is
  refused and invalidates the lease; `SaveLeases` truncates the file and then
  writes it, and does not look whether it could; without a persistent path, or when
  `Create` fails, it writes nothing and tells nobody: after a restart an
  acknowledged address may be handed out again ("parted"); an empty response is queued, since `IsValid` asks the
  proxy, and its drop leaves the next one behind ("stuck"); RELEASE and DECLINE
  are ignored.
- NetworkControl: an acknowledgement after the last retry makes a lease whose
  address is not installed ("removed"); only the transaction of an
  acknowledgement is checked, not its server, so a late one makes a lease of the
  offer that is asked for by then ("late"); `_offers` is changed
  without a common lock, and the first of an empty list used ("undefined"); Flush
  and Activity wait, under the lock, for a job that needs it; an offer that
  answers the last Discover is thrown away (l.556), so without retries there is
  no lease ever; the address stays when the lease is over.
- TimeSync: after a synchronisation FAILED, `Synchronize` refuses for
  good; a failed or cancelled synchronisation announces an older stamp and sets
  the clock back, also over one that was set by a user; the periodic job may be
  rescheduled after `Deinitialize` revoked it; servers that never answer are
  tried forever; revoking under a lock deadlocks (`NTPClient.cpp:122`, `:259`).
- FirmwareControl: two upgrades may start (`FirmwareControlJsonRpc.cpp:74`, `:79`),
  and a refused request resets the other's status; the status is NONE before the
  file is removed and the engine closed; a callback of an installation that was given
  up completes the next download, of which there may be a part only ("late"); a
  download waits `waittime` thousand times longer
  than an installation (`FirmwareControl.cpp:149`, `:191`).
- ProcessMonitor: the job is revoked under the lock its Dispatch waits for
  ("locked"); a plugin that is started again within the time keeps its old entry.
- Power: `ControlClients` walks the clients without the lock ("lost"); a Resume
  that clears `_lastStateResumed` after a Suspend of the same client has set it, and
  before it requests SUSPEND, leaves the client suspended for good ("overtaken"); a
  refused `SetState` leaves the clients suspended and the state saved ("refused"),
  and so does the one at boot when the trigger file is not open; a request that was accepted is dropped by a wake-up; a plugin that is activated in
  standby is not suspended.
- WifiControl: AutoConnect's lock is kept while the Controller's is waited for,
  and the other way round (`Embraced`); a wrong key drops a network, and the next
  Dispatch another one, also from an empty list; a late failure is attributed to
  the network that is tried now; a revoked request's response completes the next.
- FileTransfer: an empty line ends the reading, and the position moves to the end
  of the file, so the lines between are never sent; neither is what is appended
  between the last line's reading and `GetCurrentPosition`; when the file does not
  open, that returns 0, and the whole file is sent once more ("again").
- WebProxy: a write that fills the buffer to its last byte leaves head = tail, and
  all that was pending is lost ("full"); data of a link whose channel is detached
  dereferences a null `_channel` ("crash").

The names in quotes are history variables, or values of them (`strayed`, `astray`,
`removed`, `late`, `refused`, `lost`, `overtaken`, `again`, `gap`), that record such
a step; a property that says
what holds up to it names it.

## 7. Not modelled, and why

- JsonRpcMuxer: the parsing of messages, the token check and the channel's
  transport; a request that deactivates the JsonRpcMuxer itself (external).
- Commander: GET, which only reads; the registration of further command classes
  by other plugins.
- SwitchBoard: the parsing of URLs, the observers of `ISwitchBoard`, an
  `Initialize` that finds no group.
- DHCPServer: the encoding of messages, identifiers of more than 16 bytes (which do
  not survive a restart), several interfaces, the JSON-RPC calls.
- NetworkControl: static and manual interfaces, release, DNS, the kernel's side of
  the adapters; the socket is open exactly while the client is not IDLE.  The steps
  of Flush and Activity from the end of Revoke to the client's critical section are
  taken as one.  A variant with each of them apart is too large for a run (12 to 15
  million states); it was examined once.  In it a Dispatch that the socket's thread
  reschedules in between can leave the adapter with two addresses, so `Installed`
  excludes that interleaving; the other properties hold in it.
- Behaviours end at a deadlock the code has: where TimeSync's or AutoConnect's locks
  are taken in both orders (`Embraced`), and where ProcessMonitor revokes under the
  lock its Dispatch waits for (`locked`).  `GoesOn`, `KeepsTrying` and
  `NextIsScheduled` say nothing of what is stuck there.
- TimeSync: the arithmetic of packets.  FirmwareControl: the destructor's Stop,
  which keeps the lock that the job needs.  ProcessMonitor: process ids that are
  used again, `_exittimeout` beyond 4294 seconds.  Power: the power key, other
  platforms, Deinitialize.  WifiControl: WPS, stored configurations, access point
  mode, two API calls at a time.  FileTransfer: a second activation, an unopened
  socket.  WebProxy: the map of connectors.
- The framework (worker pool, channels, plugin states) is external: it is
  modelled from how the plugins use it.
- The remaining components are listed in `PROJECT.json` with a reason each: most
  are adapters of a driver or a library, whose state is not in this repository.

## 8. The plan

Done: JsonRpcMuxer with its abstract service, Commander, SwitchBoard, DHCPServer and
NetworkControl with runs, mutants and proofs; seven more plugins likewise, as far as
section 7 says.  What is left, in this order:

1. More refinements: an abstract address pool that DhcpServer implements, and an
   abstract exclusive switch that SwitchBoard implements, with proofs.
2. The predicates that liveness rests on (from each state that is not at rest some
   fair action is enabled), as invariants that name the guards.
3. For FileTransfer and WebProxy, what is lost and when, as a relation between
   what was written and what arrived instead of its order only.
