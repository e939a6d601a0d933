-------------------------- MODULE FirmwareControl --------------------------
(***************************************************************************)
(* The FirmwareControl plugin: the requests that start or resume an        *)
(* upgrade, the job that downloads and installs it, and the callbacks of   *)
(* the download engine and of the manufacturer's library, which all share  *)
(* one status and one manual-reset event.                                  *)
(*                                                                         *)
(* A behaviour is followed until an upgrade is scheduled beside another.   *)
(***************************************************************************)
EXTENDS Naturals

CONSTANT Caller   \* the threads that may call upgrade or resume

VARIABLES
  upgradeStatus,     \* _upgradeStatus
  signalled,         \* _signal
  downloadStatus,    \* _downloadStatus
  installStatus,     \* the progress of _installStatus
  resuming,          \* _position is not zero
  hash,              \* _hash is not empty
  image,             \* the file: "none", "partial", "whole", or "verified" too
  requests,          \* where each request is
  upgradeJob,        \* _upgrader is submitted
  upgrade,           \* where Upgrade is
  ending,            \* how it ends: the error of its final status
  engine,            \* what the DownloadEngine is busy with
  resumable,         \* its _isResumeSupported
  writing,           \* how many images the library is writing
  late,              \* history: an installation that was given up has set the
                     \* event while this upgrade was downloading
  astray             \* history: see above

firmwareVars ==
  <<upgradeStatus, signalled, downloadStatus, installStatus, resuming, hash,
    image, requests, upgradeJob, upgrade, ending, engine, resumable, writing,
    late, astray>>

orderVars   == <<resuming, hash>>
jobVars     == <<upgradeJob, upgrade, ending>>
engineVars  == <<engine, resumable, downloadStatus>>
installVars == <<writing, installStatus>>
historyVars == <<late, astray>>

\* An earlier boot may have left a part of an image
Init ==
  /\ upgradeStatus = "NONE"
  /\ signalled = FALSE
  /\ downloadStatus = "none"
  /\ installStatus = "NOT_STARTED"
  /\ resuming = FALSE
  /\ hash = FALSE
  /\ image \in {"none", "partial"}
  /\ requests = [r \in Caller |-> "idle"]
  /\ upgradeJob = FALSE
  /\ upgrade = "idle"
  /\ ending = "none"
  /\ engine = "none"
  /\ resumable = FALSE
  /\ writing = 0
  /\ late = FALSE
  /\ astray = FALSE

Underway == upgradeJob \/ upgrade # "idle"

-----------------------------------------------------------------------------
(* The requests.  The status is checked in one critical section, set in    *)
(* another, and what a request asks for is stored in a third.              *)

Check(r) ==
  /\ requests[r] = "idle"
  /\ upgradeStatus = "NONE"
  /\ requests' = [requests EXCEPT ![r] = "checked"]
  /\ UNCHANGED <<upgradeStatus, signalled, orderVars, image, jobVars,
                 engineVars, installVars, historyVars>>

Begin(r) ==
  /\ requests[r] = "checked"
  /\ upgradeStatus' = "UPGRADE_STARTED"
  /\ requests' = [requests EXCEPT ![r] = "started"]
  /\ UNCHANGED <<signalled, orderVars, image, jobVars, engineVars, installVars,
                 historyVars>>

\* No name, or a hash of the wrong length: the status is given back, whoever
\* has it by now
Refuse(r) ==
  /\ requests[r] \in {"checked", "started"}
  /\ upgradeStatus' = "NONE"
  /\ requests' = [requests EXCEPT ![r] = "idle"]
  /\ UNCHANGED <<signalled, orderVars, image, jobVars, engineVars, installVars,
                 historyVars>>

\* upgrade may have given a hash, resume takes that of before
Schedule(r, resume) ==
  /\ requests[r] = "started"
  /\ resuming' = (resume /\ image # "none")
  /\ hash' \in IF resume THEN {hash} ELSE BOOLEAN
  /\ signalled' = FALSE
  /\ upgradeJob' = TRUE
  /\ late' = FALSE
  /\ astray' = Underway
  /\ requests' = [requests EXCEPT ![r] = "idle"]
  /\ UNCHANGED <<upgradeStatus, image, upgrade, ending, engineVars, installVars>>

-----------------------------------------------------------------------------
(* The job.                                                                *)

SlipFinish(status, error) ==
  /\ upgradeStatus' = status
  /\ ending' = error
  /\ upgrade' = "close"
\* Status(...) of a final status, up to the event
Finish(status, error) ==
  /\ upgradeStatus' = status
  /\ ending' = error
  /\ upgrade' = "reset"

\* Status(...) of another one
Report(status, next) ==
  /\ upgradeStatus' = status
  /\ upgrade' = next
  /\ UNCHANGED ending

\* Upgrade is started: there is a directory for the image, and a new engine, or
\* not
Start ==
  /\ upgradeJob
  /\ upgrade = "idle"
  /\ upgradeJob' = FALSE
  /\ \/ /\ upgrade' = IF resuming THEN "resume" ELSE "download"
        /\ resumable' = FALSE
        /\ UNCHANGED <<upgradeStatus, ending>>
     \/ Finish("DOWNLOAD_ABORTED", "aborted") /\ UNCHANGED resumable
  /\ UNCHANGED <<signalled, orderVars, image, requests, engine, downloadStatus,
                 installVars, historyVars>>

\* Resume, up to the wait
Resume ==
  /\ upgrade = "resume"
  /\ \/ /\ engine' = "info"
        /\ upgrade' = "collecting"
        /\ UNCHANGED <<upgradeStatus, ending>>
     \/ /\ \E error \in {"unavailable", "aborted"} : Finish("DOWNLOAD_ABORTED", error)
        /\ UNCHANGED engine
  /\ UNCHANGED <<signalled, orderVars, image, requests, upgradeJob, resumable,
                 downloadStatus, installVars, historyVars>>

SlipReset == TRUE
\* The event is manual-reset, and reset after each wait
AfterWait == FALSE

\* WaitForCompletion, in a phase: the event was set, or the time is over
Wait(phase) ==
  /\ upgrade = phase
  /\ signalled' = IF signalled THEN AfterWait ELSE FALSE

\* Resume, after the wait
Collected ==
  /\ Wait("collecting")
  /\ IF signalled /\ resumable
     THEN upgrade' = "download" /\ UNCHANGED <<upgradeStatus, ending>>
     ELSE Finish("DOWNLOAD_ABORTED", "aborted")
  /\ UNCHANGED <<orderVars, image, requests, upgradeJob, engineVars,
                 installVars, historyVars>>

\* Download, up to its first status; a new file is created, an old one opened
Download ==
  /\ upgrade = "download"
  /\ \/ /\ resuming => image # "none"
        /\ engine' = "transfer"
        /\ image' = IF resuming THEN image ELSE "partial"
        /\ upgrade' = "opened"
        /\ UNCHANGED <<upgradeStatus, ending>>
     \/ /\ image' \in {image, IF resuming THEN image ELSE "partial"}
        /\ \E error \in {"unavailable", "aborted"} : Finish("DOWNLOAD_ABORTED", error)
        /\ UNCHANGED engine
  /\ UNCHANGED <<signalled, orderVars, requests, upgradeJob, resumable,
                 downloadStatus, installVars, historyVars>>

DownloadStarted ==
  /\ upgrade = "opened"
  /\ Report("DOWNLOAD_STARTED", "downloading")
  /\ UNCHANGED <<signalled, orderVars, image, requests, upgradeJob, engineVars,
                 installVars, historyVars>>

\* The status that the callback left is looked at after the wait
Downloaded == downloadStatus = "none"

\* Download, after the wait
DownloadEnded ==
  /\ Wait("downloading")
  /\ IF signalled /\ Downloaded
     THEN Report("DOWNLOAD_COMPLETED", "completed")
     ELSE Finish("DOWNLOAD_ABORTED",
                 IF signalled /\ downloadStatus = "unavailable" THEN "unavailable"
                                                                ELSE "aborted")
  /\ UNCHANGED <<orderVars, image, requests, upgradeJob, engineVars,
                 installVars, historyVars>>

\* The end of a final status: the status is given back, and then the file is
\* removed, unless its download may be resumed
ResetStatus ==
  /\ upgrade = "reset"
  /\ upgradeStatus' = "NONE"
  /\ upgrade' = "remove"
  /\ UNCHANGED <<signalled, orderVars, image, requests, upgradeJob, ending,
                 engineVars, installVars, historyVars>>

RemoveDownloadedFile ==
  /\ upgrade = "remove"
  /\ image' = IF ending = "unavailable" THEN image ELSE "none"
  /\ upgrade' = IF ending = "installed" THEN "idle" ELSE "close"
  /\ UNCHANGED <<upgradeStatus, signalled, orderVars, requests, upgradeJob,
                 ending, engineVars, installVars, historyVars>>

\* The engine is closed, and its callbacks are over
Close ==
  /\ upgrade \in {"completed", "close"}
  /\ engine' = "none"
  /\ upgrade' = IF upgrade = "completed" THEN "install" ELSE "idle"
  /\ UNCHANGED <<upgradeStatus, signalled, orderVars, image, requests,
                 upgradeJob, ending, resumable, downloadStatus, installVars,
                 historyVars>>

\* How many images the library may be writing: a bound
MaxWriting == 2

\* Install, up to its first status
Install ==
  /\ upgrade = "install"
  /\ \/ /\ writing < MaxWriting
        /\ writing' = writing + 1
        /\ upgrade' = "initiated"
        /\ UNCHANGED <<upgradeStatus, ending>>
     \/ /\ Finish("INSTALL_ABORTED", "installed")
        /\ UNCHANGED writing
  /\ UNCHANGED <<signalled, orderVars, image, requests, upgradeJob, engineVars,
                 installStatus, historyVars>>

InstallInitiated ==
  /\ upgrade = "initiated"
  /\ Report("INSTALL_INITIATED", "installing")
  /\ UNCHANGED <<signalled, orderVars, image, requests, upgradeJob, engineVars,
                 installVars, historyVars>>

\* Install, after the wait.  What is not final stays the status
InstallEnded ==
  /\ Wait("installing")
  /\ CASE ~signalled \/ installStatus = "ABORTED" -> Finish("INSTALL_ABORTED", "installed")
       [] signalled /\ installStatus = "COMPLETED" -> Finish("UPGRADE_COMPLETED", "installed")
       [] OTHER -> Report("INSTALL_NOT_STARTED", "idle")
  /\ UNCHANGED <<orderVars, image, requests, upgradeJob, engineVars,
                 installVars, historyVars>>

-----------------------------------------------------------------------------
(* The callbacks.                                                          *)

InfoCollected ==
  /\ engine = "info"
  /\ engine' = "none"
  /\ downloadStatus' \in {"none", "unavailable"}
  /\ resumable' \in {FALSE, downloadStatus' = "none"}
  /\ signalled' = TRUE
  /\ UNCHANGED <<upgradeStatus, orderVars, image, requests, jobVars,
                 installVars, historyVars>>

\* The hash is looked at when there is one
Complete == IF hash THEN "verified" ELSE "whole"

Transferred ==
  /\ engine = "transfer"
  /\ engine' = "none"
  /\ downloadStatus' \in {"none", "unavailable", "failed"}
  /\ image' = IF downloadStatus' = "none" /\ image # "none" THEN Complete ELSE image
  /\ signalled' = TRUE
  /\ UNCHANGED <<upgradeStatus, orderVars, requests, jobVars, resumable,
                 installVars, historyVars>>

\* An upgrade has not waited for its download yet
Downloading ==
  \/ upgradeJob
  \/ upgrade \in {"resume", "collecting", "download", "opened", "downloading"}

\* NotifyInstallStatus of what is final; the rest is only announced
NotifyInstallStatus ==
  /\ writing > 0
  /\ writing' = writing - 1
  /\ installStatus' \in {"COMPLETED", "ABORTED"}
  /\ signalled' = TRUE
  /\ late' = (late \/ Downloading)
  /\ UNCHANGED <<upgradeStatus, orderVars, image, requests, jobVars, engineVars,
                 astray>>

Upgrade ==
  \/ Start \/ Resume \/ Collected \/ Download \/ DownloadStarted
  \/ DownloadEnded \/ ResetStatus \/ RemoveDownloadedFile \/ Close
  \/ Install \/ InstallInitiated \/ InstallEnded

Next ==
  /\ ~astray
  /\ \/ \E r \in Caller :
          \/ Check(r) \/ Begin(r) \/ Refuse(r)
          \/ \E resume \in BOOLEAN : Schedule(r, resume)
     \/ Upgrade
     \/ InfoCollected \/ Transferred \/ NotifyInstallStatus

Spec == Init /\ [][Next]_firmwareVars

-----------------------------------------------------------------------------
\* Every variable keeps its type.
TypeOK ==
  /\ upgradeStatus \in {"NONE", "UPGRADE_STARTED", "DOWNLOAD_STARTED",
                        "DOWNLOAD_ABORTED", "DOWNLOAD_COMPLETED",
                        "INSTALL_INITIATED", "INSTALL_NOT_STARTED",
                        "INSTALL_ABORTED", "UPGRADE_COMPLETED"}
  /\ downloadStatus \in {"none", "unavailable", "failed"}
  /\ installStatus \in {"NOT_STARTED", "COMPLETED", "ABORTED"}
  /\ image \in {"none", "partial", "whole", "verified"}
  /\ requests \in [Caller -> {"idle", "checked", "started"}]
  /\ upgrade \in {"idle", "resume", "collecting", "download", "opened",
                  "downloading", "completed", "reset", "remove", "close",
                  "install", "initiated", "installing"}
  /\ ending \in {"none", "unavailable", "aborted", "installed"}
  /\ engine \in {"none", "info", "transfer"}
  /\ writing \in 0 .. MaxWriting
  /\ {signalled, resuming, hash, upgradeJob, resumable, late, astray} \subseteq BOOLEAN

\* What is installed was downloaded to its end, and verified when a hash was given:
\* the event of one phase does not complete the next one, nor does an old status,
\* unless the installation of an upgrade before, given up in time-out, is over
\* while this one is downloading: then the code installs what there is of it.
InstalledIsWhole ==
  ~astray /\ ~late /\ upgrade \in {"install", "initiated", "installing"}
    => image = Complete

\* Once nothing is under way, however it ended, the next upgrade is accepted.
NextIsAccepted ==
  ~astray /\ ~Underway /\ (\A r \in Caller : requests[r] # "started")
    => upgradeStatus = "NONE"
=============================================================================
