----------------------- MODULE ModelDownloadController -----------------------
(***************************************************************************)
(* lib/app/model_download_controller.dart with the background download     *)
(* engine, as the app ships it.  Dart runs one handler at a time up to its *)
(* next await, so every action is one such stretch: an activation of an    *)
(* async method records in its pc what it is waiting for, and everything   *)
(* it reads again after the await may have changed in between.             *)
(***************************************************************************)
EXTENDS BackgroundDownloader, FiniteSets

CONSTANTS
  Calls,         \* activations of methods called by the user interface
  Finalizers,    \* activations of _completeBackgroundDownload by an update
  Completers,    \* Completer objects of one process lifetime
  None,          \* Dart's null
  MaxCalls,      \* bound: user calls in one process lifetime
  MaxRestarts,   \* bound: times the process is killed
  Throwing       \* the waits that may end in an exception

Activations == Calls \cup Finalizers

ASSUME DistinctAssumption ==
  /\ Calls \cap Finalizers = {}
  /\ None \notin Models \cup Completers
  /\ Models \cap {"unused", "pending"} = {}
ASSUME BoundsAssumption ==
  /\ MaxCalls \in Nat /\ MaxRestarts \in Nat

VARIABLES
  ctl,       \* the controller's fields
  future,    \* future[c]: how the future of Completer c stands
  act,       \* act[a]: the async activation a
  made,      \* user calls made since the process started
  restarts   \* times the process was killed

appVars == <<ctl, future, act, made, restarts>>
vars    == <<engineVars, appVars>>

(* ModelDownloadPhase *)
Phases == {"idle", "downloading", "paused", "finalizing", "completed", "failed"}

(* A future is not created yet, pending, completed with an error, with     *)
(* DownloadCancelledException, or with the path of a model.                *)
Futures == {"unused", "pending", "error", "cancelled"} \cup Models

(* What an activation waits for.                                           *)
Waits == {"done",
  "client", "list", "listed", "records", "recordsRead", "reattach",
  "storage", "dropRecord", "enqueue", "enqueueFailed",
  "pause", "paused", "resume", "cancel", "cancelRecord", "erase",
  "deleteCancel", "deleteCancelRecord", "delete", "deleteFile",
  "validate", "path", "refresh", "readiness"}

(* Those of them that are not about one model.                             *)
Modelless == {"done", "client", "list", "listed", "records", "recordsRead", "readiness"}

Controller == [
  initialized:   BOOLEAN,
  registered:    BOOLEAN,                    \* callbacks are registered
  downloaded:    SUBSET Models,
  model:         Models \cup {None},         \* _downloadingModel, _downloadingFileName
  phase:         Phases,
  failure:       BOOLEAN,                    \* _lastErrorMessage is not null
  completer:     Completers \cup {None},     \* _currentBackgroundCompleter
  current:       Completers \cup {None},     \* _currentDownload, by its Completer
  lastCompleted: Models \cup {None},         \* _lastCompletedPath, by its model
  version:       Nat]                        \* _completedDownloadVersion

Activation == [
  pc:        Waits,
  model:     Models \cup {None},
  completer: Completers \cup {None},
  files:     SUBSET Models,                         \* files seen by the loader
  records:   [Models -> Status \cup {"none"}]]      \* records read

NoRecords == [m \in Models |-> "none"]
Done == [pc |-> "done", model |-> None, completer |-> None,
         files |-> {}, records |-> NoRecords]

(* The type of the state; an activation that works on a model still has it *)
(* after each of its awaits, whatever became of the fields.                *)
TypeOK ==
  /\ EngineTypeOK
  /\ ctl \in Controller
  /\ future \in [Completers -> Futures]
  /\ act \in [Activations -> Activation]
  /\ \A a \in Activations : act[a].pc \notin Modelless => act[a].model \in Models
  /\ made \in Nat
  /\ restarts \in Nat

NewController == [
  initialized |-> FALSE, registered |-> FALSE, downloaded |-> {}, model |-> None,
  phase |-> "idle", failure |-> FALSE, completer |-> None, current |-> None,
  lastCompleted |-> None, version |-> 0]

NewProcess ==
  /\ ctl = NewController
  /\ future = [c \in Completers |-> "unused"]
  /\ act = [a \in Activations |-> Done]
  /\ made = 0

Init == EngineInit /\ NewProcess /\ restarts = 0

-----------------------------------------------------------------------------
(* Pieces of handlers.  Those named for a state take and return fields.    *)

Fresh(c) == future[c] = "unused"

IsBusy == \/ ctl.phase \in {"downloading", "finalizing", "paused"}
          \/ ctl.phase = "failed" /\ ctl.model # None

Attached(s, c) == [s EXCEPT !.completer = c, !.current = c]
Detached(s)    == Attached(s, None)

Reset(s) == [s EXCEPT !.model = None, !.phase = "idle", !.failure = FALSE]

(* _startDownloadState, with the Completer _enqueueBackgroundDownload and  *)
(* its caller put in place before the first await.                         *)
Started(s, m, c) ==
  [Attached(s, c) EXCEPT !.model = m, !.failure = FALSE,
                         !.lastCompleted = None, !.phase = "downloading"]

InPhase(s, m, ph)  == [s EXCEPT !.model = m, !.phase = ph]
Failed(s, m)       == [InPhase(s, m, "failed") EXCEPT !.failure = TRUE]

(* A slip: isCompleted is not asked. *)
SettleUnchecked(c, outcome) ==
  future' = IF c # None THEN [future EXCEPT ![c] = outcome] ELSE future

(* complete or completeError on a Completer that may already be completed. *)
Settle(c, outcome) ==
  future' = IF c # None /\ future[c] = "pending"
            THEN [future EXCEPT ![c] = outcome] ELSE future

Goes(a, pc)    == act' = [act EXCEPT ![a].pc = pc]
Finishes(a)    == act' = [act EXCEPT ![a] = Done]
At(a, pc)      == act[a].pc = pc
Called(a, pc, m) == act' = [act EXCEPT ![a] = [Done EXCEPT !.pc = pc, !.model = m]]

(* Nothing is in progress in Dart and every update was delivered.          *)
Quiet ==
  /\ ctl.registered
  /\ \A a \in Activations : At(a, "done")
  /\ events = <<>>

(* A call of the user interface takes a free activation.                   *)
UserCall(a) ==
  /\ a \in Calls
  /\ At(a, "done")
  /\ made < MaxCalls
  /\ made' = made + 1
  /\ UNCHANGED restarts

Continues == UNCHANGED <<made, restarts>>

(* A slip: the completed future stays the current one. *)
FailWithoutDetaching(m) ==
  /\ ctl' = Failed(ctl, m)
  /\ Settle(ctl.completer, "error")

(* A slip: the phase is left at downloading. *)
FailDownloadAsRetry(m) ==
  /\ ctl' = Detached(InPhase(ctl, m, "downloading"))
  /\ Settle(ctl.completer, "error")

(* _failBackgroundDownload and _cancelBackgroundDownload.                  *)
FailDownload(m) ==
  /\ ctl' = Detached(Failed(ctl, m))
  /\ Settle(ctl.completer, "error")

CancelDownload ==
  /\ ctl' = Reset(Detached(ctl))
  /\ Settle(ctl.completer, "cancelled")

-----------------------------------------------------------------------------
(* initialize, then _restoreBackgroundDownloadState.                       *)

InitializeCall(a) ==
  /\ a \in Calls /\ At(a, "done")
  /\ ~ctl.initialized
  /\ ctl' = [ctl EXCEPT !.initialized = TRUE]
  /\ Called(a, "client", None)
  /\ UNCHANGED <<engineVars, future, made, restarts>>

ClientReady(a) ==
  /\ At(a, "client")
  /\ ctl' = [ctl EXCEPT !.registered = TRUE]
  /\ Goes(a, "list")
  /\ UNCHANGED <<engineVars, future>> /\ Continues

ListFiles(a) ==
  /\ At(a, "list")
  /\ act' = [act EXCEPT ![a].pc = "listed",
                        ![a].files = {m \in Models : file[m] \in Readable}]
  /\ UNCHANGED <<engineVars, ctl, future>> /\ Continues

FilesListed(a) ==
  /\ At(a, "listed")
  /\ ctl' = [ctl EXCEPT !.downloaded = act[a].files]
  /\ Goes(a, "records")
  /\ UNCHANGED <<engineVars, future>> /\ Continues

ReadRecords(a) ==
  /\ At(a, "records")
  /\ act' = [act EXCEPT ![a].pc = "recordsRead", ![a].records = record]
  /\ UNCHANGED <<engineVars, ctl, future>> /\ Continues

Priority(s) ==
  CASE s = "running"        -> 0
    [] s = "enqueued"       -> 1
    [] s = "waitingToRetry" -> 2
    [] s = "paused"         -> 3
    [] s = "failed"         -> 4
    [] s = "notFound"       -> 5
    [] s = "complete"       -> 6
    [] s = "canceled"       -> 7

(* records.first after the sort; equal priorities are ordered by progress. *)
IsFirst(m, r) ==
  /\ r[m] # "none"
  /\ \A n \in Models : r[n] # "none" => Priority(r[m]) <= Priority(r[n])

AlreadyCompleted(m) == ctl.phase = "completed" /\ ctl.lastCompleted = m

(* _resumeBackgroundDownload up to its await: s are the fields before it.  *)
Reattaches(a, s, m, pc) ==
  \E c \in Completers :
    /\ IF ctl.completer # None THEN c = ctl.completer ELSE Fresh(c)
    /\ ctl' = [Attached(InPhase(s, m, "downloading"), c) EXCEPT !.failure = FALSE]
    /\ future' = IF Fresh(c) THEN [future EXCEPT ![c] = "pending"] ELSE future
    /\ act' = [act EXCEPT ![a] = [Done EXCEPT !.pc = pc, !.model = m, !.completer = c]]

RestoreFrom(a, m, s) ==
  \/ /\ s \in Running
     /\ ctl' = InPhase(ctl, m, "downloading")
     /\ Goes(a, "readiness") /\ UNCHANGED future
  \/ /\ s = "paused"
     /\ ctl' = InPhase(ctl, m, "paused")
     /\ Goes(a, "readiness") /\ UNCHANGED future
  \/ /\ s = "failed"
     /\ Reattaches(a, Failed(ctl, m), m, "reattach")
  \/ /\ s = "notFound"
     /\ ctl' = Failed(ctl, m)
     /\ Goes(a, "readiness") /\ UNCHANGED future
  \/ /\ s = "complete" /\ ~AlreadyCompleted(m)
     /\ ctl' = InPhase(ctl, m, "finalizing")
     /\ Called(a, "validate", m) /\ UNCHANGED future
  \/ /\ s = "canceled" \/ (s = "complete" /\ AlreadyCompleted(m))
     /\ Goes(a, "readiness") /\ UNCHANGED <<ctl, future>>

RestoreState(a) ==
  /\ At(a, "recordsRead")
  /\ LET r == act[a].records IN
     \/ /\ \A m \in Models : r[m] = "none"
        /\ Goes(a, "readiness")
        /\ UNCHANGED <<ctl, future>>
     \/ \E m \in Models : IsFirst(m, r) /\ RestoreFrom(a, m, r[m])
  /\ UNCHANGED engineVars /\ Continues

(* client.resume answered while restoring a failed record.                 *)
Reattached(a) ==
  /\ At(a, "reattach")
  /\ LET m == act[a].model
         c == act[a].completer
     IN \/ ResumeAccepted(m) /\ UNCHANGED ctl
        \/ /\ ctl' = Failed(IF future[c] = "pending" THEN Detached(ctl) ELSE ctl, m)
           /\ UNCHANGED engineVars
  /\ Goes(a, "readiness")
  /\ UNCHANGED future /\ Continues

(* refreshReadiness, the last await of most methods.                       *)
RefreshReadiness(a) ==
  /\ At(a, "readiness")
  /\ DropJunk(Models)
  /\ Finishes(a)
  /\ UNCHANGED <<task, record, events, ctl, future>> /\ Continues
-----------------------------------------------------------------------------
(* download.  A call that joins the current future or is refused changes   *)
(* nothing.  The picker offers it for models not in ctl.downloaded.        *)

(* A slip: the checks for a current download are missing. *)
DownloadCallUnchecked(a, m) ==
  /\ UserCall(a)
  /\ ctl.initialized /\ m \notin ctl.downloaded
  /\ Called(a, "storage", m)
  /\ UNCHANGED <<engineVars, ctl, future>>

DownloadCall(a, m) ==
  /\ UserCall(a)
  /\ ctl.initialized /\ m \notin ctl.downloaded
  /\ ctl.current = None
  /\ \/ /\ ctl.phase \in {"downloading", "paused", "finalizing"}
        /\ ctl.model = m
        /\ \E c \in Completers :
             /\ IF ctl.completer # None THEN c = ctl.completer ELSE Fresh(c)
             /\ ctl' = Attached(ctl, c)
             /\ future' = IF Fresh(c) THEN [future EXCEPT ![c] = "pending"] ELSE future
        /\ UNCHANGED act
     \/ /\ ctl.phase \notin {"downloading", "paused", "finalizing"} \/ ctl.model = None
        /\ Called(a, "storage", m)
        /\ UNCHANGED <<ctl, future>>
  /\ UNCHANGED engineVars

(* _enqueueBackgroundDownload up to its first await.                       *)
BeginsEnqueue(a, s, m) ==
  \E c \in Completers :
    /\ Fresh(c)
    /\ ctl' = Started(s, m, c)
    /\ future' = [future EXCEPT ![c] = "pending"]
    /\ act' = [act EXCEPT ![a] = [Done EXCEPT !.pc = "dropRecord", !.model = m,
                                              !.completer = c]]

StorageChecked(a) ==
  /\ At(a, "storage")
  /\ LET m == act[a].model IN
     /\ DropJunk({m})
     /\ \/ BeginsEnqueue(a, ctl, m)
        \/ /\ file[m] \notin Readable        \* !canProceed
           /\ ctl' = [ctl EXCEPT !.phase = "failed", !.failure = TRUE]
           /\ Finishes(a) /\ UNCHANGED future
  /\ UNCHANGED <<task, record, events>> /\ Continues

DropsRecord(a) ==
  /\ At(a, "dropRecord")
  /\ DeleteRecord(act[a].model)
  /\ Goes(a, "enqueue")
  /\ UNCHANGED <<task, events, file, ctl, future>> /\ Continues

Enqueued(a) ==
  /\ At(a, "enqueue")
  /\ EnqueueAccepted(act[a].model)
  /\ Finishes(a)
  /\ UNCHANGED <<ctl, future>> /\ Continues

(* A slip: no message is kept. *)
EnqueueFailsSilently(a) ==
  /\ At(a, "dropRecord") \/ At(a, "enqueue")
  /\ ctl' = [Detached(ctl) EXCEPT !.phase = "failed"]
  /\ Goes(a, "enqueueFailed")
  /\ UNCHANGED <<engineVars, future>> /\ Continues

(* deleteRecord or enqueue throws, or enqueue returns false.               *)
EnqueueFails(a) ==
  /\ At(a, "dropRecord") \/ At(a, "enqueue")
  /\ ctl' = [Detached(ctl) EXCEPT !.phase = "failed", !.failure = TRUE]
  /\ Goes(a, "enqueueFailed")
  /\ UNCHANGED <<engineVars, future>> /\ Continues

ReportEnqueueFailure(a) ==
  /\ At(a, "enqueueFailed")
  /\ DropJunk(Models)
  /\ Settle(act[a].completer, "error")
  /\ Finishes(a)
  /\ UNCHANGED <<task, record, events, ctl>> /\ Continues
-----------------------------------------------------------------------------
(* pause and resume.                                                       *)

PauseCall(a) ==
  /\ UserCall(a)
  /\ ctl.phase = "downloading" /\ ctl.model # None
  /\ Called(a, "pause", ctl.model)
  /\ UNCHANGED <<engineVars, ctl, future>>

(* A slip: the answer of the engine is not looked at. *)
PauseAnswerIgnored(a) ==
  /\ At(a, "pause")
  /\ Goes(a, "paused")
  /\ PauseAccepted(act[a].model) \/ UNCHANGED engineVars
  /\ UNCHANGED <<ctl, future>> /\ Continues

PauseAnswered(a) ==
  /\ At(a, "pause")
  /\ \/ PauseAccepted(act[a].model) /\ Goes(a, "paused")
     \/ Finishes(a) /\ UNCHANGED engineVars
  /\ UNCHANGED <<ctl, future>> /\ Continues

Paused(a) ==
  /\ At(a, "paused")
  /\ ctl' = [ctl EXCEPT !.phase = "paused"]
  /\ Finishes(a)
  /\ UNCHANGED <<engineVars, future>> /\ Continues

ResumeCall(a) ==
  /\ UserCall(a)
  /\ ctl.model # None /\ ctl.phase \in {"paused", "failed"}
  /\ Reattaches(a, ctl, ctl.model, "resume")
  /\ UNCHANGED engineVars

(* A slip: the shown model is read again after the await. *)
ResumeAnsweredForShown(a) ==
  /\ At(a, "resume")
  /\ \/ /\ ResumeAccepted(act[a].model)
        /\ Finishes(a) /\ UNCHANGED <<ctl, future>>
     \/ BeginsEnqueue(a, ctl, ctl.model) /\ UNCHANGED engineVars
  /\ Continues

(* Not resumed: the download starts over, whatever happened meanwhile.     *)
ResumeAnswered(a) ==
  /\ At(a, "resume")
  /\ \/ /\ ResumeAccepted(act[a].model)
        /\ Finishes(a) /\ UNCHANGED <<ctl, future>>
     \/ BeginsEnqueue(a, ctl, act[a].model) /\ UNCHANGED engineVars
  /\ Continues
-----------------------------------------------------------------------------
(* cancel, deleteModel and clearLastError.                                 *)

CancelCall(a) ==
  /\ UserCall(a)
  /\ \/ /\ ctl.model = None
        /\ CancelDownload
        /\ Called(a, "readiness", None)
     \/ /\ ctl.model # None
        /\ Called(a, "cancel", ctl.model)
        /\ UNCHANGED <<ctl, future>>
  /\ UNCHANGED engineVars

CancelAnswered(a) ==
  /\ At(a, "cancel")
  /\ TaskCancelled(act[a].model)
  /\ Goes(a, "cancelRecord")
  /\ UNCHANGED <<ctl, future>> /\ Continues

CancelsRecord(a) ==
  /\ At(a, "cancelRecord")
  /\ DeleteRecord(act[a].model)
  /\ Goes(a, "erase")
  /\ UNCHANGED <<task, events, file, ctl, future>> /\ Continues

(* The Completer settled here is the current one, not the one in place     *)
(* when cancel was called.                                                 *)
Erase(a) ==
  /\ At(a, "erase")
  /\ DeleteFile(act[a].model)
  /\ CancelDownload
  /\ Goes(a, "readiness")
  /\ UNCHANGED <<task, record, events>> /\ Continues

(* An exception of any of the three is swallowed: what is left undone      *)
(* stays so, the fields are reset all the same.                            *)
CancelThrows(a) ==
  /\ act[a].pc \in {"cancel", "cancelRecord", "erase"} \cap Throwing
  /\ CancelDownload
  /\ Goes(a, "readiness")
  /\ UNCHANGED engineVars /\ Continues

DeleteCall(a, m) ==
  /\ UserCall(a)
  /\ m \in ctl.downloaded /\ ctl.model # m
  /\ Called(a, "deleteCancel", m)
  /\ UNCHANGED <<engineVars, ctl, future>>

DeleteCancelled(a) ==
  /\ At(a, "deleteCancel")
  /\ TaskCancelled(act[a].model)
  /\ Goes(a, "deleteCancelRecord")
  /\ UNCHANGED <<ctl, future>> /\ Continues

(* The record is deleted twice, by cancel and by deleteModel itself.       *)
DeletesRecord(a) ==
  /\ \/ At(a, "deleteCancelRecord") /\ Goes(a, "delete")
     \/ At(a, "delete") /\ Goes(a, "deleteFile")
  /\ DeleteRecord(act[a].model)
  /\ UNCHANGED <<task, events, file, ctl, future>> /\ Continues

(* An exception of cancel is swallowed.                                    *)
DeleteCancelThrows(a) ==
  /\ act[a].pc \in {"deleteCancel", "deleteCancelRecord"} \cap Throwing
  /\ Goes(a, "delete")
  /\ UNCHANGED <<engineVars, ctl, future>> /\ Continues

Deleted(a) ==
  /\ At(a, "deleteFile")
  /\ LET m == act[a].model IN
     /\ DeleteFile(m)
     /\ ctl' = [ctl EXCEPT
          !.downloaded = @ \ {m},
          !.lastCompleted = IF @ = m THEN None ELSE @]
  /\ Goes(a, "readiness")
  /\ UNCHANGED <<task, record, events, future>> /\ Continues

(* The file is gone and the rest of _deleteModel throws: the model stays   *)
(* listed.                                                                 *)
DeletedUnlisted(a) ==
  /\ act[a].pc \in {"deleteFile"} \cap Throwing
  /\ DeleteFile(act[a].model)
  /\ Finishes(a)
  /\ UNCHANGED <<task, record, events, ctl, future>> /\ Continues

(* The banner that offers it is shown only while the controller is idle.   *)
ClearLastError ==
  /\ ctl.failure /\ ~IsBusy
  /\ ctl' = [ctl EXCEPT !.failure = FALSE,
                        !.phase = IF @ = "failed" THEN "idle" ELSE @]
  /\ UNCHANGED <<engineVars, future, act>> /\ Continues
-----------------------------------------------------------------------------
(* _completeBackgroundDownload after its first await.                      *)

(* _restoreBackgroundDownloadState awaits it; an update does not.          *)
Returns(a) == IF a \in Calls THEN Goes(a, "readiness") ELSE Finishes(a)

(* A slip: the failure of validation is not caught. *)
ValidatedOnlyWell(a) ==
  /\ At(a, "validate")
  /\ file[act[a].model] \in Readable
  /\ Goes(a, "path")
  /\ UNCHANGED <<engineVars, ctl, future>> /\ Continues

(* A short file passes when the update carried no content length.          *)
Validated(a) ==
  /\ At(a, "validate")
  /\ \/ /\ file[act[a].model] \in Readable
        /\ Goes(a, "path") /\ UNCHANGED <<ctl, future>>
     \/ /\ file[act[a].model] # "good" \/ "validate" \in Throwing
        /\ FailDownload(act[a].model)
        /\ Returns(a)
  /\ UNCHANGED engineVars /\ Continues

(* A slip: the shown model is not cleared. *)
CompletedKeepsModel(a) ==
  /\ At(a, "path")
  /\ LET m == act[a].model IN
     /\ ctl' = [Detached(ctl) EXCEPT
          !.downloaded = @ \cup {m}, !.lastCompleted = m, !.version = @ + 1,
          !.phase = "completed"]
     /\ Settle(ctl.completer, m)
  /\ Goes(a, "refresh")
  /\ UNCHANGED engineVars /\ Continues

(* A slip: the model is not added to the downloaded ones. *)
CompletedUnlisted(a) ==
  /\ At(a, "path")
  /\ LET m == act[a].model IN
     /\ ctl' = [Detached(ctl) EXCEPT
          !.lastCompleted = m, !.version = @ + 1,
          !.phase = "completed", !.model = None]
     /\ Settle(ctl.completer, m)
  /\ Goes(a, "refresh")
  /\ UNCHANGED engineVars /\ Continues

Completed(a) ==
  /\ At(a, "path")
  /\ LET m == act[a].model IN
     /\ ctl' = [Detached(ctl) EXCEPT
          !.downloaded = @ \cup {m}, !.lastCompleted = m, !.version = @ + 1,
          !.phase = "completed", !.model = None]
     /\ Settle(ctl.completer, m)
  /\ Goes(a, "refresh")
  /\ UNCHANGED engineVars /\ Continues

(* The refresh that follows is still in the try block.                     *)
CompletionRefreshed(a) ==
  /\ At(a, "refresh")
  /\ DropJunk(Models)
  /\ Returns(a)
  /\ UNCHANGED <<task, record, events, ctl, future>> /\ Continues

CompletionThrows(a) ==
  /\ act[a].pc \in {"path", "refresh"} \cap Throwing
  /\ FailDownload(act[a].model)
  /\ Returns(a)
  /\ UNCHANGED engineVars /\ Continues
-----------------------------------------------------------------------------
(* An exception that no handler catches ends the activation where it is.   *)
Throws(a) ==
  /\ act[a].pc \in Throwing \cap
       {"client", "list", "records", "reattach", "storage", "enqueueFailed",
        "pause", "resume", "delete", "deleteFile", "readiness"}
  /\ Finishes(a)
  /\ UNCHANGED <<engineVars, ctl, future>> /\ Continues
-----------------------------------------------------------------------------
(* _handleBackgroundStatus.                                                *)

Handle(m, s) ==
  \/ /\ s \in Running
     /\ ctl' = [InPhase(ctl, m, "downloading") EXCEPT
                  !.failure = @ /\ s = "waitingToRetry"]
     /\ UNCHANGED <<future, act>>
  \/ /\ s = "paused"
     /\ ctl' = InPhase(ctl, m, "paused")
     /\ UNCHANGED <<future, act>>
  \/ /\ s = "complete" /\ AlreadyCompleted(m)
     /\ UNCHANGED <<ctl, future, act>>
  \/ /\ s = "complete" /\ ~AlreadyCompleted(m)
     /\ ctl' = InPhase(ctl, m, "finalizing")
     /\ \E a \in Finalizers : At(a, "done") /\ Called(a, "validate", m)
     /\ UNCHANGED future
  \/ /\ s \in {"failed", "notFound"}
     /\ FailDownload(m) /\ UNCHANGED act
  \/ /\ s = "canceled"
     /\ CancelDownload /\ UNCHANGED act

(* The plugin stores the status and calls back; the handler drops updates  *)
(* of a model other than the one it shows.                                 *)
Deliver ==
  /\ ctl.registered
  /\ events # <<>>
  /\ LET m == Head(events).model
         s == Head(events).status
     IN /\ record' = [record EXCEPT ![m] = s]
        /\ IF ctl.model \in {None, m}
           THEN Handle(m, s)
           ELSE UNCHANGED <<ctl, future, act>>
  /\ events' = Tail(events)
  /\ UNCHANGED <<task, file>> /\ Continues
-----------------------------------------------------------------------------
(* The system kills the process; the download engine carries on.           *)
Kill ==
  /\ restarts < MaxRestarts
  /\ restarts' = restarts + 1
  /\ ctl' = NewController
  /\ future' = [c \in Completers |-> "unused"]
  /\ act' = [a \in Activations |-> Done]
  /\ made' = 0
  /\ UNCHANGED engineVars

(* Continuations of the async methods: the Dart event loop runs them.      *)
Continuation(a) ==
  \/ ClientReady(a) \/ ListFiles(a) \/ FilesListed(a) \/ ReadRecords(a)
  \/ RestoreState(a) \/ Reattached(a) \/ RefreshReadiness(a)
  \/ StorageChecked(a) \/ DropsRecord(a) \/ Enqueued(a) \/ EnqueueFails(a)
  \/ ReportEnqueueFailure(a) \/ PauseAnswered(a) \/ Paused(a) \/ ResumeAnswered(a)
  \/ CancelAnswered(a) \/ CancelsRecord(a) \/ Erase(a) \/ CancelThrows(a)
  \/ DeleteCancelled(a) \/ DeletesRecord(a) \/ DeleteCancelThrows(a)
  \/ Deleted(a) \/ DeletedUnlisted(a)
  \/ Validated(a) \/ Completed(a) \/ CompletionRefreshed(a) \/ CompletionThrows(a)
  \/ Throws(a)

UserStep(a) ==
  \/ InitializeCall(a) \/ PauseCall(a) \/ ResumeCall(a) \/ CancelCall(a)
  \/ \E m \in Models : DownloadCall(a, m) \/ DeleteCall(a, m)

EngineStep(m) == NativeStep(m) /\ UNCHANGED appVars

Next ==
  \/ \E a \in Activations : UserStep(a) \/ Continuation(a)
  \/ ClearLastError
  \/ Deliver
  \/ \E m \in Models : EngineStep(m)
  \/ Kill

Spec == Init /\ [][Next]_vars

(* The event loop neither drops a continuation nor an update.              *)
FairSpec ==
  /\ Spec
  /\ \A a \in Activations : WF_vars(Continuation(a))
  /\ WF_vars(Deliver)

-----------------------------------------------------------------------------
(* Properties that hold however calls, updates and kills interleave.       *)

(* _currentDownload and _currentBackgroundCompleter are written in a dozen *)
(* places but always agree, and the future a second download() of the same *)
(* model would join has never completed yet.                               *)
CurrentIsPending ==
  /\ ctl.current = ctl.completer
  /\ ctl.current # None => future[ctl.current] = "pending"

(* The shell's download screen always has a model to pause, resume or name *)
(* while downloading or finalizing, and shows none once it has completed.  *)
ScreenHasModel ==
  /\ ctl.phase \in {"downloading", "finalizing"} => ctl.model # None
  /\ ctl.phase = "completed" => ctl.model = None

(* A failed phase always comes with the message the screens print for it,  *)
(* so the banner that leads out of it is there.                            *)
FailureIsExplained == ctl.phase = "failed" => ctl.failure

(* A Completer is never completed twice (Dart would throw): the paths that *)
(* settle it race, an update against cancel, against a failing enqueue.    *)
SettledOnce ==
  [][\A c \in Completers :
       future[c] \notin {"unused", "pending"} => future'[c] \in {future[c], "unused"}]_vars

(* The finalizing screen has no button at all (main.dart:517): it must     *)
(* always give way by itself.                                              *)
FinalizingEnds == ctl.phase = "finalizing" ~> ctl.phase # "finalizing"
-----------------------------------------------------------------------------
(* Properties that need calls that do not overlap and no kill.             *)

(* No two models are being downloaded by the engine at the same time.      *)
SingleDownload ==
  \A m, n \in Models : task[m] \in Running /\ task[n] \in Running => m = n

(* Once quiet, a screen that says downloading has a task behind it: no     *)
(* interleaving of updates with handlers strands the user there.           *)
NotStranded ==
  Quiet /\ ctl.phase \in {"downloading", "finalizing"} =>
    ctl.phase = "downloading" /\ task[ctl.model] \in Running

(* Once quiet, a download the engine is making is shown to the user.       *)
RunningIsShown ==
  Quiet /\ (\E m \in Models : task[m] \in Running) => IsBusy

(* Once quiet, a screen that says paused has a suspended task to resume.   *)
PausedIsPaused ==
  Quiet /\ ctl.phase = "paused" => ctl.model # None /\ task[ctl.model] = "paused"

(* Once quiet with no download shown, every whole model on disk is offered *)
(* for use: completing, cancelling and deleting keep the list in step.     *)
OnDiskListed ==
  Quiet /\ ctl.model = None =>
    {m \in Models : file[m] = "good"} \subseteq ctl.downloaded
-----------------------------------------------------------------------------
(* A cancelled download stays cancelled: a resume that was waiting for the *)
(* engine when the download was cancelled does not start it again.         *)
StaysCancelled ==
  [][\A a \in Calls :
       At(a, "resume") /\ act'[a].pc = "dropRecord" => ctl.model = act[a].model]_vars
=============================================================================
