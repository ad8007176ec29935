------------------------ MODULE BackgroundDownloader ------------------------
(***************************************************************************)
(* The native download engine (the background_downloader plugin) as the    *)
(* app's client class drives it, with the record database it keeps and the *)
(* model files it leaves on disk.  The plugin is not part of the           *)
(* repository: its steps are modelled from how                             *)
(* lib/models/background_model_downloader.dart uses them.                  *)
(*                                                                         *)
(* The task id is a function of the model's file name                      *)
(* (model_manager.dart:158), so the engine's state is one entry per model. *)
(* Tasks, records, undelivered updates and files outlive the app process.  *)
(***************************************************************************)
EXTENDS Naturals, Sequences

CONSTANTS
  Models,      \* the models of the catalogue
  MaxEvents    \* bound: status updates waiting for delivery

ASSUME MaxEventsAssumption == MaxEvents \in Nat

VARIABLES
  task,     \* task[m]: the live native task of m, or "none"
  record,   \* record[m]: the status kept for m in the plugin's database
  events,   \* status updates posted and not yet delivered to Dart, in order
  file      \* file[m]: what is at the model's final path

engineVars == <<task, record, events, file>>

(* BackgroundModelDownloadStatus *)
Running    == {"enqueued", "running", "waitingToRetry"}
Ended      == {"complete", "failed", "notFound", "canceled"}
Status     == Running \cup {"paused"} \cup Ended
TaskStates == Running \cup {"paused", "none"}

(* "good" is the whole model, "short" begins with a GGUF header but lacks  *)
(* bytes, "junk" has no GGUF header.                                       *)
Files    == {"absent", "good", "short", "junk"}
Readable == {"good", "short"}     \* what _isReadableGguf accepts

EngineTypeOK ==
  /\ task   \in [Models -> TaskStates]
  /\ record \in [Models -> Status \cup {"none"}]
  /\ events \in Seq([model: Models, status: Status])
  /\ file   \in [Models -> Files]

EngineInit ==
  /\ task   = [m \in Models |-> "none"]
  /\ record = [m \in Models |-> "none"]
  /\ events = <<>>
  /\ file   = [m \in Models |-> "absent"]

Live(m) == task[m] # "none"

(* The plugin keeps resume data for a suspended task and for a failed one. *)
Resumable(m) == task[m] = "paused" \/ (~Live(m) /\ record[m] = "failed")

(* The task of m moves to status s and the update is posted.               *)
Moves(m, s) ==
  /\ Len(events) < MaxEvents
  /\ task'   = [task EXCEPT ![m] = IF s \in Ended THEN "none" ELSE s]
  /\ events' = Append(events, [model |-> m, status |-> s])

(***************************************************************************)
(* The engine's own progress.                                              *)
(***************************************************************************)
Progress == {
  <<"enqueued", "running">>,
  <<"running", "waitingToRetry">>, <<"waitingToRetry", "enqueued">>,
  <<"running", "complete">>, <<"running", "failed">>, <<"running", "notFound">>}

NativeStep(m) ==
  \E s \in Status :
    /\ <<task[m], s>> \in Progress
    /\ Moves(m, s)
    /\ \/ /\ s # "complete"
          /\ UNCHANGED file
       \/ /\ s = "complete"
          /\ \E f \in Files \ {"absent"} : file' = [file EXCEPT ![m] = f]
    /\ UNCHANGED record

(***************************************************************************)
(* Client calls, at the moment the plugin carries them out.                *)
(***************************************************************************)

(* enqueue returning true: a second task under the same id takes over.     *)
EnqueueAccepted(m) == Moves(m, "enqueued") /\ UNCHANGED <<record, file>>

(* pause returning true: the plugin had a running task to suspend.         *)
PauseAccepted(m) ==
  /\ task[m] = "running"
  /\ Moves(m, "paused")
  /\ UNCHANGED <<record, file>>

(* resume returning true: the task is found and its resume data is valid.  *)
ResumeAccepted(m) ==
  /\ Resumable(m)
  /\ Moves(m, "enqueued")
  /\ UNCHANGED <<record, file>>

DeleteRecord(m) == record' = [record EXCEPT ![m] = "none"]

(* A slip: the native task is not looked for and left alone.               *)
TaskLeftAlone(m) == UNCHANGED engineVars

(* cancel up to the await of its deleteRecord: end the task if there is    *)
(* one.                                                                    *)
TaskCancelled(m) ==
  /\ \/ Live(m) /\ Moves(m, "canceled")
     \/ ~Live(m) /\ UNCHANGED <<task, events>>
  /\ UNCHANGED <<record, file>>

(* ModelManager.delete on the final path.                                  *)
DeleteFile(m) == file' = [file EXCEPT ![m] = "absent"]

(* checkDownloadReadiness deletes a final file without a GGUF header.      *)
DropJunk(S) ==
  file' = [m \in Models |-> IF m \in S /\ file[m] = "junk" THEN "absent" ELSE file[m]]
=============================================================================
