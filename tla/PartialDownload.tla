--------------------------- MODULE PartialDownload ---------------------------
(***************************************************************************)
(* ModelManager.download with the part of ModelDownloadController that     *)
(* runs it when no background engine is used: one model, its .part file,   *)
(* retries, HTTP ranges, pause and cancel tokens, and a process that may   *)
(* be killed at any point.  A file is the sequence of the chunks in it, a  *)
(* chunk is its number in the model.                                       *)
(***************************************************************************)
EXTENDS Naturals, Sequences

CONSTANTS
  Size,          \* chunks of a whole model
  MaxAttempts,   \* maxAttempts
  MaxCalls,      \* bound: calls by the user
  MaxRestarts    \* bound: kills of the process

ASSUME DownloadAssumption ==
  /\ Size \in Nat \ {0} /\ MaxAttempts \in Nat \ {0}
  /\ MaxCalls \in Nat /\ MaxRestarts \in Nat

VARIABLES
  part,      \* the .part file; <<>> if there is none
  final,     \* the model file; <<>> if there is none
  run,       \* the one activation of _runDownload and download
  ctl,       \* the controller's fields
  calls,     \* calls made by the user
  restarts   \* kills so far

files  == <<part, final>>
bounds == <<calls, restarts>>
vars   == <<files, run, ctl, bounds>>

Runs == [
  pc: {"off", "readiness", "check", "attempt", "request", "stream", "stopping",
       "finalize", "validate", "rename", "backoff", "ending"},
  attempt: 0..MaxAttempts,
  existing: 0..Size,                         \* existingBytes
  sent: 0..Size,                             \* the last chunk the server has sent
  total: 0..Size,                            \* totalBytes; 0 is unknown
  sink: {"whole", "failed", "unlinked"},     \* a write failed; the file was deleted
  signal: {"none", "pause", "cancel"}]       \* _DownloadStopSignal

Controllers == [
  phase: {"idle", "downloading", "paused", "finalizing", "completed", "failed"},
  model: BOOLEAN,                            \* _downloadingModel is not null
  current: BOOLEAN,                          \* _currentDownload is not null
  pause: {"none", "open", "completed"},      \* _pauseToken
  cancel: {"none", "open", "completed"},     \* _cancelToken
  deleting: BOOLEAN]                         \* cancel awaits _deleteModel

\* The type of the state; a download is tried at most MaxAttempts times and
\* its .part file never outgrows the model.
TypeOK ==
  /\ part \in Seq(1..Size) /\ Len(part) <= Size
  /\ final \in Seq(1..Size) /\ Len(final) <= Size
  /\ run \in Runs /\ ctl \in Controllers
  /\ calls \in 0..MaxCalls /\ restarts \in 0..MaxRestarts

NotRunning == [pc |-> "off", attempt |-> 0, existing |-> 0, sent |-> 0,
               total |-> 0, sink |-> "whole", signal |-> "none"]
NewController == [phase |-> "idle", model |-> FALSE, current |-> FALSE,
                  pause |-> "none", cancel |-> "none", deleting |-> FALSE]

Init ==
  /\ part = <<>> /\ final = <<>>
  /\ run = NotRunning /\ ctl = NewController
  /\ calls = 0 /\ restarts = 0

At(pc) == run.pc = pc
Goes(pc) == run' = [run EXCEPT !.pc = pc]

-----------------------------------------------------------------------------
(* The user's calls.                                                       *)

UserCall ==
  /\ calls < MaxCalls
  /\ calls' = calls + 1
  /\ UNCHANGED <<files, restarts>>

(* download: joins the current one, or checks the storage first.           *)
Downloads(fields) ==
  /\ ctl' = fields
  /\ \/ ctl.current /\ UNCHANGED run
     \/ ~ctl.current /\ At("off") /\ Goes("readiness")

DownloadCall ==
  /\ UserCall
  /\ ctl.phase \in {"idle", "completed"} \/ (ctl.phase = "failed" /\ ~ctl.model)
  /\ final = <<>>
  /\ Downloads(ctl)

Resume ==
  /\ UserCall
  /\ ctl.model /\ ctl.phase \in {"paused", "failed"}
  /\ Downloads([ctl EXCEPT !.phase = "downloading"])

(* A token completed while the response is read stops the reading; the     *)
(* first one counts.                                                       *)
Signals(signal) ==
  run' = IF At("stream") /\ run.signal = "none" THEN [run EXCEPT !.signal = signal] ELSE run

Pause ==
  /\ UserCall
  /\ ctl.phase = "downloading" /\ ctl.pause = "open"
  /\ ctl' = [ctl EXCEPT !.pause = "completed"]
  /\ Signals("pause")

Reset(c) == [c EXCEPT !.phase = "idle", !.model = FALSE]

Cancel ==
  /\ UserCall
  /\ \/ /\ ctl.cancel = "open"
        /\ ctl' = [ctl EXCEPT !.cancel = "completed"]
        /\ Signals("cancel")
     \/ /\ ctl.cancel # "open"
        /\ \/ /\ ctl.phase = "paused" /\ ctl.model
              /\ ctl' = [ctl EXCEPT !.deleting = TRUE]
           \/ /\ ctl.phase = "failed"
              /\ ctl' = Reset(ctl)
        /\ UNCHANGED run

(* _deleteModel, whose exception is swallowed, then the fields are reset.  *)
(* It deletes the final file first; a .part file that is being written     *)
(* loses its name and what is written later.                               *)
Deleted ==
  /\ ctl.deleting
  /\ \/ /\ part' = <<>> /\ final' = <<>>
        /\ run' = IF At("stream") /\ run.sink = "whole"
                  THEN [run EXCEPT !.sink = "unlinked"] ELSE run
     \/ /\ final' \in {final, <<>>}
        /\ UNCHANGED <<part, run>>
  /\ ctl' = [Reset(ctl) EXCEPT !.deleting = FALSE]
  /\ UNCHANGED bounds

User == DownloadCall \/ Resume \/ Pause \/ Cancel
-----------------------------------------------------------------------------
(* _runDownload.                                                           *)

(* Enough storage, or nothing more to store; not enough; or the check      *)
(* itself throws, which nobody catches.                                    *)
ReadinessChecked ==
  /\ At("readiness")
  /\ \/ /\ ctl' = [ctl EXCEPT !.phase = "downloading", !.model = TRUE, !.current = TRUE,
                              !.pause = "open", !.cancel = "open"]
        /\ Goes("check")
     \/ /\ Len(part) < Size
        /\ ctl' = [ctl EXCEPT !.phase = "failed"]
        /\ Goes("off")
     \/ Goes("off") /\ UNCHANGED ctl
  /\ UNCHANGED files

Ending(fields) ==
  /\ ctl' = fields
  /\ run' = [NotRunning EXCEPT !.pc = "ending"]

(* A slip: the phase is not changed by a failure. *)
FailsUnseen == Ending(ctl)

(* The catch clause; readiness is refreshed before the finally clause.     *)
Fails == Ending([ctl EXCEPT !.phase = "failed"])

Completes == Ending([ctl EXCEPT !.phase = "completed", !.model = FALSE])

(* The refresh after a completion is inside the try block.                 *)
CompletionFails ==
  /\ At("ending") /\ ctl.phase = "completed"
  /\ ctl' = [ctl EXCEPT !.phase = "failed"]
  /\ UNCHANGED <<files, run>>

Released(c) == [c EXCEPT !.current = FALSE, !.pause = "none", !.cancel = "none"]

Ends ==
  /\ At("ending")
  /\ ctl' = Released(ctl)
  /\ run' = NotRunning
  /\ UNCHANGED files
-----------------------------------------------------------------------------
(* ModelManager.download.                                                  *)

Checked ==
  /\ At("check")
  /\ \/ final # <<>> /\ Completes
     \/ /\ final = <<>>
        /\ \/ /\ run' = [run EXCEPT !.pc = "attempt", !.attempt = 1]
              /\ ctl' = [ctl EXCEPT !.phase = "downloading"]
           \/ Len(part) < Size /\ Fails
  /\ UNCHANGED files

Asks ==
  /\ At("attempt")
  /\ run' = [run EXCEPT !.pc = "request", !.existing = Len(part)]
  /\ UNCHANGED <<files, ctl>>

(* A slip: the attempts are not counted. *)
RetriesForever == Goes("backoff") /\ UNCHANGED ctl

Retries ==
  \/ run.attempt < MaxAttempts /\ Goes("backoff") /\ UNCHANGED ctl
  \/ run.attempt = MaxAttempts /\ Fails

BackedOff ==
  /\ At("backoff")
  /\ run' = [run EXCEPT !.pc = "attempt", !.attempt = @ + 1]
  /\ UNCHANGED <<files, ctl>>

(* The response is read; a token completed before counts at once, the      *)
(* pause token first.  The server has left out the first chunks, and may   *)
(* tell how many it sends.                                                 *)
Reads(received, leftOut) ==
  /\ \E total \in {0, received + Size - leftOut}:
       run' = [run EXCEPT
         !.pc = "stream", !.sent = leftOut, !.total = total, !.sink = "whole",
         !.signal = IF ctl.pause = "completed" THEN "pause"
                    ELSE IF ctl.cancel = "completed" THEN "cancel" ELSE "none"]
  /\ UNCHANGED ctl

(* 200: the server sends everything, what is there is dropped.             *)
WholeResponse ==
  /\ Reads(0, 0)
  /\ part' = <<>>

(* A slip: the range asked for starts one too late. *)
RangeOffByOne ==
  /\ 0 < run.existing /\ run.existing < Size
  /\ Reads(run.existing, run.existing + 1)
  /\ UNCHANGED part

(* 206.                                                                    *)
PartialResponse ==
  /\ 0 < run.existing /\ run.existing < Size
  /\ Reads(run.existing, run.existing)
  /\ UNCHANGED part

Responds ==
  /\ At("request")
  /\ \/ WholeResponse
     \/ PartialResponse
     \/ Retries /\ UNCHANGED part        \* no connection, a timeout, 429 or 5xx
     \/ Fails /\ UNCHANGED part          \* any other status: 416 for an empty range
  /\ UNCHANGED final

(* A chunk is written, unless this write or an earlier one fails; the sink *)
(* tells only when it is flushed.                                          *)
Chunk ==
  /\ At("stream") /\ run.signal = "none" /\ run.sent < Size
  /\ \E sink \in {run.sink, "failed"}:
       /\ run' = [run EXCEPT !.sent = @ + 1, !.sink = sink]
       /\ part' = IF sink = "whole" THEN Append(part, run.sent + 1) ELSE part
  /\ UNCHANGED <<final, ctl>>

StreamDone ==
  /\ At("stream") /\ run.signal = "none" /\ run.sent = Size
  /\ ctl' = [ctl EXCEPT !.phase = "finalizing"]
  /\ Goes("finalize")
  /\ UNCHANGED files

(* The connection breaks.                                                  *)
StreamError ==
  /\ At("stream") /\ run.signal = "none" /\ run.sent < Size
  /\ Retries \/ Fails
  /\ UNCHANGED files

(* The subscription is cancelled, the file flushed and closed.             *)
Stopped ==
  /\ At("stream") /\ run.signal # "none"
  /\ Goes("stopping")
  /\ UNCHANGED <<files, ctl>>

(* A slip: a paused download is dropped like a cancelled one. *)
PauseDrops ==
  /\ run.signal = "pause"
  /\ ctl' = Released([ctl EXCEPT !.phase = "paused"])
  /\ run' = NotRunning
  /\ part' = <<>>

PauseFinished ==
  /\ run.signal = "pause"
  /\ ctl' = Released([ctl EXCEPT !.phase = "paused"])
  /\ run' = NotRunning
  /\ UNCHANGED part

(* The deletion of what is there may fail, unnoticed.                      *)
CancelFinished ==
  /\ run.signal = "cancel"
  /\ Ending(Reset(ctl))
  /\ part' \in {part, <<>>}

StopFinished ==
  /\ At("stopping")
  /\ PauseFinished \/ CancelFinished
  /\ UNCHANGED final

(* _finalizeSink.                                                          *)
Finalized ==
  /\ At("finalize")
  /\ \/ run.sink # "failed" /\ Goes("validate") /\ UNCHANGED ctl
     \/ Fails
  /\ UNCHANGED files

HasHeader == part # <<>> /\ part[1] = 1

(* _validateDownloadedModel: the length, if it is known, and the header.   *)
Valid == HasHeader /\ (run.total > 0 => Len(part) = run.total)

Validated ==
  /\ At("validate")
  /\ \/ ~Valid /\ Fails /\ part' \in {part, <<>>}
     \/ Valid /\ Goes("rename") /\ UNCHANGED <<part, ctl>>
  /\ UNCHANGED final

Rename ==
  /\ At("rename")
  /\ \/ part # <<>> /\ final' = part /\ part' = <<>> /\ Completes
     \/ Fails /\ UNCHANGED files

Work ==
  /\ \/ ReadinessChecked \/ CompletionFails \/ Ends \/ Checked \/ Asks \/ BackedOff
     \/ Responds \/ Chunk \/ StreamDone \/ StreamError \/ Stopped \/ StopFinished
     \/ Finalized \/ Validated \/ Rename
  /\ UNCHANGED bounds

(* The process is killed and started again: only the files are left.       *)
Kill ==
  /\ restarts < MaxRestarts
  /\ restarts' = restarts + 1
  /\ run' = NotRunning /\ ctl' = NewController
  /\ UNCHANGED <<files, calls>>

Next == User \/ Deleted \/ Work \/ Kill

Spec == Init /\ [][Next]_vars
-----------------------------------------------------------------------------
(* Properties.                                                             *)

\* A model file is the whole model, every chunk at its place, however often
\* its download was paused, retried, refused a range or killed.
WholeFile == final # <<>> => final = [i \in 1..Size |-> i]

(* A running download is shown and nothing runs it: pause, resume and      *)
(* cancel are all refused then.                                            *)
Adrift == run.pc \in {"off", "ending"} /\ ctl.phase \in {"downloading", "finalizing"}

\* Every way out of a download takes the screen with it: failures, the last
\* retry, stops, invalid files, deletions, kills.  Only a resume leaves the user
\* looking at a running download that nothing runs: it shows one before its
\* storage check, which may throw, and before it joins a future that is failing.
OnlyResumeStrands ==
  [][~Adrift /\ Adrift' =>
       At("readiness") \/ (At("ending") /\ ctl.current)]_vars

\* Bytes on disk survive pauses, retries, failures and kills: the .part file
\* only shrinks when it becomes the model file, on a cancel, when the server
\* sends everything again and when it turns out invalid.
BytesKept ==
  [][Len(part') < Len(part) =>
       \/ final' = part
       \/ ctl.cancel = "completed" \/ ctl.deleting
       \/ At("request") \/ At("validate")]_vars

\* A resumed download has something left to ask for.
PartCanGrow == At("request") => run.existing < Size
=============================================================================
