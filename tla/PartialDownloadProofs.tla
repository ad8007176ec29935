------------------------ MODULE PartialDownloadProofs ------------------------
(***************************************************************************)
(* Theorems about PartialDownload for files of any size, any number of     *)
(* attempts, calls and kills.                                              *)
(***************************************************************************)
EXTENDS PartialDownload, SequenceTheorems, TLAPS

-----------------------------------------------------------------------------
(* The inductive invariant.                                                *)

Prefix == \A i \in 1..Len(part) : part[i] = i

(* A .part file that has the header is a beginning of the model, and what  *)
(* the server is asked for, or sends, continues it; once everything was    *)
(* sent and flushed, it is the whole model.                                *)
PartOK ==
  /\ At("request") => Len(part) <= run.existing
  /\ At("stream") => Len(part) <= run.sent
  /\ HasHeader =>
       /\ Prefix
       /\ At("request") => run.existing = Len(part)
       /\ At("stream") /\ run.sink = "whole" => run.sent = Len(part)
       /\ At("finalize") /\ run.sink # "failed" => Len(part) = Size
       /\ At("validate") => Len(part) = Size
  /\ (At("stream") \/ At("finalize")) /\ run.sink = "unlinked" => part = <<>>
  /\ At("rename") /\ part # <<>> => HasHeader /\ Len(part) = Size

(* The attempts left, and why the reading is stopped.                      *)
RunOK ==
  /\ At("backoff") => run.attempt < MaxAttempts
  /\ run.signal # "none" => run.pc \in {"stream", "stopping"}
  /\ run.signal = "cancel" => ctl.cancel = "completed"

(* A call of download joins a future only while the run it belongs to is   *)
(* past its storage check and not over.                                    *)
CurrentOK == ctl.current => run.pc \notin {"off", "readiness"}

IInv == TypeOK /\ PartOK /\ RunOK /\ WholeFile /\ CurrentOK

-----------------------------------------------------------------------------
(* Updates of the two records keep their types.                            *)

Steps == {"off", "readiness", "check", "attempt", "request", "stream", "stopping",
          "finalize", "validate", "rename", "backoff", "ending"}

LEMMA NothingTyped ==
  /\ NotRunning \in Runs
  /\ [NotRunning EXCEPT !.pc = "ending"] \in Runs
  /\ NewController \in Controllers
<1>1. 0 \in 0..MaxAttempts /\ 0 \in 0..Size
  BY DownloadAssumption
<1>2. NotRunning \in Runs
  BY <1>1 DEF Runs, NotRunning
<1>3. [NotRunning EXCEPT !.pc = "ending"] \in Runs
  BY <1>2 DEF Runs
<1>4. NewController \in Controllers
  BY DEF NewController, Controllers
<1> QED
  BY <1>2, <1>3, <1>4

LEMMA GoesTyped ==
  ASSUME run \in Runs, NEW pc \in Steps, Goes(pc)
  PROVE  run' \in Runs
BY DEF Runs, Goes, Steps

LEMMA ControllerTyped ==
  ASSUME NEW c \in Controllers
  PROVE  /\ Released(c) \in Controllers
         /\ Reset(c) \in Controllers
         /\ \A p \in {"downloading", "paused", "finalizing", "failed"} :
              [c EXCEPT !.phase = p] \in Controllers
         /\ [c EXCEPT !.phase = "completed", !.model = FALSE] \in Controllers
         /\ [c EXCEPT !.pause = "completed"] \in Controllers
         /\ [c EXCEPT !.cancel = "completed"] \in Controllers
         /\ [c EXCEPT !.deleting = TRUE] \in Controllers
         /\ [Reset(c) EXCEPT !.deleting = FALSE] \in Controllers
         /\ [c EXCEPT !.phase = "downloading", !.model = TRUE, !.current = TRUE,
                      !.pause = "open", !.cancel = "open"] \in Controllers
BY DEF Controllers, Released, Reset

LEMMA RunTyped ==
  ASSUME run \in Runs
  PROVE  /\ \A a \in 0..MaxAttempts :
              [run EXCEPT !.pc = "attempt", !.attempt = a] \in Runs
         /\ \A n \in 0..Size : [run EXCEPT !.pc = "request", !.existing = n] \in Runs
         /\ [run EXCEPT !.sink = "unlinked"] \in Runs
BY DEF Runs

LEMMA SinkTyped ==
  ASSUME run \in Runs, NEW n \in 0..Size, NEW k \in {"whole", "failed", "unlinked"}
  PROVE  [run EXCEPT !.sent = n, !.sink = k] \in Runs
BY DEF Runs

(* What becomes of the files, but for a new chunk.                         *)
LEMMA FilesTyped ==
  ASSUME TypeOK, part' \in {part, <<>>}, final' \in {final, part}
  PROVE  /\ part' \in Seq(1..Size) /\ Len(part') <= Size
         /\ final' \in Seq(1..Size) /\ Len(final') <= Size
<1>1. <<>> \in Seq(1..Size) /\ Len(<<>>) <= Size
  BY DownloadAssumption
<1>2. part' \in Seq(1..Size) /\ Len(part') <= Size
  BY <1>1 DEF TypeOK
<1>3. final' \in Seq(1..Size) /\ Len(final') <= Size
  BY DEF TypeOK
<1> QED
  BY <1>2, <1>3

LEMMA EndingTyped ==
  ASSUME NEW c \in Controllers, Ending(c)
  PROVE  run' \in Runs /\ ctl' \in Controllers
BY NothingTyped DEF Ending

LEMMA FailsTyped ==
  ASSUME ctl \in Controllers, Fails
  PROVE  run' \in Runs /\ ctl' \in Controllers
BY EndingTyped, ControllerTyped DEF Fails

LEMMA CompletesTyped ==
  ASSUME ctl \in Controllers, Completes
  PROVE  run' \in Runs /\ ctl' \in Controllers
BY EndingTyped, ControllerTyped DEF Completes

LEMMA RetriesTyped ==
  ASSUME run \in Runs, ctl \in Controllers, Retries
  PROVE  run' \in Runs /\ ctl' \in Controllers
BY FailsTyped, GoesTyped DEF Retries, Steps

LEMMA SignalsTyped ==
  ASSUME run \in Runs, NEW s \in {"pause", "cancel"}, Signals(s)
  PROVE  run' \in Runs
BY DEF Signals, Runs

LEMMA DownloadsTyped ==
  ASSUME run \in Runs, NEW c \in Controllers, Downloads(c)
  PROVE  run' \in Runs /\ ctl' \in Controllers
BY GoesTyped DEF Downloads, Steps

LEMMA ReadsTyped ==
  ASSUME run \in Runs, NEW r \in 0..Size, NEW l \in 0..Size, r <= l, Reads(r, l)
  PROVE  run' \in Runs
<1>1. PICK t \in {0, r + Size - l} :
        run' = [run EXCEPT
          !.pc = "stream", !.sent = l, !.total = t, !.sink = "whole",
          !.signal = IF ctl.pause = "completed" THEN "pause"
                     ELSE IF ctl.cancel = "completed" THEN "cancel" ELSE "none"]
  BY DEF Reads
<1>2. t \in 0..Size
  BY DownloadAssumption
<1> QED
  BY <1>1, <1>2 DEF Runs

-----------------------------------------------------------------------------
(* Initially, and after every action, the invariant holds.                 *)

LEMMA InitOK == Init => IInv
<1> SUFFICES ASSUME Init PROVE IInv
  OBVIOUS
<1>1. TypeOK
  BY NothingTyped, DownloadAssumption DEF Init, TypeOK
<1>2. PartOK /\ RunOK /\ WholeFile /\ CurrentOK
  BY DEF Init, PartOK, RunOK, WholeFile, CurrentOK, At, HasHeader, NotRunning,
         NewController
<1> QED
  BY <1>1, <1>2 DEF IInv

(* What is said of the files holds wherever they are neither read nor      *)
(* written.                                                                *)
Quiet == {"off", "readiness", "check", "attempt", "stopping", "backoff", "ending"}

LEMMA QuietOK ==
  ASSUME IInv, UNCHANGED files, run'.pc \in Quiet
  PROVE  PartOK' /\ WholeFile'
BY DEF IInv, PartOK, WholeFile, HasHeader, Prefix, At, Quiet, files


LEMMA DownloadCallOK ==
  ASSUME IInv, DownloadCall
  PROVE  IInv'
<1>1. run' \in Runs /\ ctl' \in Controllers
  BY DownloadsTyped DEF IInv, TypeOK, DownloadCall
<1>2. TypeOK'
  BY <1>1, DownloadAssumption DEF IInv, TypeOK, DownloadCall, UserCall, files
<1>3. PartOK' /\ WholeFile'
  BY <1>1
     DEF IInv, Runs, PartOK, WholeFile, HasHeader, Prefix, DownloadCall, UserCall,
         Downloads, At, Goes, files
<1>4. RunOK'
  BY <1>1 DEF IInv, Runs, RunOK, DownloadCall, Downloads, At, Goes
<1>5. CurrentOK'
  BY DEF IInv, CurrentOK, DownloadCall, Downloads
<1> QED
  BY <1>2, <1>3, <1>4, <1>5 DEF IInv

LEMMA ResumeOK ==
  ASSUME IInv, Resume
  PROVE  IInv'
<1>1. run' \in Runs /\ ctl' \in Controllers
  BY DownloadsTyped, ControllerTyped DEF IInv, TypeOK, Resume
<1>2. TypeOK'
  BY <1>1, DownloadAssumption DEF IInv, TypeOK, Resume, UserCall, files
<1>3. PartOK' /\ WholeFile'
  BY <1>1
     DEF IInv, Runs, PartOK, WholeFile, HasHeader, Prefix, Resume, UserCall, Downloads,
         At, Goes, files
<1>4. RunOK'
  BY <1>1 DEF IInv, Runs, RunOK, Resume, Downloads, At, Goes
<1>5. CurrentOK'
  BY DEF IInv, TypeOK, Runs, CurrentOK, Resume, UserCall, Downloads, At, Goes
<1> QED
  BY <1>2, <1>3, <1>4, <1>5 DEF IInv

LEMMA PauseOK ==
  ASSUME IInv, Pause
  PROVE  IInv'
<1>1. run' \in Runs /\ ctl' \in Controllers
  <2>1. run' \in Runs
    BY SignalsTyped DEF IInv, TypeOK, Pause
  <2>2. ctl' \in Controllers
    BY ControllerTyped DEF IInv, TypeOK, Pause
  <2> QED
    BY <2>1, <2>2
<1>2. TypeOK'
  BY <1>1, DownloadAssumption DEF IInv, TypeOK, Pause, UserCall, files
<1>3. PartOK' /\ WholeFile'
  BY <1>1
     DEF IInv, PartOK, WholeFile, HasHeader, Prefix, Pause, UserCall, Signals, At, files
<1>4. RunOK'
  BY <1>1 DEF IInv, RunOK, Pause, Signals, At
<1>5. CurrentOK'
  BY DEF IInv, CurrentOK, Pause, Signals, At
<1> QED
  BY <1>2, <1>3, <1>4, <1>5 DEF IInv

LEMMA CancelOK ==
  ASSUME IInv, Cancel
  PROVE  IInv'
<1>1. run' \in Runs /\ ctl' \in Controllers
  <2>1. run' \in Runs
    BY SignalsTyped DEF IInv, TypeOK, Cancel
  <2>2. ctl' \in Controllers
    BY ControllerTyped DEF IInv, TypeOK, Cancel
  <2> QED
    BY <2>1, <2>2
<1>2. TypeOK'
  BY <1>1, DownloadAssumption DEF IInv, TypeOK, Cancel, UserCall, files
<1>3. PartOK' /\ WholeFile'
  BY <1>1
     DEF IInv, Runs, PartOK, WholeFile, HasHeader, Prefix, Cancel, UserCall, Signals,
         At, files
<1>4. RunOK'
  BY <1>1 DEF IInv, Runs, Controllers, RunOK, Cancel, Signals, Reset, At
<1>5. CurrentOK'
  BY DEF IInv, TypeOK, Runs, Controllers, CurrentOK, Cancel, Signals, Reset, At
<1> QED
  BY <1>2, <1>3, <1>4, <1>5 DEF IInv

LEMMA DeletedOK ==
  ASSUME IInv, Deleted
  PROVE  IInv'
<1>1. run' \in Runs /\ ctl' \in Controllers
  <2>1. run' \in {run, [run EXCEPT !.sink = "unlinked"]}
    BY DEF Deleted
  <2>2. run' \in Runs
    BY <2>1, RunTyped DEF IInv, TypeOK
  <2>3. ctl' \in Controllers
    BY ControllerTyped DEF IInv, TypeOK, Deleted
  <2> QED
    BY <2>2, <2>3
<1>2. TypeOK'
  <2>1. part' \in {part, <<>>} /\ final' \in {final, <<>>}
    BY DEF Deleted
  <2>2. <<>> \in Seq(1..Size) /\ Len(<<>>) <= Size
    BY DownloadAssumption
  <2> QED
    BY <1>1, <2>1, <2>2 DEF IInv, TypeOK, Deleted, bounds
<1>3. PartOK' /\ WholeFile'
  <2>1. CASE part' = <<>> /\ final' = <<>>
    <3>1. run'.pc = run.pc /\ run'.existing = run.existing /\ run'.sent = run.sent
      BY DEF IInv, TypeOK, Runs, Deleted
    <3>2. 0 <= run.existing /\ 0 <= run.sent /\ Len(<<>>) = 0
      BY DEF IInv, TypeOK, Runs
    <3> QED
      BY <2>1, <3>1, <3>2 DEF PartOK, WholeFile, HasHeader, At
  <2>2. CASE final' \in {final, <<>>} /\ UNCHANGED <<part, run>>
    BY <2>2 DEF IInv, PartOK, WholeFile, HasHeader, Prefix, At
  <2> QED
    BY <2>1, <2>2 DEF Deleted
<1>4. run'.pc = run.pc /\ run'.attempt = run.attempt /\ run'.signal = run.signal
  BY DEF IInv, TypeOK, Runs, Deleted
<1>5. ctl'.cancel = ctl.cancel /\ ctl'.current = ctl.current
  BY DEF IInv, TypeOK, Controllers, Deleted, Reset
<1>6. RunOK' /\ CurrentOK'
  BY <1>4, <1>5 DEF IInv, RunOK, CurrentOK, At
<1> QED
  BY <1>2, <1>3, <1>6 DEF IInv

LEMMA ReadinessCheckedOK ==
  ASSUME IInv, ReadinessChecked, UNCHANGED bounds
  PROVE  IInv'
<1>1. run' \in Runs /\ ctl' \in Controllers
  BY GoesTyped, ControllerTyped DEF IInv, TypeOK, ReadinessChecked, Steps
<1>2. TypeOK'
  BY <1>1 DEF IInv, TypeOK, ReadinessChecked, files, bounds
<1>3. PartOK' /\ WholeFile'
  BY QuietOK DEF IInv, TypeOK, Runs, ReadinessChecked, Goes, Quiet
<1>4. RunOK'
  BY <1>1 DEF IInv, Runs, RunOK, ReadinessChecked, At, Goes
<1>5. CurrentOK'
  BY DEF IInv, TypeOK, Runs, Controllers, CurrentOK, ReadinessChecked, At, Goes
<1> QED
  BY <1>2, <1>3, <1>4, <1>5 DEF IInv

LEMMA CompletionFailsOK ==
  ASSUME IInv, CompletionFails, UNCHANGED bounds
  PROVE  IInv'
<1>1. run' \in Runs /\ ctl' \in Controllers
  BY ControllerTyped DEF IInv, TypeOK, CompletionFails
<1>2. TypeOK'
  BY <1>1 DEF IInv, TypeOK, CompletionFails, files, bounds
<1>3. PartOK' /\ WholeFile'
  BY QuietOK DEF IInv, CompletionFails, At, Quiet
<1>4. RunOK'
  BY DEF IInv, TypeOK, Controllers, RunOK, CompletionFails, At
<1>5. CurrentOK'
  BY DEF IInv, TypeOK, Controllers, CurrentOK, CompletionFails
<1> QED
  BY <1>2, <1>3, <1>4, <1>5 DEF IInv

LEMMA EndsOK ==
  ASSUME IInv, Ends, UNCHANGED bounds
  PROVE  IInv'
<1>1. run' \in Runs /\ ctl' \in Controllers
  BY NothingTyped, ControllerTyped DEF IInv, TypeOK, Ends
<1>2. TypeOK'
  BY <1>1 DEF IInv, TypeOK, Ends, files, bounds
<1>3. PartOK' /\ WholeFile'
  BY QuietOK DEF IInv, Ends, NotRunning, Quiet
<1>4. RunOK'
  BY <1>1 DEF IInv, RunOK, Ends, NotRunning, At
<1>5. CurrentOK'
  BY DEF IInv, CurrentOK, Ends, Released
<1> QED
  BY <1>2, <1>3, <1>4, <1>5 DEF IInv

LEMMA CheckedOK ==
  ASSUME IInv, Checked, UNCHANGED bounds
  PROVE  IInv'
<1>1. run' \in Runs /\ ctl' \in Controllers
  <2>1. 1 \in 0..MaxAttempts
    BY DownloadAssumption
  <2> QED
    BY <2>1, RunTyped, ControllerTyped, CompletesTyped, FailsTyped
       DEF IInv, TypeOK, Checked
<1>2. TypeOK'
  BY <1>1 DEF IInv, TypeOK, Checked, files, bounds
<1>3. PartOK' /\ WholeFile'
  BY QuietOK
     DEF IInv, TypeOK, Runs, Checked, Completes, Fails, Ending, NotRunning, Quiet
<1>4. RunOK'
  BY <1>1 DEF IInv, Runs, RunOK, Checked, Completes, Fails, Ending, NotRunning, At
<1>5. CurrentOK'
  BY DEF IInv, TypeOK, Runs, Controllers, CurrentOK, Checked, Completes, Fails, Ending,
         NotRunning, At
<1> QED
  BY <1>2, <1>3, <1>4, <1>5 DEF IInv

LEMMA AsksOK ==
  ASSUME IInv, Asks, UNCHANGED bounds
  PROVE  IInv'
<1>1. run' \in Runs /\ ctl' \in Controllers
  <2>1. Len(part) \in 0..Size
    BY DEF IInv, TypeOK
  <2> QED
    BY <2>1, RunTyped DEF IInv, TypeOK, Asks
<1>2. TypeOK'
  BY <1>1 DEF IInv, TypeOK, Asks, files, bounds
<1>3. PartOK' /\ WholeFile'
  BY <1>1 DEF IInv, PartOK, WholeFile, HasHeader, Prefix, Asks, At, files
<1>4. RunOK'
  BY <1>1 DEF IInv, RunOK, Asks, At
<1>5. CurrentOK'
  BY DEF IInv, CurrentOK, Asks, At
<1> QED
  BY <1>2, <1>3, <1>4, <1>5 DEF IInv

LEMMA BackedOffOK ==
  ASSUME IInv, BackedOff, UNCHANGED bounds
  PROVE  IInv'
<1>1. run' \in Runs /\ ctl' \in Controllers
  <2>1. run.attempt + 1 \in 0..MaxAttempts
    BY DownloadAssumption DEF IInv, TypeOK, Runs, RunOK, BackedOff
  <2>2. run' = [run EXCEPT !.pc = "attempt", !.attempt = run.attempt + 1]
    BY DEF IInv, BackedOff
  <2> QED
    BY <2>1, <2>2, RunTyped DEF IInv, TypeOK, BackedOff
<1>2. TypeOK'
  BY <1>1 DEF IInv, TypeOK, BackedOff, files, bounds
<1>3. PartOK' /\ WholeFile'
  BY QuietOK DEF IInv, BackedOff, Quiet
<1>4. RunOK'
  BY <1>1 DEF IInv, RunOK, BackedOff, At
<1>5. CurrentOK'
  BY DEF IInv, CurrentOK, BackedOff, At
<1> QED
  BY <1>2, <1>3, <1>4, <1>5 DEF IInv

LEMMA RespondsOK ==
  ASSUME IInv, Responds, UNCHANGED bounds
  PROVE  IInv'
<1>1. run' \in Runs /\ ctl' \in Controllers
  <2>1. CASE WholeResponse
    <3>1. 0 \in 0..Size
      BY DownloadAssumption
    <3>2. run' \in Runs
      BY <2>1, <3>1, ReadsTyped DEF IInv, TypeOK, WholeResponse
    <3> QED
      BY <2>1, <3>2 DEF IInv, TypeOK, WholeResponse, Reads
  <2>2. CASE PartialResponse
    <3>1. run.existing \in 0..Size /\ run.existing <= run.existing
      BY DEF IInv, TypeOK, Runs
    <3>2. run' \in Runs
      BY <2>2, <3>1, ReadsTyped DEF IInv, TypeOK, PartialResponse
    <3> QED
      BY <2>2, <3>2 DEF IInv, TypeOK, PartialResponse, Reads
  <2> QED
    BY <2>1, <2>2, RetriesTyped, FailsTyped DEF IInv, TypeOK, Responds
<1>2. TypeOK'
  <2>1. part' \in {part, <<>>} /\ final' \in {final, part}
    BY DEF Responds, WholeResponse, PartialResponse
  <2> QED
    BY <1>1, <2>1, FilesTyped DEF IInv, TypeOK, bounds
<1>3. PartOK' /\ WholeFile'
  <2>1. CASE WholeResponse
    BY <1>2, <2>1
       DEF IInv, TypeOK, Runs, Responds, WholeResponse, PartOK, WholeFile, HasHeader
  <2>2. CASE PartialResponse
    <3>1. /\ part' = part /\ final' = final /\ run'.pc = "stream"
          /\ run'.sent = run.existing /\ run'.sink = "whole" /\ run.pc = "request"
      BY <2>2 DEF IInv, TypeOK, Runs, Responds, PartialResponse, Reads, At
    <3> QED
      BY <3>1 DEF IInv, PartOK, WholeFile, HasHeader, Prefix, At
  <2>3. CASE (Retries \/ Fails) /\ UNCHANGED part
    BY <2>3, QuietOK
       DEF IInv, TypeOK, Runs, Responds, Retries, Fails, Ending, NotRunning, Goes,
           Quiet, files
  <2> QED
    BY <2>1, <2>2, <2>3 DEF Responds
<1>4. RunOK' /\ CurrentOK'
  <2>1. /\ run \in Runs /\ ctl \in Controllers
        /\ run.pc = "request" /\ run.signal = "none"
        /\ CurrentOK
    BY DEF IInv, TypeOK, RunOK, Responds, At
  <2>2. CASE WholeResponse \/ PartialResponse
    <3>1. /\ ctl' = ctl /\ run'.pc = "stream"
          /\ run'.signal = IF ctl.pause = "completed" THEN "pause"
                           ELSE IF ctl.cancel = "completed" THEN "cancel" ELSE "none"
      BY <2>1, <2>2 DEF Runs, WholeResponse, PartialResponse, Reads
    <3> QED
      BY <3>1 DEF RunOK, CurrentOK, At
  <2>3. CASE run.attempt < MaxAttempts /\ Goes("backoff") /\ UNCHANGED ctl
    <3>1. /\ ctl' = ctl /\ run'.pc = "backoff" /\ run'.signal = "none"
          /\ run'.attempt < MaxAttempts
      BY <2>1, <2>3 DEF Runs, Goes
    <3> QED
      BY <3>1 DEF RunOK, CurrentOK, At
  <2>4. CASE Fails
    <3>1. /\ run'.pc = "ending" /\ run'.signal = "none"
          /\ ctl'.phase = "failed"
      BY <2>1, <2>4 DEF Runs, Controllers, Fails, Ending, NotRunning
    <3> QED
      BY <3>1 DEF RunOK, CurrentOK, At
  <2> QED
    BY <2>2, <2>3, <2>4 DEF Responds, Retries
<1> QED
  BY <1>2, <1>3, <1>4 DEF IInv

LEMMA ChunkOK ==
  ASSUME IInv, Chunk, UNCHANGED bounds
  PROVE  IInv'
<1> SUFFICES ASSUME NEW sink \in {run.sink, "failed"},
                    run' = [run EXCEPT !.sent = @ + 1, !.sink = sink],
                    part' = IF sink = "whole" THEN Append(part, run.sent + 1) ELSE part
             PROVE  IInv'
  BY DEF Chunk
<1>1. run' \in Runs /\ ctl' \in Controllers
  <2>1. sink \in {"whole", "failed", "unlinked"}
    BY DEF IInv, TypeOK, Runs
  <2>2. run.sent + 1 \in 0..Size
    BY DownloadAssumption DEF IInv, TypeOK, Runs, Chunk
  <2>3. run' = [run EXCEPT !.sent = run.sent + 1, !.sink = sink]
    BY DEF IInv
  <2>4. run \in Runs
    BY DEF IInv, TypeOK
  <2>5. run' \in Runs
    BY <2>1, <2>2, <2>3, <2>4, SinkTyped, ZenonT(30)
  <2> QED
    BY <2>5 DEF IInv, TypeOK, Chunk
<1>2. TypeOK'
  <2>1. part' \in Seq(1..Size) /\ Len(part') <= Size
    <3>1. CASE sink # "whole"
      BY <3>1 DEF IInv, TypeOK
    <3>2. CASE sink = "whole"
      <4>1. /\ run.sent \in Nat /\ run.sent + 1 \in 1..Size
            /\ Len(part) <= run.sent /\ run.sent < Size
        BY DownloadAssumption DEF IInv, TypeOK, Runs, PartOK, Chunk, At
      <4>2. /\ part \in Seq(1..Size) /\ Len(part) \in Nat
            /\ part' = Append(part, run.sent + 1)
        BY <3>2 DEF IInv, TypeOK
      <4>3. /\ Append(part, run.sent + 1) \in Seq(1..Size)
            /\ Len(Append(part, run.sent + 1)) = Len(part) + 1
        BY <4>1, <4>2, AppendProperties
      <4>4. Len(part) + 1 <= Size
        BY <4>1, <4>2, DownloadAssumption
      <4> QED
        BY <4>2, <4>3, <4>4, Zenon
    <3> QED
      BY <3>1, <3>2
  <2> QED
    BY <1>1, <2>1 DEF IInv, TypeOK, Chunk, bounds
<1>3. PartOK' /\ WholeFile'
  <2>1. /\ WholeFile' /\ run.pc = "stream" /\ run'.pc = "stream"
        /\ run'.sent = run.sent + 1 /\ run'.sink = sink
    BY DEF IInv, TypeOK, Runs, WholeFile, Chunk, At
  <2>2. Len(part) <= run.sent /\ run.sent \in Nat
    BY DEF IInv, TypeOK, Runs, PartOK, Chunk
  <2>3. CASE sink # "whole"
    BY <2>1, <2>2, <2>3 DEF IInv, PartOK, HasHeader, Prefix, At
  <2>4. CASE sink = "whole"
    <3>1. run.sink = "whole"
      BY <2>4
    <3>2. /\ Len(part') = Len(part) + 1 /\ part'[Len(part) + 1] = run.sent + 1
          /\ \A i \in 1..Len(part) : part'[i] = part[i]
      BY <2>4, AppendProperties DEF IInv
    <3>3. CASE part = <<>>
      BY <2>1, <2>2, <3>2, <3>3 DEF PartOK, HasHeader, Prefix, At
    <3>4. CASE part # <<>>
      BY <2>1, <2>2, <3>1, <3>2, <3>4 DEF IInv, PartOK, HasHeader, Prefix, At
    <3> QED
      BY <3>3, <3>4
  <2> QED
    BY <2>1, <2>3, <2>4
<1>4. RunOK'
  BY <1>1 DEF IInv, RunOK, Chunk, At
<1>5. CurrentOK'
  BY DEF IInv, CurrentOK, Chunk, At
<1> QED
  BY <1>2, <1>3, <1>4, <1>5 DEF IInv

LEMMA StreamDoneOK ==
  ASSUME IInv, StreamDone, UNCHANGED bounds
  PROVE  IInv'
<1>1. run' \in Runs /\ ctl' \in Controllers
  BY GoesTyped, ControllerTyped DEF IInv, TypeOK, StreamDone, Steps
<1>2. TypeOK'
  BY <1>1 DEF IInv, TypeOK, StreamDone, files, bounds
<1>3. PartOK' /\ WholeFile'
  BY <1>1
     DEF IInv, TypeOK, Runs, PartOK, WholeFile, HasHeader, Prefix, StreamDone, At, Goes,
         files
<1>4. RunOK'
  BY <1>1 DEF IInv, RunOK, StreamDone, At, Goes
<1>5. CurrentOK'
  BY DEF IInv, CurrentOK, StreamDone, At, Goes
<1> QED
  BY <1>2, <1>3, <1>4, <1>5 DEF IInv

LEMMA StreamErrorOK ==
  ASSUME IInv, StreamError, UNCHANGED bounds
  PROVE  IInv'
<1>1. run' \in Runs /\ ctl' \in Controllers
  BY RetriesTyped, FailsTyped DEF IInv, TypeOK, StreamError
<1>2. TypeOK'
  BY <1>1 DEF IInv, TypeOK, StreamError, files, bounds
<1>3. PartOK' /\ WholeFile'
  BY QuietOK
     DEF IInv, TypeOK, Runs, StreamError, Retries, Fails, Ending, NotRunning, Goes,
         Quiet
<1>4. RunOK'
  BY <1>1
     DEF IInv, Runs, RunOK, StreamError, Retries, Fails, Ending, NotRunning, At, Goes
<1>5. CurrentOK'
  BY DEF IInv, TypeOK, Runs, Controllers, CurrentOK, StreamError, Retries, Fails, Ending,
         NotRunning, At, Goes
<1> QED
  BY <1>2, <1>3, <1>4, <1>5 DEF IInv

LEMMA StoppedOK ==
  ASSUME IInv, Stopped, UNCHANGED bounds
  PROVE  IInv'
<1>1. run' \in Runs /\ ctl' \in Controllers
  BY GoesTyped DEF IInv, TypeOK, Stopped, Steps
<1>2. TypeOK'
  BY <1>1 DEF IInv, TypeOK, Stopped, files, bounds
<1>3. PartOK' /\ WholeFile'
  BY QuietOK DEF IInv, Stopped, Goes, Quiet
<1>4. RunOK'
  BY <1>1 DEF IInv, RunOK, Stopped, At, Goes
<1>5. CurrentOK'
  BY DEF IInv, CurrentOK, Stopped, At, Goes
<1> QED
  BY <1>2, <1>3, <1>4, <1>5 DEF IInv

LEMMA StopFinishedOK ==
  ASSUME IInv, StopFinished, UNCHANGED bounds
  PROVE  IInv'
<1>1. run' \in Runs /\ ctl' \in Controllers
  BY EndingTyped, NothingTyped, ControllerTyped
     DEF IInv, TypeOK, StopFinished, PauseFinished, CancelFinished
<1>2. TypeOK'
  <2>1. part' \in {part, <<>>} /\ final' \in {final, part}
    BY DEF StopFinished, PauseFinished, CancelFinished
  <2> QED
    BY <1>1, <2>1, FilesTyped DEF IInv, TypeOK, bounds
<1>3. PartOK' /\ WholeFile'
  <2>1. CASE PauseFinished
    BY <2>1, QuietOK DEF StopFinished, PauseFinished, NotRunning, Quiet, files
  <2>2. CASE CancelFinished /\ part' = part
    BY <2>2, QuietOK
       DEF StopFinished, CancelFinished, Ending, NotRunning, Quiet, files
  <2>3. CASE CancelFinished /\ part' = <<>>
    BY <2>3
       DEF IInv, StopFinished, CancelFinished, Ending, NotRunning, PartOK, WholeFile,
           HasHeader, At
  <2> QED
    BY <2>1, <2>2, <2>3 DEF StopFinished, CancelFinished
<1>4. RunOK'
  BY <1>1
     DEF IInv, RunOK, StopFinished, PauseFinished, CancelFinished, Ending, NotRunning,
         At
<1>5. CurrentOK'
  BY DEF IInv, TypeOK, Controllers, CurrentOK, StopFinished, PauseFinished,
         CancelFinished, Released, Ending, Reset, NotRunning
<1> QED
  BY <1>2, <1>3, <1>4, <1>5 DEF IInv

LEMMA FinalizedOK ==
  ASSUME IInv, Finalized, UNCHANGED bounds
  PROVE  IInv'
<1>1. run' \in Runs /\ ctl' \in Controllers
  BY GoesTyped, FailsTyped DEF IInv, TypeOK, Finalized, Steps
<1>2. TypeOK'
  BY <1>1 DEF IInv, TypeOK, Finalized, files, bounds
<1>3. PartOK' /\ WholeFile'
  BY <1>1
     DEF IInv, Runs, PartOK, WholeFile, HasHeader, Prefix, Finalized, Fails, Ending, At,
         Goes, files
<1>4. RunOK'
  BY <1>1 DEF IInv, Runs, RunOK, Finalized, Fails, Ending, NotRunning, At, Goes
<1>5. CurrentOK'
  BY DEF IInv, TypeOK, Runs, Controllers, CurrentOK, Finalized, Fails, Ending, NotRunning,
         At, Goes
<1> QED
  BY <1>2, <1>3, <1>4, <1>5 DEF IInv

LEMMA ValidatedOK ==
  ASSUME IInv, Validated, UNCHANGED bounds
  PROVE  IInv'
<1>1. run' \in Runs /\ ctl' \in Controllers
  BY GoesTyped, FailsTyped DEF IInv, TypeOK, Validated, Steps
<1>2. TypeOK'
  <2>1. part' \in {part, <<>>} /\ final' \in {final, part}
    BY DEF Validated
  <2> QED
    BY <1>1, <2>1, FilesTyped DEF IInv, TypeOK, bounds
<1>3. PartOK' /\ WholeFile'
  <2>1. CASE Fails /\ part' = part
    BY <2>1, QuietOK DEF Validated, Fails, Ending, NotRunning, Quiet, files
  <2>2. CASE Fails /\ part' = <<>>
    BY <2>2
       DEF IInv, Validated, Fails, Ending, NotRunning, PartOK, WholeFile, HasHeader, At
  <2>3. CASE Valid /\ Goes("rename") /\ UNCHANGED <<part, ctl>>
    BY <1>1, <2>3
       DEF IInv, Runs, PartOK, WholeFile, HasHeader, Prefix, Validated, Valid, At, Goes
  <2> QED
    BY <2>1, <2>2, <2>3 DEF Validated
<1>4. RunOK'
  BY <1>1 DEF IInv, Runs, RunOK, Validated, Fails, Ending, NotRunning, At, Goes
<1>5. CurrentOK'
  BY DEF IInv, TypeOK, Runs, Controllers, CurrentOK, Validated, Fails, Ending, NotRunning,
         At, Goes
<1> QED
  BY <1>2, <1>3, <1>4, <1>5 DEF IInv

LEMMA RenameOK ==
  ASSUME IInv, Rename, UNCHANGED bounds
  PROVE  IInv'
<1>1. run' \in Runs /\ ctl' \in Controllers
  BY CompletesTyped, FailsTyped DEF IInv, TypeOK, Rename
<1>2. TypeOK'
  <2>1. part' \in {part, <<>>} /\ final' \in {final, part}
    BY DEF Rename, files
  <2> QED
    BY <1>1, <2>1, FilesTyped DEF IInv, TypeOK, bounds
<1>3. PartOK' /\ WholeFile'
  <2>1. CASE final' = part /\ part' = <<>> /\ Completes
    <3>1. part # <<>> => part = [i \in 1..Size |-> i]
      BY DEF IInv, TypeOK, Rename, PartOK, Prefix
    <3> QED
      BY <2>1, <3>1 DEF Completes, Ending, NotRunning, PartOK, WholeFile, HasHeader
  <2>2. CASE Fails /\ UNCHANGED files
    BY <2>2, QuietOK DEF Fails, Ending, Quiet
  <2> QED
    BY <2>1, <2>2 DEF Rename
<1>4. RunOK'
  BY <1>1 DEF IInv, RunOK, Rename, Completes, Fails, Ending, NotRunning, At
<1>5. CurrentOK'
  BY DEF IInv, TypeOK, Controllers, CurrentOK, Rename, Completes, Fails, Ending,
         NotRunning
<1> QED
  BY <1>2, <1>3, <1>4, <1>5 DEF IInv

LEMMA KillOK ==
  ASSUME IInv, Kill
  PROVE  IInv'
<1>1. run' \in Runs /\ ctl' \in Controllers
  BY NothingTyped DEF IInv, Kill
<1>2. TypeOK'
  BY <1>1, DownloadAssumption DEF IInv, TypeOK, Kill, files
<1>3. PartOK' /\ WholeFile'
  BY QuietOK DEF IInv, Kill, NotRunning, Quiet
<1>4. RunOK'
  BY <1>1 DEF IInv, RunOK, Kill, NotRunning, At
<1>5. CurrentOK'
  BY DEF IInv, CurrentOK, Kill, NewController
<1> QED
  BY <1>2, <1>3, <1>4, <1>5 DEF IInv

-----------------------------------------------------------------------------
(* The theorems.                                                           *)

LEMMA StepOK == IInv /\ [Next]_vars => IInv'
<1> SUFFICES ASSUME IInv, [Next]_vars PROVE IInv'
  OBVIOUS
<1>1. CASE UNCHANGED vars
  BY <1>1
     DEF vars, files, bounds, IInv, TypeOK, PartOK, RunOK, WholeFile, CurrentOK,
         HasHeader, Prefix, At
<1>2. CASE User
  BY <1>2, DownloadCallOK, ResumeOK, PauseOK, CancelOK DEF User
<1>3. CASE Work
  BY <1>3, ReadinessCheckedOK, CompletionFailsOK, EndsOK, CheckedOK, AsksOK, BackedOffOK, RespondsOK,
     ChunkOK, StreamDoneOK, StreamErrorOK, StoppedOK, StopFinishedOK, FinalizedOK,
     ValidatedOK, RenameOK
     DEF Work
<1> QED
  BY <1>1, <1>2, <1>3, DeletedOK, KillOK DEF Next

(* The invariant above holds in every state: it ties the .part file to the *)
(* range that is asked for, the chunks that come and how they are kept.    *)
THEOREM PartInvariance == Spec => []IInv
BY InitOK, StepOK, PTL DEF Spec

(* The state keeps its type: maxAttempts bounds the attempts, and the      *)
(* .part file never outgrows the model.                                    *)
THEOREM PartTypeCorrect == Spec => []TypeOK
<1>1. IInv => TypeOK
  BY DEF IInv
<1> QED
  BY <1>1, PartInvariance, PTL

(* The model file is the whole model, every chunk at its place, whatever   *)
(* pauses, retries, refused ranges, failed writes and kills its download   *)
(* went through, and whether or not the user waited.                       *)
THEOREM OnlyWholeModels == Spec => []WholeFile
<1>1. IInv => WholeFile
  BY DEF IInv
<1> QED
  BY <1>1, PartInvariance, PTL

(* However a download ends, and whenever the user calls: only a resume     *)
(* leaves a running download on the screen that nothing runs.              *)
THEOREM ResumeAloneStrands == Spec => OnlyResumeStrands
<1> DEFINE Held ==
      ~Adrift /\ Adrift' =>
        At("readiness") \/ (At("ending") /\ ctl.current)
<1>1. IInv /\ [Next]_vars => [Held]_vars
  <2> SUFFICES ASSUME IInv, Next, ~Adrift, Adrift'
               PROVE  At("readiness") \/ (At("ending") /\ ctl.current)
    OBVIOUS
  <2>1. run \in Runs /\ ctl \in Controllers /\ CurrentOK
    BY DEF IInv, TypeOK
  <2>2. CASE Resume \/ DownloadCall
    <3>1. CASE ctl.current /\ UNCHANGED run
      BY <2>1, <2>2, <3>1
         DEF Adrift, CurrentOK, Controllers, Resume, DownloadCall, Downloads, At
    <3>2. CASE run'.pc = "readiness"
      BY <3>2 DEF Adrift
    <3> QED
      BY <2>1, <2>2, <3>1, <3>2 DEF Resume, DownloadCall, Downloads, Goes, Runs
  <2>3. CASE Pause \/ Cancel
    <3>1. run'.pc = run.pc /\ ctl'.phase \in {ctl.phase, "idle"}
      BY <2>1, <2>3 DEF Pause, Cancel, Signals, Reset, Runs, Controllers
    <3> QED
      BY <3>1 DEF Adrift
  <2>4. CASE Deleted \/ Kill
    <3>1. ctl'.phase = "idle"
      <4>1. CASE Deleted
        BY <2>1, <4>1 DEF Deleted, Reset, Controllers
      <4>2. CASE Kill
        BY <4>2 DEF Kill, NewController
      <4> QED
        BY <2>4, <4>1, <4>2
    <3> QED
      BY <3>1 DEF Adrift
  <2>5. CASE ReadinessChecked
    BY <2>5 DEF ReadinessChecked
  <2>6. CASE CompletionFails \/ Ends
    BY <2>1, <2>6 DEF Adrift, CompletionFails, Ends, Released, At, Controllers
  <2>7. CASE Fails \/ Completes
    BY <2>1, <2>7 DEF Adrift, Fails, Completes, Ending, Controllers
  <2>8. CASE StopFinished
    BY <2>1, <2>8
       DEF Adrift, StopFinished, PauseFinished, CancelFinished, Released, Reset, Ending,
           Controllers
  <2>9. CASE run'.pc \notin {"off", "ending"}
    BY <2>9 DEF Adrift
  <2>10. CASE Checked \/ Asks \/ BackedOff \/ Responds
    <3>1. Fails \/ Completes \/ run'.pc \in {"attempt", "request", "backoff", "stream"}
      BY <2>1, <2>10
         DEF Checked, Asks, BackedOff, Responds, Retries, WholeResponse, PartialResponse,
             Reads, Goes, Runs
    <3> QED
      BY <2>7, <2>9, <3>1
  <2>11. CASE Chunk \/ StreamDone \/ StreamError \/ Stopped
    <3>1. Fails \/ run'.pc \in {"stream", "finalize", "backoff", "stopping"}
      BY <2>1, <2>11
         DEF Chunk, StreamDone, StreamError, Stopped, Retries, Goes, At, Runs
    <3> QED
      BY <2>7, <2>9, <3>1
  <2>12. CASE Finalized \/ Validated \/ Rename
    <3>1. Fails \/ Completes \/ run'.pc \in {"validate", "rename"}
      BY <2>1, <2>12 DEF Finalized, Validated, Rename, Goes, Runs
    <3> QED
      BY <2>7, <2>9, <3>1
  <2> QED
    BY <2>2, <2>3, <2>4, <2>5, <2>6, <2>8, <2>10, <2>11, <2>12 DEF Next, User, Work
<1> QED
  BY <1>1, PartInvariance, PTL DEF Spec, OnlyResumeStrands

(* The .part file only shrinks when it becomes the model file, on a        *)
(* cancel, when the server sends everything again, or when it is invalid.  *)
THEOREM BytesStay == Spec => BytesKept
<1> DEFINE Kept ==
      Len(part') < Len(part) =>
        \/ final' = part
        \/ ctl.cancel = "completed" \/ ctl.deleting
        \/ At("request") \/ At("validate")
<1>1. IInv /\ [Next]_vars => [Kept]_vars
  <2> SUFFICES ASSUME IInv, Next PROVE Kept
    OBVIOUS
  <2>1. CASE part' = part
    BY <2>1 DEF IInv, TypeOK
  <2>2. CASE Chunk
    BY <2>2, AppendProperties DEF IInv, TypeOK, Chunk
  <2>3. CASE Deleted
    BY <2>3 DEF Deleted
  <2>4. CASE StopFinished
    BY <2>1, <2>4 DEF StopFinished, PauseFinished, CancelFinished, IInv, RunOK
  <2>5. CASE Rename
    BY <2>1, <2>5 DEF Rename, files
  <2>6. CASE Responds
    BY <2>6 DEF Responds
  <2>7. CASE Validated
    BY <2>7 DEF Validated
  <2> QED
    BY <2>1, <2>2, <2>3, <2>4, <2>5, <2>6, <2>7
       DEF Next, User, UserCall, DownloadCall, Resume, Pause, Cancel, Work, Kill, files,
           ReadinessChecked, CompletionFails, Ends, Checked, Asks, BackedOff, StreamDone, StreamError,
           Stopped, Finalized
<1> QED
  BY <1>1, PartInvariance, PTL DEF Spec, BytesKept
=============================================================================
