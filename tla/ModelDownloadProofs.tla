------------------------ MODULE ModelDownloadProofs ------------------------
(***************************************************************************)
(* Theorems about ModelDownloadController for any number of models, calls, *)
(* finalizers and completers, any bounds, and any number of kills.         *)
(***************************************************************************)
EXTENDS ModelDownloadController, SequenceTheorems, TLAPS

-----------------------------------------------------------------------------
(* The inductive invariant.                                                *)

(* What the fields satisfy among themselves after every handler.           *)
ControllerOK(s) ==
  /\ s \in Controller
  /\ s.current = s.completer
  /\ s.phase \in {"downloading", "finalizing"} => s.model # None
  /\ s.phase = "completed" => s.model = None
  /\ s.phase = "failed" => s.failure

Enqueuing == {"dropRecord", "enqueue", "enqueueFailed"}

(* What an activation r keeps across its awaits, given the futures f and   *)
(* the current completer c: its model, a completer in use, and, once the   *)
(* enqueue failed, one that is no longer the current one.                  *)
ActivationOK(r, f, c) ==
  /\ r.pc \notin Modelless => r.model \in Models
  /\ r.pc \in Enqueuing => r.completer \in Completers /\ f[r.completer] # "unused"
  /\ r.pc = "enqueueFailed" => r.completer # c

FuturesOK(f, c) ==
  /\ f \in [Completers -> Futures]
  /\ c # None => f[c] = "pending"

ActivationsOK(g, f, c) ==
  /\ g \in [Activations -> Activation]
  /\ \A a \in Activations : ActivationOK(g[a], f, c)

IInv ==
  /\ EngineTypeOK
  /\ ControllerOK(ctl)
  /\ FuturesOK(future, ctl.completer)
  /\ ActivationsOK(act, future, ctl.completer)
  /\ made \in Nat
  /\ restarts \in Nat

-----------------------------------------------------------------------------
(* The helpers on the controller's fields keep them consistent.            *)

LEMMA AttachedOK ==
  ASSUME NEW s, ControllerOK(s), NEW c \in Completers \cup {None}
  PROVE  /\ ControllerOK(Attached(s, c))
         /\ Attached(s, c).completer = c
BY DEF ControllerOK, Controller, Attached

LEMMA DetachedOK ==
  ASSUME NEW s, ControllerOK(s)
  PROVE  /\ ControllerOK(Detached(s))
         /\ Detached(s).completer = None
BY AttachedOK DEF Detached

LEMMA ResetOK ==
  ASSUME NEW s, ControllerOK(s)
  PROVE  /\ ControllerOK(Reset(s))
         /\ Reset(s).completer = s.completer
BY DEF ControllerOK, Controller, Reset, Phases

LEMMA InPhaseOK ==
  ASSUME NEW s, ControllerOK(s), NEW m \in Models,
         NEW ph \in {"downloading", "paused", "finalizing"}
  PROVE  /\ ControllerOK(InPhase(s, m, ph))
         /\ InPhase(s, m, ph).completer = s.completer
         /\ InPhase(s, m, ph).phase = ph
BY DistinctAssumption DEF ControllerOK, Controller, InPhase, Phases

LEMMA FailedOK ==
  ASSUME NEW s, ControllerOK(s), NEW m \in Models
  PROVE  /\ ControllerOK(Failed(s, m))
         /\ Failed(s, m).completer = s.completer
BY DistinctAssumption DEF ControllerOK, Controller, InPhase, Failed, Phases

LEMMA StartedOK ==
  ASSUME NEW s, ControllerOK(s), NEW m \in Models, NEW c \in Completers
  PROVE  /\ ControllerOK(Started(s, m, c))
         /\ Started(s, m, c).completer = c
BY DistinctAssumption DEF ControllerOK, Controller, Attached, Started, Phases

LEMMA ClearedOK ==
  ASSUME NEW s, ControllerOK(s), NEW b \in BOOLEAN, s.phase # "failed"
  PROVE  /\ ControllerOK([s EXCEPT !.failure = b])
         /\ [s EXCEPT !.failure = b].completer = s.completer
BY DEF ControllerOK, Controller

-----------------------------------------------------------------------------
(* The engine's steps keep the engine's types.                             *)

LEMMA MovesOK ==
  ASSUME EngineTypeOK, NEW m \in Models, NEW s \in Status, Moves(m, s)
  PROVE  /\ task' \in [Models -> TaskStates]
         /\ events' \in Seq([model: Models, status: Status])
BY DEF EngineTypeOK, Moves, Status, TaskStates, Ended, Running

LEMMA RecordOK ==
  ASSUME EngineTypeOK, NEW m, NEW s \in Status \cup {"none"},
         record' = [record EXCEPT ![m] = s]
  PROVE  record' \in [Models -> Status \cup {"none"}]
BY DEF EngineTypeOK

LEMMA FileOK ==
  ASSUME EngineTypeOK, NEW m, NEW f \in Files, file' = [file EXCEPT ![m] = f]
  PROVE  file' \in [Models -> Files]
BY DEF EngineTypeOK

LEMMA DropJunkOK ==
  ASSUME EngineTypeOK, NEW S, DropJunk(S)
  PROVE  file' \in [Models -> Files]
BY DEF EngineTypeOK, DropJunk, Files

LEMMA UnchangedEngineOK ==
  ASSUME EngineTypeOK, UNCHANGED engineVars
  PROVE  EngineTypeOK'
BY DEF EngineTypeOK, engineVars

LEMMA NativeStepOK ==
  ASSUME EngineTypeOK, NEW m \in Models, NativeStep(m)
  PROVE  EngineTypeOK'
<1>1. PICK s \in Status :
        /\ Moves(m, s)
        /\ \/ UNCHANGED file
           \/ \E f \in Files \ {"absent"} : file' = [file EXCEPT ![m] = f]
        /\ UNCHANGED record
  BY DEF NativeStep
<1>2. file' \in [Models -> Files]
  BY <1>1, FileOK DEF EngineTypeOK
<1> QED
  BY <1>1, <1>2, MovesOK DEF EngineTypeOK

LEMMA ClientCallOK ==
  ASSUME EngineTypeOK, NEW m \in Models,
         EnqueueAccepted(m) \/ PauseAccepted(m) \/ ResumeAccepted(m) \/ TaskCancelled(m)
  PROVE  EngineTypeOK'
<1>0. {"enqueued", "paused", "canceled"} \subseteq Status
  BY DEF Status, Running, Ended
<1>1. CASE EnqueueAccepted(m) \/ PauseAccepted(m) \/ ResumeAccepted(m)
  <2>1. (Moves(m, "enqueued") \/ Moves(m, "paused")) /\ UNCHANGED <<record, file>>
    BY <1>1 DEF EnqueueAccepted, PauseAccepted, ResumeAccepted
  <2> QED
    BY <2>1, <1>0, MovesOK DEF EngineTypeOK
<1>2. CASE TaskCancelled(m)
  <2>1. Moves(m, "canceled") \/ UNCHANGED <<task, events>>
    BY <1>2 DEF TaskCancelled
  <2>2. UNCHANGED <<record, file>>
    BY <1>2 DEF TaskCancelled
  <2> QED
    BY <2>1, <2>2, <1>0, MovesOK DEF EngineTypeOK
<1> QED
  BY <1>1, <1>2

-----------------------------------------------------------------------------
(* How the steps of a handler move the futures and the current completer.  *)

(* A completer in use stays in use, and one becomes current only if it     *)
(* already was or was not in use.                                          *)
Frame ==
  /\ \A c \in Completers : future[c] # "unused" => future'[c] # "unused"
  /\ \/ ctl'.completer \in {ctl.completer, None}
     \/ Fresh(ctl'.completer) /\ ctl'.completer \in Completers

(* One activation moves to r, or none does: the others are not disturbed.  *)
LEMMA ActivationsKept ==
  ASSUME IInv, Frame, act' \in [Activations -> Activation],
         \A a \in Activations :
            act'[a] = act[a] \/ ActivationOK(act'[a], future', ctl'.completer)
  PROVE  ActivationsOK(act', future', ctl'.completer)
<1> SUFFICES ASSUME NEW a \in Activations, act'[a] = act[a]
             PROVE  ActivationOK(act'[a], future', ctl'.completer)
  BY DEF ActivationsOK
<1>1. ActivationOK(act[a], future, ctl.completer)
  BY DEF IInv, ActivationsOK
<1>2. ASSUME act[a].pc = "enqueueFailed" PROVE act[a].completer # ctl'.completer
  <2>1. act[a].completer \in Completers /\ ~Fresh(act[a].completer)
    BY <1>1, <1>2 DEF ActivationOK, Enqueuing, Fresh
  <2> QED
    BY <1>1, <1>2, <2>1, DistinctAssumption DEF Frame, ActivationOK
<1> QED
  BY <1>1, <1>2 DEF ActivationOK, Frame

LEMMA GoesOK ==
  ASSUME IInv, Frame, NEW a \in Activations, NEW pc \in Waits, Goes(a, pc),
         ActivationOK([act[a] EXCEPT !.pc = pc], future', ctl'.completer)
  PROVE  ActivationsOK(act', future', ctl'.completer)
<1>1. act \in [Activations -> Activation]
  BY DEF IInv, ActivationsOK
<1>2. act' = [act EXCEPT ![a] = [act[a] EXCEPT !.pc = pc]]
  BY DEF Goes
<1>3. [act[a] EXCEPT !.pc = pc] \in Activation
  BY <1>1 DEF Activation
<1>4. act' \in [Activations -> Activation]
  BY <1>1, <1>2, <1>3
<1>5. \A b \in Activations :
         act'[b] = act[b] \/ ActivationOK(act'[b], future', ctl'.completer)
  BY <1>1, <1>2
<1> QED
  BY <1>4, <1>5, ActivationsKept

LEMMA BecomesOK ==
  ASSUME IInv, Frame, NEW a \in Activations, NEW r \in Activation,
         act' = [act EXCEPT ![a] = r], ActivationOK(r, future', ctl'.completer)
  PROVE  ActivationsOK(act', future', ctl'.completer)
<1>1. act \in [Activations -> Activation]
  BY DEF IInv, ActivationsOK
<1> QED
  BY <1>1, ActivationsKept

-----------------------------------------------------------------------------
(* What the pieces shared by several handlers do to the fields and futures *)

FieldsOK == ControllerOK(ctl') /\ FuturesOK(future', ctl'.completer) /\ Frame

LEMMA UnchangedFieldsOK ==
  ASSUME IInv, UNCHANGED <<ctl, future>>
  PROVE  FieldsOK
BY DEF IInv, FieldsOK, Frame

(* A change of the fields alone that leaves or drops the completer.        *)
LEMMA NewFieldsOK ==
  ASSUME IInv, ControllerOK(ctl'), ctl'.completer \in {ctl.completer, None},
         UNCHANGED future
  PROVE  FieldsOK
BY DEF IInv, FieldsOK, Frame, FuturesOK

LEMMA SettleOK ==
  ASSUME IInv, NEW c, NEW outcome \in {"error", "cancelled"} \cup Models,
         Settle(c, outcome)
  PROVE  /\ future' \in [Completers -> Futures]
         /\ \A d \in Completers : future[d] # "unused" => future'[d] # "unused"
         /\ \A d \in Completers : d # c => future'[d] = future[d]
<1>1. outcome \in Futures /\ outcome # "unused"
  BY DistinctAssumption DEF Futures
<1> QED
  BY <1>1 DEF IInv, FuturesOK, Settle

LEMMA SettleCurrentOK ==
  ASSUME IInv, NEW outcome \in {"error", "cancelled"} \cup Models,
         Settle(ctl.completer, outcome), ControllerOK(ctl'), ctl'.completer = None
  PROVE  FieldsOK
BY SettleOK DEF FieldsOK, Frame, FuturesOK

LEMMA FailDownloadOK ==
  ASSUME IInv, NEW m \in Models, FailDownload(m)
  PROVE  FieldsOK
<1>1. ControllerOK(ctl') /\ ctl'.completer = None
  BY FailedOK, DetachedOK DEF IInv, FailDownload
<1> QED
  BY <1>1, SettleCurrentOK DEF FailDownload

LEMMA CancelDownloadOK ==
  ASSUME IInv, CancelDownload
  PROVE  FieldsOK
<1>1. ControllerOK(ctl') /\ ctl'.completer = None
  BY DetachedOK, ResetOK DEF IInv, CancelDownload
<1> QED
  BY <1>1, SettleCurrentOK DEF CancelDownload

(* A handler that puts c in place, reused or new, before its await.        *)
LEMMA NewCurrentOK ==
  ASSUME IInv, NEW c \in Completers, c = ctl.completer \/ Fresh(c),
         future' = IF Fresh(c) THEN [future EXCEPT ![c] = "pending"] ELSE future,
         ControllerOK(ctl'), ctl'.completer = c
  PROVE  FieldsOK /\ future'[c] = "pending"
<1>1. future' \in [Completers -> Futures] /\ future'[c] = "pending"
  BY DistinctAssumption DEF IInv, FuturesOK, Fresh, Futures
<1>2. \A d \in Completers : future[d] # "unused" => future'[d] # "unused"
  BY DEF IInv, FuturesOK, Fresh
<1> QED
  BY <1>1, <1>2 DEF FieldsOK, Frame, FuturesOK

LEMMA ReattachesOK ==
  ASSUME IInv, NEW a \in Activations, NEW m \in Models,
         NEW s, ControllerOK(s), NEW pc \in {"reattach", "resume"},
         Reattaches(a, s, m, pc)
  PROVE  FieldsOK /\ ActivationsOK(act', future', ctl'.completer)
<1> DEFINE f == InPhase(s, m, "downloading")
<1>1. PICK c \in Completers :
        /\ IF ctl.completer # None THEN c = ctl.completer ELSE Fresh(c)
        /\ ctl' = [Attached(f, c) EXCEPT !.failure = FALSE]
        /\ future' = IF Fresh(c) THEN [future EXCEPT ![c] = "pending"] ELSE future
        /\ act' = [act EXCEPT ![a] = [Done EXCEPT !.pc = pc, !.model = m, !.completer = c]]
  BY DEF Reattaches
<1>2. ControllerOK(f) /\ f.phase = "downloading"
  BY InPhaseOK
<1>3. ControllerOK(Attached(f, c)) /\ Attached(f, c).completer = c
  BY <1>2, AttachedOK
<1>4. Attached(f, c).phase # "failed"
  BY <1>2 DEF Attached, ControllerOK, Controller
<1>5. ControllerOK(ctl') /\ ctl'.completer = c
  BY <1>1, <1>3, <1>4, ClearedOK
<1>6. FieldsOK
  BY <1>1, <1>5, NewCurrentOK
<1> DEFINE r == [Done EXCEPT !.pc = pc, !.model = m, !.completer = c]
<1>7. r \in Activation /\ ActivationOK(r, future', ctl'.completer)
  BY DEF Done, NoRecords, Activation, ActivationOK, Waits, Status, Enqueuing
<1> QED
  BY <1>1, <1>6, <1>7, BecomesOK DEF FieldsOK

LEMMA BeginsEnqueueOK ==
  ASSUME IInv, NEW a \in Activations, NEW m \in Models, BeginsEnqueue(a, ctl, m)
  PROVE  FieldsOK /\ ActivationsOK(act', future', ctl'.completer)
<1>1. PICK c \in Completers :
        /\ Fresh(c)
        /\ ctl' = Started(ctl, m, c)
        /\ future' = [future EXCEPT ![c] = "pending"]
        /\ act' = [act EXCEPT ![a] = [Done EXCEPT !.pc = "dropRecord", !.model = m,
                                                  !.completer = c]]
  BY DEF BeginsEnqueue
<1>2. ControllerOK(ctl') /\ ctl'.completer = c
  BY <1>1, StartedOK DEF IInv
<1>3. FieldsOK /\ future'[c] = "pending"
  BY <1>1, <1>2, NewCurrentOK
<1> DEFINE r == [Done EXCEPT !.pc = "dropRecord", !.model = m, !.completer = c]
<1>4. r \in Activation /\ ActivationOK(r, future', ctl'.completer)
  BY <1>3 DEF Done, NoRecords, Activation, ActivationOK, Waits, Status, Enqueuing
<1> QED
  BY <1>1, <1>3, <1>4, BecomesOK DEF FieldsOK

(* The simplest continuations: the activation ends, or starts a call.      *)
LEMMA FinishesOK ==
  ASSUME IInv, Frame, NEW a \in Activations, Finishes(a)
  PROVE  ActivationsOK(act', future', ctl'.completer)
<1>1. Done \in Activation /\ ActivationOK(Done, future', ctl'.completer)
  BY DEF Done, NoRecords, Activation, ActivationOK, Waits, Modelless, Enqueuing
<1> QED
  BY <1>1, BecomesOK DEF Finishes

LEMMA CalledOK ==
  ASSUME IInv, Frame, NEW a \in Activations, NEW m \in Models \cup {None},
         NEW pc \in Waits \ Enqueuing, pc \in Modelless \/ m \in Models,
         Called(a, pc, m)
  PROVE  ActivationsOK(act', future', ctl'.completer)
<1> DEFINE r == [Done EXCEPT !.pc = pc, !.model = m]
<1>1. r \in Activation /\ ActivationOK(r, future', ctl'.completer)
  BY DEF Done, NoRecords, Activation, ActivationOK, Enqueuing
<1> QED
  BY <1>1, BecomesOK DEF Called

(* A continuation that keeps its model and waits for something else.       *)
LEMMA GoesOnOK ==
  ASSUME IInv, Frame, NEW a \in Activations, NEW pc \in Waits \ Enqueuing,
         pc \in Modelless \/ act[a].pc \notin Modelless, Goes(a, pc)
  PROVE  ActivationsOK(act', future', ctl'.completer)
<1>1. act[a] \in Activation /\ ActivationOK(act[a], future, ctl.completer)
  BY DEF IInv, ActivationsOK
<1>2. ActivationOK([act[a] EXCEPT !.pc = pc], future', ctl'.completer)
  BY <1>1 DEF Activation, ActivationOK, Enqueuing
<1> QED
  BY <1>2, GoesOK

-----------------------------------------------------------------------------
(* The invariant is kept: one step per action.                             *)

LEMMA IInvNext ==
  ASSUME IInv, EngineTypeOK', FieldsOK,
         ActivationsOK(act', future', ctl'.completer), made' \in Nat, restarts' \in Nat
  PROVE  IInv'
BY DEF IInv, FieldsOK

LEMMA ActivationFacts ==
  ASSUME IInv, NEW a \in Activations
  PROVE  /\ act[a] \in Activation
         /\ ActivationOK(act[a], future, ctl.completer)
         /\ act[a].pc \notin Modelless => act[a].model \in Models
BY DEF IInv, ActivationsOK, ActivationOK

LEMMA InitializationOK ==
  ASSUME IInv, NEW a \in Activations,
         \/ ClientReady(a) \/ ListFiles(a) \/ FilesListed(a) \/ ReadRecords(a)
         \/ RefreshReadiness(a)
  PROVE  IInv'
<1>0. /\ act[a] \in Activation
      /\ ActivationOK(act[a], future, ctl.completer)
  BY ActivationFacts
<1>1. EngineTypeOK'
  <2>1. CASE RefreshReadiness(a)
    BY <2>1, DropJunkOK DEF RefreshReadiness, IInv, EngineTypeOK
  <2>2. CASE ~RefreshReadiness(a)
    BY <2>2, UnchangedEngineOK
       DEF IInv, ClientReady, ListFiles, FilesListed, ReadRecords
  <2> QED
    BY <2>1, <2>2
<1>2. FieldsOK
  <2>1. CASE ListFiles(a) \/ ReadRecords(a) \/ RefreshReadiness(a)
    BY <2>1, UnchangedFieldsOK DEF ListFiles, ReadRecords, RefreshReadiness
  <2>2. CASE ClientReady(a) \/ FilesListed(a)
    <3>1. ControllerOK(ctl') /\ ctl'.completer = ctl.completer /\ UNCHANGED future
      <4>1. CASE ClientReady(a)
        BY <1>0, <4>1 DEF IInv, ControllerOK, Controller, ClientReady
      <4>2. CASE FilesListed(a)
        BY <1>0, <4>2 DEF IInv, ControllerOK, Controller, Activation, FilesListed
      <4> QED
        BY <2>2, <4>1, <4>2
    <3> QED
      BY <3>1, NewFieldsOK
  <2> QED
    BY <2>1, <2>2
<1>3. ActivationsOK(act', future', ctl'.completer)
  <2>1. CASE ClientReady(a) \/ FilesListed(a)
    BY <1>2, <2>1, GoesOnOK
       DEF FieldsOK, ClientReady, FilesListed, Waits, Modelless, Enqueuing
  <2>2. CASE RefreshReadiness(a)
    BY <1>2, <2>2, FinishesOK DEF FieldsOK, RefreshReadiness
  <2>3. CASE ListFiles(a)
    <3> DEFINE r == [act[a] EXCEPT !.pc = "listed",
                                   !.files = {m \in Models : file[m] \in Readable}]
    <3>1. r \in Activation /\ ActivationOK(r, future', ctl'.completer)
      BY <1>0 DEF Activation, ActivationOK, Waits, Modelless, Enqueuing
    <3>2. act' = [act EXCEPT ![a] = r]
      BY <2>3 DEF ListFiles
    <3> QED
      BY <1>2, <3>1, <3>2, BecomesOK DEF FieldsOK
  <2>4. CASE ReadRecords(a)
    <3> DEFINE r == [act[a] EXCEPT !.pc = "recordsRead", !.records = record]
    <3>1. r \in Activation /\ ActivationOK(r, future', ctl'.completer)
      BY <1>0 DEF IInv, EngineTypeOK, Activation, ActivationOK, Waits, Modelless, Enqueuing
    <3>2. act' = [act EXCEPT ![a] = r]
      BY <2>4 DEF ReadRecords
    <3> QED
      BY <1>2, <3>1, <3>2, BecomesOK DEF FieldsOK
  <2> QED
    BY <2>1, <2>2, <2>3, <2>4
<1>4. made' \in Nat /\ restarts' \in Nat
  BY DEF IInv, ClientReady, ListFiles, FilesListed, ReadRecords, RefreshReadiness, Continues
<1> QED
  BY <1>1, <1>2, <1>3, <1>4, IInvNext

LEMMA RestoreFromOK ==
  ASSUME IInv, NEW a \in Activations, At(a, "recordsRead"),
         NEW m \in Models, NEW s, RestoreFrom(a, m, s)
  PROVE  FieldsOK /\ ActivationsOK(act', future', ctl'.completer)
<1>1. ControllerOK(ctl)
  BY DEF IInv
<1>2. CASE s = "failed" /\ Reattaches(a, Failed(ctl, m), m, "reattach")
  BY <1>1, <1>2, FailedOK, ReattachesOK
<1>3. CASE s = "complete" /\ ctl' = InPhase(ctl, m, "finalizing")
           /\ Called(a, "validate", m) /\ UNCHANGED future
  <2>1. FieldsOK
    BY <1>1, <1>3, InPhaseOK, NewFieldsOK
  <2> QED
    BY <1>3, <2>1, CalledOK DEF FieldsOK, Waits, Enqueuing
<1>4. CASE /\ \/ ctl' = InPhase(ctl, m, "downloading")
              \/ ctl' = InPhase(ctl, m, "paused")
              \/ ctl' = Failed(ctl, m)
              \/ UNCHANGED ctl
           /\ Goes(a, "readiness") /\ UNCHANGED future
  <2>0. /\ ControllerOK(InPhase(ctl, m, "downloading"))
        /\ ControllerOK(InPhase(ctl, m, "paused"))
        /\ ControllerOK(Failed(ctl, m))
        /\ InPhase(ctl, m, "downloading").completer = ctl.completer
        /\ InPhase(ctl, m, "paused").completer = ctl.completer
        /\ Failed(ctl, m).completer = ctl.completer
    BY <1>1, InPhaseOK, FailedOK
  <2>1. FieldsOK
    BY <1>1, <1>4, <2>0, NewFieldsOK
  <2> QED
    BY <1>4, <2>1, GoesOnOK DEF FieldsOK, Waits, Modelless, Enqueuing
<1> QED
  BY <1>2, <1>3, <1>4 DEF RestoreFrom

LEMMA RestoreOK ==
  ASSUME IInv, NEW a \in Activations, RestoreState(a) \/ Reattached(a)
  PROVE  IInv'
<1>0. made' \in Nat /\ restarts' \in Nat
  BY DEF IInv, RestoreState, Reattached, Continues
<1>1. CASE RestoreState(a)
  <2>1. EngineTypeOK'
    BY <1>1, UnchangedEngineOK DEF IInv, RestoreState
  <2>2. CASE Goes(a, "readiness") /\ UNCHANGED <<ctl, future>>
    <3>1. FieldsOK
      BY <2>2, UnchangedFieldsOK
    <3>2. ActivationsOK(act', future', ctl'.completer)
      BY <2>2, <3>1, GoesOnOK DEF FieldsOK, Waits, Modelless, Enqueuing
    <3> QED
      BY <1>0, <2>1, <3>1, <3>2, IInvNext
  <2>3. ASSUME NEW m \in Models, RestoreFrom(a, m, act[a].records[m])
        PROVE  IInv'
    BY <1>0, <1>1, <2>1, <2>3, RestoreFromOK, IInvNext DEF RestoreState
  <2> QED
    BY <1>1, <2>2, <2>3 DEF RestoreState
<1>2. CASE Reattached(a)
  <2> DEFINE m == act[a].model
  <2>1. m \in Models
    BY <1>2, ActivationFacts DEF Reattached, At, Modelless
  <2>2. EngineTypeOK'
    BY <1>2, <2>1, ClientCallOK, UnchangedEngineOK DEF Reattached, IInv
  <2>3. FieldsOK
    <3>1. CASE UNCHANGED ctl
      BY <1>2, <3>1, UnchangedFieldsOK DEF Reattached
    <3>2. CASE ctl' = Failed(Detached(ctl), m) \/ ctl' = Failed(ctl, m)
      <4>1. ControllerOK(ctl') /\ ctl'.completer \in {ctl.completer, None}
        BY <2>1, <3>2, DetachedOK, FailedOK DEF IInv
      <4> QED
        BY <1>2, <4>1, NewFieldsOK DEF Reattached
    <3> QED
      BY <1>2, <3>1, <3>2 DEF Reattached
  <2>4. ActivationsOK(act', future', ctl'.completer)
    BY <1>2, <2>3, GoesOnOK DEF FieldsOK, Reattached, Waits, Modelless, Enqueuing
  <2> QED
    BY <1>0, <2>2, <2>3, <2>4, IInvNext
<1> QED
  BY <1>1, <1>2

LEMMA DownloadOK ==
  ASSUME IInv, NEW a \in Activations,
         \/ \E m \in Models : DownloadCall(a, m)
         \/ StorageChecked(a) \/ DropsRecord(a) \/ Enqueued(a)
         \/ EnqueueFails(a) \/ ReportEnqueueFailure(a)
  PROVE  IInv'
<1>0. /\ made' \in Nat /\ restarts' \in Nat
      /\ ControllerOK(ctl)
  BY DEF IInv, DownloadCall, UserCall, StorageChecked, DropsRecord, Enqueued,
         EnqueueFails, ReportEnqueueFailure, Continues
<1>1. ASSUME NEW m \in Models, DownloadCall(a, m) PROVE IInv'
  <2>1. EngineTypeOK'
    BY <1>1, UnchangedEngineOK DEF IInv, DownloadCall
  <2>2. CASE Called(a, "storage", m) /\ UNCHANGED <<ctl, future>>
    <3>1. FieldsOK
      BY <2>2, UnchangedFieldsOK
    <3>2. ActivationsOK(act', future', ctl'.completer)
      BY <2>2, <3>1, CalledOK DEF FieldsOK, Waits, Enqueuing
    <3> QED
      BY <1>0, <2>1, <3>1, <3>2, IInvNext
  <2>3. ASSUME NEW c \in Completers,
               IF ctl.completer # None THEN c = ctl.completer ELSE Fresh(c),
               ctl' = Attached(ctl, c),
               future' = IF Fresh(c) THEN [future EXCEPT ![c] = "pending"] ELSE future,
               UNCHANGED act
        PROVE  IInv'
    <3>1. FieldsOK
      BY <1>0, <2>3, AttachedOK, NewCurrentOK
    <3>2. ActivationsOK(act', future', ctl'.completer)
      BY <2>3, <3>1, ActivationsKept DEF FieldsOK, IInv, ActivationsOK
    <3> QED
      BY <1>0, <2>1, <3>1, <3>2, IInvNext
  <2> QED
    BY <1>1, <2>2, <2>3 DEF DownloadCall
<1>2. CASE StorageChecked(a)
  <2> DEFINE m == act[a].model
  <2>1. m \in Models
    BY <1>2, ActivationFacts DEF StorageChecked, At, Modelless
  <2>2. EngineTypeOK'
    BY <1>2, DropJunkOK DEF StorageChecked, IInv, EngineTypeOK
  <2>3. CASE BeginsEnqueue(a, ctl, m)
    BY <1>0, <2>1, <2>2, <2>3, BeginsEnqueueOK, IInvNext
  <2>4. CASE /\ ctl' = [ctl EXCEPT !.phase = "failed", !.failure = TRUE]
             /\ Finishes(a) /\ UNCHANGED future
    <3>1. ControllerOK(ctl') /\ ctl'.completer = ctl.completer
      BY <1>0, <2>4 DEF ControllerOK, Controller, Phases
    <3>2. FieldsOK
      BY <2>4, <3>1, NewFieldsOK
    <3>3. ActivationsOK(act', future', ctl'.completer)
      BY <2>4, <3>2, FinishesOK DEF FieldsOK
    <3> QED
      BY <1>0, <2>2, <3>2, <3>3, IInvNext
  <2> QED
    BY <1>2, <2>3, <2>4 DEF StorageChecked
<1>3. CASE DropsRecord(a)
  <2>1. EngineTypeOK'
    BY <1>3, RecordOK DEF DropsRecord, DeleteRecord, IInv, EngineTypeOK
  <2>2. FieldsOK
    BY <1>3, UnchangedFieldsOK DEF DropsRecord
  <2>3. act[a] \in Activation /\ ActivationOK(act[a], future, ctl.completer)
    BY ActivationFacts
  <2>4. ActivationOK([act[a] EXCEPT !.pc = "enqueue"], future', ctl'.completer)
    BY <1>3, <2>3 DEF DropsRecord, At, Activation, ActivationOK, Modelless, Enqueuing
  <2>5. ActivationsOK(act', future', ctl'.completer)
    BY <1>3, <2>2, <2>4, GoesOK DEF FieldsOK, DropsRecord, Waits
  <2> QED
    BY <1>0, <2>1, <2>2, <2>5, IInvNext
<1>4. CASE Enqueued(a)
  <2>1. act[a].model \in Models
    BY <1>4, ActivationFacts DEF Enqueued, At, Modelless
  <2>2. EngineTypeOK'
    BY <1>4, <2>1, ClientCallOK DEF IInv, Enqueued
  <2>3. FieldsOK
    BY <1>4, UnchangedFieldsOK DEF Enqueued
  <2>4. ActivationsOK(act', future', ctl'.completer)
    BY <1>4, <2>3, FinishesOK DEF FieldsOK, Enqueued
  <2> QED
    BY <1>0, <2>2, <2>3, <2>4, IInvNext
<1>5. CASE EnqueueFails(a)
  <2>1. EngineTypeOK'
    BY <1>5, UnchangedEngineOK DEF IInv, EnqueueFails
  <2>2. ControllerOK(ctl') /\ ctl'.completer = None
    <3>1. ControllerOK(Detached(ctl)) /\ Detached(ctl).completer = None
      BY <1>0, DetachedOK
    <3>2. ctl' = [Detached(ctl) EXCEPT !.phase = "failed", !.failure = TRUE]
      BY <1>5 DEF EnqueueFails
    <3> QED
      BY <3>1, <3>2 DEF ControllerOK, Controller, Phases
  <2>3. FieldsOK
    BY <1>5, <2>2, NewFieldsOK DEF EnqueueFails
  <2>4. act[a] \in Activation /\ ActivationOK(act[a], future, ctl.completer)
    BY ActivationFacts
  <2>5. ActivationOK([act[a] EXCEPT !.pc = "enqueueFailed"], future', ctl'.completer)
    BY <1>5, <2>2, <2>4, DistinctAssumption
       DEF EnqueueFails, At, Activation, ActivationOK, Modelless, Enqueuing
  <2>6. ActivationsOK(act', future', ctl'.completer)
    BY <1>5, <2>3, <2>5, GoesOK DEF FieldsOK, EnqueueFails, Waits
  <2> QED
    BY <1>0, <2>1, <2>3, <2>6, IInvNext
<1>6. CASE ReportEnqueueFailure(a)
  <2>1. EngineTypeOK'
    BY <1>6, DropJunkOK DEF ReportEnqueueFailure, IInv, EngineTypeOK
  <2>2. act[a].completer # ctl.completer
    BY <1>6, ActivationFacts DEF ReportEnqueueFailure, At, ActivationOK
  <2>3. FieldsOK
    <3>1. /\ future' \in [Completers -> Futures]
          /\ \A d \in Completers : future[d] # "unused" => future'[d] # "unused"
          /\ \A d \in Completers : d # act[a].completer => future'[d] = future[d]
      BY <1>6, SettleOK DEF ReportEnqueueFailure
    <3>2. ctl.completer \in Completers \cup {None}
      BY <1>0 DEF ControllerOK, Controller
    <3> QED
      BY <1>6, <2>2, <3>1, <3>2
         DEF ReportEnqueueFailure, IInv, FieldsOK, Frame, FuturesOK
  <2>4. ActivationsOK(act', future', ctl'.completer)
    BY <1>6, <2>3, FinishesOK DEF FieldsOK, ReportEnqueueFailure
  <2> QED
    BY <1>0, <2>1, <2>3, <2>4, IInvNext
<1> QED
  BY <1>1, <1>2, <1>3, <1>4, <1>5, <1>6

LEMMA PauseResumeOK ==
  ASSUME IInv, NEW a \in Activations,
         PauseCall(a) \/ PauseAnswered(a) \/ Paused(a) \/ ResumeCall(a) \/ ResumeAnswered(a)
  PROVE  IInv'
<1>0. /\ made' \in Nat /\ restarts' \in Nat
      /\ ControllerOK(ctl)
      /\ ctl.model \in Models \cup {None}
  BY DEF IInv, ControllerOK, Controller, PauseCall, ResumeCall, UserCall, PauseAnswered, Paused,
         ResumeAnswered, Continues
<1>1. CASE PauseCall(a)
  <2>1. EngineTypeOK' /\ FieldsOK
    BY <1>1, UnchangedEngineOK, UnchangedFieldsOK DEF IInv, PauseCall
  <2>2. ActivationsOK(act', future', ctl'.completer)
    BY <1>0, <1>1, <2>1, CalledOK DEF FieldsOK, PauseCall, Waits, Enqueuing
  <2> QED
    BY <1>0, <2>1, <2>2, IInvNext
<1>2. CASE PauseAnswered(a)
  <2>1. act[a].model \in Models /\ act[a].pc \notin Modelless
    BY <1>2, ActivationFacts DEF PauseAnswered, At, Modelless
  <2>2. EngineTypeOK' /\ FieldsOK
    BY <1>2, <2>1, ClientCallOK, UnchangedEngineOK, UnchangedFieldsOK DEF IInv, PauseAnswered
  <2>3. ActivationsOK(act', future', ctl'.completer)
    BY <1>2, <2>1, <2>2, GoesOnOK, FinishesOK DEF FieldsOK, PauseAnswered, Waits, Enqueuing
  <2> QED
    BY <1>0, <2>2, <2>3, IInvNext
<1>3. CASE Paused(a)
  <2>1. EngineTypeOK'
    BY <1>3, UnchangedEngineOK DEF IInv, Paused
  <2>2. ControllerOK(ctl') /\ ctl'.completer = ctl.completer
    BY <1>0, <1>3 DEF Paused, ControllerOK, Controller, Phases
  <2>3. FieldsOK
    BY <1>3, <2>2, NewFieldsOK DEF Paused
  <2>4. ActivationsOK(act', future', ctl'.completer)
    BY <1>3, <2>3, FinishesOK DEF FieldsOK, Paused
  <2> QED
    BY <1>0, <2>1, <2>3, <2>4, IInvNext
<1>4. CASE ResumeCall(a)
  <2>1. EngineTypeOK'
    BY <1>4, UnchangedEngineOK DEF IInv, ResumeCall
  <2>2. FieldsOK /\ ActivationsOK(act', future', ctl'.completer)
    BY <1>0, <1>4, ReattachesOK DEF ResumeCall
  <2> QED
    BY <1>0, <2>1, <2>2, IInvNext
<1>5. CASE ResumeAnswered(a)
  <2>1. act[a].model \in Models
    BY <1>5, ActivationFacts DEF ResumeAnswered, At, Modelless
  <2>2. EngineTypeOK'
    BY <1>5, <2>1, ClientCallOK, UnchangedEngineOK DEF IInv, ResumeAnswered
  <2>3. CASE Finishes(a) /\ UNCHANGED <<ctl, future>>
    <3>1. FieldsOK
      BY <2>3, UnchangedFieldsOK
    <3>2. ActivationsOK(act', future', ctl'.completer)
      BY <2>3, <3>1, FinishesOK DEF FieldsOK
    <3> QED
      BY <1>0, <2>2, <3>1, <3>2, IInvNext
  <2>4. CASE BeginsEnqueue(a, ctl, act[a].model)
    BY <1>0, <2>1, <2>2, <2>4, BeginsEnqueueOK, IInvNext
  <2> QED
    BY <1>5, <2>3, <2>4 DEF ResumeAnswered
<1> QED
  BY <1>1, <1>2, <1>3, <1>4, <1>5

LEMMA CancelOK ==
  ASSUME IInv, NEW a \in Activations,
         \/ CancelCall(a) \/ CancelAnswered(a) \/ CancelsRecord(a)
         \/ Erase(a) \/ CancelThrows(a)
  PROVE  IInv'
<1>0. /\ made' \in Nat /\ restarts' \in Nat
      /\ ctl.model \in Models \cup {None}
  BY DEF IInv, ControllerOK, Controller, CancelCall, UserCall, CancelAnswered,
         CancelsRecord, Erase, CancelThrows, Continues
<1>1. CASE CancelCall(a)
  <2>1. EngineTypeOK' /\ FieldsOK
    BY <1>1, UnchangedEngineOK, UnchangedFieldsOK, CancelDownloadOK DEF IInv, CancelCall
  <2>2. ActivationsOK(act', future', ctl'.completer)
    <3>1. CASE Called(a, "readiness", None)
      BY <2>1, <3>1, CalledOK DEF FieldsOK, Waits, Modelless, Enqueuing
    <3>2. CASE ctl.model # None /\ Called(a, "cancel", ctl.model)
      BY <1>0, <2>1, <3>2, CalledOK DEF FieldsOK, Waits, Enqueuing
    <3> QED
      BY <1>1, <3>1, <3>2 DEF CancelCall
  <2> QED
    BY <1>0, <2>1, <2>2, IInvNext
<1>2. CASE CancelAnswered(a)
  <2>1. act[a].model \in Models /\ act[a].pc \notin Modelless
    BY <1>2, ActivationFacts DEF CancelAnswered, At, Modelless
  <2>2. EngineTypeOK' /\ FieldsOK
    BY <1>2, <2>1, ClientCallOK, UnchangedFieldsOK DEF IInv, CancelAnswered
  <2>3. ActivationsOK(act', future', ctl'.completer)
    BY <1>2, <2>1, <2>2, GoesOnOK DEF FieldsOK, CancelAnswered, Waits, Enqueuing
  <2> QED
    BY <1>0, <2>2, <2>3, IInvNext
<1>3. CASE Erase(a)
  <2>1. EngineTypeOK'
    BY <1>3, FileOK DEF Erase, DeleteFile, IInv, EngineTypeOK, Files
  <2>2. FieldsOK
    BY <1>3, CancelDownloadOK DEF Erase
  <2>3. ActivationsOK(act', future', ctl'.completer)
    BY <1>3, <2>2, GoesOnOK DEF FieldsOK, Erase, Waits, Modelless, Enqueuing
  <2> QED
    BY <1>0, <2>1, <2>2, <2>3, IInvNext
<1>4. CASE CancelsRecord(a)
  <2>1. act[a].pc \notin Modelless
    BY <1>4 DEF CancelsRecord, At, Modelless
  <2>2. EngineTypeOK'
    BY <1>4, RecordOK DEF CancelsRecord, DeleteRecord, IInv, EngineTypeOK
  <2>3. FieldsOK
    BY <1>4, UnchangedFieldsOK DEF CancelsRecord
  <2>4. ActivationsOK(act', future', ctl'.completer)
    BY <1>4, <2>1, <2>3, GoesOnOK DEF FieldsOK, CancelsRecord, Waits, Enqueuing
  <2> QED
    BY <1>0, <2>2, <2>3, <2>4, IInvNext
<1>5. CASE CancelThrows(a)
  <2>1. EngineTypeOK' /\ FieldsOK
    BY <1>5, UnchangedEngineOK, CancelDownloadOK DEF IInv, CancelThrows
  <2>2. ActivationsOK(act', future', ctl'.completer)
    BY <1>5, <2>1, GoesOnOK DEF FieldsOK, CancelThrows, Waits, Modelless, Enqueuing
  <2> QED
    BY <1>0, <2>1, <2>2, IInvNext
<1> QED
  BY <1>1, <1>2, <1>3, <1>4, <1>5

LEMMA DeleteOK ==
  ASSUME IInv, NEW a \in Activations,
         \/ \E m \in Models : DeleteCall(a, m)
         \/ DeleteCancelled(a) \/ DeletesRecord(a) \/ DeleteCancelThrows(a)
         \/ Deleted(a) \/ DeletedUnlisted(a)
  PROVE  IInv'
<1>0. /\ made' \in Nat /\ restarts' \in Nat
      /\ ControllerOK(ctl)
  BY DEF IInv, DeleteCall, UserCall, DeleteCancelled, DeletesRecord, DeleteCancelThrows,
         Deleted, DeletedUnlisted, Continues
<1>1. ASSUME NEW m \in Models, DeleteCall(a, m) PROVE IInv'
  <2>1. EngineTypeOK' /\ FieldsOK
    BY <1>1, UnchangedEngineOK, UnchangedFieldsOK DEF IInv, DeleteCall
  <2>2. ActivationsOK(act', future', ctl'.completer)
    BY <1>1, <2>1, CalledOK DEF FieldsOK, DeleteCall, Waits, Enqueuing
  <2> QED
    BY <1>0, <2>1, <2>2, IInvNext
<1>2. CASE DeleteCancelled(a)
  <2>1. act[a].model \in Models /\ act[a].pc \notin Modelless
    BY <1>2, ActivationFacts DEF DeleteCancelled, At, Modelless
  <2>2. EngineTypeOK' /\ FieldsOK
    BY <1>2, <2>1, ClientCallOK, UnchangedFieldsOK DEF IInv, DeleteCancelled
  <2>3. ActivationsOK(act', future', ctl'.completer)
    BY <1>2, <2>1, <2>2, GoesOnOK DEF FieldsOK, DeleteCancelled, Waits, Enqueuing
  <2> QED
    BY <1>0, <2>2, <2>3, IInvNext
<1>3. CASE Deleted(a)
  <2>1. EngineTypeOK'
    BY <1>3, FileOK DEF Deleted, DeleteFile, IInv, EngineTypeOK, Files
  <2>2. ControllerOK(ctl') /\ ctl'.completer = ctl.completer
    BY <1>0, <1>3 DEF Deleted, ControllerOK, Controller
  <2>3. FieldsOK
    BY <1>3, <2>2, NewFieldsOK DEF Deleted
  <2>4. ActivationsOK(act', future', ctl'.completer)
    BY <1>3, <2>3, GoesOnOK DEF FieldsOK, Deleted, Waits, Modelless, Enqueuing
  <2> QED
    BY <1>0, <2>1, <2>3, <2>4, IInvNext
<1>4. CASE DeletesRecord(a)
  <2>1. act[a].pc \notin Modelless
    BY <1>4 DEF DeletesRecord, At, Modelless
  <2>2. EngineTypeOK'
    BY <1>4, RecordOK DEF DeletesRecord, DeleteRecord, IInv, EngineTypeOK
  <2>3. FieldsOK
    BY <1>4, UnchangedFieldsOK DEF DeletesRecord
  <2>4. ActivationsOK(act', future', ctl'.completer)
    BY <1>4, <2>1, <2>3, GoesOnOK DEF FieldsOK, DeletesRecord, Waits, Enqueuing
  <2> QED
    BY <1>0, <2>2, <2>3, <2>4, IInvNext
<1>5. CASE DeleteCancelThrows(a)
  <2>1. act[a].pc \notin Modelless
    BY <1>5 DEF DeleteCancelThrows, Modelless
  <2>2. EngineTypeOK' /\ FieldsOK
    BY <1>5, UnchangedEngineOK, UnchangedFieldsOK DEF IInv, DeleteCancelThrows
  <2>3. ActivationsOK(act', future', ctl'.completer)
    BY <1>5, <2>1, <2>2, GoesOnOK DEF FieldsOK, DeleteCancelThrows, Waits, Enqueuing
  <2> QED
    BY <1>0, <2>2, <2>3, IInvNext
<1>6. CASE DeletedUnlisted(a)
  <2>1. EngineTypeOK'
    BY <1>6, FileOK DEF DeletedUnlisted, DeleteFile, IInv, EngineTypeOK, Files
  <2>2. FieldsOK
    BY <1>6, UnchangedFieldsOK DEF DeletedUnlisted
  <2>3. ActivationsOK(act', future', ctl'.completer)
    BY <1>6, <2>2, FinishesOK DEF FieldsOK, DeletedUnlisted
  <2> QED
    BY <1>0, <2>1, <2>2, <2>3, IInvNext
<1> QED
  BY <1>1, <1>2, <1>3, <1>4, <1>5, <1>6

LEMMA CompleteOK ==
  ASSUME IInv, NEW a \in Activations,
         Validated(a) \/ Completed(a) \/ CompletionRefreshed(a) \/ CompletionThrows(a)
  PROVE  IInv'
<1> DEFINE m == act[a].model
<1>0. /\ made' \in Nat /\ restarts' \in Nat
      /\ ControllerOK(ctl)
  BY DEF IInv, Validated, Completed, CompletionRefreshed, CompletionThrows, Continues
<1>e. EngineTypeOK'
  <2>1. CASE CompletionRefreshed(a)
    BY <2>1, DropJunkOK DEF CompletionRefreshed, IInv, EngineTypeOK
  <2>2. CASE Validated(a) \/ Completed(a) \/ CompletionThrows(a)
    BY <2>2, UnchangedEngineOK DEF IInv, Validated, Completed, CompletionThrows
  <2> QED
    BY <2>1, <2>2
<1>1. m \in Models /\ act[a].pc \notin Modelless
  BY ActivationFacts
     DEF Validated, Completed, CompletionRefreshed, CompletionThrows, At, Modelless
<1>2. CASE Validated(a)
  <2>1. FieldsOK
    BY <1>1, <1>2, FailDownloadOK, UnchangedFieldsOK DEF Validated
  <2>2. ActivationsOK(act', future', ctl'.completer)
    BY <1>1, <1>2, <2>1, GoesOnOK, FinishesOK
       DEF FieldsOK, Validated, Returns, Waits, Modelless, Enqueuing
  <2> QED
    BY <1>0, <1>e, <2>1, <2>2, IInvNext
<1>3. CASE Completed(a)
  <2>1. ControllerOK(ctl') /\ ctl'.completer = None
    <3>1. ControllerOK(Detached(ctl)) /\ Detached(ctl).completer = None
      BY <1>0, DetachedOK
    <3>2. ctl' = [Detached(ctl) EXCEPT
            !.downloaded = @ \cup {m}, !.lastCompleted = m, !.version = @ + 1,
            !.phase = "completed", !.model = None]
      BY <1>3 DEF Completed
    <3>3. ctl' \in Controller
      <4> DEFINE d == Detached(ctl)
                 D == d.downloaded \cup {m}
                 V == d.version + 1
      <4>1. d \in Controller /\ m \in Models
        BY <1>1, <3>1 DEF ControllerOK
      <4>2. D \in SUBSET Models /\ V \in Nat
        BY <4>1 DEF Controller
      <4>3. ctl' = [d EXCEPT !.downloaded = D, !.lastCompleted = m, !.version = V,
                             !.phase = "completed", !.model = None]
        BY <3>2
      <4> HIDE DEF d, D, V, m
      <4> QED
        BY <4>1, <4>2, <4>3 DEF Controller, Phases
    <3>4. /\ ctl'.completer = Detached(ctl).completer
          /\ ctl'.current = Detached(ctl).current
          /\ ctl'.phase = "completed" /\ ctl'.model = None
      BY <3>1, <3>2 DEF ControllerOK, Controller
    <3> QED
      BY <3>1, <3>3, <3>4 DEF ControllerOK
  <2>2. FieldsOK
    BY <1>1, <1>3, <2>1, SettleCurrentOK DEF Completed
  <2>3. ActivationsOK(act', future', ctl'.completer)
    BY <1>1, <1>3, <2>2, GoesOnOK DEF FieldsOK, Completed, Waits, Enqueuing
  <2> QED
    BY <1>0, <1>e, <2>2, <2>3, IInvNext
<1>4. CASE CompletionRefreshed(a) \/ CompletionThrows(a)
  <2>1. FieldsOK
    BY <1>1, <1>4, FailDownloadOK, UnchangedFieldsOK
       DEF CompletionRefreshed, CompletionThrows
  <2>2. ActivationsOK(act', future', ctl'.completer)
    BY <1>4, <2>1, GoesOnOK, FinishesOK
       DEF FieldsOK, CompletionRefreshed, CompletionThrows, Returns, Waits, Modelless,
           Enqueuing
  <2> QED
    BY <1>0, <1>e, <2>1, <2>2, IInvNext
<1> QED
  BY <1>2, <1>3, <1>4

LEMMA ThrowsOK ==
  ASSUME IInv, NEW a \in Activations, Throws(a)
  PROVE  IInv'
<1>1. EngineTypeOK' /\ FieldsOK /\ made' \in Nat /\ restarts' \in Nat
  BY UnchangedEngineOK, UnchangedFieldsOK DEF IInv, Throws, Continues
<1>2. ActivationsOK(act', future', ctl'.completer)
  BY <1>1, FinishesOK DEF FieldsOK, Throws
<1> QED
  BY <1>1, <1>2, IInvNext

LEMMA HandleOK ==
  ASSUME IInv, NEW m \in Models, NEW s, Handle(m, s)
  PROVE  FieldsOK /\ ActivationsOK(act', future', ctl'.completer)
<1>0. ControllerOK(ctl)
  BY DEF IInv
<1>1. ASSUME FieldsOK, UNCHANGED act
      PROVE  ActivationsOK(act', future', ctl'.completer)
  BY <1>1, ActivationsKept DEF FieldsOK, IInv, ActivationsOK
<1>2. CASE s \in Running
  <2> DEFINE f == InPhase(ctl, m, "downloading")
  <2>1. ControllerOK(f) /\ f.phase = "downloading" /\ f.completer = ctl.completer
    BY <1>0, InPhaseOK
  <2>2. f.failure \in BOOLEAN /\ (f.failure /\ s = "waitingToRetry") \in BOOLEAN
    BY <2>1 DEF ControllerOK, Controller
  <2>3. ctl' = [f EXCEPT !.failure = f.failure /\ s = "waitingToRetry"]
        /\ UNCHANGED <<future, act>>
    BY <1>2, Zenon DEF Handle, Running, Status
  <2>4. ControllerOK(ctl') /\ ctl'.completer = ctl.completer
    BY <2>1, <2>2, <2>3, ClearedOK
  <2> QED
    BY <1>1, <2>3, <2>4, NewFieldsOK
<1>3. CASE s = "paused"
  <2>1. ctl' = InPhase(ctl, m, "paused") /\ UNCHANGED <<future, act>>
    BY <1>3 DEF Handle, Running
  <2>2. ControllerOK(ctl') /\ ctl'.completer = ctl.completer
    BY <1>0, <2>1, InPhaseOK
  <2> QED
    BY <1>1, <2>1, <2>2, NewFieldsOK
<1>4. CASE s = "complete" /\ AlreadyCompleted(m) /\ UNCHANGED <<ctl, future, act>>
  BY <1>1, <1>4, UnchangedFieldsOK
<1>5. CASE /\ ctl' = InPhase(ctl, m, "finalizing") /\ UNCHANGED future
           /\ \E a \in Finalizers : At(a, "done") /\ Called(a, "validate", m)
  <2>1. ControllerOK(ctl') /\ ctl'.completer = ctl.completer
    BY <1>0, <1>5, InPhaseOK
  <2>2. FieldsOK
    BY <1>5, <2>1, NewFieldsOK
  <2> QED
    BY <1>5, <2>2, CalledOK DEF FieldsOK, Activations, Waits, Enqueuing
<1>6. CASE FailDownload(m) /\ UNCHANGED act
  BY <1>1, <1>6, FailDownloadOK
<1>7. CASE CancelDownload /\ UNCHANGED act
  BY <1>1, <1>7, CancelDownloadOK
<1> QED
  BY <1>2, <1>3, <1>4, <1>5, <1>6, <1>7 DEF Handle

LEMMA DeliverOK ==
  ASSUME IInv, Deliver
  PROVE  IInv'
<1> DEFINE m == Head(events).model
           s == Head(events).status
<1>1. /\ m \in Models /\ s \in Status
      /\ events' \in Seq([model: Models, status: Status])
  <2>1. events \in Seq([model: Models, status: Status]) /\ events # <<>>
    BY DEF IInv, EngineTypeOK, Deliver
  <2>2. /\ Head(events) \in [model: Models, status: Status]
        /\ Tail(events) \in Seq([model: Models, status: Status])
    BY <2>1, HeadTailProperties
  <2>3. events' = Tail(events)
    BY DEF Deliver
  <2> QED
    BY <2>2, <2>3
<1>2. EngineTypeOK'
  BY <1>1, RecordOK DEF Deliver, IInv, EngineTypeOK
<1>3. FieldsOK /\ ActivationsOK(act', future', ctl'.completer)
  <2>1. CASE Handle(m, s)
    BY <1>1, <2>1, HandleOK
  <2>2. CASE UNCHANGED <<ctl, future, act>>
    <3>1. FieldsOK
      BY <2>2, UnchangedFieldsOK
    <3> QED
      BY <2>2, <3>1, ActivationsKept DEF FieldsOK, IInv, ActivationsOK
  <2> QED
    BY <2>1, <2>2 DEF Deliver
<1> QED
  BY <1>2, <1>3, IInvNext DEF Deliver, Continues, IInv

LEMMA NewProcessOK ==
  /\ ControllerOK(NewController)
  /\ FuturesOK([c \in Completers |-> "unused"], None)
  /\ ActivationsOK([a \in Activations |-> Done], [c \in Completers |-> "unused"], None)
BY DEF NewController, ControllerOK, Controller, Phases, FuturesOK, Futures, ActivationsOK,
       ActivationOK, Activation, Done, NoRecords, Waits, Status, Modelless, Enqueuing

LEMMA InitOK == Init => IInv
<1> SUFFICES ASSUME Init PROVE IInv
  OBVIOUS
<1>1. EngineTypeOK
  BY DEF Init, EngineInit, EngineTypeOK, TaskStates, Status, Files
<1>2. NewController.completer = None
  BY DEF NewController
<1> QED
  BY <1>1, <1>2, NewProcessOK DEF Init, NewProcess, IInv

LEMMA KillOK ==
  ASSUME IInv, Kill
  PROVE  IInv'
<1>1. EngineTypeOK'
  BY UnchangedEngineOK DEF IInv, Kill
<1>2. NewController.completer = None
  BY DEF NewController
<1> QED
  BY <1>1, <1>2, NewProcessOK DEF Kill, IInv

LEMMA OthersOK ==
  ASSUME IInv,
         \/ \E a \in Activations : InitializeCall(a)
         \/ ClearLastError
         \/ \E m \in Models : EngineStep(m)
  PROVE  IInv'
<1>1. ASSUME NEW a \in Activations, InitializeCall(a) PROVE IInv'
  <2>1. EngineTypeOK' /\ made' \in Nat /\ restarts' \in Nat
    BY <1>1, UnchangedEngineOK DEF IInv, InitializeCall
  <2>2. ControllerOK(ctl') /\ ctl'.completer = ctl.completer
    BY <1>1 DEF IInv, InitializeCall, ControllerOK, Controller
  <2>3. FieldsOK
    BY <1>1, <2>2, NewFieldsOK DEF InitializeCall
  <2>4. ActivationsOK(act', future', ctl'.completer)
    BY <1>1, <2>3, CalledOK DEF FieldsOK, InitializeCall, Waits, Modelless, Enqueuing
  <2> QED
    BY <2>1, <2>3, <2>4, IInvNext
<1>2. CASE ClearLastError
  <2>1. EngineTypeOK' /\ made' \in Nat /\ restarts' \in Nat
    BY <1>2, UnchangedEngineOK DEF IInv, ClearLastError, Continues
  <2>2. ControllerOK(ctl') /\ ctl'.completer = ctl.completer
    BY <1>2 DEF IInv, ClearLastError, ControllerOK, Controller, Phases
  <2>3. FieldsOK
    BY <1>2, <2>2, NewFieldsOK DEF ClearLastError
  <2>4. ActivationsOK(act', future', ctl'.completer)
    BY <1>2, <2>3, ActivationsKept DEF FieldsOK, ClearLastError, IInv, ActivationsOK
  <2> QED
    BY <2>1, <2>3, <2>4, IInvNext
<1>3. ASSUME NEW m \in Models, EngineStep(m) PROVE IInv'
  <2>1. EngineTypeOK' /\ UNCHANGED <<ctl, future, act, made, restarts>>
    BY <1>3, NativeStepOK DEF IInv, EngineStep, appVars
  <2> QED
    BY <2>1 DEF IInv
<1> QED
  BY <1>1, <1>2, <1>3

LEMMA StepOK == IInv /\ [Next]_vars => IInv'
<1> SUFFICES ASSUME IInv, [Next]_vars PROVE IInv'
  OBVIOUS
<1>1. ASSUME NEW a \in Activations, UserStep(a) PROVE IInv'
  BY <1>1, OthersOK, DownloadOK, PauseResumeOK, CancelOK, DeleteOK DEF UserStep
<1>2. ASSUME NEW a \in Activations, Continuation(a) PROVE IInv'
  BY <1>2, InitializationOK, RestoreOK, DownloadOK, PauseResumeOK, CancelOK, DeleteOK,
     CompleteOK, ThrowsOK DEF Continuation
<1>3. CASE ClearLastError \/ \E m \in Models : EngineStep(m)
  BY <1>3, OthersOK
<1>4. CASE Deliver
  BY <1>4, DeliverOK
<1>5. CASE Kill
  BY <1>5, KillOK
<1>6. CASE UNCHANGED vars
  BY <1>6, UnchangedEngineOK DEF vars, appVars, IInv
<1> QED
  BY <1>1, <1>2, <1>3, <1>4, <1>5, <1>6 DEF Next

(* IInv holds in every state of every behaviour.                           *)
THEOREM Invariance == Spec => []IInv
BY InitOK, StepOK, PTL DEF Spec

-----------------------------------------------------------------------------
(* What follows for the code.                                              *)

(* Every field, future, activation and engine record keeps its type, and   *)
(* an activation keeps its model across its awaits.                        *)
THEOREM TypeCorrect == Spec => []TypeOK
<1>1. IInv => TypeOK
  BY DEF IInv, TypeOK, ControllerOK, FuturesOK, ActivationsOK, ActivationOK
<1> QED
  BY <1>1, Invariance, PTL

(* _currentDownload and _currentBackgroundCompleter always agree, and the  *)
(* future a second download() would join has never completed, however many *)
(* calls, updates and kills interleave.                                    *)
THEOREM CurrentAlwaysPending == Spec => []CurrentIsPending
<1>1. IInv => CurrentIsPending
  BY DEF IInv, CurrentIsPending, ControllerOK, FuturesOK
<1> QED
  BY <1>1, Invariance, PTL

(* The download screen has a model to act on whenever it is downloading or *)
(* finalizing, and none once a download completed.                         *)
THEOREM ScreenAlwaysHasModel == Spec => []ScreenHasModel
<1>1. IInv => ScreenHasModel
  BY DEF IInv, ScreenHasModel, ControllerOK
<1> QED
  BY <1>1, Invariance, PTL

(* A failed phase always comes with a message, so with the way out of it.  *)
THEOREM FailureAlwaysExplained == Spec => []FailureIsExplained
<1>1. IInv => FailureIsExplained
  BY DEF IInv, FailureIsExplained, ControllerOK
<1> QED
  BY <1>1, Invariance, PTL

-----------------------------------------------------------------------------
(* Completers are completed at most once.                                  *)

SettledKept ==
  \A c \in Completers :
    future[c] \notin {"unused", "pending"} => future'[c] \in {future[c], "unused"}

LEMMA SettleKeeps ==
  ASSUME IInv, NEW c, NEW outcome, Settle(c, outcome)
  PROVE  SettledKept
BY DEF IInv, FuturesOK, Settle, SettledKept

LEMMA FreshKeeps ==
  ASSUME IInv, NEW c \in Completers,
         future' = [future EXCEPT ![c] = "pending"] \/ future' = future,
         Fresh(c) \/ future' = future
  PROVE  SettledKept
BY DEF IInv, FuturesOK, Fresh, SettledKept

LEMMA ReattachesKeeps ==
  ASSUME IInv, NEW a, NEW s, NEW m, NEW pc, Reattaches(a, s, m, pc)
  PROVE  SettledKept
<1>1. PICK c \in Completers :
        future' = IF Fresh(c) THEN [future EXCEPT ![c] = "pending"] ELSE future
  BY DEF Reattaches
<1> QED
  BY <1>1, FreshKeeps

LEMMA BeginsEnqueueKeeps ==
  ASSUME IInv, NEW a, NEW s, NEW m, BeginsEnqueue(a, s, m)
  PROVE  SettledKept
<1>1. PICK c \in Completers : Fresh(c) /\ future' = [future EXCEPT ![c] = "pending"]
  BY DEF BeginsEnqueue
<1> QED
  BY <1>1, FreshKeeps

LEMMA UnchangedKeeps ==
  ASSUME UNCHANGED future
  PROVE  SettledKept
BY DEF SettledKept

LEMMA UserStepKeeps ==
  ASSUME IInv, NEW a \in Activations, UserStep(a)
  PROVE  SettledKept
<1>1. CASE InitializeCall(a) \/ PauseCall(a) \/ \E m \in Models : DeleteCall(a, m)
  BY <1>1, UnchangedKeeps DEF InitializeCall, PauseCall, DeleteCall
<1>2. CASE ResumeCall(a)
  BY <1>2, ReattachesKeeps DEF ResumeCall
<1>3. CASE CancelCall(a)
  BY <1>3, SettleKeeps, UnchangedKeeps DEF CancelCall, CancelDownload
<1>4. ASSUME NEW m \in Models, DownloadCall(a, m) PROVE SettledKept
  <2>1. CASE UNCHANGED future
    BY <2>1, UnchangedKeeps
  <2>2. ASSUME NEW c \in Completers,
               future' = IF Fresh(c) THEN [future EXCEPT ![c] = "pending"] ELSE future
        PROVE  SettledKept
    BY <2>2, FreshKeeps
  <2> QED
    BY <1>4, <2>1, <2>2 DEF DownloadCall
<1> QED
  BY <1>1, <1>2, <1>3, <1>4 DEF UserStep

LEMMA ContinuationKeeps ==
  ASSUME IInv, NEW a \in Activations, Continuation(a)
  PROVE  SettledKept
<1>1. CASE UNCHANGED future
  BY <1>1, UnchangedKeeps
<1>2. CASE RestoreState(a)
  <2>1. ASSUME NEW m, NEW s, RestoreFrom(a, m, s) PROVE SettledKept
    BY <1>1, <2>1, ReattachesKeeps DEF RestoreFrom
  <2> QED
    BY <1>1, <1>2, <2>1 DEF RestoreState
<1>3. CASE StorageChecked(a) \/ ResumeAnswered(a)
  BY <1>1, <1>3, BeginsEnqueueKeeps DEF StorageChecked, ResumeAnswered
<1>4. CASE ReportEnqueueFailure(a) \/ Completed(a)
  BY <1>4, SettleKeeps DEF ReportEnqueueFailure, Completed
<1>5. CASE Erase(a) \/ CancelThrows(a) \/ Validated(a) \/ CompletionThrows(a)
  BY <1>1, <1>5, SettleKeeps
     DEF Erase, CancelThrows, Validated, CompletionThrows, CancelDownload, FailDownload
<1> QED
  BY <1>1, <1>2, <1>3, <1>4, <1>5
     DEF Continuation, ClientReady, ListFiles, FilesListed, ReadRecords, Reattached,
         RefreshReadiness, DropsRecord, Enqueued, EnqueueFails, PauseAnswered, Paused,
         CancelAnswered, CancelsRecord, DeleteCancelled, DeletesRecord, DeleteCancelThrows,
         Deleted, DeletedUnlisted, CompletionRefreshed, Throws

LEMMA DeliverKeeps ==
  ASSUME IInv, Deliver
  PROVE  SettledKept
<1>1. ASSUME NEW m, NEW s, Handle(m, s) PROVE SettledKept
  BY <1>1, SettleKeeps, UnchangedKeeps DEF Handle, FailDownload, CancelDownload
<1> QED
  BY <1>1, UnchangedKeeps DEF Deliver

(* A future that has completed is never completed again in the lifetime of *)
(* its process: complete and completeError cannot throw.                   *)
THEOREM NeverSettledTwice == Spec => SettledOnce
<1>1. IInv /\ [Next]_vars => [SettledKept]_vars
  <2> SUFFICES ASSUME IInv, Next PROVE SettledKept
    OBVIOUS
  <2>1. CASE Kill
    BY <2>1 DEF Kill, SettledKept
  <2>2. CASE ClearLastError \/ \E m \in Models : EngineStep(m)
    BY <2>2, UnchangedKeeps DEF ClearLastError, EngineStep, appVars
  <2> QED
    BY <2>1, <2>2, UserStepKeeps, ContinuationKeeps, DeliverKeeps DEF Next
<1> QED
  BY <1>1, Invariance, PTL DEF Spec, SettledOnce, SettledKept
=============================================================================
