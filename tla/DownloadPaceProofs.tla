-------------------------- MODULE DownloadPaceProofs --------------------------
(***************************************************************************)
(* Theorems about ModelDownloadController for calls that do not overlap    *)
(* and a process that is not killed.                                       *)
(*                                                                         *)
(* What the screen shows follows what the engine does with a delay: the    *)
(* updates that are posted and not delivered.  The last update of a model  *)
(* tells how its task stands (UpdatesOK); so a screen that says            *)
(* downloading is right, or an update that corrects it is on its way, or a *)
(* call is about to start a task (ShowsOK).                                *)
(*                                                                         *)
(* A call that also waits until nothing is in progress finds one task at   *)
(* most, of the model that is shown, and leaves it so (CalmInv): engine,   *)
(* disk and screen then agree.                                             *)
(***************************************************************************)
EXTENDS MCDownloadPace, ModelDownloadProofs

OneCall == \A a, b \in Calls : a = b

-----------------------------------------------------------------------------
(* The inductive invariant.                                                *)

Pending(m) == \E k \in DOMAIN events : events[k].model = m

Last(k, q)   == \A j \in DOMAIN q : j > k => q[j].model # q[k].model
TaskAfter(s) == IF s \in Ended THEN "none" ELSE s

UpdatesOK ==
  \A k \in DOMAIN events :
    Last(k, events) => task[events[k].model] = TaskAfter(events[k].status)

(* An activation that is about to ask the engine for a task of its model,  *)
(* and one that is completing a download.                                  *)
Asking    == {"dropRecord", "enqueue", "resume"}
Finishing == {"validate", "path"}
Asked(m)  == \E a \in Activations : act[a].model = m /\ act[a].pc \in Asking

ShowsOK ==
  /\ ctl.phase = "downloading" =>
       Pending(ctl.model) \/ task[ctl.model] \in Running \/ Asked(ctl.model)
  /\ ctl.phase = "finalizing" => \E a \in Activations : act[a].pc \in Finishing

(* Until the controller is initialized nothing was asked of the engine, so *)
(* the records it then reads are empty.                                    *)
Starting == {"client", "list", "listed", "records", "recordsRead"}
Starts   == ~ctl.initialized \/ \E a \in Calls : act[a].pc \in Starting

CallsUntouched ==
  \A a \in Calls :
    /\ act[a].pc \in Starting \cup {"done", "readiness"}
    /\ ~ctl.initialized => act[a].pc \notin Starting
    /\ act[a].pc = "recordsRead" => act[a].records = NoRecords

Untouched ==
  /\ \A m \in Models : task[m] = "none" /\ record[m] = "none"
  /\ events = <<>>
  /\ ctl.model = None
  /\ ~ctl.initialized => ctl.downloaded = {}
  /\ \A a \in Finalizers : act[a].pc = "done"
  /\ CallsUntouched

StartOK ==
  /\ \A a \in Finalizers : act[a].pc \in Finishing \cup {"refresh", "done", "readiness"}
  /\ \A a \in Activations : act[a].pc # "reattach"
  /\ Starts => Untouched

PaceInv == UpdatesOK /\ ShowsOK /\ StartOK

-----------------------------------------------------------------------------
(* The updates tell how the tasks stand.                                   *)

(* No update is lost, and a model whose task stops running has one.        *)
EngineFollows ==
  /\ UpdatesOK'
  /\ \A m \in Models : Pending(m) => Pending(m)'
  /\ \A m \in Models : task[m] \in Running => task'[m] \in Running \/ Pending(m)'

LEMMA UnchangedFollows ==
  ASSUME UpdatesOK, UNCHANGED <<task, events>>
  PROVE  EngineFollows
BY DEF EngineFollows, UpdatesOK, Pending, Last

LEMMA AppendFacts ==
  ASSUME NEW S, NEW q \in Seq(S), NEW e \in S
  PROVE  /\ DOMAIN q = 1..Len(q)
         /\ DOMAIN Append(q, e) = 1..(Len(q) + 1)
         /\ Append(q, e)[Len(q) + 1] = e
         /\ \A k \in 1..Len(q) : Append(q, e)[k] = q[k] /\ q[k] \in S
         /\ Len(q) \in Nat
OBVIOUS

LEMMA MovesFollows ==
  ASSUME EngineTypeOK, UpdatesOK, NEW m \in Models, NEW s \in Status, Moves(m, s)
  PROVE  EngineFollows /\ Pending(m)'
<1> DEFINE e == [model |-> m, status |-> s]
           n == Len(events)
<1>1. /\ events' = Append(events, e)
      /\ task' = [task EXCEPT ![m] = TaskAfter(s)]
      /\ events \in Seq([model: Models, status: Status])
      /\ task \in [Models -> TaskStates]
  BY DEF Moves, EngineTypeOK, TaskAfter
<1>2. /\ DOMAIN events = 1..n
      /\ DOMAIN events' = 1..(n + 1)
      /\ events'[n + 1] = e
      /\ \A k \in 1..n :
           events'[k] = events[k] /\ events[k] \in [model: Models, status: Status]
      /\ n \in Nat
  <2> DEFINE S == [model: Models, status: Status]
  <2>1. events \in Seq(S) /\ e \in S /\ events' = Append(events, e)
    BY <1>1
  <2> HIDE DEF S, e
  <2>2. /\ DOMAIN events = 1..n
        /\ DOMAIN Append(events, e) = 1..(n + 1)
        /\ Append(events, e)[n + 1] = e
        /\ \A k \in 1..n : Append(events, e)[k] = events[k] /\ events[k] \in S
        /\ n \in Nat
    BY <2>1, AppendFacts
  <2> QED
    BY <2>1, <2>2 DEF S
<1>3. e.model = m /\ e.status = s
  OBVIOUS
<1>4. \A k \in 1..n : events[k].model \in Models
  <2> SUFFICES ASSUME NEW k \in 1..n PROVE events[k].model \in Models
    OBVIOUS
  <2>1. events[k] \in [model: Models, status: Status]
    BY <1>2
  <2> QED
    BY <2>1
<1> HIDE DEF e
<1>5. Pending(m)'
  BY <1>2, <1>3 DEF Pending
<1>6. \A x \in Models : Pending(x) => Pending(x)'
  BY <1>2 DEF Pending
<1>7. \A x \in Models : task[x] \in Running => task'[x] \in Running \/ Pending(x)'
  BY <1>1, <1>5
<1>8. ASSUME NEW k \in DOMAIN events', Last(k, events')
      PROVE  task'[events'[k].model] = TaskAfter(events'[k].status)
  <2>1. CASE k = n + 1
    BY <1>1, <1>2, <1>3, <2>1
  <2>2. CASE k \in 1..n
    <3>1. events'[k].model # m
      BY <1>2, <1>3, <1>8, <2>2 DEF Last
    <3>2. Last(k, events)
      <4> SUFFICES ASSUME NEW j \in DOMAIN events, j > k
                   PROVE  events[j].model # events[k].model
        BY DEF Last
      <4> QED
        BY <1>2, <1>8, <2>2 DEF Last
    <3>3. task[events[k].model] = TaskAfter(events[k].status)
      BY <1>2, <2>2, <3>2 DEF UpdatesOK
    <3> QED
      BY <1>1, <1>2, <1>4, <2>2, <3>1, <3>3
  <2> QED
    BY <1>2, <2>1, <2>2
<1>9. UpdatesOK'
  BY <1>8 DEF UpdatesOK, Last
<1> QED
  BY <1>5, <1>6, <1>7, <1>9 DEF EngineFollows

-----------------------------------------------------------------------------
(* One activation moves, the others wait.                                  *)

Alone(a) == \A b \in Activations \ {a} : act'[b] = act[b]

LEMMA GoesAlone ==
  ASSUME IInv, NEW a \in Activations, NEW pc, Goes(a, pc)
  PROVE  /\ Alone(a)
         /\ act'[a].pc = pc
         /\ act'[a].model = act[a].model
<1>1. act \in [Activations -> Activation]
  BY DEF IInv, ActivationsOK
<1> QED
  BY <1>1 DEF Alone, Goes, Activation

LEMMA FinishesAlone ==
  ASSUME IInv, NEW a \in Activations, Finishes(a)
  PROVE  Alone(a) /\ act'[a].pc = "done"
<1>1. act \in [Activations -> Activation]
  BY DEF IInv, ActivationsOK
<1> QED
  BY <1>1 DEF Alone, Finishes, Done

LEMMA CalledAlone ==
  ASSUME IInv, NEW a \in Activations, NEW pc, NEW m, Called(a, pc, m)
  PROVE  Alone(a) /\ act'[a].pc = pc /\ act'[a].model = m
<1>1. act \in [Activations -> Activation]
  BY DEF IInv, ActivationsOK
<1> QED
  BY <1>1 DEF Alone, Called, Done

LEMMA UnchangedAlone ==
  ASSUME NEW a \in Activations, UNCHANGED act
  PROVE  Alone(a) /\ act'[a].pc = act[a].pc /\ act'[a].model = act[a].model
BY DEF Alone

-----------------------------------------------------------------------------
(* What is left to prove of a step, in three cases.                        *)

SameScreen == ctl'.phase = ctl.phase /\ ctl'.model = ctl.model

(* The activation still asks, completes, or has started the task it was    *)
(* asking for.                                                             *)
Stays(a) ==
  /\ act[a].pc \in Asking =>
       \/ act'[a].pc \in Asking /\ act'[a].model = act[a].model
       \/ \E m \in Models : m = act[a].model /\ Pending(m)'
  /\ act[a].pc \in Finishing => act'[a].pc \in Finishing

LEMMA ShowsKept ==
  ASSUME IInv, ShowsOK, EngineFollows, NEW a \in Activations,
         Alone(a), Stays(a), SameScreen
  PROVE  ShowsOK'
<1>1. ASSUME ctl'.phase = "downloading"
      PROVE  \E m \in Models : /\ m = ctl'.model
                               /\ Pending(m)' \/ task'[m] \in Running \/ Asked(m)'
  <2>1. PICK m \in Models : m = ctl.model
    BY <1>1 DEF IInv, ControllerOK, Controller, SameScreen
  <2>2. CASE Pending(m) \/ task[m] \in Running
    BY <2>1, <2>2 DEF EngineFollows, SameScreen
  <2>3. CASE Asked(m)
    <3>1. PICK b \in Activations : act[b].model = m /\ act[b].pc \in Asking
      BY <2>3 DEF Asked
    <3>2. Asked(m)' \/ Pending(m)'
      <4>1. CASE b = a
        BY <3>1, <4>1 DEF Stays, Asked
      <4>2. CASE b # a
        BY <3>1, <4>2 DEF Alone, Asked
      <4> QED
        BY <4>1, <4>2
    <3> QED
      BY <2>1, <3>2 DEF SameScreen
  <2> QED
    BY <1>1, <2>1, <2>2, <2>3 DEF ShowsOK, SameScreen
<1>2. ASSUME ctl'.phase = "finalizing"
      PROVE  \E b \in Activations : act'[b].pc \in Finishing
  <2>1. PICK b \in Activations : act[b].pc \in Finishing
    BY <1>2 DEF ShowsOK, SameScreen
  <2>2. act'[b].pc \in Finishing
    BY <2>1 DEF Alone, Stays
  <2> QED
    BY <2>2
<1> QED
  BY <1>1, <1>2 DEF ShowsOK, SameScreen, Pending, Asked

(* The screen shows neither, or an activation that is about to ask for the *)
(* task of the model it names.                                             *)
LEMMA ShowsElse ==
  ASSUME ctl'.phase \notin {"downloading", "finalizing"}
  PROVE  ShowsOK'
BY DEF ShowsOK

LEMMA ShowsAsked ==
  ASSUME NEW a \in Activations, ctl'.phase = "downloading",
         act'[a].model = ctl'.model, act'[a].pc \in Asking
  PROVE  ShowsOK'
BY DEF ShowsOK, Asked

(* The startup is over once anything else happens.                         *)
LEMMA NotStarting ==
  ASSUME StartOK, OneCall, NEW a \in Activations,
         \/ act[a].pc \notin Starting \cup {"done", "readiness"}
         \/ a \in Calls /\ ctl.initialized /\ act[a].pc \notin Starting
         \/ a \in Finalizers /\ act[a].pc # "done"
         \/ ctl.model # None
         \/ events # <<>>
  PROVE  ~Starts
BY DEF StartOK, Starts, OneCall, Untouched, CallsUntouched, Activations

LEMMA StartKept ==
  ASSUME StartOK, ~Starts, NEW a \in Activations, Alone(a),
         ctl'.initialized = ctl.initialized,
         act'[a].pc \notin Starting \cup {"reattach"},
         a \in Finalizers => act'[a].pc \in Finishing \cup {"refresh", "done", "readiness"}
  PROVE  StartOK'
<1>1. ~Starts'
  BY DEF Starts, Alone, Activations
<1>2. \A b \in Activations : act'[b].pc # "reattach"
  BY DEF StartOK, Alone
<1>3. \A b \in Finalizers : act'[b].pc \in Finishing \cup {"refresh", "done", "readiness"}
  BY DEF StartOK, Alone, Activations
<1> QED
  BY <1>1, <1>2, <1>3 DEF StartOK

-----------------------------------------------------------------------------
(* The invariant is kept: one step per action.                             *)

(* An exception of resume itself leaves the phase it had written behind.    *)
PaceAssumption == MaxRestarts = 0 /\ OneCall /\ "resume" \notin Throwing

(* initialize: nothing is to be found in the records.                      *)
LEMMA UntouchedKept ==
  ASSUME IInv, StartOK, OneCall, Untouched, NEW a \in Calls, Alone(a),
         UNCHANGED <<task, record, events>>,
         ctl'.model = None, ctl'.initialized,
         act'[a].pc \in Starting \cup {"done", "readiness"},
         act'[a].pc = "recordsRead" => act'[a].records = NoRecords
  PROVE  StartOK'
<1>1. \A b \in Finalizers : act'[b].pc = "done"
  BY DistinctAssumption DEF Untouched, Alone, Activations
<1>2. \A b \in Calls : b = a
  BY DEF OneCall
<1>3. Untouched'
  BY <1>1, <1>2 DEF Untouched, CallsUntouched
<1>4. \A b \in Activations : act'[b].pc # "reattach"
  BY <1>1, <1>2 DEF Activations, Starting
<1> QED
  BY <1>1, <1>3, <1>4 DEF StartOK

LEMMA StartupPace ==
  ASSUME IInv, PaceInv, OneCall, NEW a \in Activations,
         \/ InitializeCall(a) \/ ClientReady(a) \/ ListFiles(a) \/ FilesListed(a)
         \/ ReadRecords(a) \/ RestoreState(a)
  PROVE  PaceInv'
<1>1. act \in [Activations -> Activation] /\ ctl \in Controller
  BY DEF IInv, ActivationsOK, ControllerOK
<1>2. a \in Calls /\ Untouched /\ (At(a, "done") \/ ctl.initialized)
  <2>1. At(a, "done") \/ act[a].pc \in Starting
    BY DEF InitializeCall, ClientReady, ListFiles, FilesListed, ReadRecords, RestoreState,
       At, Starting
  <2>2. a \in Calls
    BY <2>1 DEF PaceInv, StartOK, Finishing, Starting, Activations, At,
       InitializeCall, ClientReady, ListFiles, FilesListed, ReadRecords, RestoreState
  <2>3. Starts
    BY <2>1, <2>2 DEF Starts, InitializeCall, ClientReady, ListFiles, FilesListed,
       ReadRecords, RestoreState, At, Starting
  <2>4. Untouched
    BY <2>3 DEF PaceInv, StartOK
  <2>5. At(a, "done") \/ ctl.initialized
    BY <2>1, <2>2, <2>4 DEF Untouched, CallsUntouched, At
  <2> QED
    BY <2>2, <2>4, <2>5
<1>3. UNCHANGED <<task, record, events>>
  BY DEF InitializeCall, ClientReady, ListFiles, FilesListed, ReadRecords, RestoreState,
     engineVars
<1>4. /\ Alone(a) /\ SameScreen
      /\ ctl'.initialized
      /\ act'[a].pc \in Starting \cup {"readiness"}
      /\ act'[a].pc = "recordsRead" => act'[a].records = NoRecords
  <2>1. CASE InitializeCall(a)
    BY <1>1, <2>1, CalledAlone DEF InitializeCall, SameScreen, Controller, Starting
  <2>2. CASE ClientReady(a)
    BY <1>1, <1>2, <2>2, GoesAlone DEF ClientReady, SameScreen, Controller, Starting, At
  <2>3. CASE ListFiles(a)
    BY <1>1, <1>2, <2>3 DEF ListFiles, SameScreen, Starting, Alone, Activation, At
  <2>4. CASE FilesListed(a)
    BY <1>1, <1>2, <2>4, GoesAlone DEF FilesListed, SameScreen, Controller, Starting, At
  <2>5. CASE ReadRecords(a)
    <3>1. record = NoRecords
      BY <1>2 DEF Untouched, NoRecords, IInv, EngineTypeOK
    <3> QED
      BY <1>1, <1>2, <2>5, <3>1 DEF ReadRecords, SameScreen, Starting, Alone, Activation, At
  <2>6. CASE RestoreState(a)
    <3>1. act[a].records = NoRecords
      BY <1>2, <2>6 DEF Untouched, CallsUntouched, RestoreState, At
    <3>2. Goes(a, "readiness") /\ UNCHANGED ctl
      BY <2>6, <3>1 DEF RestoreState, NoRecords, IsFirst
    <3> QED
      BY <1>2, <2>6, <3>2, GoesAlone DEF SameScreen, RestoreState, At, Starting
  <2> QED
    BY <2>1, <2>2, <2>3, <2>4, <2>5, <2>6
<1>5. EngineFollows
  BY <1>3, UnchangedFollows DEF PaceInv
<1>6. Stays(a)
  BY <1>2 DEF Untouched, CallsUntouched, Stays, Starting, Asking, Finishing
<1>7. ShowsOK'
  BY <1>4, <1>5, <1>6, ShowsKept DEF PaceInv
<1>8. StartOK'
  BY <1>2, <1>3, <1>4, UntouchedKept DEF PaceInv, Untouched, SameScreen
<1> QED
  BY <1>5, <1>7, <1>8 DEF PaceInv, EngineFollows

(* A step after the startup that shows what it showed.                     *)
After(a) ==
  /\ Alone(a)
  /\ ~Starts
  /\ ctl'.initialized = ctl.initialized
  /\ act'[a].pc \notin Starting \cup {"reattach"}
  /\ a \in Finalizers => act'[a].pc \in Finishing \cup {"refresh", "done", "readiness"}

LEMMA KeptPace ==
  ASSUME IInv, PaceInv, EngineFollows, NEW a \in Activations,
         After(a), Stays(a), SameScreen
  PROVE  PaceInv'
BY ShowsKept, StartKept DEF PaceInv, After, EngineFollows

LEMMA ElsePace ==
  ASSUME PaceInv, EngineFollows, NEW a \in Activations, After(a),
         ctl'.phase \notin {"downloading", "finalizing"}
  PROVE  PaceInv'
BY ShowsElse, StartKept DEF PaceInv, After, EngineFollows

LEMMA AskedPace ==
  ASSUME PaceInv, EngineFollows, NEW a \in Activations, After(a),
         ctl'.phase = "downloading", act'[a].model = ctl'.model, act'[a].pc \in Asking
  PROVE  PaceInv'
BY ShowsAsked, StartKept DEF PaceInv, After, EngineFollows

(* An activation that waits for something only calls wait for.             *)
LEMMA CallFacts ==
  ASSUME IInv, PaceInv, OneCall, NEW a \in Activations,
         act[a].pc \notin Starting \cup Finishing \cup {"refresh", "done", "readiness"}
  PROVE  a \in Calls /\ a \notin Finalizers /\ ~Starts
<1>1. a \notin Finalizers
  BY DEF PaceInv, StartOK
<1> QED
  BY <1>1, NotStarting DEF PaceInv, Activations

(* _enqueueBackgroundDownload and _resumeBackgroundDownload are about to   *)
(* ask for a task of the model they show.                                  *)
LEMMA BeginsPace ==
  ASSUME IInv, PaceInv, EngineFollows, NEW a \in Calls, ~Starts, NEW m \in Models,
         \/ BeginsEnqueue(a, ctl, m)
         \/ Reattaches(a, ctl, m, "resume")
  PROVE  PaceInv'
<1>1. act \in [Activations -> Activation] /\ ctl \in Controller /\ a \in Activations
  BY DEF IInv, ActivationsOK, ControllerOK, Activations
<1>2. PICK c, pc :
        /\ pc \in Asking
        /\ act' = [act EXCEPT ![a] = [Done EXCEPT !.pc = pc, !.model = m, !.completer = c]]
  BY DEF BeginsEnqueue, Reattaches, Asking
<1>3. ctl'.phase = "downloading" /\ ctl'.model = m /\ ctl'.initialized = ctl.initialized
  BY <1>1 DEF BeginsEnqueue, Reattaches, Started, Attached, InPhase, Controller
<1>4. Alone(a) /\ act'[a].pc = pc /\ act'[a].model = m
  BY <1>1, <1>2 DEF Alone, Done
<1>5. After(a)
  BY <1>2, <1>3, <1>4, DistinctAssumption DEF After, Asking, Starting
<1> QED
  BY <1>1, <1>2, <1>3, <1>4, <1>5, AskedPace

(* The end of an activation, with an exception or without.                 *)
LEMMA EndsPace ==
  ASSUME IInv, PaceInv, PaceAssumption, NEW a \in Activations,
         RefreshReadiness(a) \/ Throws(a)
  PROVE  PaceInv'
<1>0. OneCall
  BY DEF PaceAssumption
<1>1. /\ UNCHANGED <<task, record, events, ctl, future>>
      /\ act[a].pc \notin Asking \cup Finishing \cup {"done"} /\ Finishes(a)
  <2>1. CASE RefreshReadiness(a)
    BY <2>1 DEF RefreshReadiness, At, Asking, Finishing
  <2>2. CASE Throws(a)
    BY <2>2 DEF Throws, PaceAssumption, Asking, Finishing, engineVars
  <2> QED
    BY <2>1, <2>2
<1>2. Alone(a) /\ act'[a].pc = "done"
  BY <1>1, FinishesAlone
<1>3. EngineFollows
  BY <1>1, UnchangedFollows DEF PaceInv
<1>4. ShowsOK'
  BY <1>1, <1>2, <1>3, ShowsKept DEF PaceInv, Stays, SameScreen, Asking, Finishing
<1>5. CASE Starts
  <2>1. Untouched
    BY <1>5 DEF PaceInv, StartOK
  <2>2. a \in Calls /\ \A b \in Calls : b = a
    BY <1>0, <1>1, <2>1 DEF Untouched, Activations, OneCall
  <2>3. Untouched'
    BY <1>1, <1>2, <2>1, <2>2, DistinctAssumption
    DEF Untouched, CallsUntouched, Alone, Activations, Starting
  <2>4. StartOK'
    BY <1>2, <2>2, <2>3 DEF StartOK, Untouched, Activations
  <2> QED
    BY <1>3, <1>4, <2>4 DEF PaceInv, EngineFollows
<1>6. CASE ~Starts
  <2>1. StartOK'
    BY <1>1, <1>2, <1>6, StartKept DEF PaceInv, Starting
  <2> QED
    BY <1>3, <1>4, <2>1 DEF PaceInv, EngineFollows
<1> QED
  BY <1>5, <1>6

LEMMA DownloadPace ==
  ASSUME IInv, PaceInv, OneCall, NEW a \in Activations,
         \/ \E m \in Models : DownloadCall(a, m)
         \/ StorageChecked(a) \/ DropsRecord(a) \/ Enqueued(a) \/ EnqueueFails(a)
         \/ ReportEnqueueFailure(a)
  PROVE  PaceInv'
<1>1. /\ act[a] \in Activation
      /\ act[a].pc \notin Modelless => act[a].model \in Models
      /\ ctl \in Controller
      /\ EngineTypeOK
  BY ActivationFacts DEF IInv, ControllerOK
<1>2. UNCHANGED <<task, events>> => EngineFollows
  BY UnchangedFollows DEF PaceInv
<1>3. ASSUME NEW m \in Models, DownloadCall(a, m) PROVE PaceInv'
  <2>1. /\ a \in Calls /\ a \notin Finalizers
        /\ act[a].pc = "done"
        /\ ~Starts
    BY <1>3, NotStarting, DistinctAssumption
    DEF DownloadCall, UserCall, At, PaceInv, Starting
  <2>2. SameScreen /\ ctl'.initialized = ctl.initialized
    BY <1>1, <1>3 DEF DownloadCall, SameScreen, Attached, Controller
  <2>3. Alone(a) /\ act'[a].pc \in {"done", "storage"}
    BY <1>3, <2>1, CalledAlone, UnchangedAlone DEF DownloadCall
  <2>4. EngineFollows
    BY <1>2, <1>3 DEF DownloadCall, engineVars
  <2>5. After(a) /\ Stays(a)
    BY <2>1, <2>2, <2>3 DEF After, Stays, Starting, Asking, Finishing
  <2> QED
    BY <2>2, <2>4, <2>5, KeptPace
<1>4. CASE StorageChecked(a)
  <2>1. /\ act[a].pc = "storage" /\ act[a].model \in Models
        /\ a \in Calls /\ a \notin Finalizers /\ ~Starts
    BY <1>1, <1>4, CallFacts DEF StorageChecked, At, Modelless, Starting, Finishing
  <2>2. EngineFollows
    BY <1>2, <1>4 DEF StorageChecked
  <2>3. CASE BeginsEnqueue(a, ctl, act[a].model)
    BY <2>1, <2>2, <2>3, BeginsPace
  <2>4. CASE /\ ctl' = [ctl EXCEPT !.phase = "failed", !.failure = TRUE]
             /\ Finishes(a)
    <3>1. After(a)
      BY <1>1, <2>1, <2>4, FinishesAlone DEF After, Controller, Starting
    <3> QED
      BY <1>1, <2>2, <2>4, <3>1, ElsePace DEF Controller
  <2> QED
    BY <1>4, <2>3, <2>4 DEF StorageChecked
<1>5. CASE DropsRecord(a)
  <2>1. act[a].pc = "dropRecord" /\ a \notin Finalizers /\ ~Starts
    BY <1>5, CallFacts DEF DropsRecord, At, Starting, Finishing
  <2>2. Alone(a) /\ act'[a].pc = "enqueue" /\ act'[a].model = act[a].model
    BY <1>5, GoesAlone DEF DropsRecord
  <2>3. After(a) /\ Stays(a) /\ SameScreen /\ EngineFollows
    BY <1>2, <1>5, <2>1, <2>2
    DEF DropsRecord, After, Stays, SameScreen, Starting, Asking, Finishing
  <2> QED
    BY <2>3, KeptPace
<1>6. CASE Enqueued(a)
  <2>1. /\ act[a].pc = "enqueue" /\ act[a].model \in Models
        /\ a \notin Finalizers /\ ~Starts
    BY <1>1, <1>6, CallFacts DEF Enqueued, At, Modelless, Starting, Finishing
  <2>2. PICK m \in Models : m = act[a].model /\ Moves(m, "enqueued")
    BY <1>6, <2>1 DEF Enqueued, EnqueueAccepted
  <2>3. EngineFollows /\ Pending(m)'
    BY <1>1, <2>2, MovesFollows DEF PaceInv, Status, Running
  <2>4. Alone(a) /\ act'[a].pc = "done"
    BY <1>6, FinishesAlone DEF Enqueued
  <2>5. After(a) /\ Stays(a) /\ SameScreen
    BY <1>6, <2>1, <2>2, <2>3, <2>4
    DEF Enqueued, After, Stays, SameScreen, Starting, Asking, Finishing
  <2> QED
    BY <2>3, <2>5, KeptPace
<1>7. CASE EnqueueFails(a)
  <2>1. a \notin Finalizers /\ ~Starts
    BY <1>7, CallFacts DEF EnqueueFails, At, Starting, Finishing
  <2>2. ctl'.phase = "failed" /\ ctl'.initialized = ctl.initialized
    BY <1>1, <1>7 DEF EnqueueFails, Detached, Attached, Controller
  <2>3. Alone(a) /\ act'[a].pc = "enqueueFailed"
    BY <1>7, GoesAlone DEF EnqueueFails
  <2>4. After(a) /\ EngineFollows
    BY <1>2, <1>7, <2>1, <2>2, <2>3 DEF EnqueueFails, After, Starting, engineVars
  <2> QED
    BY <2>2, <2>4, ElsePace
<1>8. CASE ReportEnqueueFailure(a)
  <2>1. act[a].pc = "enqueueFailed" /\ a \notin Finalizers /\ ~Starts
    BY <1>8, CallFacts DEF ReportEnqueueFailure, At, Starting, Finishing
  <2>2. Alone(a) /\ act'[a].pc = "done"
    BY <1>8, FinishesAlone DEF ReportEnqueueFailure
  <2>3. After(a) /\ Stays(a) /\ SameScreen /\ EngineFollows
    BY <1>2, <1>8, <2>1, <2>2
    DEF ReportEnqueueFailure, After, Stays, SameScreen, Starting, Asking, Finishing
  <2> QED
    BY <2>3, KeptPace
<1> QED
  BY <1>3, <1>4, <1>5, <1>6, <1>7, <1>8

LEMMA PauseResumePace ==
  ASSUME IInv, PaceInv, OneCall, NEW a \in Activations,
         \/ PauseCall(a) \/ PauseAnswered(a) \/ Paused(a)
         \/ ResumeCall(a) \/ ResumeAnswered(a)
  PROVE  PaceInv'
<1>1. /\ act[a] \in Activation
      /\ act[a].pc \notin Modelless => act[a].model \in Models
      /\ ctl \in Controller
      /\ EngineTypeOK
  BY ActivationFacts DEF IInv, ControllerOK
<1>2. UNCHANGED <<task, events>> => EngineFollows
  BY UnchangedFollows DEF PaceInv
<1>3. CASE PauseCall(a)
  <2>1. a \notin Finalizers /\ act[a].pc = "done" /\ ~Starts
    BY <1>3, NotStarting, DistinctAssumption DEF PauseCall, UserCall, At, PaceInv
  <2>2. Alone(a) /\ act'[a].pc = "pause"
    BY <1>3, CalledAlone DEF PauseCall
  <2>3. After(a) /\ Stays(a) /\ SameScreen /\ EngineFollows
    BY <1>2, <1>3, <2>1, <2>2
    DEF PauseCall, After, Stays, SameScreen, Starting, Asking, Finishing, engineVars
  <2> QED
    BY <2>3, KeptPace
<1>4. CASE PauseAnswered(a)
  <2>1. /\ act[a].pc = "pause" /\ act[a].model \in Models
        /\ a \notin Finalizers /\ ~Starts
    BY <1>1, <1>4, CallFacts DEF PauseAnswered, At, Modelless, Starting, Finishing
  <2>2. EngineFollows
    <3>1. CASE PauseAccepted(act[a].model)
      BY <1>1, <2>1, <3>1, MovesFollows DEF PaceInv, PauseAccepted, Status
    <3> QED
      BY <1>2, <1>4, <3>1 DEF PauseAnswered, engineVars
  <2>3. Alone(a) /\ act'[a].pc \in {"paused", "done"}
    BY <1>4, GoesAlone, FinishesAlone DEF PauseAnswered
  <2>4. After(a) /\ Stays(a) /\ SameScreen
    BY <1>4, <2>1, <2>3
    DEF PauseAnswered, After, Stays, SameScreen, Starting, Asking, Finishing
  <2> QED
    BY <2>2, <2>4, KeptPace
<1>5. CASE Paused(a)
  <2>1. a \notin Finalizers /\ ~Starts
    BY <1>5, CallFacts DEF Paused, At, Starting, Finishing
  <2>2. ctl'.phase = "paused" /\ ctl'.initialized = ctl.initialized
    BY <1>1, <1>5 DEF Paused, Controller
  <2>3. Alone(a) /\ act'[a].pc = "done"
    BY <1>5, FinishesAlone DEF Paused
  <2>4. After(a) /\ EngineFollows
    BY <1>2, <1>5, <2>1, <2>2, <2>3 DEF Paused, After, Starting, engineVars
  <2> QED
    BY <2>2, <2>4, ElsePace
<1>6. CASE ResumeCall(a)
  <2>1. a \in Calls /\ ctl.model \in Models /\ ~Starts
    BY <1>1, <1>6, NotStarting DEF ResumeCall, UserCall, PaceInv, Controller
  <2>2. EngineFollows
    BY <1>2, <1>6 DEF ResumeCall, engineVars
  <2> QED
    BY <1>6, <2>1, <2>2, BeginsPace DEF ResumeCall
<1>7. CASE ResumeAnswered(a)
  <2>1. /\ act[a].pc = "resume" /\ act[a].model \in Models
        /\ a \in Calls /\ a \notin Finalizers /\ ~Starts
    BY <1>1, <1>7, CallFacts DEF ResumeAnswered, At, Modelless, Starting, Finishing
  <2>2. CASE ResumeAccepted(act[a].model) /\ Finishes(a) /\ UNCHANGED <<ctl, future>>
    <3>1. PICK m \in Models : m = act[a].model /\ Moves(m, "enqueued")
      BY <2>1, <2>2 DEF ResumeAccepted
    <3>2. EngineFollows /\ Pending(m)'
      BY <1>1, <3>1, MovesFollows DEF PaceInv, Status, Running
    <3>3. Alone(a) /\ act'[a].pc = "done"
      BY <2>2, FinishesAlone
    <3>4. After(a) /\ Stays(a) /\ SameScreen
      BY <2>1, <2>2, <3>1, <3>2, <3>3
      DEF After, Stays, SameScreen, Starting, Asking, Finishing
    <3> QED
      BY <3>2, <3>4, KeptPace
  <2>3. CASE BeginsEnqueue(a, ctl, act[a].model) /\ UNCHANGED engineVars
    <3>1. EngineFollows
      BY <1>2, <2>3 DEF engineVars
    <3> QED
      BY <2>1, <2>3, <3>1, BeginsPace
  <2> QED
    BY <1>7, <2>2, <2>3 DEF ResumeAnswered
<1> QED
  BY <1>3, <1>4, <1>5, <1>6, <1>7

LEMMA CancelledFields ==
  ASSUME IInv, CancelDownload
  PROVE  /\ ctl'.phase = "idle" /\ ctl'.model = None
         /\ ctl'.initialized = ctl.initialized
         /\ ctl'.downloaded = ctl.downloaded
BY DEF IInv, ControllerOK, Controller, CancelDownload, Reset, Detached, Attached

LEMMA FailedFields ==
  ASSUME IInv, NEW m, FailDownload(m)
  PROVE  ctl'.phase = "failed" /\ ctl'.initialized = ctl.initialized
BY DEF IInv, ControllerOK, Controller, FailDownload, Failed, InPhase, Detached, Attached

(* cancel is the one call that may come before initialize.                 *)
LEMMA EarlyCancelPace ==
  ASSUME IInv, PaceInv, OneCall, NEW a \in Calls, act[a].pc = "done", Starts,
         CancelDownload, Called(a, "readiness", None), UNCHANGED engineVars
  PROVE  PaceInv'
<1>1. Untouched
  BY DEF PaceInv, StartOK
<1>2. UNCHANGED <<task, record, events>> /\ EngineFollows
  BY UnchangedFollows DEF PaceInv, engineVars
<1>3. Alone(a) /\ act'[a].pc = "readiness"
  BY CalledAlone DEF Activations
<1>4. \A b \in Calls : b = a
  BY DEF OneCall
<1>5. Untouched'
  BY <1>1, <1>2, <1>3, <1>4, CancelledFields, DistinctAssumption
  DEF Untouched, CallsUntouched, Alone, Activations, Starting
<1>6. StartOK'
  BY <1>3, <1>4, <1>5 DEF StartOK, Untouched, Activations
<1>7. ShowsOK'
  BY CancelledFields, ShowsElse
<1> QED
  BY <1>2, <1>6, <1>7 DEF PaceInv, EngineFollows

LEMMA CancelCallPace ==
  ASSUME IInv, PaceInv, OneCall, NEW a \in Activations, CancelCall(a)
  PROVE  PaceInv'
<1>1. /\ a \in Calls /\ a \notin Finalizers
      /\ act[a].pc = "done"
      /\ UNCHANGED engineVars
  BY DistinctAssumption DEF CancelCall, UserCall, At
<1>2. EngineFollows
  BY <1>1, UnchangedFollows DEF PaceInv, engineVars
<1>3. CASE CancelDownload /\ Called(a, "readiness", None) /\ Starts
  BY <1>1, <1>3, EarlyCancelPace
<1>4. CASE CancelDownload /\ Called(a, "readiness", None) /\ ~Starts
  <2>1. Alone(a) /\ act'[a].pc = "readiness"
    BY <1>4, CalledAlone
  <2>2. After(a)
    BY <1>1, <1>4, <2>1, CancelledFields DEF After, Starting
  <2> QED
    BY <1>2, <1>4, <2>2, CancelledFields, ElsePace
<1>5. CASE /\ ctl.model # None
           /\ Called(a, "cancel", ctl.model)
           /\ UNCHANGED <<ctl, future>>
  <2>1. ~Starts
    BY <1>5, NotStarting DEF PaceInv
  <2>2. Alone(a) /\ act'[a].pc = "cancel"
    BY <1>5, CalledAlone
  <2>3. After(a) /\ Stays(a) /\ SameScreen
    BY <1>1, <1>5, <2>1, <2>2 DEF After, Stays, SameScreen, Starting, Asking, Finishing
  <2> QED
    BY <1>2, <2>3, KeptPace
<1> QED
  BY <1>3, <1>4, <1>5 DEF CancelCall

LEMMA CancelledFollows ==
  ASSUME IInv, PaceInv, NEW m \in Models, TaskCancelled(m)
  PROVE  EngineFollows
<1>1. CASE Moves(m, "canceled")
  BY <1>1, MovesFollows DEF IInv, PaceInv, Status, Ended
<1>2. CASE UNCHANGED <<task, events>>
  BY <1>2, UnchangedFollows DEF PaceInv
<1> QED
  BY <1>1, <1>2 DEF TaskCancelled

LEMMA CancelPace ==
  ASSUME IInv, PaceInv, OneCall, NEW a \in Activations,
         CancelAnswered(a) \/ CancelsRecord(a) \/ Erase(a) \/ CancelThrows(a)
  PROVE  PaceInv'
<1>1. /\ act[a].pc \in {"cancel", "cancelRecord", "erase"} /\ act[a].model \in Models
      /\ a \notin Finalizers /\ ~Starts
  <2>1. act[a].pc \in {"cancel", "cancelRecord", "erase"}
    BY DEF CancelAnswered, CancelsRecord, Erase, CancelThrows, At
  <2> QED
    BY <2>1, ActivationFacts, CallFacts DEF Modelless, Starting, Finishing
<1>2. UNCHANGED <<task, events>> => EngineFollows
  BY UnchangedFollows DEF PaceInv
<1>3. CASE /\ EngineFollows
           /\ \E pc \in {"cancelRecord", "erase"} : Goes(a, pc)
           /\ UNCHANGED <<ctl, future>>
  <2>1. Alone(a) /\ act'[a].pc \in {"cancelRecord", "erase"}
    BY <1>3, GoesAlone
  <2>2. After(a) /\ Stays(a) /\ SameScreen
    BY <1>1, <1>3, <2>1 DEF After, Stays, SameScreen, Starting, Asking, Finishing
  <2> QED
    BY <1>3, <2>2, KeptPace
<1>4. CASE CancelDownload /\ Goes(a, "readiness") /\ UNCHANGED <<task, events>>
  <2>1. Alone(a) /\ act'[a].pc = "readiness"
    BY <1>4, GoesAlone
  <2>2. After(a)
    BY <1>1, <1>4, <2>1, CancelledFields DEF After, Starting
  <2> QED
    BY <1>2, <1>4, <2>2, CancelledFields, ElsePace
<1>5. CASE CancelAnswered(a)
  <2>1. EngineFollows
    BY <1>1, <1>5, CancelledFollows DEF CancelAnswered
  <2> QED
    BY <1>3, <1>5, <2>1 DEF CancelAnswered
<1>6. CASE CancelsRecord(a)
  BY <1>2, <1>3, <1>6 DEF CancelsRecord
<1> QED
  BY <1>4, <1>5, <1>6 DEF Erase, CancelThrows, engineVars

LEMMA DeletePace ==
  ASSUME IInv, PaceInv, OneCall, NEW a \in Activations,
         \/ \E m \in Models : DeleteCall(a, m)
         \/ DeleteCancelled(a) \/ DeletesRecord(a) \/ DeleteCancelThrows(a)
         \/ Deleted(a) \/ DeletedUnlisted(a)
  PROVE  PaceInv'
<1>1. ctl \in Controller
  BY DEF IInv, ControllerOK
<1>2. UNCHANGED <<task, events>> => EngineFollows
  BY UnchangedFollows DEF PaceInv
<1>3. ASSUME NEW m \in Models, DeleteCall(a, m) PROVE PaceInv'
  <2>1. a \in Calls /\ a \notin Finalizers /\ act[a].pc = "done" /\ ctl.downloaded # {}
    BY <1>3, DistinctAssumption DEF DeleteCall, UserCall, At
  <2>2. ~Starts
    <3>1. ctl.initialized
      BY <2>1 DEF PaceInv, StartOK, Starts, Untouched
    <3> QED
      BY <2>1, <3>1, NotStarting DEF PaceInv, Starting
  <2>3. Alone(a) /\ act'[a].pc = "deleteCancel"
    BY <1>3, CalledAlone DEF DeleteCall
  <2>4. After(a) /\ Stays(a) /\ SameScreen /\ EngineFollows
    BY <1>2, <1>3, <2>1, <2>2, <2>3
    DEF DeleteCall, After, Stays, SameScreen, Starting, Asking, Finishing, engineVars
  <2> QED
    BY <2>4, KeptPace
<1>4. CASE DeleteCancelled(a) \/ DeletesRecord(a) \/ DeleteCancelThrows(a)
  <2>1. /\ act[a].pc \in {"deleteCancel", "deleteCancelRecord", "delete"}
        /\ act[a].model \in Models /\ a \notin Finalizers /\ ~Starts
    <3>1. act[a].pc \in {"deleteCancel", "deleteCancelRecord", "delete"}
      BY <1>4 DEF DeleteCancelled, DeletesRecord, DeleteCancelThrows, At
    <3> QED
      BY <3>1, ActivationFacts, CallFacts DEF Modelless, Starting, Finishing
  <2>2. EngineFollows
    <3>1. CASE DeleteCancelled(a)
      BY <2>1, <3>1, CancelledFollows DEF DeleteCancelled
    <3> QED
      BY <1>2, <1>4, <3>1 DEF DeletesRecord, DeleteCancelThrows, engineVars
  <2>3. /\ \E pc \in {"deleteCancelRecord", "delete", "deleteFile"} : Goes(a, pc)
        /\ UNCHANGED ctl
    BY <1>4 DEF DeleteCancelled, DeletesRecord, DeleteCancelThrows
  <2>4. Alone(a) /\ act'[a].pc \in {"deleteCancelRecord", "delete", "deleteFile"}
    BY <2>3, GoesAlone
  <2>5. After(a) /\ Stays(a) /\ SameScreen
    BY <2>1, <2>3, <2>4 DEF After, Stays, SameScreen, Starting, Asking, Finishing
  <2> QED
    BY <2>2, <2>5, KeptPace
<1>5. CASE Deleted(a) \/ DeletedUnlisted(a)
  <2>1. act[a].pc = "deleteFile" /\ a \notin Finalizers /\ ~Starts
    <3>1. act[a].pc = "deleteFile"
      BY <1>5 DEF Deleted, DeletedUnlisted, At
    <3> QED
      BY <3>1, CallFacts DEF Starting, Finishing
  <2>2. SameScreen /\ ctl'.initialized = ctl.initialized
    BY <1>1, <1>5 DEF Deleted, DeletedUnlisted, SameScreen, Controller
  <2>3. Alone(a) /\ act'[a].pc \in {"readiness", "done"}
    BY <1>5, GoesAlone, FinishesAlone DEF Deleted, DeletedUnlisted
  <2>4. After(a) /\ Stays(a) /\ EngineFollows
    BY <1>2, <1>5, <2>1, <2>2, <2>3
    DEF Deleted, DeletedUnlisted, After, Stays, Starting, Asking, Finishing
  <2> QED
    BY <2>2, <2>4, KeptPace
<1> QED
  BY <1>3, <1>4, <1>5

LEMMA CompletePace ==
  ASSUME IInv, PaceInv, OneCall, NEW a \in Activations,
         Validated(a) \/ Completed(a) \/ CompletionRefreshed(a) \/ CompletionThrows(a)
  PROVE  PaceInv'
<1>1. /\ act[a].pc \in Finishing \cup {"refresh"} /\ ~Starts
      /\ UNCHANGED <<task, events>> /\ ctl \in Controller
  <2>1. act[a].pc \in Finishing \cup {"refresh"}
    BY DEF Validated, Completed, CompletionRefreshed, CompletionThrows, At, Finishing
  <2>2. ~Starts
    BY <2>1, NotStarting DEF PaceInv, Finishing, Starting
  <2> QED
    BY <2>1, <2>2 DEF Validated, Completed, CompletionRefreshed, CompletionThrows,
       engineVars, IInv, ControllerOK
<1>2. EngineFollows
  BY <1>1, UnchangedFollows DEF PaceInv
<1>3. CASE Validated(a) /\ Goes(a, "path") /\ UNCHANGED <<ctl, future>>
  <2>1. Alone(a) /\ act'[a].pc = "path"
    BY <1>3, GoesAlone
  <2>2. After(a) /\ Stays(a) /\ SameScreen
    BY <1>1, <1>3, <2>1 DEF After, Stays, SameScreen, Starting, Asking, Finishing
  <2> QED
    BY <1>2, <2>2, KeptPace
<1>4. CASE FailDownload(act[a].model) /\ Returns(a)
  <2>1. Alone(a) /\ act'[a].pc \in {"readiness", "done"}
    BY <1>4, GoesAlone, FinishesAlone DEF Returns
  <2>2. After(a) /\ ctl'.phase = "failed"
    BY <1>1, <1>4, <2>1, FailedFields DEF After, Starting
  <2> QED
    BY <1>2, <2>2, ElsePace
<1>5. CASE Completed(a)
  <2>1. Alone(a) /\ act'[a].pc = "refresh"
    BY <1>5, GoesAlone DEF Completed
  <2>2. ctl'.phase = "completed" /\ ctl'.initialized = ctl.initialized
    BY <1>1, <1>5 DEF Completed, Detached, Attached, Controller
  <2>3. After(a)
    BY <1>1, <2>1, <2>2 DEF After, Starting
  <2> QED
    BY <1>2, <2>2, <2>3, ElsePace
<1>6. CASE CompletionRefreshed(a)
  <2>1. Alone(a) /\ act'[a].pc \in {"readiness", "done"}
    BY <1>6, GoesAlone, FinishesAlone DEF CompletionRefreshed, Returns
  <2>2. act[a].pc = "refresh" /\ UNCHANGED ctl
    BY <1>6 DEF CompletionRefreshed, At
  <2>3. After(a) /\ Stays(a) /\ SameScreen
    BY <1>1, <2>1, <2>2 DEF After, Stays, SameScreen, Starting, Asking, Finishing
  <2> QED
    BY <1>2, <2>3, KeptPace
<1> QED
  BY <1>3, <1>4, <1>5, <1>6 DEF Validated, CompletionThrows

LEMMA ClearPace ==
  ASSUME IInv, PaceInv, ClearLastError
  PROVE  PaceInv'
<1>1. UNCHANGED <<task, record, events, act>> /\ ctl \in Controller
  BY DEF ClearLastError, engineVars, IInv, ControllerOK
<1>2. /\ ctl'.phase \notin {"downloading", "finalizing"}
      /\ ctl'.model = ctl.model
      /\ ctl'.initialized = ctl.initialized
      /\ ctl'.downloaded = ctl.downloaded
  BY <1>1 DEF ClearLastError, IsBusy, Controller
<1>3. UpdatesOK'
  BY <1>1, UnchangedFollows DEF PaceInv, EngineFollows
<1>4. StartOK'
  BY <1>1, <1>2 DEF PaceInv, StartOK, Starts, Untouched, CallsUntouched
<1> QED
  BY <1>2, <1>3, <1>4, ShowsElse DEF PaceInv

LEMMA EnginePace ==
  ASSUME IInv, PaceInv, NEW m \in Models, EngineStep(m)
  PROVE  PaceInv'
<1>1. PICK s \in Status : <<task[m], s>> \in Progress /\ Moves(m, s)
  BY DEF EngineStep, NativeStep
<1>2. EngineFollows
  BY <1>1, MovesFollows DEF IInv, PaceInv
<1>3. task[m] # "none"
  BY <1>1 DEF Progress
<1>4. ~Starts
  BY <1>3 DEF PaceInv, StartOK, Untouched
<1>5. UNCHANGED <<ctl, act>>
  BY DEF EngineStep, appVars
<1>6. StartOK'
  BY <1>4, <1>5 DEF PaceInv, StartOK, Starts
<1>7. ASSUME ctl'.phase = "downloading"
      PROVE  \E n \in Models : /\ n = ctl'.model
                               /\ Pending(n)' \/ task'[n] \in Running \/ Asked(n)'
  <2>1. PICK n \in Models : n = ctl.model
    BY <1>5, <1>7 DEF IInv, ControllerOK, Controller
  <2>2. Pending(n) \/ task[n] \in Running \/ Asked(n)
    BY <1>5, <1>7, <2>1 DEF PaceInv, ShowsOK
  <2>3. Asked(n) => Asked(n)'
    BY <1>5 DEF Asked
  <2> QED
    BY <1>2, <1>5, <2>1, <2>2, <2>3 DEF EngineFollows
<1>8. ShowsOK'
  BY <1>5, <1>7 DEF PaceInv, ShowsOK, Pending, Asked
<1> QED
  BY <1>2, <1>6, <1>8 DEF PaceInv, EngineFollows

-----------------------------------------------------------------------------
(* The delivery of an update.                                              *)

LEMMA TailFacts ==
  ASSUME NEW S, NEW q \in Seq(S), q # <<>>
  PROVE  /\ Len(q) \in Nat /\ Len(q) >= 1
         /\ DOMAIN q = 1..Len(q)
         /\ DOMAIN Tail(q) = 1..(Len(q) - 1)
         /\ \A k \in 1..(Len(q) - 1) : Tail(q)[k] = q[k + 1]
         /\ Head(q) = q[1]
OBVIOUS

(* What is left tells how the tasks stand; and when nothing is left of the *)
(* model of the update, the update itself did.                             *)
LEMMA DeliverFollows ==
  ASSUME EngineTypeOK, UpdatesOK, events # <<>>, events' = Tail(events), UNCHANGED task
  PROVE  /\ UpdatesOK'
         /\ \A m \in Models : Pending(m) => Pending(m)' \/ m = Head(events).model
         /\ \A m \in Models : m = Head(events).model =>
              Pending(m)' \/ task[m] = TaskAfter(Head(events).status)
<1> DEFINE n == Len(events)
<1>1. /\ n \in Nat /\ n >= 1
      /\ DOMAIN events = 1..n
      /\ DOMAIN events' = 1..(n - 1)
      /\ \A k \in 1..(n - 1) : events'[k] = events[k + 1]
      /\ Head(events) = events[1]
  BY TailFacts DEF EngineTypeOK
<1> HIDE DEF n
<1>2. \A k \in 2..n : k - 1 \in 1..(n - 1) /\ events'[k - 1] = events[k]
  BY <1>1
<1>3. ASSUME NEW k \in DOMAIN events', Last(k, events')
      PROVE  task[events'[k].model] = TaskAfter(events'[k].status)
  <2>1. k + 1 \in DOMAIN events /\ events'[k] = events[k + 1] /\ k \in Nat
    BY <1>1
  <2>2. Last(k + 1, events)
    <3> SUFFICES ASSUME NEW j \in DOMAIN events, j > k + 1
                 PROVE  events[j].model # events[k + 1].model
      BY DEF Last
    <3>1. j - 1 \in DOMAIN events' /\ j - 1 > k /\ events'[j - 1] = events[j]
      BY <1>1, <1>2, <2>1
    <3> QED
      BY <1>3, <2>1, <3>1 DEF Last
  <2> QED
    BY <2>1, <2>2 DEF UpdatesOK
<1>4. UpdatesOK'
  BY <1>3 DEF UpdatesOK, Last
<1>5. ASSUME NEW m \in Models, NEW k \in 2..n, events[k].model = m
      PROVE  Pending(m)'
  <2>1. k - 1 \in DOMAIN events' /\ events'[k - 1].model = m
    BY <1>1, <1>2, <1>5
  <2> QED
    BY <2>1 DEF Pending
<1>6. \A k \in DOMAIN events : k = 1 \/ k \in 2..n
  BY <1>1
<1>7. \A m \in Models : Pending(m) => Pending(m)' \/ m = events[1].model
  BY <1>5, <1>6 DEF Pending
<1>8. ASSUME NEW m \in Models, m = events[1].model, ~Pending(m)'
      PROVE  task[m] = TaskAfter(events[1].status)
  <2>1. 1 \in DOMAIN events
    BY <1>1
  <2>2. Last(1, events)
    <3> SUFFICES ASSUME NEW j \in DOMAIN events, j > 1
                 PROVE  events[j].model # m
      BY <1>8 DEF Last
    <3> QED
      BY <1>5, <1>6, <1>8
  <2> QED
    BY <1>8, <2>1, <2>2 DEF UpdatesOK
<1> QED
  BY <1>1, <1>4, <1>7, <1>8

LEMMA DeliverPace ==
  ASSUME IInv, PaceInv, Deliver
  PROVE  PaceInv'
<1>1. /\ events # <<>> /\ events' = Tail(events) /\ UNCHANGED task
      /\ EngineTypeOK /\ UpdatesOK /\ ctl \in Controller
  BY DEF Deliver, IInv, ControllerOK, PaceInv
<1>2. PICK m \in Models, s \in Status :
        /\ m = Head(events).model /\ s = Head(events).status
        /\ IF ctl.model \in {None, m} THEN Handle(m, s) ELSE UNCHANGED <<ctl, future, act>>
  <2>1. Head(events) \in [model: Models, status: Status]
    BY <1>1, HeadTailProperties DEF EngineTypeOK
  <2> QED
    BY <2>1 DEF Deliver
<1>3. /\ UpdatesOK'
      /\ \A n \in Models : Pending(n) => Pending(n)' \/ n = m
      /\ Pending(m)' \/ task[m] = TaskAfter(s)
  BY <1>1, <1>2, DeliverFollows
<1>4. \/ UNCHANGED act
      \/ \E a \in Finalizers : At(a, "done") /\ Called(a, "validate", m)
  BY <1>2 DEF Handle
<1>5. ctl'.initialized = ctl.initialized
  <2>1. CASE Handle(m, s)
    <3>1. CASE \/ s \in Running
               \/ s = "paused"
               \/ s = "complete"
      BY <1>1, <2>1, <3>1 DEF Handle, InPhase, Running, Controller
    <3>2. CASE FailDownload(m) \/ CancelDownload
      BY <3>2, FailedFields, CancelledFields
    <3> QED
      BY <1>2, <2>1, <3>1, <3>2 DEF Handle, Status, Ended
  <2> QED
    BY <1>2, <2>1
<1>6. StartOK'
  <2>1. ~Starts
    BY <1>1 DEF PaceInv, StartOK, Untouched
  <2>2. CASE UNCHANGED act
    BY <1>5, <2>1, <2>2 DEF PaceInv, StartOK, Starts
  <2>3. ASSUME NEW a \in Finalizers, At(a, "done"), Called(a, "validate", m)
        PROVE  StartOK'
    <3>1. Alone(a) /\ act'[a].pc = "validate"
      BY <2>3, CalledAlone DEF Activations
    <3> QED
      BY <1>5, <2>1, <3>1, StartKept DEF PaceInv, Activations, Starting, Finishing
  <2> QED
    BY <1>4, <2>2, <2>3
<1>7. ShowsOK'
  <2>1. CASE UNCHANGED <<ctl, act>> /\ ctl.model # m
    <3>1. ASSUME ctl'.phase = "downloading"
          PROVE  \E n \in Models : /\ n = ctl'.model
                                   /\ Pending(n)' \/ task'[n] \in Running \/ Asked(n)'
      <4>1. PICK n \in Models : n = ctl.model
        BY <2>1, <3>1 DEF IInv, ControllerOK, Controller
      <4>2. Pending(n) \/ task[n] \in Running \/ Asked(n)
        BY <2>1, <3>1, <4>1 DEF PaceInv, ShowsOK
      <4>3. Asked(n) => Asked(n)'
        BY <2>1 DEF Asked
      <4> QED
        BY <1>1, <1>3, <2>1, <4>1, <4>2, <4>3
    <3> QED
      BY <2>1, <3>1 DEF PaceInv, ShowsOK, Pending, Asked
  <2>2. CASE Handle(m, s)
    <3>1. CASE s \in Running
      <4>1. ctl'.phase = "downloading" /\ ctl'.model = m
        BY <1>1, <2>2, <3>1 DEF Handle, InPhase, Running, Controller
      <4>2. TaskAfter(s) = s
        BY <3>1 DEF TaskAfter, Running, Ended
      <4>3. Pending(m)' \/ task'[m] \in Running
        BY <1>1, <1>3, <3>1, <4>2
      <4> QED
        BY <4>1, <4>3 DEF ShowsOK, Pending
    <3>2. CASE s = "paused"
      <4>1. ctl'.phase = "paused"
        BY <1>1, <2>2, <3>2 DEF Handle, InPhase, Running, Controller
      <4> QED
        BY <4>1, ShowsElse
    <3>3. CASE s = "complete" /\ AlreadyCompleted(m)
      <4>1. ctl'.phase = "completed"
        BY <2>2, <3>3 DEF Handle, AlreadyCompleted, Running
      <4> QED
        BY <4>1, ShowsElse
    <3>4. CASE s = "complete" /\ ~AlreadyCompleted(m)
      <4>1. ctl'.phase = "finalizing"
        BY <1>1, <2>2, <3>4 DEF Handle, InPhase, Running, Controller
      <4>2. PICK a \in Finalizers : Called(a, "validate", m)
        BY <2>2, <3>4 DEF Handle, Running
      <4>3. a \in Activations /\ act'[a].pc = "validate"
        BY <4>2, CalledAlone DEF Activations
      <4> QED
        BY <4>1, <4>3 DEF ShowsOK, Finishing
    <3>5. CASE FailDownload(m) \/ CancelDownload
      BY <3>5, FailedFields, CancelledFields, ShowsElse
    <3> QED
      BY <1>2, <2>2, <3>1, <3>2, <3>3, <3>4, <3>5 DEF Handle, Status, Ended
  <2> QED
    BY <1>2, <2>1, <2>2
<1> QED
  BY <1>3, <1>6, <1>7 DEF PaceInv

-----------------------------------------------------------------------------
(* What follows for the code.                                              *)

LEMMA InitPace == Init => PaceInv
<1> SUFFICES ASSUME Init PROVE PaceInv
  OBVIOUS
<1>1. /\ task = [m \in Models |-> "none"] /\ record = [m \in Models |-> "none"]
      /\ events = <<>>
      /\ ctl = NewController /\ act = [a \in Activations |-> Done]
  BY DEF Init, EngineInit, NewProcess
<1>2. UpdatesOK
  BY <1>1 DEF UpdatesOK
<1>3. ShowsOK
  BY <1>1 DEF ShowsOK, NewController
<1>4. Untouched /\ StartOK
  BY <1>1 DEF Untouched, CallsUntouched, StartOK, NewController, Done, Activations, Starting
<1> QED
  BY <1>2, <1>3, <1>4 DEF PaceInv

LEMMA StepPace ==
  ASSUME PaceAssumption
  PROVE  IInv /\ PaceInv /\ [Next]_vars => PaceInv'
<1> SUFFICES ASSUME IInv, PaceInv, [Next]_vars PROVE PaceInv'
  OBVIOUS
<1>0. OneCall
  BY DEF PaceAssumption
<1>1. ASSUME NEW a \in Activations, UserStep(a) PROVE PaceInv'
  BY <1>0, <1>1, StartupPace, PauseResumePace, CancelCallPace, DownloadPace, DeletePace
  DEF UserStep
<1>2. ASSUME NEW a \in Activations, Continuation(a) PROVE PaceInv'
  <2>1. ~Reattached(a)
    BY DEF PaceInv, StartOK, Reattached, At
  <2> QED
    BY <1>0, <1>2, <2>1, StartupPace, EndsPace, DownloadPace, PauseResumePace,
       CancelPace, DeletePace, CompletePace
    DEF Continuation
<1>3. CASE ClearLastError \/ \E m \in Models : EngineStep(m)
  BY <1>3, ClearPace, EnginePace
<1>4. CASE Deliver
  BY <1>4, DeliverPace
<1>5. ~Kill
  BY DEF Kill, PaceAssumption, IInv
<1>6. CASE UNCHANGED vars
  <2>1. UNCHANGED <<task, record, events, ctl, act>>
    BY <1>6 DEF vars, engineVars, appVars
  <2> QED
    BY <2>1 DEF PaceInv, UpdatesOK, Last, ShowsOK, Pending, Asked, StartOK, Starts,
       Untouched, CallsUntouched
<1> QED
  BY <1>1, <1>2, <1>3, <1>4, <1>5, <1>6 DEF Next

(* Once quiet, a screen that says downloading has a task behind it, and    *)
(* none says finalizing: no order of the updates and of the awaits of one  *)
(* call strands the user there, as long as calls do not overlap and the    *)
(* process is not killed, and none of the exceptions does, but one of      *)
(* resume itself.                                                          *)
THEOREM NeverStranded == PaceAssumption => (Spec => []NotStranded)
<1> SUFFICES ASSUME PaceAssumption PROVE Spec => []NotStranded
  OBVIOUS
<1>1. PaceInv => NotStranded
  <2> SUFFICES ASSUME PaceInv, Quiet, ctl.phase \in {"downloading", "finalizing"}
               PROVE  ctl.phase = "downloading" /\ task[ctl.model] \in Running
    BY DEF NotStranded
  <2>1. \A a \in Activations : act[a].pc \notin Asking \cup Finishing
    BY DEF Quiet, At, Asking, Finishing
  <2>2. ~Pending(ctl.model)
    BY DEF Quiet, Pending
  <2> QED
    BY <2>1, <2>2 DEF PaceInv, ShowsOK, Asked
<1>2. Spec => []PaceInv
  BY InitPace, StepPace, Invariance, PTL DEF Spec
<1> QED
  BY <1>1, <1>2, PTL
-----------------------------------------------------------------------------
(* Calls that wait until nothing is in progress.                           *)

(* A download or resume whose task the engine does not have yet.           *)
Begun == {"storage", "dropRecord", "enqueue", "enqueueFailed", "resume"}

(* The engine is idle and no update is on its way or being handled.        *)
AtRest ==
  /\ events = <<>>
  /\ \A m \in Models : task[m] \notin Running
  /\ \A a \in Activations : act[a].pc \notin Finishing

(* The running task is the one on the screen, and so are its updates.      *)
RunningOK ==
  \A m \in Models : task[m] \in Running =>
    /\ ctl.model = m /\ ctl.phase = "downloading"
    /\ \A k \in DOMAIN events : events[k].model = m /\ events[k].status \in Running

(* The updates are of one model, and one that ends its task comes last.    *)
QueueOK ==
  \A k \in DOMAIN events :
    /\ ctl.model \in {None, events[k].model}
    /\ \A j \in DOMAIN events : events[j].model = events[k].model
    /\ events[k].status \in Ended => Last(k, events)

(* What is shown as paused is, or an update is on its way.                 *)
PausedOK ==
  ctl.phase = "paused" =>
    /\ ctl.model # None
    /\ Pending(ctl.model) \/ task[ctl.model] = "paused"

(* A listed model has no task and no download on the screen.               *)
ListedOK ==
  /\ \A m \in ctl.downloaded : task[m] = "none" /\ ~Pending(m) /\ ctl.model # m
  /\ ctl.lastCompleted # None => ctl.lastCompleted \in ctl.downloaded

(* A whole model on disk is listed, or its completion is being handled.    *)
FilesOK ==
  \A m \in Models : file[m] = "good" =>
    \/ m \in ctl.downloaded
    \/ \E k \in DOMAIN events : events[k].model = m /\ events[k].status = "complete"
    \/ \E a \in Activations : act[a].model = m /\ act[a].pc \in Finishing

(* One completion is handled at a time, and nothing else goes on.          *)
FinishOK ==
  \A a \in Activations : act[a].pc \in Finishing =>
    /\ events = <<>>
    /\ \A m \in Models : task[m] \notin Running
    /\ task[act[a].model] = "none"
    /\ act[a].model \notin ctl.downloaded
    /\ ctl.model \in {None, act[a].model}
    /\ \A b \in Activations : act[b].pc \in Finishing => b = a

(* What a call may rely on after each of its awaits.                       *)
CallOK(a) ==
  /\ act[a].pc \in Begun => AtRest
  /\ act[a].pc \in Begun \ {"enqueueFailed"} => act[a].model \notin ctl.downloaded
  /\ act[a].pc \in Asking => ctl.model = act[a].model /\ ctl.phase = "downloading"
  /\ act[a].pc = "paused" =>
       /\ task[act[a].model] = "paused" /\ ctl.model = act[a].model
       /\ \A k \in DOMAIN events : events[k].status \in Running \cup {"paused"}
  /\ act[a].pc \in {"cancel", "cancelRecord", "erase"} =>
       /\ ctl.model \in {None, act[a].model}
       /\ \A k \in DOMAIN events : events[k].model = act[a].model
       /\ \A b \in Activations : act[b].pc \in Finishing => act[b].model = act[a].model
  /\ act[a].pc \in {"cancelRecord", "erase"} => task[act[a].model] = "none"
  /\ act[a].pc = "deleteCancel" => act[a].model \in ctl.downloaded

(* Before the controller has started there is nothing on disk.             *)
EarlyOK ==
  /\ ~ctl.initialized => ~ctl.registered
  /\ Starts => /\ ctl.phase = "idle" /\ ctl.lastCompleted = None
               /\ \A m \in Models : file[m] = "absent"

CallsOK == \A a \in Calls : CallOK(a)

CalmOK ==
  RunningOK /\ QueueOK /\ PausedOK /\ ListedOK /\ FilesOK /\ FinishOK /\ CallsOK

-----------------------------------------------------------------------------
(* A step that changes nothing of the engine and the screen.               *)
SameShown ==
  /\ UNCHANGED <<task, events>>
  /\ SameScreen
  /\ ctl'.downloaded = ctl.downloaded
  /\ ctl'.lastCompleted = ctl.lastCompleted

NoNewFile == \A m \in Models : file'[m] = "good" => file[m] = "good"

SameFinish(a) ==
  /\ act[a].pc \in Finishing <=> act'[a].pc \in Finishing
  /\ act[a].pc \in Finishing => act'[a].model = act[a].model

(* What is read of the activations that complete a download.               *)
LEMMA FinishingKept ==
  ASSUME NEW a \in Activations, Alone(a), SameFinish(a)
  PROVE  \A b \in Activations :
           /\ act[b].pc \in Finishing <=> act'[b].pc \in Finishing
           /\ act[b].pc \in Finishing => act'[b].model = act[b].model
BY DEF Alone, SameFinish

LEMMA SameStateOK ==
  ASSUME RunningOK, QueueOK, PausedOK, ListedOK, SameShown
  PROVE  (RunningOK /\ QueueOK /\ PausedOK /\ ListedOK)'
BY DEF RunningOK, QueueOK, PausedOK, ListedOK, SameShown, SameScreen, Pending, Last

LEMMA SameFinishOK ==
  ASSUME FilesOK, FinishOK, SameShown, NoNewFile,
         NEW a \in Activations, Alone(a), SameFinish(a)
  PROVE  FilesOK' /\ FinishOK'
<1>1. \A b \in Activations :
        /\ act[b].pc \in Finishing <=> act'[b].pc \in Finishing
        /\ act[b].pc \in Finishing => act'[b].model = act[b].model
  BY FinishingKept
<1>2. FilesOK'
  <2> SUFFICES ASSUME NEW m \in Models, file'[m] = "good"
               PROVE  \/ m \in ctl'.downloaded
                      \/ \E k \in DOMAIN events' :
                           events'[k].model = m /\ events'[k].status = "complete"
                      \/ \E b \in Activations : act'[b].model = m /\ act'[b].pc \in Finishing
    BY DEF FilesOK
  <2>1. CASE \E b \in Activations : act[b].model = m /\ act[b].pc \in Finishing
    BY <1>1, <2>1
  <2> QED
    BY <2>1 DEF FilesOK, NoNewFile, SameShown
<1>3. FinishOK'
  BY <1>1 DEF FinishOK, SameShown, SameScreen
<1> QED
  BY <1>2, <1>3

(* A call that is not the one that moves keeps what it has.                *)
LEMMA OtherCallsOK ==
  ASSUME OneCall, CallsOK, SameShown, NEW a \in Activations, Alone(a), SameFinish(a),
         a \in Calls => CallOK(a)'
  PROVE  CallsOK'
<1>1. \A b \in Activations :
        /\ act[b].pc \in Finishing <=> act'[b].pc \in Finishing
        /\ act[b].pc \in Finishing => act'[b].model = act[b].model
  BY FinishingKept
<1> SUFFICES ASSUME NEW b \in Calls, b # a PROVE CallOK(b)'
  BY DEF CallsOK
<1>2. act'[b] = act[b] /\ CallOK(b)
  BY DEF Alone, CallsOK, Activations
<1> QED
  BY <1>1, <1>2 DEF CallOK, SameShown, SameScreen, AtRest

LEMMA SameCalm ==
  ASSUME OneCall, CalmOK, SameShown, NoNewFile,
         NEW a \in Activations, Alone(a), SameFinish(a), a \in Calls => CallOK(a)'
  PROVE  CalmOK'
BY SameStateOK, SameFinishOK, OtherCallsOK DEF CalmOK

(* While nothing happens but a call that is about to start a task.         *)
LEMMA RestCalm ==
  ASSUME OneCall, CalmOK, AtRest, UNCHANGED <<task, events>>, NoNewFile,
         NEW a \in Calls, Alone(a),
         act'[a].pc \in Begun \cup {"done", "readiness"},
         act'[a].pc \in Begun \ {"enqueueFailed"} => act'[a].model \notin ctl.downloaded,
         act'[a].pc \in Asking => ctl'.model = act'[a].model /\ ctl'.phase = "downloading",
         ctl'.downloaded = ctl.downloaded,
         ctl'.lastCompleted \in {None, ctl.lastCompleted},
         ctl'.phase # "paused",
         ctl'.model \notin ctl.downloaded
  PROVE  CalmOK'
<1>1. \A b \in Activations : act[b].pc \notin Finishing /\ act'[b].pc \notin Finishing
  BY DEF AtRest, Alone, Begun, Finishing
<1>2. AtRest'
  BY <1>1 DEF AtRest
<1>3. RunningOK' /\ QueueOK' /\ PausedOK' /\ FinishOK'
  BY <1>1 DEF AtRest, RunningOK, QueueOK, PausedOK, FinishOK
<1>4. ListedOK'
  BY DEF CalmOK, ListedOK, AtRest, Pending
<1>5. FilesOK'
  BY <1>1 DEF CalmOK, FilesOK, NoNewFile, AtRest
<1>6. CallOK(a)'
  BY <1>2 DEF CallOK, Begun, Asking
<1>7. CallsOK'
  BY <1>6 DEF CallsOK, OneCall
<1> QED
  BY <1>3, <1>4, <1>5, <1>7 DEF CalmOK

(* Most waits say nothing of what is shown.                                *)
Free == {"done", "readiness", "pause", "refresh",
         "deleteCancelRecord", "delete", "deleteFile"} \cup Starting

LEMMA FreeCallOK ==
  ASSUME NEW a, act'[a].pc \in Free
  PROVE  CallOK(a)'
BY DEF CallOK, Free, Starting, Begun, Asking

LEMMA QueueFacts ==
  ASSUME EngineTypeOK, NEW m \in Models, NEW s \in Status, Moves(m, s)
  PROVE  /\ task' = [task EXCEPT ![m] = TaskAfter(s)]
         /\ task \in [Models -> TaskStates]
         /\ \A k \in DOMAIN events : k \in DOMAIN events' /\ events'[k] = events[k]
         /\ \A k \in DOMAIN events' :
              \/ k \in DOMAIN events
              \/ /\ events'[k].model = m /\ events'[k].status = s
                 /\ \A j \in DOMAIN events' : ~(j > k)
         /\ \E k \in DOMAIN events' : events'[k].model = m /\ events'[k].status = s
<1> DEFINE e == [model |-> m, status |-> s]
           n == Len(events)
           S == [model: Models, status: Status]
<1>1. events \in Seq(S) /\ e \in S /\ events' = Append(events, e)
  BY DEF Moves, EngineTypeOK
<1>2. e.model = m /\ e.status = s
  OBVIOUS
<1>3. task' = [task EXCEPT ![m] = TaskAfter(s)] /\ task \in [Models -> TaskStates]
  BY DEF Moves, EngineTypeOK, TaskAfter
<1> HIDE DEF S, e
<1>4. /\ DOMAIN events = 1..n
      /\ DOMAIN Append(events, e) = 1..(n + 1)
      /\ Append(events, e)[n + 1] = e
      /\ \A k \in 1..n : Append(events, e)[k] = events[k] /\ events[k] \in S
      /\ n \in Nat
  BY <1>1, AppendFacts
<1> HIDE DEF n
<1>5. \A k \in 1..(n + 1) : k \in 1..n \/ (k = n + 1 /\ \A j \in 1..(n + 1) : ~(j > k))
  BY <1>4
<1>6. n + 1 \in 1..(n + 1) /\ \A k \in 1..n : k \in 1..(n + 1)
  BY <1>4
<1>7. \A k \in DOMAIN events : k \in DOMAIN events' /\ events'[k] = events[k]
  BY <1>1, <1>4, <1>6
<1>8. \A k \in DOMAIN events' :
        \/ k \in DOMAIN events
        \/ /\ events'[k].model = m /\ events'[k].status = s
           /\ \A j \in DOMAIN events' : ~(j > k)
  BY <1>1, <1>2, <1>4, <1>5
<1>9. \E k \in DOMAIN events' : events'[k].model = m /\ events'[k].status = s
  BY <1>1, <1>2, <1>4, <1>6
<1> QED
  BY <1>3, <1>7, <1>8, <1>9

(* The one task that is shown moves and nothing else happens.              *)
OnlyTask(m) ==
  /\ \A n \in Models : task[n] \in Running => n = m
  /\ ctl.model \in {None, m}
  /\ m \notin ctl.downloaded
  /\ \A k \in DOMAIN events : events[k].model = m /\ events[k].status \notin Ended

LEMMA MoveCalm ==
  ASSUME EngineTypeOK, CalmOK, NEW m \in Models, NEW s \in Status, OnlyTask(m), Moves(m, s),
         s \in Running =>
           /\ ctl.model = m /\ ctl.phase = "downloading"
           /\ \A k \in DOMAIN events : events[k].status \in Running,
         UNCHANGED ctl,
         \A n \in Models : n # m \/ s # "complete" => file'[n] = file[n],
         \A b \in Activations : act[b].pc \notin Finishing /\ act'[b].pc \notin Finishing
  PROVE  (RunningOK /\ QueueOK /\ PausedOK /\ ListedOK /\ FilesOK /\ FinishOK)'
<1>1. /\ task' = [task EXCEPT ![m] = TaskAfter(s)]
      /\ task \in [Models -> TaskStates]
      /\ \A k \in DOMAIN events : k \in DOMAIN events' /\ events'[k] = events[k]
      /\ \A k \in DOMAIN events' :
           \/ k \in DOMAIN events
           \/ /\ events'[k].model = m /\ events'[k].status = s
              /\ \A j \in DOMAIN events' : ~(j > k)
      /\ \E k \in DOMAIN events' : events'[k].model = m /\ events'[k].status = s
  BY QueueFacts
<1>2. \A k \in DOMAIN events' : events'[k].model = m
  BY <1>1 DEF OnlyTask
<1>3. RunningOK'
  <2> SUFFICES ASSUME NEW n \in Models, task'[n] \in Running
               PROVE  /\ ctl'.model = n /\ ctl'.phase = "downloading"
                      /\ \A k \in DOMAIN events' :
                           events'[k].model = n /\ events'[k].status \in Running
    BY DEF RunningOK
  <2>1. n = m
    BY <1>1 DEF OnlyTask
  <2>2. s \in Running
    BY <1>1, <2>1 DEF TaskAfter, Running, Ended, Status
  <2> QED
    BY <1>1, <1>2, <2>1, <2>2
<1>4. QueueOK'
  <2> SUFFICES ASSUME NEW k \in DOMAIN events'
               PROVE  /\ ctl'.model \in {None, events'[k].model}
                      /\ \A j \in DOMAIN events' : events'[j].model = events'[k].model
                      /\ events'[k].status \in Ended => Last(k, events')
    BY DEF QueueOK, Last
  <2>1. events'[k].status \in Ended => \A j \in DOMAIN events' : ~(j > k)
    BY <1>1 DEF OnlyTask
  <2> QED
    BY <1>2, <2>1 DEF OnlyTask, Last
<1>5. Pending(m)' /\ \A n \in Models : Pending(n)' => n = m
  BY <1>1, <1>2 DEF Pending
<1>6. PausedOK'
  BY <1>5 DEF CalmOK, PausedOK, OnlyTask, Pending
<1>7. ListedOK'
  <2> SUFFICES ASSUME NEW n \in ctl.downloaded
               PROVE  task'[n] = "none" /\ ~Pending(n)' /\ ctl.model # n
    BY DEF CalmOK, ListedOK, Pending
  <2> QED
    BY <1>1, <1>2 DEF CalmOK, ListedOK, OnlyTask, Pending
<1>8. FilesOK'
  <2> SUFFICES ASSUME NEW n \in Models, file'[n] = "good"
               PROVE  \/ n \in ctl'.downloaded
                      \/ \E k \in DOMAIN events' :
                           events'[k].model = n /\ events'[k].status = "complete"
    BY DEF FilesOK
  <2>1. CASE n = m /\ s = "complete"
    BY <1>1, <2>1
  <2>2. CASE file[n] = "good"
    BY <1>1, <2>2 DEF CalmOK, FilesOK
  <2> QED
    BY <2>1, <2>2
<1>9. FinishOK'
  BY DEF FinishOK
<1> QED
  BY <1>3, <1>4, <1>6, <1>7, <1>8, <1>9

-----------------------------------------------------------------------------
(* One step per action.                                                    *)

CalmInv == CalmOK /\ EarlyOK

LEMMA EarlyOver ==
  ASSUME NEW a \in Activations, After(a)
  PROVE  EarlyOK'
BY DEF After, EarlyOK, Starts, Alone, Activations

(* When a call may come: nothing is in progress.                           *)
LEMMA QuietFacts ==
  ASSUME OneCall, CalmInv, StartOK, Quiet
  PROVE  /\ ~Starts
         /\ events = <<>>
         /\ \A a \in Activations : act[a].pc = "done"
         /\ ctl.phase # "downloading" \/ ctl.model = None => AtRest
<1>1. events = <<>> /\ \A a \in Activations : act[a].pc = "done"
  BY DEF Quiet, At
<1>2. ~Starts
  BY <1>1 DEF Quiet, CalmInv, EarlyOK, Starts, Starting, Activations
<1>3. ASSUME ctl.phase # "downloading" \/ ctl.model = None PROVE AtRest
  BY <1>1, <1>3, DistinctAssumption DEF CalmInv, CalmOK, RunningOK, AtRest, Finishing
<1> QED
  BY <1>1, <1>2, <1>3

LEMMA StartupCalm ==
  ASSUME IInv, PaceInv, OneCall, CalmInv, NEW a \in Activations,
         \/ InitializeCall(a) \/ ClientReady(a) \/ ListFiles(a) \/ FilesListed(a)
         \/ ReadRecords(a) \/ RestoreState(a)
  PROVE  CalmInv'
<1>1. act \in [Activations -> Activation] /\ ctl \in Controller
  BY DEF IInv, ActivationsOK, ControllerOK
<1>2. /\ a \in Calls /\ Untouched
      /\ act[a].pc \in Starting \cup {"done"}
      /\ ctl.phase = "idle" /\ ctl.lastCompleted = None
      /\ \A m \in Models : file[m] = "absent"
  <2>1. act[a].pc \in Starting \cup {"done"}
    BY DEF InitializeCall, ClientReady, ListFiles, FilesListed, ReadRecords, RestoreState,
       At, Starting
  <2>2. a \in Calls
    BY <2>1 DEF PaceInv, StartOK, Finishing, Starting, Activations, At,
       InitializeCall, ClientReady, ListFiles, FilesListed, ReadRecords, RestoreState
  <2>3. Starts
    BY <2>1, <2>2 DEF Starts, InitializeCall, ClientReady, ListFiles, FilesListed,
       ReadRecords, RestoreState, At, Starting
  <2> QED
    BY <2>1, <2>2, <2>3 DEF PaceInv, StartOK, CalmInv, EarlyOK
<1>3. UNCHANGED <<task, record, events, file>>
  BY DEF InitializeCall, ClientReady, ListFiles, FilesListed, ReadRecords, RestoreState,
     engineVars
<1>4. /\ Alone(a) /\ SameScreen
      /\ ctl'.lastCompleted = None /\ ctl'.initialized
      /\ act'[a].pc \in Starting \cup {"readiness"}
  <2>1. CASE InitializeCall(a)
    BY <1>1, <1>2, <2>1, CalledAlone DEF InitializeCall, SameScreen, Controller, Starting
  <2>2. CASE ClientReady(a)
    <3>1. ctl.initialized
      BY <1>2, <2>2 DEF Untouched, CallsUntouched, ClientReady, At, Starting
    <3> QED
      BY <1>1, <1>2, <2>2, <3>1, GoesAlone DEF ClientReady, SameScreen, Controller, Starting
  <2>3. CASE ListFiles(a)
    <3>1. ctl.initialized
      BY <1>2, <2>3 DEF Untouched, CallsUntouched, ListFiles, At, Starting
    <3> QED
      BY <1>1, <1>2, <2>3, <3>1 DEF ListFiles, SameScreen, Starting, Alone, Activation
  <2>4. CASE FilesListed(a)
    <3>1. ctl.initialized
      BY <1>2, <2>4 DEF Untouched, CallsUntouched, FilesListed, At, Starting
    <3> QED
      BY <1>1, <1>2, <2>4, <3>1, GoesAlone DEF FilesListed, SameScreen, Controller, Starting
  <2>5. CASE ReadRecords(a)
    <3>1. ctl.initialized
      BY <1>2, <2>5 DEF Untouched, CallsUntouched, ReadRecords, At, Starting
    <3> QED
      BY <1>1, <1>2, <2>5, <3>1 DEF ReadRecords, SameScreen, Starting, Alone, Activation
  <2>6. CASE RestoreState(a)
    <3>1. act[a].records = NoRecords /\ ctl.initialized
      BY <1>2, <2>6 DEF Untouched, CallsUntouched, RestoreState, At, Starting
    <3>2. Goes(a, "readiness") /\ UNCHANGED ctl
      BY <2>6, <3>1 DEF RestoreState, NoRecords, IsFirst
    <3> QED
      BY <1>2, <2>6, <3>1, <3>2, GoesAlone DEF SameScreen
  <2> QED
    BY <2>1, <2>2, <2>3, <2>4, <2>5, <2>6
<1>5. \A b \in Activations : act'[b].pc \notin Finishing
  BY <1>2, <1>4 DEF Untouched, CallsUntouched, Alone, Activations, OneCall, Starting, Finishing
<1>6. CallsOK'
  <2>1. act'[a].pc \in Free
    BY <1>4 DEF Free
  <2> QED
    BY <1>2, <2>1, FreeCallOK DEF CallsOK, OneCall
<1>7. (RunningOK /\ QueueOK /\ PausedOK /\ FilesOK /\ FinishOK)'
  BY <1>2, <1>3, <1>4, <1>5
  DEF Untouched, RunningOK, QueueOK, PausedOK, FilesOK, FinishOK, SameScreen, Running
<1>8. ListedOK'
  <2>1. ctl'.downloaded \subseteq Models
    <3>1. ctl'.downloaded = ctl.downloaded \/ FilesListed(a)
      BY <1>1, <1>2 DEF InitializeCall, ClientReady, ListFiles, ReadRecords, RestoreState,
         Controller, Untouched, CallsUntouched, At, NoRecords, IsFirst
    <3>2. CASE FilesListed(a)
      BY <1>1, <3>2 DEF FilesListed, Controller, Activation
    <3> QED
      BY <1>1, <3>1, <3>2 DEF Controller
  <2> QED
    BY <1>2, <1>3, <1>4, <2>1, DistinctAssumption DEF Untouched, ListedOK, Pending, SameScreen
<1>9. EarlyOK'
  BY <1>2, <1>3, <1>4 DEF EarlyOK, SameScreen
<1> QED
  BY <1>6, <1>7, <1>8, <1>9 DEF CalmInv, CalmOK

LEMMA DropJunkMakesNone ==
  ASSUME NEW S, DropJunk(S)
  PROVE  NoNewFile /\ \A m \in Models : file[m] = "absent" => file'[m] = "absent"
BY DEF DropJunk, NoNewFile

LEMMA RefreshCalm ==
  ASSUME IInv, PaceInv, OneCall, CalmInv, NEW a \in Activations, RefreshReadiness(a)
  PROVE  CalmInv'
<1>1. /\ UNCHANGED <<task, record, events, ctl, future>>
      /\ act[a].pc = "readiness" /\ Finishes(a) /\ DropJunk(Models)
  BY DEF RefreshReadiness, At
<1>2. Alone(a) /\ act'[a].pc = "done"
  BY <1>1, FinishesAlone
<1>3. SameShown /\ NoNewFile /\ SameFinish(a)
  BY <1>1, <1>2, DropJunkMakesNone DEF SameShown, SameScreen, SameFinish, Finishing
<1>4. CallOK(a)'
  BY <1>2, FreeCallOK DEF Free
<1>5. CalmOK'
  BY <1>2, <1>3, <1>4, SameCalm DEF CalmInv
<1>6. EarlyOK'
  <2>1. Starts' => Starts
    BY <1>1, <1>2 DEF Starts, Alone, Activations, Starting
  <2> QED
    BY <1>1, <2>1, DropJunkMakesNone DEF CalmInv, EarlyOK
<1> QED
  BY <1>5, <1>6 DEF CalmInv

(* Calls that wait for something before anything is changed.               *)
CallWaits(a) ==
  /\ act'[a].pc \in {"done", "storage", "deleteCancel", "pause", "cancel"}
  /\ act'[a].pc = "storage" => AtRest /\ act'[a].model \notin ctl.downloaded
  /\ act'[a].pc = "deleteCancel" => act'[a].model \in ctl.downloaded
  /\ act'[a].pc = "cancel" => act'[a].model = ctl.model

LEMMA CallsCalm ==
  ASSUME IInv, PaceInv, OneCall, CalmInv, Quiet, NEW a \in Activations,
         \/ \E m \in Models : DownloadCall(a, m) \/ DeleteCall(a, m)
         \/ PauseCall(a)
         \/ CancelCall(a) /\ ctl.model # None
  PROVE  CalmInv'
<1>1. /\ ~Starts /\ events = <<>>
      /\ \A b \in Activations : act[b].pc = "done"
      /\ ctl.phase # "downloading" \/ ctl.model = None => AtRest
      /\ ctl \in Controller
  BY QuietFacts DEF PaceInv, IInv, ControllerOK
<1>2. a \in Calls /\ a \notin Finalizers /\ UNCHANGED engineVars
  BY DistinctAssumption DEF DownloadCall, DeleteCall, PauseCall, CancelCall, UserCall
<1>3. SameShown /\ NoNewFile /\ ctl'.initialized = ctl.initialized
  BY <1>1 DEF DownloadCall, DeleteCall, PauseCall, CancelCall, Attached, Controller,
     SameShown, SameScreen, NoNewFile, engineVars
<1>4. Alone(a) /\ CallWaits(a)
  <2>1. ASSUME NEW m \in Models, DownloadCall(a, m), Called(a, "storage", m),
               \/ ctl.phase \notin {"downloading", "paused", "finalizing"}
               \/ ctl.model = None
        PROVE  Alone(a) /\ CallWaits(a)
    BY <1>1, <2>1, CalledAlone DEF DownloadCall, CallWaits
  <2>2. ASSUME NEW m \in Models, DownloadCall(a, m), UNCHANGED act
        PROVE  Alone(a) /\ CallWaits(a)
    BY <1>1, <2>2, UnchangedAlone DEF CallWaits
  <2>3. ASSUME NEW m \in Models, DeleteCall(a, m)
        PROVE  Alone(a) /\ CallWaits(a)
    BY <2>3, CalledAlone DEF DeleteCall, CallWaits
  <2>4. CASE PauseCall(a)
    BY <2>4, CalledAlone DEF PauseCall, CallWaits
  <2>5. CASE CancelCall(a) /\ ctl.model # None
    BY <2>5, CalledAlone DEF CancelCall, CallWaits
  <2> QED
    BY <2>1, <2>2, <2>3, <2>4, <2>5 DEF DownloadCall
<1>5. SameFinish(a)
  BY <1>1, <1>4 DEF SameFinish, Finishing, CallWaits
<1>6. \A b \in Activations : act'[b].pc \notin Finishing
  BY <1>1, <1>4 DEF Alone, Finishing, CallWaits
<1>7. CallOK(a)'
  <2>1. CASE act'[a].pc \in {"done", "pause"}
    BY <2>1, FreeCallOK DEF Free
  <2>2. CASE act'[a].pc = "storage"
    BY <1>3, <1>4, <1>6, <2>2 DEF CallOK, AtRest, SameShown, Asking, CallWaits
  <2>3. CASE act'[a].pc \in {"deleteCancel", "cancel"}
    BY <1>1, <1>3, <1>4, <1>6, <2>3 DEF CallOK, SameShown, SameScreen, Asking, Begun, CallWaits
  <2> QED
    BY <1>4, <2>1, <2>2, <2>3 DEF CallWaits
<1>8. CalmOK'
  BY <1>3, <1>4, <1>5, <1>7, SameCalm DEF CalmInv
<1>9. After(a)
  BY <1>1, <1>2, <1>3, <1>4 DEF After, Starting, CallWaits
<1> QED
  BY <1>8, <1>9, EarlyOver DEF CalmInv

(* cancel with nothing to cancel.                                          *)
LEMMA CancelNothingCalm ==
  ASSUME IInv, PaceInv, OneCall, CalmInv, Quiet, NEW a \in Activations,
         CancelCall(a), ctl.model = None
  PROVE  CalmInv'
<1>1. /\ ~Starts /\ events = <<>>
      /\ \A b \in Activations : act[b].pc = "done"
      /\ AtRest
  BY QuietFacts DEF PaceInv
<1>2. /\ a \in Calls /\ a \notin Finalizers
      /\ UNCHANGED <<task, record, events, file>>
      /\ CancelDownload /\ Called(a, "readiness", None)
  BY DistinctAssumption DEF CancelCall, UserCall, engineVars
<1>3. Alone(a) /\ act'[a].pc = "readiness"
  BY <1>2, CalledAlone
<1>4. /\ ctl'.phase = "idle" /\ ctl'.model = None /\ ctl'.initialized = ctl.initialized
      /\ ctl'.downloaded = ctl.downloaded /\ ctl'.lastCompleted = ctl.lastCompleted
  BY <1>2, CancelledFields
  DEF IInv, ControllerOK, Controller, CancelDownload, Reset, Detached, Attached
<1>5. None \notin ctl.downloaded
  BY DistinctAssumption DEF IInv, ControllerOK, Controller
<1>6. CalmOK'
  BY <1>1, <1>2, <1>3, <1>4, <1>5, RestCalm DEF CalmInv, NoNewFile, Begun, Asking
<1>7. After(a)
  BY <1>1, <1>2, <1>3, <1>4 DEF After, Starting
<1> QED
  BY <1>6, <1>7, EarlyOver DEF CalmInv

(* _enqueueBackgroundDownload and _resumeBackgroundDownload.               *)
LEMMA BeginsCalm ==
  ASSUME IInv, OneCall, CalmInv, AtRest, ~Starts, NEW a \in Calls, NEW m \in Models,
         m \notin ctl.downloaded, UNCHANGED <<task, events>>, NoNewFile,
         \/ BeginsEnqueue(a, ctl, m)
         \/ Reattaches(a, ctl, m, "resume")
  PROVE  CalmInv'
<1>1. act \in [Activations -> Activation] /\ ctl \in Controller /\ a \in Activations
  BY DEF IInv, ActivationsOK, ControllerOK, Activations
<1>2. PICK c, pc :
        /\ pc \in Asking
        /\ act' = [act EXCEPT ![a] = [Done EXCEPT !.pc = pc, !.model = m, !.completer = c]]
  BY DEF BeginsEnqueue, Reattaches, Asking
<1>3. /\ ctl'.phase = "downloading" /\ ctl'.model = m
      /\ ctl'.initialized = ctl.initialized
      /\ ctl'.downloaded = ctl.downloaded
      /\ ctl'.lastCompleted \in {None, ctl.lastCompleted}
  BY <1>1 DEF BeginsEnqueue, Reattaches, Started, Attached, InPhase, Controller
<1>4. Alone(a) /\ act'[a].pc = pc /\ act'[a].model = m
  BY <1>1, <1>2 DEF Alone, Done
<1>5. After(a)
  BY <1>2, <1>3, <1>4, DistinctAssumption DEF After, Asking, Starting
<1>6. CalmOK'
  BY <1>2, <1>3, <1>4, RestCalm DEF CalmInv, Asking, Begun
<1> QED
  BY <1>1, <1>5, <1>6, EarlyOver DEF CalmInv

LEMMA ResumeCallCalm ==
  ASSUME IInv, PaceInv, OneCall, CalmInv, Quiet, NEW a \in Activations, ResumeCall(a)
  PROVE  CalmInv'
<1>1. ~Starts /\ AtRest
  BY QuietFacts DEF PaceInv, ResumeCall
<1>2. a \in Calls /\ ctl.model \in Models /\ ctl.model \notin ctl.downloaded
  BY DEF ResumeCall, UserCall, CalmInv, CalmOK, ListedOK, IInv, ControllerOK, Controller
<1>3. UNCHANGED <<task, events>> /\ NoNewFile
  BY DEF ResumeCall, engineVars, NoNewFile
<1> QED
  BY <1>1, <1>2, <1>3, BeginsCalm DEF ResumeCall

LEMMA WaitingCall ==
  ASSUME IInv, PaceInv, OneCall, CalmInv, NEW a \in Activations, act[a].pc \in Begun
  PROVE  /\ a \in Calls /\ a \notin Finalizers /\ ~Starts /\ AtRest
         /\ act[a].pc # "enqueueFailed" =>
              act[a].model \in Models /\ act[a].model \notin ctl.downloaded
<1>1. a \in Calls /\ a \notin Finalizers /\ ~Starts
  BY CallFacts DEF Begun, Starting, Finishing
<1>2. CallOK(a)
  BY <1>1 DEF CalmInv, CalmOK, CallsOK
<1>3. act[a].model \in Models
  BY ActivationFacts DEF Begun, Modelless
<1> QED
  BY <1>1, <1>2, <1>3 DEF CallOK

LEMMA DownloadCalm ==
  ASSUME IInv, PaceInv, OneCall, CalmInv, NEW a \in Activations,
         StorageChecked(a) \/ DropsRecord(a) \/ EnqueueFails(a) \/ ReportEnqueueFailure(a)
  PROVE  CalmInv'
<1>1. /\ act[a].pc \in Begun
      /\ ctl \in Controller
      /\ UNCHANGED <<task, events>>
  BY DEF StorageChecked, DropsRecord, EnqueueFails, ReportEnqueueFailure, At, Begun,
     IInv, ControllerOK, engineVars
<1>2. /\ a \in Calls /\ a \notin Finalizers /\ ~Starts /\ AtRest
      /\ act[a].pc # "enqueueFailed" =>
           act[a].model \in Models /\ act[a].model \notin ctl.downloaded
  BY <1>1, WaitingCall
<1>3. NoNewFile
  BY DropJunkMakesNone
  DEF StorageChecked, DropsRecord, EnqueueFails, ReportEnqueueFailure, engineVars, NoNewFile
<1>4. ctl.model \notin ctl.downloaded
  BY DEF CalmInv, CalmOK, ListedOK
<1>5. CASE StorageChecked(a)
  <2>1. act[a].pc = "storage"
    BY <1>5 DEF StorageChecked, At
  <2>2. CASE BeginsEnqueue(a, ctl, act[a].model)
    BY <1>1, <1>2, <1>3, <2>1, <2>2, BeginsCalm
  <2>3. CASE ctl' = [ctl EXCEPT !.phase = "failed", !.failure = TRUE] /\ Finishes(a)
    <3>1. Alone(a) /\ act'[a].pc = "done"
      BY <2>3, FinishesAlone
    <3>2. /\ ctl'.phase = "failed" /\ ctl'.model = ctl.model
          /\ ctl'.initialized = ctl.initialized
          /\ ctl'.downloaded = ctl.downloaded /\ ctl'.lastCompleted = ctl.lastCompleted
      BY <1>1, <2>3 DEF Controller
    <3>3. After(a)
      BY <1>2, <3>1, <3>2 DEF After, Starting
    <3>4. CalmOK'
      BY <1>1, <1>2, <1>3, <1>4, <3>1, <3>2, RestCalm DEF CalmInv, Begun, Asking
    <3> QED
      BY <3>3, <3>4, EarlyOver DEF CalmInv
  <2> QED
    BY <1>5, <2>2, <2>3 DEF StorageChecked
<1>6. CASE DropsRecord(a)
  <2>1. act[a].pc = "dropRecord" /\ UNCHANGED ctl /\ Goes(a, "enqueue")
    BY <1>6 DEF DropsRecord, At
  <2>2. Alone(a) /\ act'[a].pc = "enqueue" /\ act'[a].model = act[a].model
    BY <2>1, GoesAlone
  <2>3. ctl.model = act[a].model /\ ctl.phase = "downloading"
    BY <1>2, <2>1 DEF CalmInv, CalmOK, CallsOK, CallOK, Asking
  <2>4. After(a)
    BY <1>2, <2>1, <2>2 DEF After, Starting
  <2>5. CalmOK'
    BY <1>1, <1>2, <1>3, <1>4, <2>1, <2>2, <2>3, RestCalm DEF CalmInv, Begun, Asking
  <2> QED
    BY <2>4, <2>5, EarlyOver DEF CalmInv
<1>7. CASE EnqueueFails(a)
  <2>1. /\ ctl'.phase = "failed" /\ ctl'.model = ctl.model
        /\ ctl'.initialized = ctl.initialized
        /\ ctl'.downloaded = ctl.downloaded /\ ctl'.lastCompleted = ctl.lastCompleted
    BY <1>1, <1>7 DEF EnqueueFails, Detached, Attached, Controller
  <2>2. Alone(a) /\ act'[a].pc = "enqueueFailed"
    BY <1>7, GoesAlone DEF EnqueueFails
  <2>3. After(a)
    BY <1>2, <2>1, <2>2 DEF After, Starting
  <2>4. CalmOK'
    BY <1>1, <1>2, <1>3, <1>4, <2>1, <2>2, RestCalm DEF CalmInv, Begun, Asking
  <2> QED
    BY <2>3, <2>4, EarlyOver DEF CalmInv
<1>8. CASE ReportEnqueueFailure(a)
  <2>1. UNCHANGED ctl /\ Finishes(a) /\ act[a].pc = "enqueueFailed"
    BY <1>8 DEF ReportEnqueueFailure, At
  <2>2. Alone(a) /\ act'[a].pc = "done"
    BY <2>1, FinishesAlone
  <2>3. After(a)
    BY <1>2, <2>1, <2>2 DEF After, Starting
  <2>4. SameShown /\ SameFinish(a) /\ CallOK(a)'
    BY <1>1, <2>1, <2>2, FreeCallOK
    DEF SameShown, SameScreen, SameFinish, Finishing, Free
  <2>5. CalmOK'
    BY <1>3, <2>2, <2>4, SameCalm DEF CalmInv
  <2> QED
    BY <2>3, <2>5, EarlyOver DEF CalmInv
<1> QED
  BY <1>5, <1>6, <1>7, <1>8

(* The engine takes the task that is shown.                                *)
LEMMA TaskStartsCalm ==
  ASSUME IInv, OneCall, CalmInv, AtRest, ~Starts, NEW a \in Calls, a \notin Finalizers,
         NEW m \in Models, m \notin ctl.downloaded,
         ctl.model = m, ctl.phase = "downloading",
         Moves(m, "enqueued"), UNCHANGED <<file, ctl>>, Finishes(a)
  PROVE  CalmInv'
<1>1. Alone(a) /\ act'[a].pc = "done" /\ a \in Activations
  BY FinishesAlone DEF Activations
<1>2. \A b \in Activations : act[b].pc \notin Finishing /\ act'[b].pc \notin Finishing
  BY <1>1 DEF AtRest, Alone, Finishing
<1>3. OnlyTask(m)
  BY DEF OnlyTask, AtRest
<1>4. (RunningOK /\ QueueOK /\ PausedOK /\ ListedOK /\ FilesOK /\ FinishOK)'
  <2>1. "enqueued" \in Status /\ EngineTypeOK
    BY DEF Status, Running, IInv
  <2>2. \A k \in DOMAIN events : events[k].status \in Running
    BY DEF AtRest
  <2> QED
    BY <1>2, <1>3, <2>1, <2>2, MoveCalm DEF CalmInv
<1>5. CallsOK'
  BY <1>1, FreeCallOK DEF CallsOK, OneCall, Free
<1>6. After(a)
  BY <1>1 DEF After, Starting
<1> QED
  BY <1>1, <1>4, <1>5, <1>6, EarlyOver DEF CalmInv, CalmOK

LEMMA AcceptedCalm ==
  ASSUME IInv, PaceInv, OneCall, CalmInv, NEW a \in Activations,
         Enqueued(a) \/ ResumeAnswered(a)
  PROVE  CalmInv'
<1>1. act[a].pc \in {"enqueue", "resume"}
  BY DEF Enqueued, ResumeAnswered, At
<1>2. /\ a \in Calls /\ a \notin Finalizers /\ ~Starts /\ AtRest
      /\ act[a].model \in Models /\ act[a].model \notin ctl.downloaded
  BY <1>1, WaitingCall DEF Begun
<1>3. ctl.model = act[a].model /\ ctl.phase = "downloading"
  BY <1>1, <1>2 DEF CalmInv, CalmOK, CallsOK, CallOK, Asking
<1>4. CASE /\ Moves(act[a].model, "enqueued")
           /\ UNCHANGED <<file, ctl>>
           /\ Finishes(a)
  BY <1>2, <1>3, <1>4, TaskStartsCalm
<1>5. CASE BeginsEnqueue(a, ctl, act[a].model) /\ UNCHANGED engineVars
  <2>1. UNCHANGED <<task, events>> /\ NoNewFile
    BY <1>5 DEF engineVars, NoNewFile
  <2> QED
    BY <1>2, <1>5, <2>1, BeginsCalm
<1> QED
  BY <1>4, <1>5 DEF Enqueued, EnqueueAccepted, ResumeAnswered, ResumeAccepted

(* Only the task that is shown can be running.                             *)
LEMMA RunningFacts ==
  ASSUME IInv, CalmInv, NEW m \in Models, task[m] \in Running
  PROVE  /\ OnlyTask(m)
         /\ ctl.model = m /\ ctl.phase = "downloading"
         /\ \A k \in DOMAIN events : events[k].status \in Running
         /\ \A b \in Activations : act[b].pc \notin Finishing
         /\ ~AtRest
<1>1. RunningOK /\ ListedOK /\ FinishOK
  BY DEF CalmInv, CalmOK
<1>2. Running \cap Ended = {}
  BY DEF Running, Ended
<1>3. m \notin ctl.downloaded
  BY <1>1 DEF ListedOK, Running
<1> QED
  BY <1>1, <1>2, <1>3 DEF RunningOK, FinishOK, OnlyTask, AtRest

LEMMA PauseCalm ==
  ASSUME IInv, PaceInv, OneCall, CalmInv, NEW a \in Activations, PauseAnswered(a)
  PROVE  CalmInv'
<1>1. /\ act[a].pc = "pause" /\ act[a].model \in Models
      /\ a \in Calls /\ a \notin Finalizers /\ ~Starts
  BY ActivationFacts, CallFacts DEF PauseAnswered, At, Modelless, Starting, Finishing
<1>2. CASE Finishes(a) /\ UNCHANGED engineVars
  <2>1. Alone(a) /\ act'[a].pc = "done" /\ UNCHANGED ctl
    BY <1>2, FinishesAlone DEF PauseAnswered
  <2>2. SameShown /\ SameFinish(a) /\ CallOK(a)' /\ NoNewFile
    BY <1>1, <1>2, <2>1, FreeCallOK
    DEF SameShown, SameScreen, SameFinish, Finishing, Free, engineVars, NoNewFile
  <2>3. After(a)
    BY <1>1, <2>1 DEF After, Starting
  <2>4. CalmOK'
    BY <2>1, <2>2, SameCalm DEF CalmInv
  <2> QED
    BY <2>3, <2>4, EarlyOver DEF CalmInv
<1>3. CASE PauseAccepted(act[a].model) /\ Goes(a, "paused")
  <2>1. PICK m \in Models : m = act[a].model
    BY <1>1
  <2>2. /\ Alone(a) /\ act'[a].pc = "paused" /\ act'[a].model = m
        /\ UNCHANGED <<ctl, file>>
    BY <1>3, <2>1, GoesAlone DEF PauseAnswered, PauseAccepted
  <2>3. task[m] = "running" /\ Moves(m, "paused")
    BY <1>3, <2>1 DEF PauseAccepted
  <2>4. /\ OnlyTask(m)
        /\ ctl.model = m /\ ctl.phase = "downloading"
        /\ \A k \in DOMAIN events : events[k].status \in Running
        /\ \A b \in Activations : act[b].pc \notin Finishing
    BY <2>3, RunningFacts DEF Running
  <2>5. \A b \in Activations : act'[b].pc \notin Finishing
    BY <2>2, <2>4 DEF Alone, Finishing
  <2>6. "paused" \in Status /\ "paused" \notin Running /\ EngineTypeOK
    BY DEF Status, Running, IInv
  <2>7. (RunningOK /\ QueueOK /\ PausedOK /\ ListedOK /\ FilesOK /\ FinishOK)'
    BY <2>2, <2>3, <2>4, <2>5, <2>6, MoveCalm DEF CalmInv
  <2>8. CallOK(a)'
    <3>1. /\ task' = [task EXCEPT ![m] = TaskAfter("paused")]
          /\ task \in [Models -> TaskStates]
          /\ \A k \in DOMAIN events : k \in DOMAIN events' /\ events'[k] = events[k]
          /\ \A k \in DOMAIN events' :
               \/ k \in DOMAIN events
               \/ /\ events'[k].model = m /\ events'[k].status = "paused"
                  /\ \A j \in DOMAIN events' : ~(j > k)
      BY <2>3, <2>6, QueueFacts
    <3>2. task'[m] = "paused"
      BY <3>1 DEF TaskAfter, Ended
    <3>3. \A k \in DOMAIN events' : events'[k].status \in Running \cup {"paused"}
      BY <2>4, <3>1
    <3> QED
      BY <2>2, <2>4, <3>2, <3>3 DEF CallOK, Begun, Asking
  <2>9. CallsOK' /\ After(a)
    BY <1>1, <2>2, <2>8 DEF CallsOK, OneCall, After, Starting
  <2> QED
    BY <2>7, <2>9, EarlyOver DEF CalmInv, CalmOK
<1> QED
  BY <1>2, <1>3 DEF PauseAnswered

(* The phase changes and the fields that name a model do not.              *)
LEMMA PausedCalm ==
  ASSUME IInv, PaceInv, OneCall, CalmInv, NEW a \in Activations, Paused(a)
  PROVE  CalmInv'
<1>1. act[a].pc = "paused" /\ a \in Calls /\ a \notin Finalizers /\ ~Starts
  BY CallFacts DEF Paused, At, Starting, Finishing
<1>2. ctl.model = act[a].model /\ task[ctl.model] = "paused"
  BY <1>1 DEF CalmInv, CalmOK, CallsOK, CallOK
<1>3. ctl.model \in Models
  BY <1>1, <1>2, ActivationFacts DEF Modelless
<1>4. /\ ctl'.phase = "paused" /\ ctl'.model = ctl.model
      /\ ctl'.initialized = ctl.initialized
      /\ ctl'.downloaded = ctl.downloaded /\ ctl'.lastCompleted = ctl.lastCompleted
      /\ UNCHANGED <<task, record, events, file>>
  BY DEF Paused, IInv, ControllerOK, Controller, engineVars
<1>5. Alone(a) /\ act'[a].pc = "done"
  BY FinishesAlone DEF Paused
<1>6. SameFinish(a)
  BY <1>1, <1>5 DEF SameFinish, Finishing
<1>7. \A b \in Activations :
        /\ act[b].pc \in Finishing <=> act'[b].pc \in Finishing
        /\ act[b].pc \in Finishing => act'[b].model = act[b].model
  BY <1>5, <1>6, FinishingKept
<1>8. RunningOK' /\ PausedOK'
  BY <1>2, <1>3, <1>4, DistinctAssumption
  DEF CalmInv, CalmOK, RunningOK, PausedOK, Running
<1>9. QueueOK' /\ ListedOK'
  BY <1>4 DEF CalmInv, CalmOK, QueueOK, ListedOK, Pending, Last
<1>10. FilesOK' /\ FinishOK'
  <2>1. FilesOK'
    <3> SUFFICES ASSUME NEW m \in Models, file'[m] = "good"
                 PROVE  \/ m \in ctl'.downloaded
                        \/ \E k \in DOMAIN events' :
                             events'[k].model = m /\ events'[k].status = "complete"
                        \/ \E b \in Activations : act'[b].model = m /\ act'[b].pc \in Finishing
      BY DEF FilesOK
    <3>1. CASE \E b \in Activations : act[b].model = m /\ act[b].pc \in Finishing
      BY <1>7, <3>1
    <3> QED
      BY <1>4, <3>1 DEF CalmInv, CalmOK, FilesOK
  <2>2. FinishOK'
    BY <1>4, <1>7 DEF CalmInv, CalmOK, FinishOK
  <2> QED
    BY <2>1, <2>2
<1>11. CallsOK'
  BY <1>1, <1>5, FreeCallOK DEF CallsOK, OneCall, Free
<1>12. After(a)
  BY <1>1, <1>4, <1>5 DEF After, Starting
<1> QED
  BY <1>8, <1>9, <1>10, <1>11, <1>12, EarlyOver DEF CalmInv, CalmOK

LEMMA CancelCalm ==
  ASSUME IInv, PaceInv, OneCall, CalmInv, NEW a \in Activations, CancelAnswered(a)
  PROVE  CalmInv'
<1>1. PICK m \in Models : m = act[a].model
  BY ActivationFacts DEF CancelAnswered, At, Modelless
<1>2. act[a].pc = "cancel" /\ a \in Calls /\ a \notin Finalizers /\ ~Starts
  BY CallFacts DEF CancelAnswered, At, Starting, Finishing
<1>3. /\ TaskCancelled(m) /\ Goes(a, "cancelRecord")
      /\ UNCHANGED <<ctl, file>>
  BY <1>1 DEF CancelAnswered, TaskCancelled
<1>4. /\ ctl.model \in {None, m}
      /\ \A k \in DOMAIN events : events[k].model = m
      /\ \A b \in Activations : act[b].pc \in Finishing => act[b].model = m
  BY <1>1, <1>2 DEF CalmInv, CalmOK, CallsOK, CallOK
<1>5. Alone(a) /\ act'[a].pc = "cancelRecord" /\ act'[a].model = m
  BY <1>1, <1>3, GoesAlone
<1>6. After(a)
  BY <1>2, <1>3, <1>5 DEF After, Starting
<1>7. SameFinish(a)
  BY <1>2, <1>5 DEF SameFinish, Finishing
<1>8. \A b \in Activations :
        /\ act[b].pc \in Finishing <=> act'[b].pc \in Finishing
        /\ act[b].pc \in Finishing => act'[b].model = act[b].model
  BY <1>5, <1>7, FinishingKept
<1>9. CASE ~Live(m) /\ UNCHANGED <<task, events>>
  <2>1. SameShown /\ NoNewFile
    BY <1>3, <1>9 DEF SameShown, SameScreen, NoNewFile
  <2>2. CallOK(a)'
    BY <1>3, <1>4, <1>5, <1>8, <1>9 DEF CallOK, Begun, Asking, Live
  <2>3. CalmOK'
    BY <1>5, <1>7, <2>1, <2>2, SameCalm DEF CalmInv
  <2> QED
    BY <1>6, <2>3, EarlyOver DEF CalmInv
<1>10. CASE Live(m) /\ Moves(m, "canceled")
  <2>1. \A b \in Activations : act[b].pc \notin Finishing /\ act'[b].pc \notin Finishing
    BY <1>4, <1>8, <1>10 DEF CalmInv, CalmOK, FinishOK, Live
  <2>2. OnlyTask(m)
    <3>1. \A n \in Models : task[n] \in Running => n = m
      BY <1>4, DistinctAssumption DEF CalmInv, CalmOK, RunningOK
    <3>2. m \notin ctl.downloaded
      BY <1>10 DEF CalmInv, CalmOK, ListedOK, Live
    <3>3. ASSUME NEW k \in DOMAIN events, events[k].status \in Ended PROVE FALSE
      <4>1. Last(k, events)
        BY <3>3 DEF CalmInv, CalmOK, QueueOK
      <4> QED
        BY <1>4, <1>10, <3>3, <4>1 DEF PaceInv, UpdatesOK, TaskAfter, Live
    <3> QED
      BY <1>4, <3>1, <3>2, <3>3 DEF OnlyTask
  <2>3. "canceled" \in Status /\ "canceled" \notin Running /\ EngineTypeOK
    BY DEF Status, Ended, Running, IInv
  <2>4. (RunningOK /\ QueueOK /\ PausedOK /\ ListedOK /\ FilesOK /\ FinishOK)'
    BY <1>3, <1>10, <2>1, <2>2, <2>3, MoveCalm DEF CalmInv
  <2>5. CallOK(a)'
    <3>1. /\ task' = [task EXCEPT ![m] = TaskAfter("canceled")]
          /\ task \in [Models -> TaskStates]
          /\ \A k \in DOMAIN events : k \in DOMAIN events' /\ events'[k] = events[k]
          /\ \A k \in DOMAIN events' :
               \/ k \in DOMAIN events
               \/ /\ events'[k].model = m /\ events'[k].status = "canceled"
                  /\ \A j \in DOMAIN events' : ~(j > k)
      BY <1>10, <2>3, QueueFacts
    <3>2. task'[m] = "none"
      BY <3>1 DEF TaskAfter, Ended
    <3>3. \A k \in DOMAIN events' : events'[k].model = m
      BY <1>4, <3>1
    <3> QED
      BY <1>3, <1>4, <1>5, <2>1, <3>2, <3>3 DEF CallOK, Begun, Asking
  <2>6. CallsOK'
    BY <1>2, <2>5 DEF CallsOK, OneCall
  <2> QED
    BY <1>6, <2>4, <2>6, EarlyOver DEF CalmInv, CalmOK
<1> QED
  BY <1>3, <1>9, <1>10 DEF TaskCancelled

LEMMA EraseCalm ==
  ASSUME IInv, PaceInv, OneCall, CalmInv, NEW a \in Activations, Erase(a)
  PROVE  CalmInv'
<1>1. PICK m \in Models : m = act[a].model
  BY ActivationFacts DEF Erase, At, Modelless
<1>2. act[a].pc = "erase" /\ a \in Calls /\ a \notin Finalizers /\ ~Starts
  BY CallFacts DEF Erase, At, Starting, Finishing
<1>3. /\ file' = [file EXCEPT ![m] = "absent"]
      /\ UNCHANGED <<task, record, events>>
      /\ CancelDownload /\ Goes(a, "readiness")
  BY <1>1 DEF Erase, DeleteFile
<1>4. ctl.model \in {None, m} /\ task[m] = "none"
  BY <1>1, <1>2 DEF CalmInv, CalmOK, CallsOK, CallOK
<1>5. /\ ctl'.phase = "idle" /\ ctl'.model = None /\ ctl'.initialized = ctl.initialized
      /\ ctl'.downloaded = ctl.downloaded /\ ctl'.lastCompleted = ctl.lastCompleted
  BY <1>3, CancelledFields
  DEF IInv, ControllerOK, Controller, CancelDownload, Reset, Detached, Attached
<1>6. Alone(a) /\ act'[a].pc = "readiness"
  BY <1>3, GoesAlone
<1>7. SameFinish(a)
  BY <1>2, <1>6 DEF SameFinish, Finishing
<1>8. \A b \in Activations :
        /\ act[b].pc \in Finishing <=> act'[b].pc \in Finishing
        /\ act[b].pc \in Finishing => act'[b].model = act[b].model
  BY <1>6, <1>7, FinishingKept
<1>9. \A n \in Models : task[n] \notin Running
  BY <1>4, DistinctAssumption DEF CalmInv, CalmOK, RunningOK, Running
<1>10. RunningOK' /\ QueueOK' /\ PausedOK'
  BY <1>3, <1>5, <1>9 DEF CalmInv, CalmOK, RunningOK, QueueOK, PausedOK, Last
<1>11. ListedOK'
  <2>1. None \notin ctl.downloaded
    BY DistinctAssumption DEF IInv, ControllerOK, Controller
  <2> QED
    BY <1>3, <1>5, <2>1 DEF CalmInv, CalmOK, ListedOK, Pending
<1>12. FilesOK'
  <2> SUFFICES ASSUME NEW n \in Models, file'[n] = "good"
               PROVE  \/ n \in ctl'.downloaded
                      \/ \E k \in DOMAIN events' :
                           events'[k].model = n /\ events'[k].status = "complete"
                      \/ \E b \in Activations : act'[b].model = n /\ act'[b].pc \in Finishing
    BY DEF FilesOK
  <2>1. file[n] = "good"
    BY <1>3 DEF IInv, EngineTypeOK
  <2>2. CASE \E b \in Activations : act[b].model = n /\ act[b].pc \in Finishing
    BY <1>8, <2>2
  <2> QED
    BY <1>3, <1>5, <2>1, <2>2 DEF CalmInv, CalmOK, FilesOK
<1>13. FinishOK'
  BY <1>3, <1>5, <1>8 DEF CalmInv, CalmOK, FinishOK
<1>14. CallsOK'
  BY <1>2, <1>6, FreeCallOK DEF CallsOK, OneCall, Free
<1>15. After(a)
  BY <1>2, <1>5, <1>6 DEF After, Starting
<1> QED
  BY <1>10, <1>11, <1>12, <1>13, <1>14, <1>15, EarlyOver DEF CalmInv, CalmOK

(* The records are only read while the controller starts.                  *)
LEMMA DropsRecordCalm ==
  ASSUME IInv, PaceInv, OneCall, CalmInv, NEW a \in Activations,
         CancelsRecord(a) \/ DeletesRecord(a)
  PROVE  CalmInv'
<1>1. /\ UNCHANGED <<task, events, file, ctl>>
      /\ \/ act[a].pc = "cancelRecord" /\ Goes(a, "erase")
         \/ act[a].pc = "deleteCancelRecord" /\ Goes(a, "delete")
         \/ act[a].pc = "delete" /\ Goes(a, "deleteFile")
  BY DEF CancelsRecord, DeletesRecord, At
<1>2. a \in Calls /\ a \notin Finalizers /\ ~Starts
  BY <1>1, CallFacts DEF Starting, Finishing
<1>3. /\ Alone(a) /\ act'[a].model = act[a].model
      /\ \/ act[a].pc = "cancelRecord" /\ act'[a].pc = "erase"
         \/ act'[a].pc \in {"delete", "deleteFile"}
  BY <1>1, GoesAlone
<1>4. SameShown /\ NoNewFile /\ SameFinish(a)
  BY <1>1, <1>3 DEF SameShown, SameScreen, NoNewFile, SameFinish, Finishing
<1>5. CallOK(a)'
  <2>1. CASE act'[a].pc \in {"delete", "deleteFile"}
    BY <2>1, FreeCallOK DEF Free
  <2>2. CASE act[a].pc = "cancelRecord" /\ act'[a].pc = "erase"
    <3>1. CallOK(a)
      BY <1>2 DEF CalmInv, CalmOK, CallsOK
    <3>2. \A b \in Activations :
            /\ act[b].pc \in Finishing <=> act'[b].pc \in Finishing
            /\ act[b].pc \in Finishing => act'[b].model = act[b].model
      BY <1>3, <1>4, FinishingKept
    <3> QED
      BY <1>1, <1>3, <2>2, <3>1, <3>2 DEF CallOK, Begun, Asking
  <2> QED
    BY <1>3, <2>1, <2>2
<1>6. CalmOK'
  BY <1>3, <1>4, <1>5, SameCalm DEF CalmInv
<1>7. After(a)
  BY <1>1, <1>2, <1>3 DEF After, Starting
<1> QED
  BY <1>6, <1>7, EarlyOver DEF CalmInv

LEMMA DeleteCancelledCalm ==
  ASSUME IInv, PaceInv, OneCall, CalmInv, NEW a \in Activations, DeleteCancelled(a)
  PROVE  CalmInv'
<1>1. act[a].pc = "deleteCancel" /\ a \in Calls /\ a \notin Finalizers /\ ~Starts
  BY CallFacts DEF DeleteCancelled, At, Starting, Finishing
<1>2. ~Live(act[a].model)
  BY <1>1 DEF CalmInv, CalmOK, CallsOK, CallOK, ListedOK, Live
<1>3. UNCHANGED <<task, events, file, ctl>> /\ Goes(a, "deleteCancelRecord")
  BY <1>2 DEF DeleteCancelled, TaskCancelled
<1>4. Alone(a) /\ act'[a].pc = "deleteCancelRecord"
  BY <1>3, GoesAlone
<1>5. SameShown /\ NoNewFile /\ SameFinish(a)
  BY <1>1, <1>3, <1>4 DEF SameShown, SameScreen, NoNewFile, SameFinish, Finishing
<1>6. CallOK(a)'
  BY <1>4, FreeCallOK DEF Free
<1>7. CalmOK'
  BY <1>4, <1>5, <1>6, SameCalm DEF CalmInv
<1>8. After(a)
  BY <1>1, <1>3, <1>4 DEF After, Starting
<1> QED
  BY <1>7, <1>8, EarlyOver DEF CalmInv

LEMMA DeletedCalm ==
  ASSUME IInv, PaceInv, OneCall, CalmInv, NEW a \in Activations, Deleted(a)
  PROVE  CalmInv'
<1>1. PICK m \in Models : m = act[a].model
  BY ActivationFacts DEF Deleted, At, Modelless
<1>2. act[a].pc = "deleteFile" /\ a \in Calls /\ a \notin Finalizers /\ ~Starts
  BY CallFacts DEF Deleted, At, Starting, Finishing
<1>3. /\ file' = [file EXCEPT ![m] = "absent"]
      /\ UNCHANGED <<task, events>> /\ Goes(a, "readiness")
  BY <1>1 DEF Deleted, DeleteFile
<1>4. /\ SameScreen /\ ctl'.initialized = ctl.initialized
      /\ ctl'.downloaded = ctl.downloaded \ {m}
      /\ ctl'.lastCompleted = IF ctl.lastCompleted = m THEN None ELSE ctl.lastCompleted
  BY <1>1 DEF Deleted, IInv, ControllerOK, Controller, SameScreen
<1>5. Alone(a) /\ act'[a].pc = "readiness"
  BY <1>3, GoesAlone
<1>6. SameFinish(a)
  BY <1>2, <1>5 DEF SameFinish, Finishing
<1>7. \A b \in Activations :
        /\ act[b].pc \in Finishing <=> act'[b].pc \in Finishing
        /\ act[b].pc \in Finishing => act'[b].model = act[b].model
  BY <1>5, <1>6, FinishingKept
<1>8. RunningOK' /\ QueueOK' /\ PausedOK'
  BY <1>3, <1>4
  DEF CalmInv, CalmOK, RunningOK, QueueOK, PausedOK, SameScreen, Pending, Last
<1>9. ListedOK'
  BY <1>3, <1>4 DEF CalmInv, CalmOK, ListedOK, SameScreen, Pending
<1>10. FilesOK'
  <2> SUFFICES ASSUME NEW n \in Models, file'[n] = "good"
               PROVE  \/ n \in ctl'.downloaded
                      \/ \E k \in DOMAIN events' :
                           events'[k].model = n /\ events'[k].status = "complete"
                      \/ \E b \in Activations : act'[b].model = n /\ act'[b].pc \in Finishing
    BY DEF FilesOK
  <2>1. n # m /\ file[n] = "good"
    BY <1>3 DEF IInv, EngineTypeOK
  <2>2. CASE \E b \in Activations : act[b].model = n /\ act[b].pc \in Finishing
    BY <1>7, <2>2
  <2> QED
    BY <1>3, <1>4, <2>1, <2>2 DEF CalmInv, CalmOK, FilesOK
<1>11. FinishOK'
  BY <1>3, <1>4, <1>7 DEF CalmInv, CalmOK, FinishOK, SameScreen
<1>12. CallsOK'
  BY <1>2, <1>5, FreeCallOK DEF CallsOK, OneCall, Free
<1>13. After(a)
  BY <1>2, <1>4, <1>5 DEF After, Starting
<1> QED
  BY <1>8, <1>9, <1>10, <1>11, <1>12, <1>13, EarlyOver DEF CalmInv, CalmOK

LEMMA ClearCalm ==
  ASSUME IInv, PaceInv, CalmInv, ClearLastError
  PROVE  CalmInv'
<1>1. /\ UNCHANGED <<task, record, events, file, act>>
      /\ ctl \in Controller /\ ~IsBusy
  BY DEF ClearLastError, engineVars, IInv, ControllerOK
<1>2. /\ ctl'.phase \in {ctl.phase, "idle"}
      /\ ctl'.phase \notin {"downloading", "finalizing", "paused"}
      /\ ctl.phase # "downloading"
      /\ ctl'.model = ctl.model
      /\ ctl'.initialized = ctl.initialized /\ ctl'.registered = ctl.registered
      /\ ctl'.downloaded = ctl.downloaded /\ ctl'.lastCompleted = ctl.lastCompleted
  BY <1>1 DEF ClearLastError, IsBusy, Controller
<1>3. (RunningOK /\ QueueOK /\ PausedOK /\ ListedOK)'
  BY <1>1, <1>2
  DEF CalmInv, CalmOK, RunningOK, QueueOK, PausedOK, ListedOK, Pending, Last
<1>4. FilesOK' /\ FinishOK'
  BY <1>1, <1>2 DEF CalmInv, CalmOK, FilesOK, FinishOK
<1>5. CallsOK'
  <2> SUFFICES ASSUME NEW a \in Calls PROVE CallOK(a)'
    BY DEF CallsOK
  <2>1. CallOK(a)
    BY DEF CalmInv, CalmOK, CallsOK
  <2> QED
    BY <1>1, <1>2, <2>1 DEF CallOK, AtRest
<1>6. EarlyOK'
  BY <1>1, <1>2 DEF CalmInv, EarlyOK, Starts
<1> QED
  BY <1>3, <1>4, <1>5, <1>6 DEF CalmInv, CalmOK

LEMMA EngineCalm ==
  ASSUME IInv, PaceInv, CalmInv, NEW m \in Models, EngineStep(m)
  PROVE  CalmInv'
<1>1. PICK s \in Status :
        /\ <<task[m], s>> \in Progress /\ Moves(m, s)
        /\ s # "complete" => UNCHANGED file
        /\ UNCHANGED file \/ \E f \in Files : file' = [file EXCEPT ![m] = f]
  BY DEF EngineStep, NativeStep
<1>2. task[m] \in Running /\ s # "paused"
  BY <1>1 DEF Progress, Running
<1>3. /\ OnlyTask(m)
      /\ ctl.model = m /\ ctl.phase = "downloading"
      /\ \A k \in DOMAIN events : events[k].status \in Running
      /\ \A b \in Activations : act[b].pc \notin Finishing
      /\ ~AtRest
  BY <1>2, RunningFacts
<1>4. UNCHANGED <<ctl, act>> /\ EngineTypeOK
  BY DEF EngineStep, appVars, IInv
<1>5. \A n \in Models : n # m \/ s # "complete" => file'[n] = file[n]
  BY <1>1, <1>4 DEF EngineTypeOK
<1>6. (RunningOK /\ QueueOK /\ PausedOK /\ ListedOK /\ FilesOK /\ FinishOK)'
  BY <1>1, <1>3, <1>4, <1>5, MoveCalm DEF CalmInv
<1>7. CallsOK'
  <2> SUFFICES ASSUME NEW a \in Calls PROVE CallOK(a)'
    BY DEF CallsOK
  <2>1. CallOK(a)
    BY DEF CalmInv, CalmOK, CallsOK
  <2>2. act[a].pc \notin Begun \cup {"paused"}
    BY <1>2, <1>3, <2>1 DEF CallOK, Running
  <2>3. act[a].pc \in {"cancel", "cancelRecord", "erase"} => act[a].model = m
    BY <1>3, <2>1, DistinctAssumption DEF CallOK
  <2>4. act[a].pc \notin {"cancelRecord", "erase"}
    BY <1>2, <2>1, <2>3 DEF CallOK, Running
  <2>5. \A k \in DOMAIN events' : events'[k].model = m
    <3>1. /\ \A k \in DOMAIN events : k \in DOMAIN events' /\ events'[k] = events[k]
          /\ \A k \in DOMAIN events' :
               \/ k \in DOMAIN events
               \/ /\ events'[k].model = m /\ events'[k].status = s
                  /\ \A j \in DOMAIN events' : ~(j > k)
      BY <1>1, <1>4, QueueFacts
    <3> QED
      BY <1>3, <3>1 DEF OnlyTask
  <2> QED
    BY <1>3, <1>4, <2>1, <2>2, <2>3, <2>4, <2>5 DEF CallOK, Begun, Asking
<1>8. EarlyOK'
  <2>1. ~Starts
    BY <1>2 DEF PaceInv, StartOK, Untouched, Running
  <2> QED
    BY <1>4, <2>1 DEF EarlyOK, Starts
<1> QED
  BY <1>6, <1>7, <1>8 DEF CalmInv, CalmOK

(* A completion: the one there is, with nothing else going on.             *)
LEMMA FinishFacts ==
  ASSUME IInv, PaceInv, OneCall, CalmInv, NEW a \in Activations, act[a].pc \in Finishing
  PROVE  /\ ~Starts
         /\ events = <<>>
         /\ \A n \in Models : task[n] \notin Running
         /\ act[a].model \in Models
         /\ task[act[a].model] = "none"
         /\ act[a].model \notin ctl.downloaded
         /\ ctl.model \in {None, act[a].model}
         /\ \A b \in Activations : act[b].pc \in Finishing => b = a
         /\ \A b \in Calls : act[b].pc \notin Begun \cup {"paused"}
<1>1. ~Starts
  BY NotStarting DEF PaceInv, Finishing, Starting
<1>2. act[a].model \in Models
  BY ActivationFacts DEF Finishing, Modelless
<1>3. /\ events = <<>>
      /\ \A n \in Models : task[n] \notin Running
      /\ task[act[a].model] = "none"
      /\ act[a].model \notin ctl.downloaded
      /\ ctl.model \in {None, act[a].model}
      /\ \A b \in Activations : act[b].pc \in Finishing => b = a
  BY DEF CalmInv, CalmOK, FinishOK
<1>4. ASSUME NEW b \in Calls, act[b].pc \in Begun \cup {"paused"} PROVE FALSE
  <2>1. CallOK(b)
    BY DEF CalmInv, CalmOK, CallsOK
  <2>2. act[b].pc = "paused"
    BY <1>4, <2>1 DEF CallOK, AtRest
  <2>3. act[b].model \in Models
    BY <2>2, ActivationFacts DEF Activations, Modelless
  <2> QED
    BY <1>3, <2>1, <2>2, <2>3, DistinctAssumption DEF CallOK
<1> QED
  BY <1>1, <1>2, <1>3, <1>4

LEMMA ValidatedCalm ==
  ASSUME IInv, PaceInv, OneCall, CalmInv, Throwing = {},
         NEW a \in Activations, Validated(a)
  PROVE  CalmInv'
<1>1. act[a].pc = "validate"
  BY DEF Validated, At
<1>2. /\ ~Starts
      /\ events = <<>>
      /\ \A n \in Models : task[n] \notin Running
      /\ act[a].model \in Models
      /\ task[act[a].model] = "none"
      /\ act[a].model \notin ctl.downloaded
      /\ ctl.model \in {None, act[a].model}
      /\ \A b \in Activations : act[b].pc \in Finishing => b = a
      /\ \A b \in Calls : act[b].pc \notin Begun \cup {"paused"}
  BY <1>1, FinishFacts DEF Finishing
<1>3. PICK m \in Models : m = act[a].model
  BY <1>2
<1>4. UNCHANGED <<task, events, file>> /\ ctl \in Controller
  BY DEF Validated, engineVars, IInv, ControllerOK
<1>5. CASE Goes(a, "path") /\ UNCHANGED <<ctl, future>>
  <2>1. Alone(a) /\ act'[a].pc = "path" /\ act'[a].model = act[a].model
    BY <1>5, GoesAlone
  <2>2. SameShown /\ NoNewFile /\ SameFinish(a)
    BY <1>1, <1>4, <1>5, <2>1
    DEF SameShown, SameScreen, NoNewFile, SameFinish, Finishing
  <2>3. CallOK(a)'
    BY <2>1 DEF CallOK, Begun, Asking
  <2>4. CalmOK'
    BY <2>1, <2>2, <2>3, SameCalm DEF CalmInv
  <2>5. After(a)
    BY <1>2, <1>5, <2>1 DEF After, Starting, Finishing
  <2> QED
    BY <2>4, <2>5, EarlyOver DEF CalmInv
<1>6. CASE file[m] # "good" /\ FailDownload(m) /\ Returns(a)
  <2>1. Alone(a) /\ act'[a].pc \in {"readiness", "done"}
    BY <1>6, GoesAlone, FinishesAlone DEF Returns
  <2>2. /\ ctl'.phase = "failed" /\ ctl'.model = m /\ ctl'.initialized = ctl.initialized
        /\ ctl'.downloaded = ctl.downloaded /\ ctl'.lastCompleted = ctl.lastCompleted
    BY <1>4, <1>6 DEF FailDownload, Failed, InPhase, Detached, Attached, Controller
  <2>3. \A b \in Activations : act'[b].pc \notin Finishing
    BY <1>2, <2>1 DEF Alone, Finishing
  <2>4. (RunningOK /\ QueueOK /\ PausedOK /\ FinishOK)'
    BY <1>2, <1>4, <2>2, <2>3 DEF RunningOK, QueueOK, PausedOK, FinishOK
  <2>5. ListedOK'
    BY <1>2, <1>3, <1>4, <2>2 DEF CalmInv, CalmOK, ListedOK, Pending
  <2>6. FilesOK'
    BY <1>2, <1>3, <1>4, <1>6, <2>2 DEF CalmInv, CalmOK, FilesOK
  <2>7. CallsOK'
    <3> SUFFICES ASSUME NEW b \in Calls PROVE CallOK(b)'
      BY DEF CallsOK
    <3>1. CASE b = a
      BY <2>1, <3>1, FreeCallOK DEF Free
    <3>2. CASE b # a
      <4>1. act'[b] = act[b] /\ CallOK(b)
        BY <2>1, <3>2 DEF Alone, Activations, CalmInv, CalmOK, CallsOK
      <4>2. act[b].pc \in {"cancel", "cancelRecord", "erase"} => act[b].model = m
        BY <1>1, <1>3, <4>1 DEF CallOK, Finishing
      <4> QED
        BY <1>2, <1>4, <2>2, <2>3, <4>1, <4>2 DEF CallOK, Begun, Asking
    <3> QED
      BY <3>1, <3>2
  <2>8. After(a)
    BY <1>2, <2>1, <2>2 DEF After, Starting
  <2> QED
    BY <2>4, <2>5, <2>6, <2>7, <2>8, EarlyOver DEF CalmInv, CalmOK
<1> QED
  BY <1>3, <1>5, <1>6 DEF Validated

LEMMA CompletedCalm ==
  ASSUME IInv, PaceInv, OneCall, CalmInv, NEW a \in Activations, Completed(a)
  PROVE  CalmInv'
<1>1. act[a].pc = "path"
  BY DEF Completed, At
<1>2. /\ ~Starts
      /\ events = <<>>
      /\ \A n \in Models : task[n] \notin Running
      /\ act[a].model \in Models
      /\ task[act[a].model] = "none"
      /\ act[a].model \notin ctl.downloaded
      /\ ctl.model \in {None, act[a].model}
      /\ \A b \in Activations : act[b].pc \in Finishing => b = a
      /\ \A b \in Calls : act[b].pc \notin Begun \cup {"paused"}
  BY <1>1, FinishFacts DEF Finishing
<1>3. PICK m \in Models : m = act[a].model
  BY <1>2
<1>4. UNCHANGED <<task, events, file>> /\ ctl \in Controller
  BY DEF Completed, engineVars, IInv, ControllerOK
<1>5. /\ ctl'.phase = "completed" /\ ctl'.model = None
      /\ ctl'.initialized = ctl.initialized
      /\ ctl'.downloaded = ctl.downloaded \cup {m} /\ ctl'.lastCompleted = m
  BY <1>3, <1>4 DEF Completed, Detached, Attached, Controller
<1>6. Alone(a) /\ act'[a].pc = "refresh"
  BY GoesAlone DEF Completed
<1>7. \A b \in Activations : act'[b].pc \notin Finishing
  BY <1>2, <1>6 DEF Alone, Finishing
<1>8. (RunningOK /\ QueueOK /\ PausedOK /\ FinishOK)'
  BY <1>2, <1>4, <1>5, <1>7 DEF RunningOK, QueueOK, PausedOK, FinishOK
<1>9. ListedOK'
  <2>1. None \notin ctl'.downloaded
    BY <1>3, <1>4, <1>5, DistinctAssumption DEF Controller
  <2> QED
    BY <1>2, <1>3, <1>4, <1>5, <2>1 DEF CalmInv, CalmOK, ListedOK, Pending
<1>10. FilesOK'
  BY <1>2, <1>3, <1>4, <1>5 DEF CalmInv, CalmOK, FilesOK
<1>11. CallsOK'
  <2> SUFFICES ASSUME NEW b \in Calls PROVE CallOK(b)'
    BY DEF CallsOK
  <2>1. CASE b = a
    BY <1>6, <2>1, FreeCallOK DEF Free
  <2>2. CASE b # a
    <3>1. act'[b] = act[b] /\ CallOK(b)
      BY <1>6, <2>2 DEF Alone, Activations, CalmInv, CalmOK, CallsOK
    <3> QED
      BY <1>2, <1>4, <1>5, <1>7, <3>1 DEF CallOK, Begun, Asking
  <2> QED
    BY <2>1, <2>2
<1>12. After(a)
  BY <1>2, <1>5, <1>6 DEF After, Starting
<1> QED
  BY <1>8, <1>9, <1>10, <1>11, <1>12, EarlyOver DEF CalmInv, CalmOK

LEMMA CompletionRefreshedCalm ==
  ASSUME IInv, PaceInv, OneCall, CalmInv, NEW a \in Activations, CompletionRefreshed(a)
  PROVE  CalmInv'
<1>1. /\ UNCHANGED <<task, record, events, ctl, future>>
      /\ act[a].pc = "refresh" /\ Returns(a) /\ DropJunk(Models)
  BY DEF CompletionRefreshed, At
<1>2. Alone(a) /\ act'[a].pc \in {"readiness", "done"}
  BY <1>1, GoesAlone, FinishesAlone DEF Returns
<1>3. SameShown /\ NoNewFile /\ SameFinish(a)
  BY <1>1, <1>2, DropJunkMakesNone DEF SameShown, SameScreen, SameFinish, Finishing
<1>4. CallOK(a)'
  BY <1>2, FreeCallOK DEF Free
<1>5. CalmOK'
  BY <1>2, <1>3, <1>4, SameCalm DEF CalmInv
<1>6. ~Starts
  BY <1>1, NotStarting DEF PaceInv, Starting
<1>7. After(a)
  BY <1>1, <1>2, <1>6 DEF After, Starting
<1> QED
  BY <1>5, <1>7, EarlyOver DEF CalmInv

(* The update at the head of the queue is of the model that is shown, or   *)
(* of the one that was when none is, and the last one if its task ended.   *)
LEMMA HeadFacts ==
  ASSUME IInv, PaceInv, CalmInv, Deliver
  PROVE  \E m \in Models, s \in Status :
           /\ Handle(m, s)
           /\ 1 \in DOMAIN events /\ events[1].model = m /\ events[1].status = s
           /\ ctl.model \in {None, m} /\ m \notin ctl.downloaded
           /\ \A k \in DOMAIN events : events[k].model = m
           /\ \A k \in DOMAIN events' :
                k + 1 \in DOMAIN events /\ events'[k] = events[k + 1]
           /\ \A k \in DOMAIN events : k # 1 =>
                \E j \in DOMAIN events' : events'[j] = events[k]
           /\ s \in Ended => events' = <<>>
           /\ Pending(m)' \/ task[m] = TaskAfter(s)
<1>1. /\ events # <<>> /\ events' = Tail(events) /\ UNCHANGED task
      /\ EngineTypeOK /\ UpdatesOK /\ QueueOK /\ ListedOK
  BY DEF Deliver, IInv, PaceInv, CalmInv, CalmOK
<1>2. PICK m \in Models, s \in Status :
        /\ m = Head(events).model /\ s = Head(events).status
        /\ IF ctl.model \in {None, m} THEN Handle(m, s) ELSE UNCHANGED <<ctl, future, act>>
  <2>1. Head(events) \in [model: Models, status: Status]
    BY <1>1, HeadTailProperties DEF EngineTypeOK
  <2> QED
    BY <2>1 DEF Deliver
<1>3. /\ Len(events) \in Nat /\ Len(events) >= 1
      /\ DOMAIN events = 1..Len(events)
      /\ DOMAIN events' = 1..(Len(events) - 1)
      /\ \A k \in 1..(Len(events) - 1) : events'[k] = events[k + 1]
      /\ Head(events) = events[1]
      /\ events' \in Seq([model: Models, status: Status])
  <2>1. events' \in Seq([model: Models, status: Status])
    BY <1>1, HeadTailProperties DEF EngineTypeOK
  <2> QED
    BY <1>1, <2>1, TailFacts DEF EngineTypeOK
<1>4. 1 \in DOMAIN events /\ events[1].model = m /\ events[1].status = s
  BY <1>2, <1>3
<1>5. ctl.model \in {None, m} /\ \A k \in DOMAIN events : events[k].model = m
  BY <1>1, <1>4 DEF QueueOK
<1>6. m \notin ctl.downloaded
  BY <1>1, <1>4 DEF ListedOK, Pending
<1>7. \A k \in DOMAIN events' : k + 1 \in DOMAIN events /\ events'[k] = events[k + 1]
  BY <1>3
<1>8. ASSUME NEW k \in DOMAIN events, k # 1
      PROVE  k - 1 \in DOMAIN events' /\ events'[k - 1] = events[k]
  BY <1>3, <1>8
<1>9. ASSUME s \in Ended PROVE events' = <<>>
  <2>1. Last(1, events)
    BY <1>1, <1>4, <1>9 DEF QueueOK
  <2>2. \A k \in DOMAIN events : ~(k > 1)
    BY <1>4, <1>5, <2>1 DEF Last
  <2>3. Len(events) = 1
    BY <1>3, <2>2
  <2>4. DOMAIN events' = {}
    BY <1>3, <2>3
  <2> QED
    BY <1>3, <2>4, EmptySeq
<1>10. Pending(m)' \/ task[m] = TaskAfter(s)
  BY <1>1, <1>2, DeliverFollows
<1> QED
  BY <1>2, <1>4, <1>5, <1>6, <1>7, <1>8, <1>9, <1>10

(* What the handler of an update leaves of the fields.                     *)
LEMMA HandledFields ==
  ASSUME IInv, NEW m \in Models, NEW s \in Status, Handle(m, s), ~AlreadyCompleted(m)
  PROVE  /\ ctl'.downloaded = ctl.downloaded /\ ctl'.lastCompleted = ctl.lastCompleted
         /\ ctl'.initialized = ctl.initialized
         /\ s \in Running => ctl'.phase = "downloading" /\ ctl'.model = m /\ UNCHANGED act
         /\ s = "paused" => ctl'.phase = "paused" /\ ctl'.model = m /\ UNCHANGED act
         /\ s = "complete" =>
              /\ ctl'.phase = "finalizing" /\ ctl'.model = m
              /\ \E a \in Finalizers : At(a, "done") /\ Called(a, "validate", m)
         /\ s \in {"failed", "notFound"} =>
              ctl'.phase = "failed" /\ ctl'.model = m /\ UNCHANGED act
         /\ s = "canceled" => ctl'.phase = "idle" /\ ctl'.model = None /\ UNCHANGED act
<1>1. ctl \in Controller
  BY DEF IInv, ControllerOK
<1>2. CASE s \in Running \cup {"paused"}
  BY <1>1, <1>2 DEF Handle, InPhase, Controller, Running
<1>3. CASE s = "complete"
  BY <1>1, <1>3 DEF Handle, InPhase, Controller, Running
<1>4. CASE s \in {"failed", "notFound"}
  BY <1>1, <1>4
  DEF Handle, FailDownload, Failed, InPhase, Detached, Attached, Controller, Running
<1>5. CASE s = "canceled"
  BY <1>1, <1>5 DEF Handle, CancelDownload, Reset, Detached, Attached, Controller, Running
<1> QED
  BY <1>2, <1>3, <1>4, <1>5 DEF Status, Ended, Running

LEMMA DeliverCalm ==
  ASSUME IInv, PaceInv, CalmInv, Deliver
  PROVE  CalmInv'
<1>1. PICK m \in Models, s \in Status :
        /\ Handle(m, s)
        /\ 1 \in DOMAIN events /\ events[1].model = m /\ events[1].status = s
        /\ ctl.model \in {None, m} /\ m \notin ctl.downloaded
        /\ \A k \in DOMAIN events : events[k].model = m
        /\ \A k \in DOMAIN events' :
             k + 1 \in DOMAIN events /\ events'[k] = events[k + 1]
        /\ \A k \in DOMAIN events : k # 1 =>
             \E j \in DOMAIN events' : events'[j] = events[k]
        /\ s \in Ended => events' = <<>>
        /\ Pending(m)' \/ task[m] = TaskAfter(s)
  BY HeadFacts
<1>2. /\ events # <<>> /\ UNCHANGED <<task, file>>
      /\ ctl \in Controller /\ act \in [Activations -> Activation]
  BY DEF Deliver, IInv, ControllerOK, ActivationsOK
<1>3. /\ ~Starts
      /\ \A b \in Activations : act[b].pc \notin Finishing
      /\ \A b \in Calls : act[b].pc \notin Begun
  <2>1. ~Starts
    BY <1>2 DEF PaceInv, StartOK, Untouched
  <2>2. \A b \in Activations : act[b].pc \notin Finishing
    BY <1>2 DEF CalmInv, CalmOK, FinishOK
  <2>3. \A b \in Calls : act[b].pc \notin Begun
    BY <1>2 DEF CalmInv, CalmOK, CallsOK, CallOK, AtRest
  <2> QED
    BY <2>1, <2>2, <2>3
<1>4. ~AlreadyCompleted(m)
  BY <1>1, DistinctAssumption DEF CalmInv, CalmOK, ListedOK, AlreadyCompleted
<1>5. /\ ctl'.downloaded = ctl.downloaded /\ ctl'.lastCompleted = ctl.lastCompleted
      /\ ctl'.initialized = ctl.initialized
      /\ s \in Running => ctl'.phase = "downloading" /\ ctl'.model = m /\ UNCHANGED act
      /\ s = "paused" => ctl'.phase = "paused" /\ ctl'.model = m /\ UNCHANGED act
      /\ s = "complete" =>
           /\ ctl'.phase = "finalizing" /\ ctl'.model = m
           /\ \E a \in Finalizers : At(a, "done") /\ Called(a, "validate", m)
      /\ s \in {"failed", "notFound"} =>
           ctl'.phase = "failed" /\ ctl'.model = m /\ UNCHANGED act
      /\ s = "canceled" => ctl'.phase = "idle" /\ ctl'.model = None /\ UNCHANGED act
  BY <1>1, <1>4, HandledFields
<1>6. ctl'.model \in {None, m} /\ \A k \in DOMAIN events' : events'[k].model = m
  BY <1>1, <1>5 DEF Status, Ended
<1>7. s \notin Running => \A n \in Models : task[n] \notin Running
  BY <1>1 DEF CalmInv, CalmOK, RunningOK
<1>8. ctl'.model = m \/ s \in Ended
  BY <1>5 DEF Status, Ended
<1>9. \A b \in Calls : act'[b] = act[b] /\ CallOK(b)
  <2>1. CallsOK
    BY DEF CalmInv, CalmOK
  <2>2. ASSUME NEW a \in Finalizers, Called(a, "validate", m)
        PROVE  \A b \in Calls : act'[b] = act[b]
    BY <2>2, CalledAlone, DistinctAssumption DEF Alone, Activations
  <2> QED
    BY <1>5, <2>1, <2>2 DEF CallsOK, Status, Ended
<1>10. RunningOK'
  <2> SUFFICES ASSUME NEW n \in Models, task[n] \in Running
               PROVE  /\ ctl'.model = n /\ ctl'.phase = "downloading"
                      /\ \A k \in DOMAIN events' :
                           events'[k].model = n /\ events'[k].status \in Running
    BY <1>2 DEF RunningOK
  <2>1. /\ s \in Running /\ n = m
        /\ \A k \in DOMAIN events : events[k].status \in Running
    BY <1>1 DEF CalmInv, CalmOK, RunningOK
  <2> QED
    BY <1>1, <1>5, <1>6, <2>1
<1>11. QueueOK'
  <2> SUFFICES ASSUME NEW k \in DOMAIN events'
               PROVE  /\ ctl'.model \in {None, events'[k].model}
                      /\ \A j \in DOMAIN events' : events'[j].model = events'[k].model
                      /\ events'[k].status \in Ended => Last(k, events')
    BY DEF QueueOK, Last
  <2>1. ASSUME events'[k].status \in Ended, NEW j \in DOMAIN events', j > k PROVE FALSE
    <3>1. /\ k + 1 \in DOMAIN events /\ events'[k] = events[k + 1]
          /\ j + 1 \in DOMAIN events
      BY <1>1
    <3>2. Last(k + 1, events)
      BY <2>1, <3>1 DEF CalmInv, CalmOK, QueueOK
    <3>3. events[j + 1].model = m /\ events[k + 1].model = m
      BY <1>1, <3>1
    <3>4. k \in Nat /\ j \in Nat
      <4>1. events' \in Seq([model: Models, status: Status])
        BY <1>2, HeadTailProperties DEF Deliver, IInv, EngineTypeOK
      <4> QED
        BY <4>1
    <3>5. j + 1 > k + 1
      BY <2>1, <3>4
    <3> QED
      BY <3>1, <3>2, <3>3, <3>5 DEF Last
  <2> QED
    BY <1>6, <2>1 DEF Last
<1>12. PausedOK'
  <2> SUFFICES ASSUME ctl'.phase = "paused"
               PROVE  ctl'.model = m /\ (Pending(m)' \/ task[m] = "paused")
    BY <1>2, DistinctAssumption DEF PausedOK, Pending
  <2>1. s = "paused"
    BY <1>5 DEF Status, Ended
  <2> QED
    BY <1>1, <1>5, <2>1 DEF TaskAfter, Ended
<1>13. ListedOK'
  <2> SUFFICES ASSUME NEW n \in ctl.downloaded
               PROVE  task[n] = "none" /\ ~Pending(n)' /\ ctl'.model # n
    BY <1>2, <1>5 DEF CalmInv, CalmOK, ListedOK, Pending
  <2>1. n \in Models /\ n # m
    BY <1>1, <1>2 DEF Controller
  <2> QED
    BY <1>6, <2>1, DistinctAssumption DEF CalmInv, CalmOK, ListedOK, Pending
<1>14. s = "complete" =>
         \E a \in Finalizers :
           /\ act'[a].model = m /\ act'[a].pc = "validate"
           /\ \A b \in Activations : act'[b].pc \in Finishing => b = a
  <2> SUFFICES ASSUME NEW a \in Finalizers, Called(a, "validate", m)
               PROVE  /\ act'[a].model = m /\ act'[a].pc = "validate"
                      /\ \A b \in Activations : act'[b].pc \in Finishing => b = a
    BY <1>5
  <2> QED
    BY <1>3, CalledAlone DEF Alone, Activations
<1>15. FilesOK'
  <2> SUFFICES ASSUME NEW n \in Models, file[n] = "good", n \notin ctl.downloaded
               PROVE  \/ \E k \in DOMAIN events' :
                           events'[k].model = n /\ events'[k].status = "complete"
                      \/ \E a \in Activations : act'[a].model = n /\ act'[a].pc \in Finishing
    BY <1>2, <1>5 DEF FilesOK
  <2>1. PICK k \in DOMAIN events : events[k].model = n /\ events[k].status = "complete"
    BY <1>3 DEF CalmInv, CalmOK, FilesOK
  <2>2. CASE k = 1
    BY <1>1, <1>14, <2>1, <2>2 DEF Activations, Finishing
  <2>3. CASE k # 1
    BY <1>1, <2>1, <2>3
  <2> QED
    BY <2>2, <2>3
<1>16. s # "complete" => \A b \in Activations : act'[b].pc \notin Finishing
  BY <1>3, <1>5 DEF Status, Ended
<1>17. FinishOK'
  <2> SUFFICES ASSUME NEW a \in Activations, act'[a].pc \in Finishing
               PROVE  /\ events' = <<>>
                      /\ \A n \in Models : task'[n] \notin Running
                      /\ task'[act'[a].model] = "none"
                      /\ act'[a].model \notin ctl'.downloaded
                      /\ ctl'.model \in {None, act'[a].model}
                      /\ \A b \in Activations : act'[b].pc \in Finishing => b = a
    BY DEF FinishOK
  <2>1. /\ s = "complete" /\ act'[a].model = m
        /\ \A b \in Activations : act'[b].pc \in Finishing => b = a
    BY <1>14, <1>16 DEF Activations
  <2>2. events' = <<>> /\ s \notin Running
    BY <1>1, <2>1 DEF Ended, Running
  <2>3. task[m] = "none"
    BY <1>1, <2>1, <2>2 DEF Pending, TaskAfter, Ended
  <2> QED
    BY <1>1, <1>2, <1>5, <1>6, <1>7, <2>1, <2>2, <2>3
<1>18. CallsOK'
  <2> SUFFICES ASSUME NEW b \in Calls PROVE CallOK(b)'
    BY DEF CallsOK
  <2>1. /\ act'[b] = act[b] /\ CallOK(b)
        /\ act[b].pc \notin Begun
    BY <1>3, <1>9
  <2>2. CASE act[b].pc = "paused"
    <3>1. act[b].model = m
      <4>1. act[b].model \in Models
        BY <2>2, ActivationFacts DEF Activations, Modelless
      <4> QED
        BY <1>1, <2>1, <2>2, <4>1, DistinctAssumption DEF CallOK
    <3>2. ctl'.model = m
      <4>1. s \in Running \cup {"paused"}
        BY <1>1, <2>1, <2>2 DEF CallOK
      <4> QED
        BY <1>8, <4>1 DEF Running, Ended
    <3>3. \A k \in DOMAIN events' : events'[k].status \in Running \cup {"paused"}
      BY <1>1, <2>1, <2>2 DEF CallOK
    <3> QED
      BY <1>2, <2>1, <2>2, <3>1, <3>2, <3>3 DEF CallOK, Begun, Asking
  <2>3. CASE act[b].pc \in {"cancel", "cancelRecord", "erase"}
    <3>1. act[b].model = m
      BY <1>1, <2>1, <2>3 DEF CallOK
    <3>2. \A a \in Activations : act'[a].pc \in Finishing => act'[a].model = m
      BY <1>14, <1>16 DEF Activations
    <3> QED
      BY <1>2, <1>6, <2>1, <2>3, <3>1, <3>2 DEF CallOK, Begun, Asking
  <2>4. CASE act[b].pc \notin {"paused", "cancel", "cancelRecord", "erase"}
    BY <1>5, <2>1, <2>4 DEF CallOK, Begun, Asking
  <2> QED
    BY <2>2, <2>3, <2>4
<1>19. EarlyOK'
  BY <1>3, <1>5, <1>9 DEF EarlyOK, Starts
<1> QED
  BY <1>10, <1>11, <1>12, <1>13, <1>15, <1>17, <1>18, <1>19 DEF CalmInv, CalmOK

-----------------------------------------------------------------------------
(* What follows for calls that wait for each other.                        *)

LEMMA CalmStep ==
  ASSUME PaceAssumption, Throwing = {}, IInv, PaceInv, CalmInv, [Next]_vars,
         made' # made => Quiet
  PROVE  CalmInv'
<1>0. OneCall
  BY DEF PaceAssumption
<1>1. ASSUME NEW a \in Activations, UserStep(a) PROVE CalmInv'
  <2>1. CASE InitializeCall(a)
    BY <1>0, <2>1, StartupCalm
  <2>2. CASE ~InitializeCall(a)
    <3>1. Quiet
      <4>1. UserCall(a)
        BY <1>1, <2>2
        DEF UserStep, PauseCall, ResumeCall, CancelCall, DownloadCall, DeleteCall
      <4> QED
        BY <4>1 DEF UserCall, IInv
    <3> QED
      BY <1>0, <1>1, <2>2, <3>1, CallsCalm, CancelNothingCalm, ResumeCallCalm DEF UserStep
  <2> QED
    BY <2>1, <2>2
<1>2. ASSUME NEW a \in Activations, Continuation(a) PROVE CalmInv'
  <2>1. ~Reattached(a)
    BY DEF PaceInv, StartOK, Reattached, At
  <2>2. /\ ~Throws(a) /\ ~CancelThrows(a) /\ ~DeleteCancelThrows(a)
        /\ ~DeletedUnlisted(a) /\ ~CompletionThrows(a)
    BY DEF Throws, CancelThrows, DeleteCancelThrows, DeletedUnlisted, CompletionThrows
  <2> QED
    BY <1>0, <1>2, <2>1, <2>2, StartupCalm, RefreshCalm, DownloadCalm, AcceptedCalm,
       PauseCalm, PausedCalm, CancelCalm, DropsRecordCalm, EraseCalm, DeleteCancelledCalm,
       DeletedCalm, ValidatedCalm, CompletedCalm, CompletionRefreshedCalm
    DEF Continuation
<1>3. CASE ClearLastError \/ \E m \in Models : EngineStep(m)
  BY <1>3, ClearCalm, EngineCalm
<1>4. CASE Deliver
  BY <1>4, DeliverCalm
<1>5. ~Kill
  BY DEF Kill, PaceAssumption, IInv
<1>6. CASE UNCHANGED vars
  <2>1. UNCHANGED <<task, events, file, ctl, act>>
    BY <1>6 DEF vars, engineVars, appVars
  <2> QED
    BY <2>1 DEF CalmInv, CalmOK, RunningOK, QueueOK, PausedOK, ListedOK, FilesOK, FinishOK,
       CallsOK, CallOK, AtRest, EarlyOK, Starts, Pending, Last
<1> QED
  BY <1>1, <1>2, <1>3, <1>4, <1>5, <1>6 DEF Next

LEMMA CalmInit == Init => CalmInv
<1> SUFFICES ASSUME Init PROVE CalmInv
  OBVIOUS
<1>1. /\ task = [m \in Models |-> "none"] /\ file = [m \in Models |-> "absent"]
      /\ events = <<>>
      /\ ctl = NewController /\ act = [a \in Activations |-> Done]
  BY DEF Init, EngineInit, NewProcess
<1>2. RunningOK /\ QueueOK /\ PausedOK /\ ListedOK /\ FilesOK
  BY <1>1 DEF RunningOK, QueueOK, PausedOK, ListedOK, FilesOK, NewController, Running
<1>3. FinishOK /\ CallsOK
  BY <1>1 DEF FinishOK, CallsOK, CallOK, Done, Activations, Finishing, Begun, Asking
<1>4. EarlyOK
  BY <1>1 DEF EarlyOK, NewController
<1> QED
  BY <1>2, <1>3, <1>4 DEF CalmInv, CalmOK

LEMMA CalmInvariance ==
  ASSUME PaceAssumption, Throwing = {}
  PROVE  PaceSpec => [](PaceInv /\ (~hurried => CalmInv))
<1>1. PaceInit => IInv /\ PaceInv /\ (~hurried => CalmInv)
  BY InitOK, InitPace, CalmInit DEF PaceInit
<1>2. IInv /\ PaceInv /\ (~hurried => CalmInv) /\ [PaceNext]_<<vars, hurried>>
        => (IInv /\ PaceInv /\ (~hurried => CalmInv))'
  <2> SUFFICES ASSUME IInv, PaceInv, ~hurried => CalmInv, [PaceNext]_<<vars, hurried>>
               PROVE  IInv' /\ PaceInv' /\ (~hurried' => CalmInv')
    OBVIOUS
  <2>1. [Next]_vars
    BY DEF PaceNext
  <2>2. IInv' /\ PaceInv'
    BY <2>1, StepOK, StepPace
  <2>3. ASSUME ~hurried' PROVE CalmInv'
    <3>1. UNCHANGED <<vars, hurried>> => hurried' = hurried /\ made' = made
      BY DEF vars, appVars
    <3>2. ~(made' # made /\ ~Quiet) /\ ~hurried
      <4>1. CASE PaceNext
        <5>1. hurried' = (hurried \/ (made' # made /\ ~Quiet))
          BY <4>1 DEF PaceNext
        <5> QED
          BY <2>3, <5>1, Zenon
      <4>2. CASE UNCHANGED <<vars, hurried>>
        BY <2>3, <3>1, <4>2
      <4> QED
        BY <4>1, <4>2
    <3> QED
      BY <2>1, <3>2, CalmStep
  <2> QED
    BY <2>2, <2>3
<1> QED
  BY <1>1, <1>2, PTL DEF PaceSpec

(* Waiting keeps the engine to one model at a time: of several models none *)
(* or one has a running task, although download, resume and the updates    *)
(* each await the engine on the way.                                       *)
THEOREM OneDownloadWhenUnhurried ==
  PaceAssumption /\ Throwing = {} => (PaceSpec => []UnhurriedSingleDownload)
<1> SUFFICES ASSUME PaceAssumption, Throwing = {}
             PROVE  PaceSpec => []UnhurriedSingleDownload
  OBVIOUS
<1>1. (~hurried => CalmInv) => UnhurriedSingleDownload
  BY DEF UnhurriedSingleDownload, SingleDownload, CalmInv, CalmOK, RunningOK
<1> QED
  BY <1>1, CalmInvariance, PTL

(* Waiting keeps what the engine downloads in view: when nothing is in     *)
(* progress any more and a task still runs, the screen says so.            *)
THEOREM RunningShownWhenUnhurried ==
  PaceAssumption /\ Throwing = {} => (PaceSpec => []UnhurriedRunningIsShown)
<1> SUFFICES ASSUME PaceAssumption, Throwing = {}
             PROVE  PaceSpec => []UnhurriedRunningIsShown
  OBVIOUS
<1>1. (~hurried => CalmInv) => UnhurriedRunningIsShown
  BY DEF UnhurriedRunningIsShown, RunningIsShown, IsBusy, CalmInv, CalmOK, RunningOK
<1> QED
  BY <1>1, CalmInvariance, PTL

(* Waiting keeps the pause button honest: a screen that says paused has a  *)
(* suspended task of its model that resume can continue.                   *)
THEOREM PausedWhenUnhurried ==
  PaceAssumption /\ Throwing = {} => (PaceSpec => []UnhurriedPausedIsPaused)
<1> SUFFICES ASSUME PaceAssumption, Throwing = {}
             PROVE  PaceSpec => []UnhurriedPausedIsPaused
  OBVIOUS
<1>1. (~hurried => CalmInv) => UnhurriedPausedIsPaused
  BY DEF UnhurriedPausedIsPaused, PausedIsPaused, CalmInv, CalmOK, PausedOK,
         Quiet, Pending
<1> QED
  BY <1>1, CalmInvariance, PTL

(* Waiting keeps the list in step with the disk: with nothing in progress  *)
(* and no download shown, every whole model on disk is listed.             *)
THEOREM ListedWhenUnhurried ==
  PaceAssumption /\ Throwing = {} => (PaceSpec => []UnhurriedOnDiskListed)
<1> SUFFICES ASSUME PaceAssumption, Throwing = {}
             PROVE  PaceSpec => []UnhurriedOnDiskListed
  OBVIOUS
<1>1. (~hurried => CalmInv) => UnhurriedOnDiskListed
  <2> SUFFICES ASSUME CalmInv, Quiet, NEW m \in Models, file[m] = "good"
               PROVE  m \in ctl.downloaded
    BY DEF UnhurriedOnDiskListed, OnDiskListed
  <2>1. \A a \in Activations : act[a].pc \notin Finishing
    BY DEF Quiet, At, Finishing
  <2>2. events = <<>>
    BY DEF Quiet
  <2> QED
    BY <2>1, <2>2 DEF CalmInv, CalmOK, FilesOK
<1> QED
  BY <1>1, CalmInvariance, PTL
=============================================================================
