-------------------------- MODULE AyaSessionProofs --------------------------
(***************************************************************************)
(* Theorems about AyaSession, on either platform, for any number of        *)
(* generations, selections and models: its types, whatever overlaps, and   *)
(* the context that Android keeps.  AyaSessionAloneProofs builds on them.  *)
(***************************************************************************)
EXTENDS AyaSession, TLAPS

-----------------------------------------------------------------------------
(* The types, and who may stand behind each message: what is on its way to *)
(* the main thread, to the worker and back to Dart.                        *)

Commands == {"load", "unload", "generate"}
Answers  == {"loaded", "notLoaded", "unloaded", "warm", "notWarm"}

Sent == {c \in Calls : /\ c.op \in {"listen", "generateStream"} => c.who \in Streams
                       /\ c.op \in Commands => c.who \in Selects}
Jobs == {c \in Sent : c.op \in {"load", "generate", "generateStream"}}
Told == {m \in Messages : m.op \notin Answers => m.who \in Streams}
Posted == {p \in [message: Told, sink: Streams \cup {None}] :
             p.sink # None => p.message.op \in {"token", "end"}}

Loading    == worker.pc \in {"load", "loaded", "notLoaded"}
Generating == worker.pc \in {"init", "next", "end"}

Generations == [state: {"new", "delay", "leaving", "ended", "left", "open",
                        "done", "failed", "cancelled"},
                screen: Screens, path: Paths \cup {None}, tokens: SUBSET Streams]
Selections  == [pc: {"idle", "reading", "disposing", "loading", "warming", "dropping",
                     "saving", "clearing", "forgetting", "forgotten"},
                path: Paths \cup {None}, attempt: 0..MaxAttempts]
Plugins     == [sink: Streams \cup {None}, modelLoaded: BOOLEAN, shouldStop: BOOLEAN,
                unloading: Selects \cup {None}]
Bridges     == [model: Paths \cup {None}, stop: BOOLEAN, active: BOOLEAN, left: 0..MaxTokens]
Sessions    == [path: Paths \cup {None}, loading: BOOLEAN, failed: BOOLEAN]
Workers     == [pc: {"idle", "load", "loaded", "notLoaded", "init", "next", "end"}, job: Calls]

WiresOK ==
  /\ toNative \in Seq(Sent) /\ toDart \in Seq(Told)
  /\ kept = Nothing \/ (kept \in Told /\ kept.op \in {"token", "end"})

NativeOK ==
  /\ platform \in Platforms /\ crashed \in BOOLEAN
  /\ plugin \in Plugins /\ bridge \in Bridges /\ posted \in Seq(Posted)

WorkerOK ==
  /\ jobs \in Seq(Jobs) /\ worker \in Workers
  /\ Loading => worker.job.who \in Selects
  /\ Generating => worker.job.who \in Streams

DartOK ==
  /\ handler \in Streams \cup {None}
  /\ stream \in [Streams -> Generations]
  /\ loaded \in [llama: BOOLEAN, engine: BOOLEAN]
  /\ session \in Sessions
  /\ select \in [Selects -> Selections]
  /\ saved \in Paths \cup {None} /\ selects \in 0..MaxSelects

TypesOK == WiresOK /\ NativeOK /\ WorkerOK /\ DartOK

(* What a screen sends for a generation.                                   *)
Listen(s) == Call("listen", s, None)
Asking(s) == Call("generateStream", s, None)

-----------------------------------------------------------------------------
(* Queues, and what is in them.                                            *)

Without(q, S) == \A k \in DOMAIN q : q[k] \notin S
Only(q, S, E) ==
  \E k \in DOMAIN q : q[k] \in E /\ \A j \in DOMAIN q \ {k} : q[j] \notin S

LEMMA Appending ==
  ASSUME NEW T, NEW q \in Seq(T), NEW e \in T
  PROVE  /\ Append(q, e) \in Seq(T) /\ Len(q) \in Nat /\ DOMAIN q = 1 .. Len(q)
         /\ DOMAIN Append(q, e) = 1 .. Len(q) + 1
         /\ \A k \in DOMAIN q : k \in DOMAIN Append(q, e) /\ Append(q, e)[k] = q[k]
         /\ Append(q, e)[Len(q) + 1] = e
         /\ \A k \in DOMAIN Append(q, e) : k \in DOMAIN q \/ k = Len(q) + 1
OBVIOUS

LEMMA Taking ==
  ASSUME NEW T, NEW q \in Seq(T), q # <<>>
  PROVE  /\ Head(q) = q[1] /\ Head(q) \in T /\ 1 \in DOMAIN q /\ Tail(q) \in Seq(T)
         /\ DOMAIN q \subseteq Nat
         /\ \A k \in DOMAIN Tail(q) : k + 1 \in DOMAIN q /\ Tail(q)[k] = q[k + 1] /\ k \in Nat
         /\ \A k \in DOMAIN q : k # 1 => k - 1 \in DOMAIN Tail(q) /\ Tail(q)[k - 1] = q[k]
OBVIOUS

LEMMA WithoutAppend ==
  ASSUME NEW T, NEW q \in Seq(T), NEW e \in T, NEW S, NEW E
  PROVE  /\ Without(q, S) /\ e \notin S => Without(Append(q, e), S)
         /\ Without(q, S) /\ e \in E => Only(Append(q, e), S, E)
         /\ Only(q, S, E) /\ e \notin S => Only(Append(q, e), S, E)
<1> DEFINE a == Append(q, e)
<1>1. /\ Len(q) \in Nat /\ DOMAIN q = 1 .. Len(q)
      /\ DOMAIN a = 1 .. Len(q) + 1
      /\ \A k \in DOMAIN q : k \in DOMAIN a /\ a[k] = q[k]
      /\ a[Len(q) + 1] = e
      /\ \A k \in DOMAIN a : k \in DOMAIN q \/ k = Len(q) + 1
  BY Appending
<1> HIDE DEF a
<1>2. Without(q, S) /\ e \notin S => Without(a, S)
  BY <1>1 DEF Without
<1>3. Without(q, S) /\ e \in E => Only(a, S, E)
  BY <1>1 DEF Without, Only
<1>4. Only(q, S, E) /\ e \notin S => Only(a, S, E)
  BY <1>1 DEF Only
<1> QED
  BY <1>2, <1>3, <1>4 DEF a

LEMMA WithoutTail ==
  ASSUME NEW T, NEW q \in Seq(T), q # <<>>, NEW S, NEW E, E \subseteq S
  PROVE  /\ Without(q, S) => Head(q) \notin S /\ Without(Tail(q), S)
         /\ Only(q, S, E) /\ Head(q) \notin S => Only(Tail(q), S, E)
         /\ Only(q, S, E) /\ Head(q) \in S => Head(q) \in E /\ Without(Tail(q), S)
<1> DEFINE h == Head(q)
           t == Tail(q)
<1>1. /\ h = q[1] /\ 1 \in DOMAIN q /\ DOMAIN q \subseteq Nat
      /\ \A k \in DOMAIN t : k + 1 \in DOMAIN q /\ t[k] = q[k + 1] /\ k \in Nat
      /\ \A k \in DOMAIN q : k # 1 => k - 1 \in DOMAIN t /\ t[k - 1] = q[k]
  BY Taking
<1>2. DOMAIN t = 1 .. Len(q) - 1 /\ \A k \in DOMAIN t : k + 1 # 1
  BY <1>1
<1> HIDE DEF h, t
<1>3. Without(q, S) => h \notin S /\ Without(t, S)
  BY <1>1 DEF Without
<1>4. ASSUME Only(q, S, E), h \notin S PROVE Only(t, S, E)
  <2>1. PICK k \in DOMAIN q : q[k] \in E /\ \A j \in DOMAIN q \ {k} : q[j] \notin S
    BY <1>4 DEF Only
  <2>2. k # 1 /\ k \in Nat
    BY <1>1, <1>4, <2>1
  <2>3. k - 1 \in DOMAIN t /\ t[k - 1] \in E
    BY <1>1, <2>1, <2>2
  <2>4. \A j \in DOMAIN t \ {k - 1} : t[j] \notin S
    BY <1>1, <2>1, <2>2
  <2> QED
    BY <2>3, <2>4 DEF Only
<1>5. ASSUME Only(q, S, E), h \in S PROVE h \in E /\ Without(t, S)
  <2>1. PICK k \in DOMAIN q : q[k] \in E /\ \A j \in DOMAIN q \ {k} : q[j] \notin S
    BY <1>5 DEF Only
  <2>2. k = 1
    BY <1>1, <1>5, <2>1
  <2> QED
    BY <1>1, <1>2, <2>1, <2>2 DEF Without
<1> QED
  BY <1>3, <1>4, <1>5 DEF h, t

(* What is sent.                                                           *)
LEMMA CallTyped ==
  ASSUME NEW op \in {"listen", "cancel", "generateStream", "generate", "load", "unload"},
         NEW who \in Streams \cup Selects \cup {None}, NEW path \in Paths \cup {None},
         op \in {"listen", "generateStream"} => who \in Streams,
         op \in Commands => who \in Selects
  PROVE  /\ Call(op, who, path) \in Sent /\ Call(op, who, path) \in Calls
         /\ Call(op, who, path).op = op /\ Call(op, who, path).who = who
         /\ Call(op, who, path).path = path /\ Call(op, who, path).sink = None
BY DEF Call, Calls, Sent

LEMMA MessageTyped ==
  ASSUME NEW op \in {"token", "end", "refused", "loaded", "notLoaded", "unloaded", "warm",
                     "notWarm"},
         NEW who \in Streams \cup Selects, op \notin Answers => who \in Streams
  PROVE  /\ Message(op, who) \in Told /\ Message(op, who) \in Messages
         /\ Message(op, who).op = op /\ Message(op, who).who = who
BY DEF Message, Messages, Told, Answers

LEMMA SeqWider ==
  ASSUME NEW S, NEW T, S \subseteq T, NEW q \in Seq(S)
  PROVE  q \in Seq(T)
OBVIOUS

LEMMA TypesSuffice ==
  ASSUME TypesOK
  PROVE  SessionTypeOK
<1>1. /\ Sent \subseteq Calls /\ Jobs \subseteq Calls /\ Told \subseteq Messages
      /\ Posted \subseteq [message: Messages, sink: Streams \cup {None}]
  BY DEF Sent, Jobs, Told, Posted
<1>2. toNative \in Seq(Calls)
  BY <1>1, SeqWider DEF TypesOK, WiresOK
<1>3. toDart \in Seq(Messages)
  BY <1>1, SeqWider DEF TypesOK, WiresOK
<1>4. jobs \in Seq(Calls)
  BY <1>1, SeqWider DEF TypesOK, WorkerOK
<1>5. posted \in Seq([message: Messages, sink: Streams \cup {None}])
  BY <1>1, SeqWider DEF TypesOK, NativeOK
<1>6. PluginTypeOK
  BY <1>2, <1>3, <1>4, <1>5 DEF PluginTypeOK, TypesOK, WorkerOK, NativeOK, Plugins, Bridges, Workers
<1> QED
  BY <1>1, <1>6 DEF SessionTypeOK, TypesOK, WiresOK, DartOK, Generations, Selections, Sessions

-----------------------------------------------------------------------------
(* The types are kept: first by what is sent and received.                 *)

LEMMA SendsTyped ==
  ASSUME WiresOK, NEW c \in Sent, Sends(c)
  PROVE  toNative' \in Seq(Sent)
BY Appending DEF WiresOK, Sends

LEMMA RepliesTyped ==
  ASSUME WiresOK, NEW m \in Told, Replies(m)
  PROVE  toDart' \in Seq(Told)
BY Appending DEF WiresOK, Replies

LEMMA PostsTyped ==
  ASSUME NativeOK, NEW m \in Told, NEW sink \in Streams \cup {None}, Posts(m, sink),
         sink # None => m.op \in {"token", "end"}
  PROVE  posted' \in Seq(Posted)
<1>1. [message |-> m, sink |-> sink] \in Posted
  BY DEF Posted
<1> QED
  BY <1>1, Appending DEF NativeOK, Posts

LEMMA TakesTyped ==
  ASSUME WiresOK, NEW op, Takes(op)
  PROVE  /\ toNative' \in Seq(Sent) /\ toNative # <<>> /\ toNative' = Tail(toNative)
         /\ Head(toNative) \in Sent /\ Head(toNative).op = op
         /\ ~crashed /\ plugin.unloading = None
BY Taking DEF WiresOK, Takes, MainIsFree

LEMMA ReceivesTyped ==
  ASSUME WiresOK, NEW op, Receives(op)
  PROVE  /\ toDart' \in Seq(Told) /\ toDart # <<>> /\ toDart' = Tail(toDart)
         /\ Head(toDart) \in Told /\ Head(toDart).op = op
BY Taking DEF WiresOK, Receives

LEMMA WorkerSame ==
  ASSUME WorkerOK, UNCHANGED <<jobs, worker>>
  PROVE  WorkerOK'
BY DEF WorkerOK, Loading, Generating

LEMMA JobAdded ==
  ASSUME WorkerOK, NEW c \in Sent, c.op \in {"load", "generate", "generateStream"},
         jobs' = Append(jobs, c), worker' = worker
  PROVE  WorkerOK'
<1>1. c \in Jobs
  BY DEF Jobs
<1>2. jobs' \in Seq(Jobs)
  BY <1>1, Appending DEF WorkerOK
<1> QED
  BY <1>2 DEF WorkerOK, Loading, Generating

LEMMA DartSame ==
  ASSUME DartOK, UNCHANGED dartVars
  PROVE  DartOK' /\ kept' = kept
BY DEF DartOK, dartVars

LEMMA MainTypes ==
  ASSUME TypesOK, MainThread, UNCHANGED dartVars
  PROVE  TypesOK'
<1> USE PluginAssumption
<1>1. WiresOK /\ NativeOK /\ WorkerOK /\ DartOK' /\ kept' = kept
  BY DartSame DEF TypesOK
<1>2. plugin \in Plugins /\ bridge \in Bridges
  BY <1>1 DEF NativeOK
<1> SUFFICES WiresOK' /\ NativeOK' /\ WorkerOK'
  BY <1>1 DEF TypesOK
<1>3. CASE OnListen
  <2>1. Head(toNative).who \in Streams /\ toNative' \in Seq(Sent)
    BY <1>1, <1>3, TakesTyped DEF OnListen, Sent
  <2>2. plugin' \in Plugins /\ bridge' \in Bridges
    BY <1>2, <1>3, <2>1 DEF OnListen, Plugins, Bridges
  <2> QED
    BY <1>1, <1>3, <2>1, <2>2, WorkerSame DEF OnListen, WiresOK, NativeOK
<1>4. CASE OnCancel
  <2>1. toNative' \in Seq(Sent)
    BY <1>1, <1>4, TakesTyped DEF OnCancel
  <2>2. plugin' \in Plugins /\ bridge' \in Bridges
    BY <1>2, <1>4 DEF OnCancel, Stopping, Plugins, Bridges
  <2> QED
    BY <1>1, <1>4, <2>1, <2>2, WorkerSame DEF OnCancel, WiresOK, NativeOK
<1>5. CASE GenerateStream
  <2> DEFINE call == Head(toNative)
             job == [call EXCEPT !.sink = plugin.sink]
  <2>1. call \in Sent /\ call.op = "generateStream" /\ toNative' \in Seq(Sent)
    BY <1>1, <1>5, TakesTyped DEF GenerateStream
  <2>2. call.who \in Streams /\ job \in Sent /\ job.op = "generateStream"
    BY <1>2, <2>1 DEF Sent, Calls, Plugins
  <2>3. Message("refused", call.who) \in Told
    BY <2>2, MessageTyped
  <2> HIDE DEF job, call
  <2>4. /\ \/ jobs' = Append(jobs, job) /\ toDart' = toDart
           \/ Replies(Message("refused", call.who)) /\ jobs' = jobs
        /\ UNCHANGED <<platform, posted, plugin, worker, bridge, crashed>>
    BY <1>5 DEF GenerateStream, call, job
  <2>5. WorkerOK'
    BY <1>1, <2>2, <2>4, JobAdded, WorkerSame
  <2>6. toDart' \in Seq(Told)
    BY <1>1, <2>3, <2>4, RepliesTyped DEF WiresOK
  <2> QED
    BY <1>1, <2>1, <2>4, <2>5, <2>6 DEF WiresOK, NativeOK
<1>6. CASE Generate
  <2> DEFINE call == Head(toNative)
  <2>1. call \in Sent /\ call.op = "generate" /\ toNative' \in Seq(Sent)
    BY <1>1, <1>6, TakesTyped DEF Generate
  <2>2. call.who \in Selects
    BY <2>1 DEF Sent, Commands
  <2>3. Message("notWarm", call.who) \in Told
    BY <2>2, MessageTyped DEF Answers
  <2> HIDE DEF call
  <2>4. /\ \/ jobs' = Append(jobs, call) /\ toDart' = toDart
           \/ Replies(Message("notWarm", call.who)) /\ jobs' = jobs
        /\ UNCHANGED <<platform, posted, plugin, worker, bridge, crashed>>
    BY <1>6 DEF Generate, call
  <2>5. WorkerOK'
    BY <1>1, <2>1, <2>4, JobAdded, WorkerSame
  <2>6. toDart' \in Seq(Told)
    BY <1>1, <2>3, <2>4, RepliesTyped DEF WiresOK
  <2> QED
    BY <1>1, <2>1, <2>4, <2>5, <2>6 DEF WiresOK, NativeOK
<1>7. CASE LoadModel
  <2>1. Head(toNative) \in Sent /\ Head(toNative).op = "load" /\ toNative' \in Seq(Sent)
    BY <1>1, <1>7, TakesTyped DEF LoadModel
  <2>2. WorkerOK'
    BY <1>1, <1>7, <2>1, JobAdded DEF LoadModel
  <2> QED
    BY <1>1, <1>7, <2>1, <2>2 DEF LoadModel, WiresOK, NativeOK
<1>8. CASE UnloadModel
  <2> DEFINE who == Head(toNative).who
  <2>1. who \in Selects /\ toNative' \in Seq(Sent)
    BY <1>1, <1>8, TakesTyped DEF UnloadModel, Sent, Commands
  <2>2. Message("unloaded", who) \in Told
    BY <2>1, MessageTyped DEF Answers
  <2>3. plugin' \in Plugins /\ bridge' \in Bridges
    BY <1>2, <1>8, <2>1 DEF UnloadModel, Plugins, Bridges
  <2> HIDE DEF who
  <2>4. toDart' = toDart \/ Replies(Message("unloaded", who))
    BY <1>8 DEF UnloadModel, who
  <2>5. toDart' \in Seq(Told)
    BY <1>1, <2>2, <2>4, RepliesTyped DEF WiresOK
  <2> QED
    BY <1>1, <1>8, <2>1, <2>3, <2>5, WorkerSame DEF UnloadModel, WiresOK, NativeOK
<1>9. CASE Unloaded
  <2>1. plugin.unloading \in Selects
    BY <1>2, <1>9 DEF Unloaded, MainIsFree, Plugins
  <2>2. Message("unloaded", plugin.unloading) \in Told
    BY <2>1, MessageTyped DEF Answers
  <2>3. plugin' \in Plugins
    BY <1>2, <1>9 DEF Unloaded, Plugins
  <2>4. toDart' \in Seq(Told)
    BY <1>1, <1>9, <2>2, RepliesTyped DEF Unloaded
  <2> QED
    BY <1>1, <1>9, <2>3, <2>4, WorkerSame DEF Unloaded, WiresOK, NativeOK
<1>10. CASE RunPosted
  <2>1. Head(posted) \in Posted /\ posted' \in Seq(Posted)
    BY <1>1, <1>10, Taking DEF RunPosted, NativeOK
  <2>2. Head(posted).message \in Told
    BY <2>1 DEF Posted
  <2>3. toDart' = toDart \/ Replies(Head(posted).message)
    BY <1>10 DEF RunPosted
  <2>4. toDart' \in Seq(Told)
    BY <1>1, <2>2, <2>3, RepliesTyped DEF WiresOK
  <2> QED
    BY <1>1, <1>10, <2>1, <2>4, WorkerSame DEF RunPosted, WiresOK, NativeOK
<1> QED
  BY <1>3, <1>4, <1>5, <1>6, <1>7, <1>8, <1>9, <1>10 DEF MainThread

LEMMA EmitsTyped ==
  ASSUME NativeOK, WorkerOK, Generating, NEW op \in {"token", "end"}, Emits(op)
  PROVE  posted' \in Seq(Posted)
<1>1. Message(op, worker.job.who) \in Told /\ Message(op, worker.job.who).op = op
  BY MessageTyped DEF WorkerOK, Answers
<1>2. worker.job.sink \in Streams \cup {None}
  BY DEF WorkerOK, Workers, Calls
<1>3. \E sink \in Streams \cup {None} : Posts(Message(op, worker.job.who), sink)
  BY <1>2 DEF Emits
<1> QED
  BY <1>1, <1>3, PostsTyped

LEMMA WorkerTypes ==
  ASSUME TypesOK, Worker, UNCHANGED dartVars
  PROVE  TypesOK'
<1> USE PluginAssumption
<1>1. WiresOK /\ NativeOK /\ WorkerOK /\ DartOK' /\ kept' = kept
  BY DartSame DEF TypesOK
<1>2. plugin \in Plugins /\ bridge \in Bridges /\ worker \in Workers
  BY <1>1 DEF NativeOK, WorkerOK
<1> SUFFICES WiresOK' /\ NativeOK' /\ WorkerOK'
  BY <1>1 DEF TypesOK
<1>3. CASE StartJob
  <2> DEFINE job == Head(jobs)
  <2>1. job \in Jobs /\ jobs' \in Seq(Jobs)
    BY <1>1, <1>3, Taking DEF StartJob, WorkerOK
  <2>2. job \in Calls /\ (job.op \in {"load", "generate"} => job.who \in Selects)
        /\ (job.op = "generateStream" => job.who \in Streams)
    BY <2>1 DEF Jobs, Sent, Commands
  <2> HIDE DEF job
  <2>3. /\ worker.pc = "idle"
        /\ \/ /\ job.op = "load" /\ worker' = [pc |-> "load", job |-> job]
              /\ UNCHANGED <<plugin, bridge, posted>>
           \/ /\ job.op = "generateStream" /\ worker' = [pc |-> "init", job |-> job]
              /\ plugin' = [plugin EXCEPT !.shouldStop = FALSE] /\ UNCHANGED <<bridge, posted>>
           \/ /\ job.op = "generate" /\ plugin' = [plugin EXCEPT !.shouldStop = FALSE]
              /\ worker' = worker
              /\ bridge' = [bridge EXCEPT !.stop = FALSE] \/ bridge' = bridge
              /\ \/ Posts(Message("warm", job.who), None)
                 \/ Posts(Message("notWarm", job.who), None)
        /\ UNCHANGED <<platform, toNative, toDart, crashed>>
    BY <1>3 DEF StartJob, WorkerAt, job
  <2>4. worker' \in Workers /\ (Loading => worker.job.who \in Selects)'
        /\ (Generating => worker.job.who \in Streams)'
    BY <1>2, <2>2, <2>3 DEF Workers, Loading, Generating
  <2>5. plugin' \in Plugins /\ bridge' \in Bridges
    BY <1>2, <2>3 DEF Plugins, Bridges
  <2>6. posted' \in Seq(Posted)
    <3>1. job.op = "generate" =>
            Message("warm", job.who) \in Told /\ Message("notWarm", job.who) \in Told
      BY <2>2, MessageTyped DEF Answers
    <3> QED
      BY <1>1, <2>3, <3>1, PostsTyped DEF NativeOK
  <2> QED
    BY <1>1, <2>1, <2>3, <2>4, <2>5, <2>6 DEF WiresOK, NativeOK, WorkerOK
<1>4. CASE InitModel
  <2>1. worker.pc = "load" /\ worker.job.who \in Selects /\ worker.job.path \in Paths \cup {None}
    BY <1>1, <1>2, <1>4 DEF InitModel, WorkerAt, WorkerOK, Loading, Workers, Calls
  <2>2. Message("notLoaded", worker.job.who) \in Told
    BY <2>1, MessageTyped DEF Answers
  <2>3. bridge' \in Bridges
    BY <1>2, <1>4, <2>1 DEF InitModel, Bridges
  <2>4. worker' \in Workers /\ worker'.job = worker.job
        /\ worker'.pc \in {"loaded", "notLoaded", "idle"}
    BY <1>2, <1>4 DEF InitModel, WorkerGoes, Workers
  <2>5. posted' = posted \/ Posts(Message("notLoaded", worker.job.who), None)
    BY <1>4 DEF InitModel
  <2>6. posted' \in Seq(Posted)
    BY <1>1, <2>2, <2>5, PostsTyped DEF NativeOK
  <2>7. UNCHANGED <<platform, toNative, toDart, plugin, jobs, crashed>>
    BY <1>4 DEF InitModel
  <2> QED
    BY <1>1, <2>1, <2>3, <2>4, <2>6, <2>7 DEF WiresOK, NativeOK, WorkerOK, Loading, Generating
<1>5. CASE InitReturned
  <2>1. worker.job.who \in Selects /\ worker.pc \in {"loaded", "notLoaded"}
    BY <1>1, <1>5 DEF InitReturned, WorkerOK, Loading
  <2>2. Message(worker.pc, worker.job.who) \in Told
    BY <2>1, MessageTyped DEF Answers
  <2>3. plugin' \in Plugins
    BY <1>2, <1>5 DEF InitReturned, Plugins
  <2>4. worker' \in Workers /\ worker'.pc = "idle"
    BY <1>2, <1>5 DEF InitReturned, WorkerGoes, Workers
  <2>5. posted' \in Seq(Posted)
    BY <1>1, <1>5, <2>2, PostsTyped DEF InitReturned
  <2> QED
    BY <1>1, <1>5, <2>3, <2>4, <2>5 DEF InitReturned, WiresOK, NativeOK, WorkerOK, Loading, Generating
<1>6. CASE StreamInit
  <2>1. worker.pc = "init" /\ UNCHANGED <<platform, toNative, toDart, posted, plugin, jobs, crashed>>
    BY <1>6 DEF StreamInit, WorkerAt
  <2>2. bridge' \in Bridges
    <3>1. MaxTokens \in 0 .. MaxTokens
      OBVIOUS
    <3> QED
      BY <1>2, <1>6, <3>1 DEF StreamInit, Bridges
  <2>3. worker' \in Workers /\ worker'.job = worker.job /\ worker'.pc = "next"
    BY <1>2, <1>6 DEF StreamInit, WorkerGoes, Workers
  <2> QED
    BY <1>1, <2>1, <2>2, <2>3 DEF WiresOK, NativeOK, WorkerOK, Loading, Generating
<1>7. CASE StreamNext
  <2>1. worker.pc = "next" /\ UNCHANGED <<platform, toNative, toDart, plugin, jobs>> /\ Generating
    BY <1>7 DEF StreamNext, WorkerAt, Generating
  <2>2. bridge' \in Bridges
    <3>1. bridge' = bridge \/ (~MustEnd /\ bridge' = [bridge EXCEPT !.left = bridge.left - 1])
      BY <1>7 DEF StreamNext
    <3>2. bridge.left \in 0 .. MaxTokens
      BY <1>2 DEF Bridges
    <3>3. ~MustEnd => bridge.left - 1 \in 0 .. MaxTokens
      BY <3>2 DEF MustEnd
    <3> QED
      BY <1>2, <3>1, <3>3 DEF Bridges
  <2>3. worker' \in Workers /\ worker'.job = worker.job /\ worker'.pc \in {"next", "end"}
    BY <1>2, <1>7, <2>1 DEF StreamNext, WorkerGoes, Workers
  <2>4. crashed' \in BOOLEAN
    BY <1>1, <1>7 DEF StreamNext, NativeOK
  <2>5. posted' = posted \/ Emits("token")
    BY <1>7 DEF StreamNext
  <2>6. posted' \in Seq(Posted)
    BY <1>1, <2>1, <2>5, EmitsTyped DEF NativeOK
  <2> QED
    BY <1>1, <2>1, <2>2, <2>3, <2>4, <2>6 DEF WiresOK, NativeOK, WorkerOK, Loading, Generating
<1>8. CASE StreamEnd
  <2>1. worker.pc = "end" /\ UNCHANGED <<platform, toNative, toDart, plugin, jobs, crashed>> /\ Generating
    BY <1>8 DEF StreamEnd, WorkerAt, Generating
  <2>2. bridge' \in Bridges
    <3>1. 0 \in 0 .. MaxTokens
      OBVIOUS
    <3> QED
      BY <1>2, <1>8, <3>1 DEF StreamEnd, Bridges
  <2>3. worker' \in Workers /\ worker'.pc = "idle"
    BY <1>8 DEF StreamEnd, Workers, NoJob, Call, Calls
  <2>4. posted' \in Seq(Posted)
    BY <1>1, <1>8, <2>1, EmitsTyped DEF StreamEnd
  <2> QED
    BY <1>1, <2>1, <2>2, <2>3, <2>4 DEF WiresOK, NativeOK, WorkerOK, Loading, Generating
<1> QED
  BY <1>3, <1>4, <1>5, <1>6, <1>7, <1>8 DEF Worker


LEMMA NativeSame ==
  ASSUME TypesOK, UNCHANGED <<platform, nativeVars>>
  PROVE  NativeOK' /\ WorkerOK'
<1>1. /\ platform' = platform /\ posted' = posted /\ plugin' = plugin /\ jobs' = jobs
      /\ worker' = worker /\ bridge' = bridge /\ crashed' = crashed
  BY DEF nativeVars
<1> QED
  BY <1>1, WorkerSame DEF TypesOK, NativeOK

LEMMA StreamFields ==
  ASSUME DartOK, NEW s \in Streams
  PROVE  /\ stream[s] \in Generations
         /\ \A state \in {"new", "delay", "leaving", "ended", "left", "open", "done", "failed",
                          "cancelled"} :
              Becomes(s, state) => stream' \in [Streams -> Generations]
         /\ \A t \in Streams :
              stream' = [stream EXCEPT ![s].tokens = @ \cup {t}] =>
                stream' \in [Streams -> Generations]
BY DEF DartOK, Generations, Becomes

LEMMA GenerationTypes ==
  ASSUME TypesOK,
         \/ \E s \in Streams, screen \in Screens : Start(s, screen)
         \/ \E s \in Streams : CancelStream(s) \/ Request(s)
         \/ Token \/ End \/ Refused
  PROVE  TypesOK'
<1> USE PluginAssumption
<1>1. WiresOK /\ NativeOK /\ WorkerOK /\ DartOK
  BY DEF TypesOK
<1>2. NativeOK' /\ WorkerOK'
  BY NativeSame DEF Start, CancelStream, Request, Token, End, Refused
<1>3. UNCHANGED <<loaded, session, select, saved, selects>>
  BY DEF Start, CancelStream, Request, Token, End, Refused
<1> SUFFICES WiresOK' /\ handler' \in Streams \cup {None} /\ stream' \in [Streams -> Generations]
  BY <1>1, <1>2, <1>3 DEF TypesOK, DartOK
<1>4. Call("cancel", None, None) \in Sent
  BY CallTyped DEF Commands
<1>5. ASSUME NEW s \in Streams
      PROVE Call("listen", s, None) \in Sent /\ Call("generateStream", s, None) \in Sent
  BY CallTyped DEF Commands
<1>6. stream \in [Streams -> Generations] /\ handler \in Streams \cup {None}
  BY <1>1 DEF DartOK
<1>7. ASSUME NEW s \in Streams, NEW screen \in Screens, Start(s, screen)
      PROVE  WiresOK' /\ handler' \in Streams \cup {None} /\ stream' \in [Streams -> Generations]
  <2>1. stream' \in [Streams -> Generations]
    <3>1. session.path \in Paths \cup {None}
      BY <1>1 DEF DartOK, Sessions
    <3> QED
      BY <1>6, <1>7, <3>1 DEF Start, Begins, Generations
  <2>2. Nothing \notin Told /\ (kept # Nothing => <<kept>> \in Seq(Told))
    BY <1>1 DEF Nothing, Told, Messages, Message, Answers, WiresOK
  <2>3. CASE Listens(s)
    <3>1. toNative' \in Seq(Sent)
      BY <1>1, <1>5, <2>3, SendsTyped DEF Listens
    <3> QED
      BY <1>1, <2>1, <2>2, <2>3, <3>1 DEF Listens, WiresOK
  <2>4. CASE UNCHANGED <<handler, kept, toNative, toDart>>
    BY <1>1, <1>6, <2>1, <2>4 DEF WiresOK, Start
  <2> QED
    BY <1>7, <2>3, <2>4 DEF Start
<1>8. ASSUME NEW s \in Streams, Request(s)
      PROVE  WiresOK' /\ handler' \in Streams \cup {None} /\ stream' \in [Streams -> Generations]
  <2>1. stream' \in [Streams -> Generations]
    BY <1>1, <1>8, StreamFields DEF Request
  <2>2. toNative' \in Seq(Sent)
    <3>1. CASE Sends(Call("generateStream", s, None))
      BY <1>1, <1>5, <3>1, SendsTyped
    <3>2. CASE toNative' = toNative \o <<Call("generateStream", s, None), Call("cancel", None, None)>>
      BY <1>1, <1>4, <1>5, <3>2 DEF WiresOK
    <3> QED
      BY <1>8, <3>1, <3>2 DEF Request
  <2> QED
    BY <1>1, <1>6, <1>8, <2>1, <2>2 DEF Request, WiresOK
<1>9. ASSUME NEW s \in Streams, NEW state \in {"ended", "left", "done", "failed", "cancelled"},
             Unsubscribes(s, state)
      PROVE  /\ toNative' \in Seq(Sent) /\ handler' \in Streams \cup {None}
             /\ stream' \in [Streams -> Generations]
  BY <1>1, <1>4, <1>9, SendsTyped, StreamFields DEF Unsubscribes
<1>10. ASSUME NEW s \in Streams, CancelStream(s)
       PROVE  WiresOK' /\ handler' \in Streams \cup {None} /\ stream' \in [Streams -> Generations]
  <2>1. UNCHANGED <<toDart, kept>>
    BY <1>10 DEF CancelStream
  <2>2. \/ Unsubscribes(s, "cancelled")
        \/ Becomes(s, "leaving") /\ UNCHANGED <<handler, toNative>>
    BY <1>10 DEF CancelStream
  <2> QED
    BY <1>1, <1>6, <1>9, <2>1, <2>2, StreamFields DEF WiresOK
<1>11. CASE Token
  <2>1. toDart' \in Seq(Told) /\ Head(toDart) \in Told /\ Head(toDart).op = "token"
    BY <1>1, <1>11, ReceivesTyped DEF Token
  <2>2. Head(toDart).who \in Streams
    BY <2>1 DEF Told, Answers
  <2>3. stream' \in [Streams -> Generations]
    BY <1>1, <1>6, <1>11, <2>2, StreamFields DEF Token
  <2> QED
    BY <1>1, <1>6, <1>11, <2>1, <2>3 DEF Token, WiresOK
<1>12. CASE End
  <2>1. toDart' \in Seq(Told) /\ Head(toDart) \in Told /\ Head(toDart).op = "end"
    BY <1>1, <1>12, ReceivesTyped DEF End
  <2>2. CASE handler # None
    <3>1. kept' = kept /\ \E state \in {"ended", "left", "done"} : Unsubscribes(handler, state)
      BY <1>1, <1>12, <2>2 DEF End
    <3>2. handler \in Streams
      BY <1>6, <2>2
    <3> QED
      BY <1>1, <1>9, <2>1, <3>1, <3>2 DEF WiresOK
  <2>3. CASE handler = None
    BY <1>1, <1>6, <1>12, <2>1, <2>3 DEF End, WiresOK
  <2> QED
    BY <2>2, <2>3
<1>13. CASE Refused
  <2>1. toDart' \in Seq(Told) /\ Head(toDart) \in Told /\ Head(toDart).op = "refused"
    BY <1>1, <1>13, ReceivesTyped DEF Refused
  <2>2. Head(toDart).who \in Streams
    BY <2>1 DEF Told, Answers
  <2>3. kept' = kept /\ \/ Unsubscribes(Head(toDart).who, "failed")
                        \/ UNCHANGED <<handler, stream, toNative>>
    BY <1>13 DEF Refused
  <2> QED
    BY <1>1, <1>6, <1>9, <2>1, <2>2, <2>3 DEF WiresOK
<1> QED
  BY <1>7, <1>8, <1>10, <1>11, <1>12, <1>13

(* The session's calls, their answers, and what they go on with.           *)
LEMMA SelectFields ==
  ASSUME DartOK, NEW a \in Selects
  PROVE  /\ select[a] \in Selections /\ select[a].path \in Paths \cup {None}
         /\ select[a].attempt \in 0 .. MaxAttempts
         /\ \A pc \in {"idle", "reading", "disposing", "loading", "warming", "dropping",
                       "saving", "clearing", "forgetting", "forgotten"} :
              /\ SelectGoes(a, pc) => select' \in [Selects -> Selections]
              /\ \A path \in Paths \cup {None}, attempt \in 0 .. MaxAttempts :
                   select' = [select EXCEPT ![a] = [pc |-> pc, path |-> path, attempt |-> attempt]]
                     => select' \in [Selects -> Selections]
              /\ \A path \in Paths \cup {None} :
                   select' = [select EXCEPT ![a].pc = pc, ![a].path = path]
                     => select' \in [Selects -> Selections]
         /\ SelectEnds(a) => select' \in [Selects -> Selections]
<1>1. select \in [Selects -> Selections] /\ select[a] \in Selections
  BY DEF DartOK
<1>2. Idle \in Selections
  BY SessionAssumption DEF Idle, Selections
<1>3. select[a].path \in Paths \cup {None} /\ select[a].attempt \in 0 .. MaxAttempts
  BY <1>1 DEF Selections
<1>4. ASSUME NEW pc \in {"idle", "reading", "disposing", "loading", "warming", "dropping",
                        "saving", "clearing", "forgetting", "forgotten"}
      PROVE  /\ [select[a] EXCEPT !.pc = pc] \in Selections
             /\ \A path \in Paths \cup {None}, attempt \in 0 .. MaxAttempts :
                  [pc |-> pc, path |-> path, attempt |-> attempt] \in Selections
             /\ \A path \in Paths \cup {None} :
                  [[select[a] EXCEPT !.pc = pc] EXCEPT !.path = path] \in Selections
  BY <1>1 DEF Selections
<1>5. ASSUME NEW r \in Selections
      PROVE  [select EXCEPT ![a] = r] \in [Selects -> Selections]
  BY <1>1
<1>6. ASSUME NEW pc \in {"idle", "reading", "disposing", "loading", "warming", "dropping",
                        "saving", "clearing", "forgetting", "forgotten"}
      PROVE  /\ SelectGoes(a, pc) => select' \in [Selects -> Selections]
             /\ \A path \in Paths \cup {None}, attempt \in 0 .. MaxAttempts :
                  select' = [select EXCEPT ![a] = [pc |-> pc, path |-> path, attempt |-> attempt]]
                    => select' \in [Selects -> Selections]
             /\ \A path \in Paths \cup {None} :
                  select' = [select EXCEPT ![a].pc = pc, ![a].path = path]
                    => select' \in [Selects -> Selections]
  <2>1. SelectGoes(a, pc) => select' = [select EXCEPT ![a] = [select[a] EXCEPT !.pc = pc]]
    BY DEF SelectGoes
  <2>2. \A path : [select EXCEPT ![a].pc = pc, ![a].path = path]
                     = [select EXCEPT ![a] = [[select[a] EXCEPT !.pc = pc] EXCEPT !.path = path]]
    BY <1>1
  <2>3. SelectGoes(a, pc) => select' \in [Selects -> Selections]
    <3> DEFINE r == [select[a] EXCEPT !.pc = pc]
    <3>1. r \in Selections
      BY <1>4
    <3>2. SelectGoes(a, pc) => select' = [select EXCEPT ![a] = r]
      BY <2>1
    <3> HIDE DEF r
    <3> QED
      BY <1>5, <3>1, <3>2
  <2>4. ASSUME NEW path \in Paths \cup {None}, NEW attempt \in 0 .. MaxAttempts
        PROVE  [select EXCEPT ![a] = [pc |-> pc, path |-> path, attempt |-> attempt]]
                 \in [Selects -> Selections]
    BY <1>4, <1>5
  <2>5. ASSUME NEW path \in Paths \cup {None}
        PROVE  [select EXCEPT ![a].pc = pc, ![a].path = path] \in [Selects -> Selections]
    BY <1>4, <1>5, <2>2
  <2>6. \A path \in Paths \cup {None}, attempt \in 0 .. MaxAttempts :
          select' = [select EXCEPT ![a] = [pc |-> pc, path |-> path, attempt |-> attempt]]
            => select' \in [Selects -> Selections]
    BY ONLY <2>4, Zenon
  <2>7. \A path \in Paths \cup {None} :
          select' = [select EXCEPT ![a].pc = pc, ![a].path = path]
            => select' \in [Selects -> Selections]
    BY ONLY <2>5, Zenon
  <2> QED
    BY ONLY <2>3, <2>6, <2>7, Zenon
<1>7. SelectEnds(a) => select' \in [Selects -> Selections]
  BY <1>2, <1>5 DEF SelectEnds
<1> QED
  BY <1>1, <1>3, <1>6, <1>7

LEMMA AttemptsTyped ==
  ASSUME TypesOK, NEW a \in Selects, NEW path \in Paths \cup {None},
         NEW attempt \in 0 .. MaxAttempts, Attempts(a, path, attempt)
  PROVE  toNative' \in Seq(Sent) /\ select' \in [Selects -> Selections]
<1>1. Call("load", a, path) \in Sent
  BY CallTyped DEF Commands
<1> QED
  BY <1>1, SendsTyped, SelectFields DEF Attempts, TypesOK

LEMMA BeginTyped ==
  ASSUME TypesOK, NEW a \in Selects, NEW path \in Paths \cup {None}, BeginSelect(a, path)
  PROVE  /\ toNative' \in Seq(Sent) /\ select' \in [Selects -> Selections] /\ loaded' = loaded
         /\ session' \in Sessions
<1>1. Call("unload", a, None) \in Sent
  BY CallTyped DEF Commands
<1>2. 0 \in 0 .. MaxAttempts /\ 1 \in 0 .. MaxAttempts
  BY SessionAssumption
<1>3. CASE Attempts(a, path, 1)
  BY <1>2, <1>3, AttemptsTyped DEF BeginSelect, Sessions
<1>4. CASE /\ select' = [select EXCEPT ![a] = [pc |-> "disposing", path |-> path, attempt |-> 0]]
           /\ Sends(Call("unload", a, None))
  BY <1>1, <1>2, <1>4, SendsTyped, SelectFields DEF BeginSelect, TypesOK, Sessions
<1> QED
  BY <1>3, <1>4 DEF BeginSelect, Sessions

LEMMA AnswerTyped ==
  ASSUME WiresOK, NEW a, NEW op, NEW pc, Answered(a, op, pc)
  PROVE  toDart' \in Seq(Told)
BY ReceivesTyped DEF Answered

Session(a) ==
  \/ Initialize(a) \/ ClearModel(a) \/ (\E path \in Paths : SelectModelPath(a, path))
  \/ ActiveRead(a) \/ Disposed(a) \/ LoadSucceeded(a) \/ WarmedUp(a)
  \/ AttemptFailed(a) \/ Dropped(a) \/ Saved(a) \/ Cleared(a) \/ Forgets(a) \/ Forgotten(a)

LEMMA SessionTypes ==
  ASSUME TypesOK, NEW a \in Selects, Session(a)
  PROVE  TypesOK'
<1> USE PluginAssumption, SessionAssumption
<1>1. WiresOK /\ NativeOK /\ WorkerOK /\ DartOK
  BY DEF TypesOK
<1>2. UNCHANGED <<platform, nativeVars, handler, kept, stream>>
  BY DEF Session, Initialize, ClearModel, SelectModelPath, ActiveRead, Disposed, LoadSucceeded,
         WarmedUp, AttemptFailed, Dropped, Saved, Cleared, Forgets, Forgotten
<1>3. NativeOK' /\ WorkerOK'
  BY <1>2, NativeSame
<1> DEFINE Rest == /\ select' \in [Selects -> Selections]
                   /\ loaded' \in [llama: BOOLEAN, engine: BOOLEAN]
                   /\ session' \in Sessions
                   /\ saved' \in Paths \cup {None} /\ selects' \in 0..MaxSelects
<1>4. ASSUME toNative' \in Seq(Sent), toDart' \in Seq(Told), Rest
      PROVE  TypesOK'
  BY <1>1, <1>2, <1>3, <1>4 DEF TypesOK, WiresOK, DartOK
<1> SUFFICES toNative' \in Seq(Sent) /\ toDart' \in Seq(Told) /\ Rest
  BY <1>4
<1>5. /\ toNative \in Seq(Sent) /\ toDart \in Seq(Told)
      /\ select \in [Selects -> Selections]
      /\ loaded \in [llama: BOOLEAN, engine: BOOLEAN]
      /\ session \in Sessions
      /\ saved \in Paths \cup {None} /\ selects \in 0..MaxSelects
  BY <1>1 DEF WiresOK, DartOK
<1>6. /\ session.path \in Paths \cup {None} /\ select[a].path \in Paths \cup {None}
      /\ select[a].attempt \in 0 .. MaxAttempts
      /\ 1 \in 0 .. MaxAttempts
  <2>1. session.path \in Paths \cup {None}
    BY <1>5 DEF Sessions
  <2>2. select[a].path \in Paths \cup {None} /\ select[a].attempt \in 0 .. MaxAttempts
    BY <1>1, SelectFields
  <2>3. 1 \in 0 .. MaxAttempts
    OBVIOUS
  <2> QED
    BY <2>1, <2>2, <2>3
<1>7. Call("unload", a, None) \in Sent /\ Call("generate", a, None) \in Sent
  BY CallTyped DEF Commands
<1>8. CASE SessionCall(a)
  <2>1. selects' \in 0..MaxSelects
    BY <1>5, <1>8 DEF SessionCall
  <2>2. CASE Initialize(a)
    BY <1>1, <1>5, <2>1, <2>2, SelectFields DEF Initialize
  <2>3. CASE ClearModel(a)
    BY <1>1, <1>5, <1>7, <2>1, <2>3, SendsTyped, SelectFields DEF ClearModel
  <2>4. ASSUME NEW path \in Paths, SelectModelPath(a, path)
        PROVE  toNative' \in Seq(Sent) /\ toDart' \in Seq(Told) /\ Rest
    BY <1>5, <2>1, <2>4, BeginTyped DEF SelectModelPath
  <2>5. select[a].pc = "idle"
    BY <1>8 DEF SessionCall
  <2> QED
    BY <2>2, <2>3, <2>4, <2>5 DEF Session, ActiveRead, Disposed, LoadSucceeded, WarmedUp,
      AttemptFailed, Dropped, Saved, Cleared, Forgets, Forgotten, Answered
<1>9. CASE ActiveRead(a)
  <2>1. CASE saved # None /\ BeginSelect(a, saved) /\ UNCHANGED saved
    BY <1>5, <1>9, <2>1, BeginTyped DEF ActiveRead
  <2>2. ASSUME saved' = None, NEW path \in Paths \ {saved}, BeginSelect(a, path)
        PROVE  toNative' \in Seq(Sent) /\ toDart' \in Seq(Told) /\ Rest
    BY <1>5, <1>9, <2>2, BeginTyped DEF ActiveRead
  <2>3. CASE /\ saved' = None /\ session' = [session EXCEPT !.path = None, !.failed = FALSE]
             /\ SelectEnds(a) /\ UNCHANGED <<toNative, loaded>>
    BY <1>1, <1>5, <1>9, <2>3, SelectFields DEF ActiveRead, Sessions
  <2> QED
    BY <1>9, <2>1, <2>2, <2>3 DEF ActiveRead
<1>10. CASE Disposed(a)
  BY <1>1, <1>5, <1>6, <1>10, AnswerTyped, AttemptsTyped DEF Disposed
<1>11. CASE LoadSucceeded(a)
  <2>1. toDart' \in Seq(Told) /\ UNCHANGED <<saved, selects>>
    BY <1>1, <1>11, AnswerTyped DEF LoadSucceeded
  <2>2. CASE /\ loaded' = [loaded EXCEPT !.llama = TRUE] /\ SelectGoes(a, "warming")
             /\ Sends(Call("generate", a, None)) /\ UNCHANGED session
    BY <1>1, <1>5, <1>7, <2>1, <2>2, SendsTyped, SelectFields
  <2>3. CASE Ready(a) /\ UNCHANGED toNative
    BY <1>1, <1>5, <1>6, <2>1, <2>3, SelectFields DEF Ready, Sessions
  <2> QED
    BY <1>11, <2>2, <2>3 DEF LoadSucceeded
<1>12. CASE WarmedUp(a)
  BY <1>1, <1>5, <1>6, <1>12, AnswerTyped, SelectFields DEF WarmedUp, Sessions
<1>13. CASE AttemptFailed(a)
  <2>1. toDart' \in Seq(Told)
    BY <1>1, <1>13, AnswerTyped DEF AttemptFailed
  <2> QED
    BY <1>1, <1>5, <1>7, <1>13, <2>1, SendsTyped, SelectFields DEF AttemptFailed
<1>14. CASE Dropped(a)
  <2>1. /\ toDart' \in Seq(Told) /\ UNCHANGED <<saved, selects>>
        /\ loaded' \in [llama: BOOLEAN, engine: BOOLEAN]
    BY <1>1, <1>5, <1>14, AnswerTyped DEF Dropped
  <2>2. CASE /\ select[a].attempt < MaxAttempts
             /\ Attempts(a, select[a].path, select[a].attempt + 1)
             /\ UNCHANGED session
    <3>1. select[a].attempt + 1 \in 0 .. MaxAttempts
      BY <1>6, <2>2
    <3> QED
      BY <1>5, <1>6, <2>1, <2>2, <3>1, AttemptsTyped
  <2>3. CASE /\ session' = [session EXCEPT !.loading = FALSE, !.failed = TRUE]
             /\ SelectEnds(a) /\ UNCHANGED toNative
    BY <1>1, <1>5, <2>1, <2>3, SelectFields DEF Sessions
  <2> QED
    BY <1>14, <2>2, <2>3 DEF Dropped
<1>15. CASE Saved(a)
  BY <1>1, <1>5, <1>6, <1>15, SelectFields DEF Saved, Sessions
<1>16. CASE Cleared(a)
  BY <1>1, <1>5, <1>16, AnswerTyped, SelectFields DEF Cleared
<1>17. CASE Forgets(a)
  BY <1>1, <1>5, <1>17, SelectFields DEF Forgets
<1>18. CASE Forgotten(a)
  BY <1>1, <1>5, <1>18, SelectFields DEF Forgotten, Sessions
<1> QED
  BY <1>8, <1>9, <1>10, <1>11, <1>12, <1>13, <1>14, <1>15, <1>16, <1>17, <1>18
     DEF Session, Initialize, ClearModel, SelectModelPath

LEMMA InitTypes == Init => TypesOK
<1> SUFFICES ASSUME Init PROVE TypesOK
  OBVIOUS
<1> USE PluginAssumption, SessionAssumption
<1>1. WiresOK
  BY DEF Init, PluginInit, WiresOK
<1>2. NativeOK
  <2>1. 0 \in 0 .. MaxTokens
    OBVIOUS
  <2>2. posted \in Seq(Posted)
    BY DEF Init, PluginInit
  <2> QED
    BY <2>1, <2>2 DEF Init, PluginInit, NativeOK, Plugins, Bridges
<1>3. WorkerOK
  BY DEF Init, PluginInit, WorkerOK, Workers, Loading, Generating, NoJob, Call, Calls
<1>4. DartOK
  <2>1. 0 \in 0 .. MaxAttempts /\ 0 \in 0 .. MaxSelects
    OBVIOUS
  <2>2. Idle \in Selections
    BY <2>1 DEF Idle, Selections
  <2>3. [state |-> "new", screen |-> "chat", path |-> None, tokens |-> {}] \in Generations
    BY DEF Generations, Screens
  <2> QED
    BY <2>1, <2>2, <2>3 DEF Init, DartOK, Sessions
<1> QED
  BY <1>1, <1>2, <1>3, <1>4 DEF TypesOK

(* The steps, sorted by what they are about.                               *)
Generation ==
  \/ \E s \in Streams, screen \in Screens : Start(s, screen)
  \/ \E s \in Streams : CancelStream(s) \/ Request(s)
  \/ Token \/ End \/ Refused

LEMMA Steps ==
  ASSUME [Next]_vars
  PROVE  \/ Generation
         \/ \E a \in Selects : Session(a)
         \/ MainThread /\ UNCHANGED dartVars
         \/ Worker /\ UNCHANGED dartVars
         \/ UNCHANGED vars
BY DEF Next, User, EventLoop, NativeStep, PluginNext, Generation, Session

LEMMA NextTypes == TypesOK /\ [Next]_vars => TypesOK'
<1> SUFFICES ASSUME TypesOK, [Next]_vars PROVE TypesOK'
  OBVIOUS
<1>1. CASE Generation
  BY <1>1, GenerationTypes DEF Generation
<1>2. ASSUME NEW a \in Selects, Session(a) PROVE TypesOK'
  BY <1>2, SessionTypes
<1>3. CASE MainThread /\ UNCHANGED dartVars
  BY <1>3, MainTypes
<1>4. CASE Worker /\ UNCHANGED dartVars
  BY <1>4, WorkerTypes
<1>5. CASE UNCHANGED vars
  <2>1. UNCHANGED dartVars /\ UNCHANGED <<platform, nativeVars>> /\ UNCHANGED <<toNative, toDart>>
    BY <1>5 DEF vars, pluginVars
  <2>2. DartOK' /\ kept' = kept /\ NativeOK' /\ WorkerOK'
    BY <2>1, DartSame, NativeSame DEF TypesOK
  <2> QED
    BY <2>1, <2>2 DEF TypesOK, WiresOK
<1> QED
  BY <1>1, <1>2, <1>3, <1>4, <1>5, Steps

(* Every call, job and event on its way is of a generation or of a         *)
(* selection, as its kind requires: the handlers trust the plugin in that. *)
THEOREM SessionTypesKept == Spec => []TypesOK
BY InitTypes, NextTypes, PTL DEF Spec

(* Both halves keep their types, whatever overlaps: a selection makes at   *)
(* most MaxAttempts attempts, the tokens left are never below none, and    *)
(* the messages are those the handlers know.                               *)
THEOREM SessionTypeCorrect == Spec => []SessionTypeOK
BY SessionTypesKept, TypesSuffice, PTL

(* What the session does to the wires: it sends a command, at most, and    *)
(* takes an answer.                                                        *)
LEMMA SessionWires ==
  ASSUME TypesOK, NEW a \in Selects, Session(a)
  PROVE  /\ UNCHANGED <<platform, nativeVars, handler, kept, stream>>
         /\ toNative' = toNative \/ \E c \in Sent : c.op \in Commands /\ Sends(c)
         /\ \/ toDart' = toDart
            \/ toDart # <<>> /\ toDart' = Tail(toDart) /\ Head(toDart).op \in Answers
<1>1. UNCHANGED <<platform, nativeVars, handler, kept, stream>>
  BY DEF Session, Initialize, ClearModel, SelectModelPath, ActiveRead, Disposed, LoadSucceeded,
         WarmedUp, AttemptFailed, Dropped, Saved, Cleared, Forgets, Forgotten
<1>2. \/ toDart' = toDart
      \/ toDart # <<>> /\ toDart' = Tail(toDart) /\ Head(toDart).op \in Answers
  BY DEF Session, Initialize, ClearModel, SelectModelPath, ActiveRead, Disposed, LoadSucceeded,
         WarmedUp, AttemptFailed, Dropped, Saved, Cleared, Forgets, Forgotten, Answered, Receives,
         Answers
<1> DEFINE Wired == toNative' = toNative \/ \E c \in Sent : c.op \in Commands /\ Sends(c)
<1> SUFFICES Wired
  BY <1>1, <1>2
<1>3. /\ saved \in Paths \cup {None} /\ select[a].path \in Paths \cup {None}
      /\ Call("unload", a, None) \in Sent /\ Call("unload", a, None).op \in Commands
      /\ Call("generate", a, None) \in Sent /\ Call("generate", a, None).op \in Commands
  <2>1. select[a].path \in Paths \cup {None}
    BY SelectFields DEF TypesOK
  <2> QED
    BY <2>1, CallTyped DEF TypesOK, DartOK, Commands
<1>4. ASSUME NEW path \in Paths \cup {None}
      PROVE  Call("load", a, path) \in Sent /\ Call("load", a, path).op \in Commands
  BY CallTyped DEF Commands
<1>5. ASSUME NEW path \in Paths \cup {None}, BeginSelect(a, path) PROVE Wired
  BY <1>3, <1>4, <1>5 DEF BeginSelect, Attempts
<1>6. CASE \E path \in Paths : SelectModelPath(a, path)
  BY <1>5, <1>6 DEF SelectModelPath
<1>7. CASE ActiveRead(a)
  BY <1>3, <1>5, <1>7 DEF ActiveRead
<1>8. CASE Disposed(a) \/ Dropped(a)
  BY <1>3, <1>4, <1>8 DEF Disposed, Dropped, Attempts
<1>9. CASE LoadSucceeded(a) \/ AttemptFailed(a) \/ ClearModel(a)
  BY <1>3, <1>9 DEF LoadSucceeded, AttemptFailed, ClearModel
<1>10. CASE Initialize(a) \/ WarmedUp(a) \/ Saved(a) \/ Cleared(a) \/ Forgets(a) \/ Forgotten(a)
  BY <1>10 DEF Initialize, WarmedUp, Saved, Cleared, Forgets, Forgotten
<1> QED
  BY <1>6, <1>7, <1>8, <1>9, <1>10 DEF Session

-----------------------------------------------------------------------------
(* Only the worker crashes, on a context that MustEnd has not asked for.   *)
LEMMA AndroidStep ==
  ASSUME AndroidKeepsContext, [Next]_vars
  PROVE  AndroidKeepsContext'
<1>1. CASE Generation
  BY <1>1 DEF Generation, Start, CancelStream, Request, Token, End, Refused, nativeVars,
              AndroidKeepsContext
<1>2. ASSUME NEW a \in Selects, Session(a) PROVE AndroidKeepsContext'
  <2>1. UNCHANGED <<platform, nativeVars>>
    BY <1>2 DEF Session, Initialize, ClearModel, SelectModelPath, ActiveRead, Disposed,
         LoadSucceeded, WarmedUp, AttemptFailed, Dropped, Saved, Cleared, Forgets, Forgotten
  <2> QED
    BY <2>1 DEF nativeVars, AndroidKeepsContext
<1>3. CASE MainThread
  BY <1>3 DEF MainThread, RunPosted, OnListen, OnCancel, GenerateStream, Generate, LoadModel, UnloadModel,
              Unloaded, AndroidKeepsContext
<1>4. CASE Worker
  <2>1. platform' = platform
    BY <1>4 DEF Worker, StartJob, InitModel, InitReturned, StreamInit, StreamNext, StreamEnd
  <2>2. CASE StreamNext
    BY <2>1, <2>2 DEF StreamNext, MustEnd, AndroidKeepsContext
  <2>3. CASE crashed' = crashed
    BY <2>1, <2>3 DEF AndroidKeepsContext
  <2> QED
    BY <1>4, <2>2, <2>3 DEF Worker, StartJob, InitModel, InitReturned, StreamInit, StreamEnd
<1>5. CASE UNCHANGED vars
  BY <1>5 DEF vars, pluginVars, nativeVars, AndroidKeepsContext
<1> QED
  BY <1>1, <1>2, <1>3, <1>4, <1>5, Steps

(* Whatever overlaps, and whenever the model is unloaded, Android never    *)
(* samples from a context that was freed.                                  *)
THEOREM AndroidNeverCrashes == Spec => []AndroidKeepsContext
<1>1. Init => AndroidKeepsContext
  BY DEF Init, PluginInit, AndroidKeepsContext
<1> QED
  BY <1>1, AndroidStep, PTL DEF Spec
=============================================================================
