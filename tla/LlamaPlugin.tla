----------------------------- MODULE LlamaPlugin -----------------------------
(***************************************************************************)
(* The native half of flutter_llama: the plugin (FlutterLlamaPlugin.kt and *)
(* .swift), its single worker thread, and the llama.cpp bridge with its    *)
(* global state.  Method calls run on the main thread; loading and         *)
(* generation run on the worker; every bridge function holds g_mutex, so   *)
(* each is one action.                                                     *)
(*                                                                         *)
(* Flutter itself is external: messages travel in order each way, an event *)
(* channel has one active sink, and events carry no name but the channel's.*)
(***************************************************************************)
EXTENDS Naturals, Sequences

CONSTANTS
  Streams,    \* generations asked for, one per call of generateStream
  Selects,    \* activations of session methods that load or unload
  Paths,      \* model files
  Platforms,  \* platforms to consider, among "android" and "ios"
  MaxTokens,  \* bound: maxTokens of a generation
  None

ASSUME PluginAssumption ==
  /\ Streams \cap Selects = {}
  /\ None \notin Streams \cup Selects \cup Paths
  /\ Platforms \subseteq {"android", "ios"}
  /\ MaxTokens \in Nat

VARIABLES
  platform,  \* where the app runs
  toNative,  \* calls on their way to the main thread
  toDart,    \* events and replies on their way to Dart
  posted,    \* what the worker has posted to the main thread, and the sink it is for
  plugin,    \* the plugin's fields
  jobs,      \* what the worker has still to do
  worker,    \* what the worker is doing
  bridge,    \* the bridge's globals
  crashed    \* the bridge used a context that was freed

nativeVars == <<posted, plugin, jobs, worker, bridge, crashed>>
pluginVars == <<platform, toNative, toDart, nativeVars>>

Call(op, who, path) == [op |-> op, who |-> who, path |-> path, sink |-> None]
Calls == [op: {"listen", "cancel", "generateStream", "generate", "load", "unload"},
          who: Streams \cup Selects \cup {None}, path: Paths \cup {None},
          sink: Streams \cup {None}]

(* who is the generation an event comes from, or the caller a reply is for *)
Message(op, who) == [op |-> op, who |-> who]
Messages == [op: {"token", "end", "refused", "loaded", "notLoaded",
                  "unloaded", "warm", "notWarm"},
             who: Streams \cup Selects]

NoJob == Call("cancel", None, None)

PluginTypeOK ==
  /\ platform \in Platforms
  /\ toNative \in Seq(Calls)
  /\ toDart \in Seq(Messages)
  /\ posted \in Seq([message: Messages, sink: Streams \cup {None}])
  /\ plugin \in [sink: Streams \cup {None}, modelLoaded: BOOLEAN,
                 shouldStop: BOOLEAN, unloading: Selects \cup {None}]
  /\ jobs \in Seq(Calls)
  /\ worker \in [pc: {"idle", "load", "loaded", "notLoaded", "init", "next", "end"},
                 job: Calls]
  /\ bridge \in [model: Paths \cup {None},  \* g_model, g_context, g_vocab, g_sampler
                 stop: BOOLEAN,             \* g_should_stop
                 active: BOOLEAN,           \* g_stream_active
                 left: 0..MaxTokens]        \* tokens before the maximum
  /\ crashed \in BOOLEAN

PluginInit ==
  /\ platform \in Platforms
  /\ toNative = <<>> /\ toDart = <<>> /\ posted = <<>> /\ jobs = <<>>
  /\ plugin = [sink |-> None, modelLoaded |-> FALSE, shouldStop |-> FALSE,
               unloading |-> None]
  /\ worker = [pc |-> "idle", job |-> NoJob]
  /\ bridge = [model |-> None, stop |-> FALSE, active |-> FALSE, left |-> 0]
  /\ crashed = FALSE

Sends(c)  == toNative' = Append(toNative, c)
Replies(m) == toDart' = Append(toDart, m)
Posts(m, sink) == posted' = Append(posted, [message |-> m, sink |-> sink])

(* The main thread is not inside unloadModel.                              *)
MainIsFree == plugin.unloading = None

Takes(op) ==
  /\ ~crashed /\ MainIsFree
  /\ toNative # <<>> /\ Head(toNative).op = op
  /\ toNative' = Tail(toNative)

(* onCancel: stops whatever generation is running, on iOS in the bridge too *)
Stopping ==
  /\ plugin' = [plugin EXCEPT !.sink = None, !.shouldStop = TRUE]
  /\ bridge' = [bridge EXCEPT !.stop = @ \/ platform = "ios"]

(* onListen: Flutter separates two onListen by an onCancel.                *)
OnListen ==
  /\ Takes("listen")
  /\ plugin' = [plugin EXCEPT !.sink = Head(toNative).who,
                              !.shouldStop = @ \/ plugin.sink # None]
  /\ bridge' = [bridge EXCEPT !.stop =
                  @ \/ (platform = "ios" /\ plugin.sink # None)]
  /\ UNCHANGED <<platform, toDart, posted, jobs, worker, crashed>>

OnCancel ==
  /\ Takes("cancel")
  /\ \/ plugin.sink # None /\ Stopping
     \/ plugin.sink = None /\ UNCHANGED <<plugin, bridge>>
  /\ UNCHANGED <<platform, toDart, posted, jobs, worker, crashed>>

(* The sink used by the job is the one in place now.                       *)
GenerateStream ==
  /\ Takes("generateStream")
  /\ LET call == Head(toNative) IN
     \/ /\ plugin.modelLoaded /\ plugin.sink # None
        /\ jobs' = Append(jobs, [call EXCEPT !.sink = plugin.sink])
        /\ UNCHANGED toDart
     \/ /\ ~plugin.modelLoaded \/ plugin.sink = None
        /\ Replies(Message("refused", call.who))
        /\ UNCHANGED jobs
  /\ UNCHANGED <<platform, posted, plugin, worker, bridge, crashed>>

Generate ==
  /\ Takes("generate")
  /\ \/ /\ plugin.modelLoaded
        /\ jobs' = Append(jobs, Head(toNative))
        /\ UNCHANGED toDart
     \/ /\ ~plugin.modelLoaded
        /\ Replies(Message("notWarm", Head(toNative).who))
        /\ UNCHANGED jobs
  /\ UNCHANGED <<platform, posted, plugin, worker, bridge, crashed>>

LoadModel ==
  /\ Takes("load")
  /\ jobs' = Append(jobs, Head(toNative))
  /\ UNCHANGED <<platform, toDart, posted, plugin, worker, bridge, crashed>>

(* unloadModel frees the model while the worker may be generating with it. *)
UnloadModel ==
  /\ Takes("unload")
  /\ LET who == Head(toNative).who IN
     \/ /\ plugin.modelLoaded
        /\ bridge' = [bridge EXCEPT !.model = None]
        /\ plugin' = [plugin EXCEPT !.unloading = who]
        /\ UNCHANGED toDart
     \/ /\ ~plugin.modelLoaded
        /\ Replies(Message("unloaded", who))
        /\ UNCHANGED <<bridge, plugin>>
  /\ UNCHANGED <<platform, posted, jobs, worker, crashed>>

Unloaded ==
  /\ ~crashed /\ ~MainIsFree
  /\ plugin' = [plugin EXCEPT !.modelLoaded = FALSE, !.unloading = None]
  /\ Replies(Message("unloaded", plugin.unloading))
  /\ UNCHANGED <<platform, toNative, posted, jobs, worker, bridge, crashed>>

(* What the worker posted, when the main thread gets to it.  Android drops *)
(* the events of a sink that is no longer the active one, iOS sends them.  *)
RunPosted ==
  /\ ~crashed /\ MainIsFree /\ posted # <<>>
  /\ posted' = Tail(posted)
  /\ LET post == Head(posted) IN
     \/ post.sink \in {None, plugin.sink} /\ Replies(post.message)
     \/ post.sink \notin {None, plugin.sink} /\ UNCHANGED toDart
  /\ UNCHANGED <<platform, toNative, plugin, jobs, worker, bridge, crashed>>

MainThread ==
  \/ RunPosted \/ OnListen \/ OnCancel \/ GenerateStream \/ Generate
  \/ LoadModel \/ UnloadModel \/ Unloaded
-----------------------------------------------------------------------------
(* The worker thread.                                                      *)

WorkerAt(pc) == ~crashed /\ worker.pc = pc
WorkerGoes(pc) == worker' = [worker EXCEPT !.pc = pc]

Emits(op) ==
  Posts(Message(op, worker.job.who),
        IF platform = "android" THEN worker.job.sink ELSE None)

StartJob ==
  /\ WorkerAt("idle") /\ jobs # <<>>
  /\ jobs' = Tail(jobs)
  /\ LET job == Head(jobs) IN
     \/ /\ job.op = "load"
        /\ worker' = [pc |-> "load", job |-> job]
        /\ UNCHANGED <<plugin, bridge, posted>>
     \/ /\ job.op = "generateStream"
        /\ plugin' = [plugin EXCEPT !.shouldStop = FALSE]
        /\ worker' = [pc |-> "init", job |-> job]
        /\ UNCHANGED <<bridge, posted>>
     \/ /\ job.op = "generate"          \* one token, all under g_mutex
        /\ plugin' = [plugin EXCEPT !.shouldStop = FALSE]
        /\ \/ /\ bridge.model # None
              /\ bridge' = [bridge EXCEPT !.stop = FALSE]
              /\ Posts(Message("warm", job.who), None)
           \/ /\ Posts(Message("notWarm", job.who), None)
              /\ UNCHANGED bridge
        /\ UNCHANGED worker
  /\ UNCHANGED <<platform, toNative, toDart, crashed>>

(* llama_init_model frees the model in place, whether or not it succeeds.  *)
InitModel ==
  /\ WorkerAt("load")
  /\ \/ /\ bridge' = [bridge EXCEPT !.model = worker.job.path]
        /\ WorkerGoes("loaded") /\ UNCHANGED posted
     \/ /\ bridge' = [bridge EXCEPT !.model = None]
        /\ WorkerGoes("notLoaded") /\ UNCHANGED posted
     \/ /\ Posts(Message("notLoaded", worker.job.who), None)    \* no such file
        /\ WorkerGoes("idle") /\ UNCHANGED bridge
  /\ UNCHANGED <<platform, toNative, toDart, plugin, jobs, crashed>>

(* modelLoaded = success, after the bridge has released its mutex.         *)
InitReturned ==
  /\ ~crashed /\ worker.pc \in {"loaded", "notLoaded"}
  /\ plugin' = [plugin EXCEPT !.modelLoaded = worker.pc = "loaded"]
  /\ Posts(Message(worker.pc, worker.job.who), None)
  /\ WorkerGoes("idle")
  /\ UNCHANGED <<platform, toNative, toDart, jobs, bridge, crashed>>

(* Clears the memory, decodes the prompt; nothing changes without a model. *)
StreamInit ==
  /\ WorkerAt("init")
  /\ \/ /\ bridge.model # None
        /\ \E decoded \in BOOLEAN :
             bridge' = [bridge EXCEPT !.stop = FALSE, !.active = decoded,
                                      !.left = MaxTokens]
     \/ bridge.model = None /\ UNCHANGED bridge
  /\ WorkerGoes("next")
  /\ UNCHANGED <<platform, toNative, toDart, posted, plugin, jobs, crashed>>

(* A slip: the tokens are not counted. *)
MustEndUncounted ==
  \/ ~bridge.active \/ bridge.stop
  \/ platform = "android" /\ bridge.model = None

(* A slip: the context is not asked for. *)
MustEndUnguarded == ~bridge.active \/ bridge.stop \/ bridge.left = 0

(* nativeGenerateStreamNext asks for all of it; llama_generate_stream_next *)
(* does not ask whether there is a context.                                *)
MustEnd ==
  \/ ~bridge.active \/ bridge.stop \/ bridge.left = 0
  \/ platform = "android" /\ bridge.model = None

(* The loop over the tokens.  Text the iOS bridge holds back for a stop    *)
(* sequence is not told apart from the last token.                         *)
StreamNext ==
  /\ WorkerAt("next")
  /\ \/ /\ plugin.shouldStop \/ MustEnd
        /\ WorkerGoes("end") /\ UNCHANGED <<bridge, crashed, posted>>
     \/ /\ ~plugin.shouldStop /\ ~MustEnd
        /\ \/ /\ bridge.model # None
              /\ bridge' = [bridge EXCEPT !.left = @ - 1]
              /\ Emits("token") /\ UNCHANGED <<worker, crashed>>
           \/ /\ bridge.model # None                  \* end of generation
              /\ WorkerGoes("end") /\ UNCHANGED <<bridge, crashed, posted>>
           \/ /\ bridge.model = None
              /\ crashed' = TRUE /\ UNCHANGED <<bridge, worker, posted>>
  /\ UNCHANGED <<platform, toNative, toDart, plugin, jobs>>

StreamEnd ==
  /\ WorkerAt("end")
  /\ bridge' = [bridge EXCEPT !.active = FALSE, !.left = 0]
  /\ Emits("end")
  /\ worker' = [pc |-> "idle", job |-> NoJob]
  /\ UNCHANGED <<platform, toNative, toDart, plugin, jobs, crashed>>

Worker == StartJob \/ InitModel \/ InitReturned \/ StreamInit \/ StreamNext \/ StreamEnd

PluginNext == MainThread \/ Worker
=============================================================================
