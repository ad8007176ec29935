----------------------------- MODULE AyaSession -----------------------------
(***************************************************************************)
(* The Dart half: AyaSessionController, AyaEngine and FlutterLlama, with   *)
(* the translate and chat screens that listen to generations, on top of    *)
(* the native plugin.  One action is what Dart runs up to the next await.  *)
(***************************************************************************)
EXTENDS LlamaPlugin

CONSTANTS
  MaxAttempts,    \* load configurations tried: _loadAttempts
  MaxSelects,     \* bound: models selected or cleared
  OverlapSelects, \* whether a model may be selected while another is loaded
  OverlapStreams  \* whether both screens may generate at the same time

ASSUME SessionAssumption ==
  /\ MaxAttempts \in Nat \ {0} /\ MaxSelects \in Nat
  /\ OverlapSelects \in BOOLEAN /\ OverlapStreams \in BOOLEAN

VARIABLES
  handler,  \* the generation whose handler is set on the channel's name
  kept,     \* the last event that found no handler: Flutter keeps one
  stream,   \* stream[s]: the generation s as its screen sees it
  loaded,   \* loaded.llama is _isModelLoaded, loaded.engine is _loaded
  session,  \* AyaSessionController's fields; failed: what _status says
  select,   \* select[a]: an activation of selectModelPath or clearModelIfDeleted
  saved,    \* the active model in the preferences
  selects   \* models selected or cleared so far

dartVars == <<handler, kept, stream, loaded, session, select, saved, selects>>
vars == <<pluginVars, dartVars>>

Screens == {"translate", "chat"}
Open == {"delay", "ended", "open"}    \* the screen waits for the generation
Nothing == Message("end", None)

SessionTypeOK ==
  /\ PluginTypeOK
  /\ handler \in Streams \cup {None}
  /\ kept \in Messages \cup {Nothing}
  /\ stream \in [Streams -> [
       state: {"new", "delay", "leaving", "ended", "left", "open",
               "done", "failed", "cancelled"},
       screen: Screens, path: Paths \cup {None},
       tokens: SUBSET Streams]]          \* generations it received tokens of
  /\ loaded \in [llama: BOOLEAN, engine: BOOLEAN]
  /\ session \in [path: Paths \cup {None}, loading: BOOLEAN, failed: BOOLEAN]
  /\ select \in [Selects -> [
       pc: {"idle", "reading", "disposing", "loading", "warming", "dropping", "saving",
            "clearing", "forgetting", "forgotten"},
       path: Paths \cup {None}, attempt: 0..MaxAttempts]]
  /\ saved \in Paths \cup {None}
  /\ selects \in 0..MaxSelects

Idle == [pc |-> "idle", path |-> None, attempt |-> 0]

Init ==
  /\ PluginInit
  /\ handler = None /\ kept = Nothing
  /\ stream = [s \in Streams |-> [state |-> "new", screen |-> "chat",
                                  path |-> None, tokens |-> {}]]
  /\ loaded = [llama |-> FALSE, engine |-> FALSE]
  /\ session = [path |-> None, loading |-> FALSE, failed |-> FALSE]
  /\ select = [a \in Selects |-> Idle]
  /\ saved \in Paths \cup {None}
  /\ selects = 0

Waiting(s) == stream[s].state \in Open
Becomes(s, state) == stream' = [stream EXCEPT ![s].state = state]

(* A message in flight or a delay of zero is a matter of microseconds: no  *)
(* user acts in between, though the worker may take any time.              *)
Settled ==
  /\ toNative = <<>> /\ toDart = <<>> /\ posted = <<>> /\ MainIsFree
  /\ \A s \in Streams : stream[s].state \notin {"delay", "ended", "leaving", "left"}

-----------------------------------------------------------------------------
(* Generations: translate and _send, generateChatReply and translateText,  *)
(* FlutterLlama.generateStream.                                            *)

(* The handler of an event channel is set by name: a second listener takes *)
(* the place of the first.  A kept event is delivered to it.               *)
Listens(s) ==
  /\ handler' = s
  /\ Sends(Call("listen", s, None))
  /\ toDart' = IF kept = Nothing THEN toDart ELSE <<kept>>
  /\ kept' = Nothing

Begins(s, screen, state) ==
  stream' = [stream EXCEPT ![s] = [state |-> state, screen |-> screen,
                                   path |-> session.path, tokens |-> {}]]

(* A slip: the screen does not ask whether it is generating. *)
StartUnguarded(s, screen) ==
  /\ stream[s].state = "new"
  /\ Settled
  /\ loaded.engine /\ loaded.llama
  /\ Begins(s, screen, "delay") /\ Listens(s)
  /\ UNCHANGED <<platform, nativeVars, loaded, session, select, saved, selects>>

Start(s, screen) ==
  /\ stream[s].state = "new"
  /\ Settled
  /\ loaded.engine
  /\ \A t \in Streams : Waiting(t) => OverlapStreams /\ stream[t].screen # screen
  /\ \/ loaded.llama /\ Begins(s, screen, "delay") /\ Listens(s)
     \/ /\ ~loaded.llama /\ Begins(s, screen, "failed")
        /\ UNCHANGED <<handler, kept, toNative, toDart>>
  /\ UNCHANGED <<platform, nativeVars, loaded, session, select, saved, selects>>

(* After Future.delayed(Duration.zero).  A generator cancelled meanwhile   *)
(* runs on to its next yield, so it still asks for the generation; so does *)
(* one whose channel has ended.                                            *)
Request(s) ==
  /\ \/ /\ stream[s].state = "delay"  /\ Becomes(s, "open")
     \/ /\ stream[s].state = "ended"  /\ Becomes(s, "done")
     \/ /\ stream[s].state \in {"leaving", "left"} /\ Becomes(s, "cancelled")
  /\ LET request == Call("generateStream", s, None) IN
     IF stream[s].state = "leaving"
     THEN /\ toNative' = toNative \o <<request, Call("cancel", None, None)>>
          /\ handler' = None
     ELSE Sends(request) /\ UNCHANGED handler
  /\ UNCHANGED <<platform, toDart, nativeVars, kept, loaded, session, select, saved, selects>>

(* The subscription ends: the channel's handler is removed, by name.       *)
Unsubscribes(s, state) ==
  /\ Becomes(s, state)
  /\ handler' = None
  /\ Sends(Call("cancel", None, None))

(* The source text is cleared, or the screen is disposed of because the    *)
(* session's path, its key, has changed.                                   *)
CancelStream(s) ==
  /\ Waiting(s)
  /\ \/ stream[s].screen = "translate" /\ Settled
     \/ stream[s].path # session.path
  /\ \/ stream[s].state = "open" /\ Unsubscribes(s, "cancelled")
     \/ /\ stream[s].state = "delay" /\ Becomes(s, "leaving")
        /\ UNCHANGED <<handler, toNative>>
  /\ UNCHANGED <<platform, toDart, nativeVars, kept, loaded, session, select, saved, selects>>

Receives(op) == toDart # <<>> /\ Head(toDart).op = op /\ toDart' = Tail(toDart)

(* An event of the channel goes to whichever handler is set.               *)
Token ==
  /\ Receives("token")
  /\ \/ /\ handler # None
        /\ stream' = [stream EXCEPT ![handler].tokens = @ \cup {Head(toDart).who}]
        /\ UNCHANGED kept
     \/ handler = None /\ kept' = Head(toDart) /\ UNCHANGED stream
  /\ UNCHANGED <<platform, toNative, nativeVars, handler, loaded, session, select,
                 saved, selects>>

(* A generator that has not asked yet goes on to do so.                    *)
End ==
  /\ Receives("end")
  /\ \/ /\ handler # None
        /\ LET state == stream[handler].state IN
           Unsubscribes(handler, CASE state = "delay" -> "ended"
                                   [] state = "leaving" -> "left"
                                   [] OTHER -> "done")
        /\ UNCHANGED kept
     \/ /\ handler = None
        /\ kept' = Head(toDart) /\ UNCHANGED <<handler, stream, toNative>>
  /\ UNCHANGED <<platform, nativeVars, loaded, session, select, saved, selects>>

(* A slip: only the closing of the stream is passed on, not an error. *)
RefusedUnheard ==
  /\ Receives("refused")
  /\ UNCHANGED <<platform, toNative, nativeVars, dartVars>>

(* The error of the method call, if the generator still listens.           *)
Refused ==
  /\ Receives("refused")
  /\ LET s == Head(toDart).who IN
     IF stream[s].state = "open" THEN Unsubscribes(s, "failed")
     ELSE UNCHANGED <<handler, stream, toNative>>
  /\ UNCHANGED <<platform, nativeVars, kept, loaded, session, select, saved, selects>>
-----------------------------------------------------------------------------
(* initialize, selectModelPath and clearModelIfDeleted.                    *)

SessionCall(a) ==
  /\ select[a].pc = "idle"
  /\ selects < MaxSelects
  /\ OverlapSelects \/ \A b \in Selects : select[b].pc = "idle"
  /\ selects' = selects + 1

SelectGoes(a, pc) == select' = [select EXCEPT ![a].pc = pc]
SelectEnds(a) == select' = [select EXCEPT ![a] = Idle]

(* engine.load up to its first await: one more attempt.                    *)
Attempts(a, path, attempt) ==
  /\ select' = [select EXCEPT ![a] = [pc |-> "loading", path |-> path,
                                      attempt |-> attempt]]
  /\ Sends(Call("load", a, path))

(* engine.dispose has something to await only if the engine is loaded.     *)
BeginSelect(a, path) ==
  /\ session' = [path |-> path, loading |-> TRUE, failed |-> FALSE]
  /\ \/ /\ loaded.engine
        /\ select' = [select EXCEPT ![a] = [pc |-> "disposing", path |-> path,
                                            attempt |-> 0]]
        /\ Sends(Call("unload", a, None))
     \/ /\ ~loaded.engine
        /\ Attempts(a, path, 1)
  /\ UNCHANGED loaded

SelectModelPath(a, path) ==
  /\ SessionCall(a)
  /\ BeginSelect(a, path)
  /\ UNCHANGED <<platform, toDart, nativeVars, handler, kept, stream, saved>>

(* initialize runs once, when the shell is created.                        *)
Initialize(a) ==
  /\ selects = 0
  /\ SessionCall(a)
  /\ SelectGoes(a, "reading")
  /\ UNCHANGED <<platform, toNative, toDart, nativeVars, handler, kept, stream, loaded,
                 session, saved>>

(* activeDownloadedModel ?? firstDownloaded: the active model, unless its  *)
(* file is gone: then it is forgotten and any other one on disk will do.   *)
ActiveRead(a) ==
  /\ select[a].pc = "reading"
  /\ \/ saved # None /\ BeginSelect(a, saved) /\ UNCHANGED saved
     \/ /\ saved' = None
        /\ \/ \E path \in Paths \ {saved} : BeginSelect(a, path)
           \/ /\ session' = [session EXCEPT !.path = None, !.failed = FALSE]
              /\ SelectEnds(a)
              /\ UNCHANGED <<toNative, loaded>>
  /\ UNCHANGED <<platform, toDart, nativeVars, handler, kept, stream, selects>>

Answered(a, op, pc) ==
  /\ Receives(op)
  /\ Head(toDart).who = a
  /\ select[a].pc = pc

Disposed(a) ==
  /\ Answered(a, "unloaded", "disposing")
  /\ loaded' = [llama |-> FALSE, engine |-> FALSE]
  /\ Attempts(a, select[a].path, 1)
  /\ UNCHANGED <<platform, nativeVars, handler, kept, stream, session, saved, selects>>

(* selectModelPath continues: the model saved is the one selected by now.  *)
Ready(a) ==
  /\ loaded' = [llama |-> TRUE, engine |-> TRUE]
  /\ session' = [session EXCEPT !.failed = FALSE]
  /\ select' = [select EXCEPT ![a].pc = "saving", ![a].path = session.path]

(* Only iOS tries the model out (no configuration uses Android's GPU).     *)
LoadSucceeded(a) ==
  /\ Answered(a, "loaded", "loading")
  /\ \/ /\ platform = "ios"
        /\ loaded' = [loaded EXCEPT !.llama = TRUE]
        /\ SelectGoes(a, "warming")
        /\ Sends(Call("generate", a, None))
        /\ UNCHANGED session
     \/ platform = "android" /\ Ready(a) /\ UNCHANGED toNative
  /\ UNCHANGED <<platform, nativeVars, handler, kept, stream, saved, selects>>

WarmedUp(a) ==
  /\ Answered(a, "warm", "warming")
  /\ loaded' = [loaded EXCEPT !.engine = TRUE]
  /\ session' = [session EXCEPT !.failed = FALSE]
  /\ select' = [select EXCEPT ![a].pc = "saving", ![a].path = session.path]
  /\ UNCHANGED <<platform, toNative, nativeVars, handler, kept, stream, saved, selects>>

(* A slip: the next configuration is tried without unloading. *)
AttemptFailedKeepsModel(a) ==
  /\ Answered(a, "notLoaded", "loading") \/ Answered(a, "notWarm", "warming")
  /\ loaded' = [loaded EXCEPT !.llama = FALSE]
  /\ \/ /\ select[a].attempt < MaxAttempts
        /\ Attempts(a, select[a].path, select[a].attempt + 1)
        /\ UNCHANGED session
     \/ /\ select[a].attempt = MaxAttempts
        /\ session' = [session EXCEPT !.loading = FALSE, !.failed = TRUE]
        /\ SelectEnds(a)
        /\ UNCHANGED toNative
  /\ UNCHANGED <<platform, nativeVars, handler, kept, stream, saved, selects>>

AttemptFailed(a) ==
  /\ \/ /\ Answered(a, "notLoaded", "loading")
        /\ loaded' = [loaded EXCEPT !.llama = FALSE]
     \/ Answered(a, "notWarm", "warming") /\ UNCHANGED loaded
  /\ SelectGoes(a, "dropping")
  /\ Sends(Call("unload", a, None))
  /\ UNCHANGED <<platform, nativeVars, handler, kept, stream, session, saved, selects>>

Dropped(a) ==
  /\ Answered(a, "unloaded", "dropping")
  /\ loaded' = [loaded EXCEPT !.llama = FALSE]
  /\ \/ /\ select[a].attempt < MaxAttempts
        /\ Attempts(a, select[a].path, select[a].attempt + 1)
        /\ UNCHANGED session
     \/ /\ select[a].attempt = MaxAttempts
        /\ session' = [session EXCEPT !.loading = FALSE, !.failed = TRUE]
        /\ SelectEnds(a)
        /\ UNCHANGED toNative
  /\ UNCHANGED <<platform, nativeVars, handler, kept, stream, saved, selects>>

(* A slip: a model is saved only if none was. *)
SavedOnce(a) ==
  /\ select[a].pc = "saving"
  /\ saved' = IF saved = None THEN select[a].path ELSE saved
  /\ session' = [session EXCEPT !.loading = FALSE]
  /\ SelectEnds(a)
  /\ UNCHANGED <<platform, toNative, toDart, nativeVars, handler, kept, stream, loaded,
                 selects>>

(* A write that throws may have emptied the file: the status says that the *)
(* load failed, though the model stays loaded.                             *)
Saved(a) ==
  /\ select[a].pc = "saving"
  /\ \/ /\ saved' = select[a].path
        /\ session' = [session EXCEPT !.loading = FALSE]
     \/ /\ saved' \in {saved, None}
        /\ session' = [session EXCEPT !.loading = FALSE, !.failed = TRUE]
  /\ SelectEnds(a)
  /\ UNCHANGED <<platform, toNative, toDart, nativeVars, handler, kept, stream, loaded,
                 selects>>

(* clearModelIfDeleted of the active model.                                *)
ClearModel(a) ==
  /\ SessionCall(a)
  /\ session.path # None
  /\ \/ loaded.engine /\ SelectGoes(a, "clearing") /\ Sends(Call("unload", a, None))
     \/ ~loaded.engine /\ SelectGoes(a, "forgetting") /\ UNCHANGED toNative
  /\ UNCHANGED <<platform, toDart, nativeVars, handler, kept, stream, loaded, session, saved>>

Cleared(a) ==
  /\ Answered(a, "unloaded", "clearing")
  /\ loaded' = [llama |-> FALSE, engine |-> FALSE]
  /\ SelectGoes(a, "forgetting")
  /\ UNCHANGED <<platform, toNative, nativeVars, handler, kept, stream, session, saved,
                 selects>>

Forgets(a) ==
  /\ select[a].pc = "forgetting"
  /\ saved' = None
  /\ SelectGoes(a, "forgotten")
  /\ UNCHANGED <<platform, toNative, toDart, nativeVars, handler, kept, stream, loaded,
                 session, selects>>

Forgotten(a) ==
  /\ select[a].pc = "forgotten"
  /\ session' = [path |-> None, loading |-> FALSE, failed |-> FALSE]
  /\ SelectEnds(a)
  /\ UNCHANGED <<platform, toNative, toDart, nativeVars, handler, kept, stream, loaded,
                 saved, selects>>
-----------------------------------------------------------------------------
User ==
  \/ \E s \in Streams, screen \in Screens : Start(s, screen)
  \/ \E s \in Streams : CancelStream(s)
  \/ \E a \in Selects : Initialize(a) \/ ClearModel(a)
  \/ \E a \in Selects, path \in Paths : SelectModelPath(a, path)

(* What the Dart event loop runs without being asked.                      *)
EventLoop ==
  \/ Token \/ End \/ Refused
  \/ \E s \in Streams : Request(s)
  \/ \E a \in Selects :
       \/ ActiveRead(a) \/ Disposed(a) \/ LoadSucceeded(a) \/ WarmedUp(a)
       \/ AttemptFailed(a) \/ Dropped(a) \/ Saved(a)
       \/ Cleared(a) \/ Forgets(a) \/ Forgotten(a)

NativeStep == PluginNext /\ UNCHANGED dartVars

Next == User \/ EventLoop \/ NativeStep

Spec == Init /\ [][Next]_vars
-----------------------------------------------------------------------------
(* Nothing is in flight, queued or being worked on.                        *)
AllIdle ==
  /\ Settled /\ jobs = <<>> /\ worker.pc = "idle"
  /\ \A a \in Selects : select[a].pc = "idle"

(* On Android unloading while a generation runs is harmless: the bridge    *)
(* asks for its context under the mutex before each token.                 *)
AndroidKeepsContext == platform = "android" => ~crashed

(* Whatever was cancelled, selected or deleted meanwhile, a screen that    *)
(* waits for a generation gets its end: nothing stays in "Translating".    *)
GenerationsEnd ==
  AllIdle /\ ~crashed => \A s \in Streams : ~Waiting(s)

(* Once a selection or deletion has settled, the session is ready exactly  *)
(* when the bridge holds the model the user selected: no model is leaked,  *)
(* none is generated from unknowingly, and nothing says loading for ever.  *)
ReadyIsLoaded ==
  AllIdle /\ ~crashed =>
    /\ bridge.model = IF loaded.engine THEN session.path ELSE None
    /\ loaded.llama = loaded.engine
    /\ ~session.loading

(* The model loaded at the next start is the one in use now, unless the    *)
(* user was told that the load failed.                                     *)
ActiveIsSaved ==
  AllIdle /\ loaded.engine /\ ~session.failed => saved = session.path

(* As long as nothing is cancelled, a screen is only given tokens of its   *)
(* own generation, although events are not addressed to anyone.            *)
OwnTokensUncancelled ==
  (\A s \in Streams : stream[s].state \notin {"leaving", "left", "cancelled"}) =>
    \A s \in Streams : stream[s].tokens \subseteq {s}
-----------------------------------------------------------------------------
(* The bridge never samples from a context that was freed.                 *)
KeepsContext == ~crashed
=============================================================================
