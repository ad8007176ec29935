# A formal model of aya-offline

aya-offline is a Flutter app that downloads small language models and runs them on the phone to translate and
chat. This directory holds TLA+ modules translated from its source, TLC configurations that check them on small
instances, and theorems checked by TLAPS. Paths below are relative to the repository's root; `src/` in
`PROJECT.json` is that root.

## 1. The system

| Component | State it keeps | Operations | Talks to |
|---|---|---|---|
| `ModelDownloadController` (lib/app) | phase, model shown, error, completer and future of the current download, list of files | initialize, download, pause, resume, cancel, deleteModel, clearLastError; status updates | background client or `ModelManager.download`; shell and picker listen |
| background client (lib/models) | callbacks; behind it the `background_downloader` plugin with native tasks, a record database and queued updates | enqueue, pause, resume, cancel, records, deleteRecord | the controller |
| `ModelManager` (lib/models) | the model files, `.part` files, the active-model file | readiness check, download, validate, list, delete, save/clear active model | network, disk |
| `AyaSessionController` (lib/app) | selected path, loading flag | initialize, selectModelPath, clearModelIfDeleted | `AyaEngine`, `ModelManager`; called by shell and picker |
| `AyaEngine`, `FlutterLlama` (Dart) | `_loaded`, `_isModelLoaded` | load (several configurations, warm-up), dispose, generate streams | method channel and one event channel |
| plugin and bridge (Kotlin/C++, Swift/ObjC++) | event sink, modelLoaded, shouldStop; global model, context, stream flags | loadModel, generate, generateStream, unloadModel, onListen, onCancel; one worker thread | llama.cpp |
| Translate and chat screens | whether they generate, the text so far | translate, clear, send | the session; both stay mounted |
| App shell (lib/main.dart) | tab, last completed download handled | shows the download screen while busy, hands completed downloads to the session | both controllers |
| Translation history (lib/translate) | the JSON file, the list of each screen, the shell's flag | load, save, hasHistory; translate, delete, reorder | translate screen and shell; the file system |
| ggml thread pool (llama.cpp) | graph counter, barrier, stop/pause/abort flags, chunk counter | compute a graph, pause, resume, free | one main thread, n-1 workers |
| llama.cpp key-value cache | cells with a position and a set of sequences, in a full and a windowed cache | clear, seq_rm, seq_cp, seq_keep, init_batch, apply_ubatch | `llama_decode`, which the bridges call |
| Languages, speech, catalogue, widgets | data and layout | | |

Hard behaviour: every Dart method is cut at its awaits, and whatever it reads afterwards may have changed; updates of
the download plugin arrive late and outlive a killed process; native calls run on two threads over unprotected flags;
events from native to Dart carry no addressee; saves of the history are not awaited and truncate the file first; the
threads of a pool poll, sleep and meet at barriers over atomics; looking for room in the cache is done by changing it and
putting it back. What is exposed to that is listed, with its line, under `hazards` in
`PROJECT.json`.

What makes each component correct: the download controller's fields describe what the engine and the disk hold, and
no future completes twice; a model file is whole and downloaded bytes are not lost; the session says ready exactly
when the native side holds the selected model; a screen that waits for a generation gets its end; a freed context is
never used; the history on the screen is the one in the file; a graph is computed once, in order, and its call returns; a
token finds in the cache every position it looks at and nothing half computed.

## 2. Modules

`BackgroundDownloader` (the plugin and its client) is extended by `ModelDownloadController`; `LlamaPlugin` (native
half) by `AyaSession` (Dart half); `KVCells` (one cache) by `KVCache` (both, and the decode loop). `Threadpool` implements
`GraphCompute` and `KVCache` implements `SequenceMemory`, which they instantiate. `PartialDownload` and `TranslationHistory` stand alone. The MC modules add
symmetry sets and bounds for TLC; `MCDownloadPace`, `MCKVCache` and `MCTranslationHistory` also a variable that notes what
the callers did, for properties that hold under a condition on them. The theorems are in modules of their own, named after the module they are
about: `ModelDownloadProofs` and on top of it `DownloadPaceProofs`, `PartialDownloadProofs`, `ThreadpoolProofs`, `AyaSessionProofs` and on top of it
`AyaSessionAloneProofs`, `TranslationHistoryProofs` and `KVCacheProofs`. Definitions introduced by a comment "A slip" are wrong versions of
the definition that follows: put in its place, each makes a property fail.

### BackgroundDownloader, ModelDownloadController
An activation of an async method is a record in `act` whose `pc` names the await it is at; one action is the code up
to the next await. `ctl` holds the controller's fields, `future` the Completers. The engine keeps one task, record and
file per model, because the task id is a function of the file name (model_manager.dart:158), and a queue of updates
posted and not delivered. `Kill` drops all Dart state and keeps the engine's. The plugin is external: it moves tasks
as its status type allows, and accepts or refuses calls. `Throwing` is the set of awaits that may end in an exception,
named by the `pc` that waits for them; each is handled as its method does: cancel swallows what its own three awaits throw
and resets its fields, deleteModel swallows what cancel throws and goes on, a completion fails the download, an enqueue
reports it, and where nothing catches it (`Throws`) the activation ends with the fields as they are. The client's cancel
is two awaits, the task and then its record.
Not modelled: progress figures; unlimited queues (`MaxEvents`); an exception half-way through the plugin's own cancel, or
through a refresh that has already removed something (nothing is decided on either).

### LlamaPlugin, AyaSession
`toNative` and `toDart` are the FIFO wires, `posted` what the worker has posted to the main thread and it has not run
yet: Android's stale sinks are told apart when it does, not when the worker posts. The main thread takes one call at a
time, the worker one job at a time.
Every bridge function holds `g_mutex`, so each is an action; plugin flags written before and after are separate
actions. `unloadModel` runs on the main thread and can free the model between two steps of the worker. The Dart half
has one handler per channel name, which the later listener replaces and anyone's end removes; an event without handler
is kept by Flutter and given to the next. `platform` picks the bridge: only Android's checks the context before each
token, drops events of a stale sink, and skips the warm-up; only iOS' `onCancel` reaches into the bridge.
`stream` and `select` record where each generation and each selection stands between awaits.
A save of the active model that throws may leave the file empty, and the status says that the load failed
(`session.failed`) though the model is loaded.
Assumptions: plugin flags that are not volatile are read in order across JNI calls; a listen on an open sink cancels it
first (Flutter's channel does); `dispose` does not throw; the worker's catch clauses (FlutterLlamaPlugin.kt:157-162,
281-287) are not reached, as Dart fixes the types of the arguments and the bridge throws nothing into Java; users act only once messages in flight have arrived
(`Settled`), which excludes two taps within milliseconds. stopGeneration and getModelInfo are not called by the app.

### PartialDownload
`ModelManager.download` and `_runDownload`, which run when no background client is used (the constructor takes such a
download function; the shipped app uses the background client). A file is the sequence of the chunk numbers in it.
Server answers, broken connections, a full disk and kills are free choices. A write that fails shows only when the
sink is flushed. The storage check before a download, the refresh after it and a deletion may throw: the first ends the
call with the phase as it was, the second is a failure after a completion, the third leaves the .part file.
One download and one deletion at a time: a second `download` call while the first awaits the storage check would start
another loop on the same file; such overlaps are studied in `ModelDownloadController`.
Assumptions: a response that ends early is an error (so for Content-Length and chunked responses in dart:io), the
server honours the range or sends everything, and the file behind the URL does not change.

### TranslationHistory
`file` is a list, empty or unreadable (both load as an empty history). A load is a read and, after the await, the
replacement of the mounted screen's list; a save goes through path, encoding, opening (which truncates) and writing, and
encodes the list of its screen as it is by then, whether that screen is still mounted or not. Two writes may overlap and
leave the rest of the longer text; a failing one leaves a part. The shell reads the file itself once. `Kill` keeps the
file as far as it is written. Items are ids; their JSON form is data, and items without text are not made
(translate_screen.dart:364 and the trimmed source text).

### GraphCompute, Threadpool
`GraphCompute` is what a caller of `ggml_graph_compute` may rely on: pieces of stages, each computed once and only after
the stages before it, and a status that says what was computed. `Threadpool` is ggml-cpu.c without OpenMP, as the Android
build has it: a step is what a thread does between two accesses of shared memory that others see. `KeepsPromise` maps a
thread's computing step to a piece, kick-off to the call and the return after the last barrier to the return.
Each node is two stages, its preparation and its product.
Matrix products hand chunks out by an atomic counter; other operations split rows. The Android build also has llamafile's
matrix product (ggml-cpu.c:1270-1294, 1341-1362, GGML_LLAMAFILE is on by default), which ggml_compute_forward_mul_mat tries
first: for the shapes it takes, each thread computes its share and returns, without the counter or, when nothing needs
converting, the barrier. That has the form of an operation that splits rows, with the conversion and its barrier as its
preparation, and is not modelled apart; nor is the choice of fewer chunks (one per thread) for small or NUMA products,
which changes how many there are.
Assumptions: the order of the steps is one for all threads (the fences in barrier, kick-off and thread_sync are
sequentially consistent); the loads inside `thread_ready` are one step; a poll gives up at any time; a condition variable
may wake spuriously, but nothing relies on it. The app lets ggml make a pool for each graph and sets no abort callback;
pools of the caller, pausing and aborting are modelled because llama.cpp's other callers use them.
Not modelled: the graph counter's wrap-around, thread priorities and affinity, NUMA, backends other than the CPU.

### KVCells, KVCache
A cell has a position and a set of sequences; `used` and `seq_pos` are derived from the cells, not kept. `KVCells` has the
operations on one cache; `Prepare` places the ubatches one after the other and puts the cells back in reverse, by recursive functions, as the
code does. `KVCache` has the pair of caches (STANDARD window, one unified stream, as Tiny Aya's Cohere2 graph uses), the
callers' edits and `llama_decode`: both ways of splitting a batch, the ubatches applied and computed one by one, a
failure at any of them and the rollback that follows. `torn` is the set of cells whose tensors were not fully written.
`SequenceMemory` is what llama.h says of all this to a caller (lines 702-770 and 931-945): a sequence is so many tokens, a
batch extends it in one or more parts, and a failed one leaves those that were processed. `Known` is the mapping: the
positions whose keys and values the next token can use.
Callers check `seq_pos_min` before they cut a sequence (server-context.cpp:2317), so they cut only where the window is
still whole. One sequence per batch, with generated positions, and at most n_batch tokens; for one sequence splitting
simply and splitting equally give the same ubatches.
Not modelled: padding of the windowed cache to 256 cells, seq_add, seq_div and shifting, saving and loading state,
seq_id -1, several streams. Read but not modelled: with tokens of several sequences the rollback of a failed decode
only looks at the first sequence of a token (llama-context.cpp:1691-1711), and `seq_cp` onto a sequence that holds the
same cells already counts positions twice (llama-kv-cache.cpp:322). A prompt longer than n_batch ends the process by an
assertion (llama-context.cpp:1595); the bridge submits the whole prompt at once, see `hazards`.

## 3. Runs

| Run | Bounds | Shows |
|---|---|---|
| download_restart | 1 model, 2 calls, queue of 2, 1 kill, every await may throw, fair event loop | field consistency, SettledOnce and FinalizingEnds, across late updates and a restart |
| download_pace | 2 models, 6 calls one after the other, queue of 3 | NotStranded although updates race the calls; for calls made once everything is quiet, screen, engine and disk agree: SingleDownload, PausedIsPaused, RunningIsShown, OnDiskListed |
| download_cancel_resume | 2 models, 3 calls, 2 at a time | **violation**: a cancelled download starts again |
| session_in_use | both platforms, 2 generations of at most 1 token, 3 selections of 2 models, 2 load attempts | six properties of the session and the plugin together |
| session_two_screens | 2 generations on both screens | **violation**: a screen waits for ever |
| session_ios_unload | 1 generation, 1 reselection | **violation**: iOS samples from a freed context |
| partial_download | 3 chunks, 3 attempts, 5 calls, 2 kills | WholeFile, BytesKept, OnlyResumeStrands, and that attempts are counted |
| partial_full | 2 chunks, 1 kill | **violation**: a complete .part file can never be finished |
| threadpool | 3 threads, 2 graphs per pool, abort and pause, fair threads | KeepsPromise (the refinement of GraphCompute), ResetAlone, CallsReturn, PoolsEnd |
| kv_cache | 2 sequences, window 2, 7 and 6 cells, ubatch 2, batches of 1, 2 or 7, 1 edit between clears, more than a ubatch only when empty | what a token sees is there and whole, both caches agree, slots found stay free, finding them leaves no trace; MemoryKept (the refinement of SequenceMemory) |
| kv_prepare | window 3, ubatch 1, batches of 1 or 3 at any time, 1 cut, nothing shared | **violation**: preparing a batch takes a position that its first ubatch looks at |
| history | lists of 2, 3 items, 2 overlapping saves, 2 screens per process, any number of kills | NothingDoubled always; FileFollows and PresenceFollows when nothing overlapped or failed |

Why the bounds are enough to be interesting: two models are what it takes for one download to disturb another; two
activations overlap in every pair of awaits; two generations give a stale event someone to reach; three chunks give a
hole an inside; three attempts make a first, a middle and a last; three threads make
one that is last at a barrier, one that waits there and one that is still behind; seven positions in a window of two and
six cells make cells leave the window within and between ubatches, and a prompt overwrite its own first tokens before it
is taken back; two saves overlap in every way a third could join. Counters only bound the length of a behaviour. A model
of the code may stop when its calls are used up, so deadlock is not checked.

Properties are checked in the widest setting in which they hold. `NotStranded` of the controller needs calls that do
not overlap, the Unhurried properties a user who waits as well (ARCHITECTURE.md:272 says "Single download at a time": two
calls that overlap in the storage check both enqueue, model_download_controller.dart:204), and both no kill: a restart
restores from records read before an await (line 442) and can overwrite a newer update. The consistency properties of
download_restart hold for calls that overlap too; that is proved, below, for any number of them, and the run needs only
one user. They hold whatever throws; the runs
of `NotStranded` and of the Unhurried properties have nothing throw (a `resume` of the engine that throws leaves the phase
already written, model_download_controller.dart:257 has no try).
In PartialDownload the code does strand the user: resume() shows a running download (line 275) before download() checks the
storage, which may throw (line 204), and before it joins a future that is already failing; pause, resume and cancel are all
refused then. `OnlyResumeStrands` says that these are the only ways there.
`OwnTokensUncancelled` is about generations nobody
cancelled: a token of a cancelled one that is still in flight is kept for the next listener. The session is checked for
selections one at a time: `OverlapSelects = TRUE` lets two loads mix and breaks ReadyIsLoaded and ActiveIsSaved.
`FileFollows` and `PresenceFollows` excuse a save that overlaps a load or another save, and a failed read or write, until
the next quiet save: there the code keeps no order and nothing in the repository asks for one. `MCKVCache` lets callers
submit more than a ubatch to an empty cache only, which is what the bridge does (it clears, submits the prompt and then one
token at a time, flutter_llama_bridge.cpp:149-213): the leak that kv_prepare shows needs several ubatches on top of cached
positions. And they edit no more after a failed call until the next clear: a batch that was prepared and then not computed
leaves holes below the window, and `seq_pos_min`, which callers ask, does not tell of them.

Fairness: download_restart and threadpool assume it. Continuations of async methods and delivery of posted updates are
weakly fair, since the Dart event loop runs every ready continuation; nothing is assumed of the engine or the user. Each
thread of a pool is weakly fair, since the operating system runs every thread that can run; a spurious wake-up is not
part of it, and the caller of the pool need not call again, nor ever resume a paused pool.

## 4. Proofs

`ModelDownloadProofs` proves for any number of models, activations and completers, any bounds and kills, and whichever
awaits may throw: TypeOK, CurrentIsPending, ScreenHasModel, FailureIsExplained and the action
property SettledOnce. The assumptions are that the constants are distinct and have their types (`DistinctAssumption`,
`BoundsAssumption`, `MaxEventsAssumption`).

None of the invariants is inductive alone. Whether an action keeps the current future pending depends on what a
suspended activation carries: one that waits for an enqueue still holds its completer, and may fail it later. `IInv` adds
to the fields' consistency (`ControllerOK`) that the current completer's future is pending (`FuturesOK`) and, for each
activation (`ActivationOK`), that it remembers a model where its continuation needs one, that a completer it holds is in
use (so that no later call takes it as fresh) and that after a failed enqueue it is no longer the current one. Lemmas
state what each helper on fields, activations and the engine preserves; one lemma per handler follows; `StepOK` joins
them and `Invariance` concludes. SettledOnce follows from IInv step by step: every handler settles through `Settle`, which
asks whether the future is pending.

`DownloadPaceProofs` proves the five properties of download_pace, for any number of models, completers, calls and updates,
with the bounds of that run as hypotheses: no two calls overlap, the process is not killed and the engine's resume does
not throw (`PaceAssumption`), and for the Unhurried ones nothing throws. NotStranded holds of such calls even when the engine still downloads or an
update is on its way. A quiet screen tells the truth because of what was in flight before: `UpdatesOK` says that the last
update of a model tells how its task stands, `ShowsOK` that a screen that says downloading is right, or has an update
coming, or a call is about to ask for a task, and that finalizing has an activation behind it; `StartOK` that the records
read at the start are empty. The Unhurried properties need more (`CalmInv`): the running task and all updates are of the
model shown (`RunningOK`, `QueueOK`), a listed model has no task (`ListedOK`), a whole file is listed or its completion is
on its way (`FilesOK`), one completion is handled at a time (`FinishOK`), and each await of a call leaves what its
continuation relies on (`CallOK`). TLC checked both invariants over the instance of the run before they were proved.

`PartialDownloadProofs` proves for a file of any size, any number of attempts, calls and kills: TypeOK, WholeFile and the
action properties BytesKept and OnlyResumeStrands. The one assumption is `DownloadAssumption`, the constants' types. WholeFile is not inductive: the rename turns whatever the
.part file holds into the model. `IInv` follows the file through the download (`PartOK`). A .part file that has its header
is a beginning of the model (`Prefix`), and what is asked for or sent next continues it, as long as its sink has not
failed; once everything was sent and flushed it is as long as the model. A .part file without header, which a deletion during a
download leaves when chunks keep coming, is dropped by the validation. `RunOK` says that an attempt is left in the
backoff and that reading stops for a cancel only after a cancel, which BytesKept needs; `CurrentOK` says that a current
download is past its readiness check, which OnlyResumeStrands needs. `Quiet` names the steps at which the files are not
touched: QuietOK settles `PartOK` and WholeFile for them at once. Each action then has a lemma with one step per conjunct.

`ThreadpoolProofs` proves for any number of threads, nodes, chunks, graphs and calls, with and without a pool of the
caller: TypeOK, ResetAlone, and KeepsPromise, the refinement of GraphCompute. The assumptions are `PoolAssumption`, the
constants' types. The difficulty is that a thread which waits at a barrier may have been released already and not know
it. `Eff` therefore gives such a late thread the place behind its barrier; on effective places the invariant
(`PoolInvariance`) is simple: all threads of a graph are in the same part of it, between two barriers, the counters count
those that have arrived, and what is computed is what the threads' places and the chunk counter say (`work` follows from
the places). From that a stage is whole when any thread begins the next one, which is what GraphCompute's Compute asks;
and the status returned is true, because every thread leaves after the same node.

`AyaSessionProofs` and `AyaSessionAloneProofs` on top of it prove all six properties of session_in_use, for any number of
generations, selections, models, attempts and tokens and on both platforms, from `PluginAssumption` and
`SessionAssumption`, the constants' types. Whatever overlaps, SessionTypeOK and AndroidKeepsContext hold; `TypesOK`
adds to the types whose messages are on the wires. The others carry the hypothesis of the run, that only one screen
generates (`~OverlapStreams`) or only one model is selected at a time (`~OverlapSelects`), and only the one they need: a
screen generates while models are selected. None is inductive, because what they say of a quiet moment is made true by
messages that were in flight before it.
 - GenerationsEnd: `StreamsOK` says that a screen that waits has the channel's handler, that the sink is its own or the
   listen that makes it so is in front of its request (`Listening`), and that its end is on its way (`Coming`): as a
   request that will be refused or queued, as a job with its sink, as the running job, or as a message to Dart.
 - OwnTokensUncancelled: `OwnOK` says that while nothing was cancelled all there is of generations, in all three queues,
   belongs to the one that is open, in one place at a time, its end behind its tokens (`EndedLast`). What is posted and what
   is on its way to Dart are one queue to these proofs (`Wire`): a post that the main thread runs stays where it is in it.
 - ReadyIsLoaded and ActiveIsSaved: `SelectsOK` says that a selection has exactly one command in the plugin, as a call, a
   job, in the worker, in unloadModel or as a reply, or none, and what the bridge, the plugin and both Dart flags hold at
   each of these places (`Unloads`, `Loads`, `Warms`, `Agrees`); lemmas move the command along, one per place.

`TranslationHistoryProofs` proves the four properties of the history for any number of items, saves in flight and screens,
any length of the list and any number of kills. The assumptions are `BoundsAssumption`, the constants' types, and
`FileAssumption`: a missing and an unreadable file are not lists. NothingDoubled is not inductive, since a save writes
what it encoded before and a load brings what it read before; `AllOnce` says it of these and of the lists of screens that
are gone, and lemmas that trimming (`TrimmedOK`), removing (`RemovedOK`) and moving (`MovedOK`) a list keep it. FileFollows
and PresenceFollows are of the specification with the note `excused`. `Following` says what a save that overlaps nothing
has done at each of its steps: it is the only one and no load is under way (`SavingOK`), its payload is its screen's list,
the file is empty while it is open and holds that list when it is written; without a save, what a load has read is what
the file holds, and a screen that has loaded shows it (`RestingOK`). A failed or overlapping step sets the note, and the
next quiet save or screen starts `Following` again.

`KVCacheProofs` proves all properties of kv_cache, for caches, windows, ubatches and batches of any size and
any number of sequences and edits, from `CacheAssumption`, the constants' types, and `EditsAssumption`, a window of more
than one token. TypeOK and NothingTorn are of `Spec`, where callers do what they like; `IInv` says of a call that its
ubatches continue each other, that each has slots of its own, and that what is torn is in the slots of the ubatch at hand and
belongs to it. The others are of `MCSpec` and are false of `AnySpec`, as kv_prepare shows. They needed:
 - what one operation does to one cell (`Applied`, `SeqRmIs`, `SeqKeepIs`, `SeqCpIs`, `PutBackIs`), and find_slot's
   choice: a set ranked by distinct numbers has a k-th element (`Ranked`), so a slot is n different free cells.
 - `Prepare` without its recursion. The library's theorems about recursion and induction take operators, which cannot
   be instantiated here; `UpTo`, induction by the least counterexample (`WFMin`), takes their place. It shows that the
   recursive functions exist (`StepsExist`), that they place the ubatches one after the other (`Placed`) and that undoing them from the last leaves a part of what was there, all of it in the base cache
   (`Undone`, `OneUndone`). What remains is a chain of caches from the first to the last ubatch (`BaseReady`, `SwaReady`).
 - positions instead of cells: `Seen` relates what a sequence has in the two caches to the last position and to the token
   that looks. Placing a ubatch keeps it although apply_ubatch purges up to the last position a sequence lost, because what
   can be reused is masked (`PutAgrees`); so do edits as long as there are no gaps (`Closed`), rollback (`SeenBefore`), and
   looking for one ubatch (`RestoredAgrees`).
`Coherent` collects it: `Agree` at all times, the ubatch being computed sees its window, the rest of the chain fits the caches
as they are, and there is no gap while callers may still edit. Gaps cannot be excluded later: when a call fails, the caches are
left with what was purged for it.
RoomInSwa is a count. Where no two sequences share a cell (`Unshared`), a cell that cannot be used is told by its
sequence and by how far its position is behind the last one, less than the window (`BoundBySize`); so at most Seqs ×
Window cells cannot be used, and a ubatch finds the rest (`RoomFor`). When the windowed cache is no larger than the base
cache, each such cell is told instead by the base cell with the same sequence and position (`BoundByBase`), and the base
cache had room already. The second needs `Aligned`: sequences that share a base cell share the windowed one too, or one
of them has none there. A whole batch is placed where the cache is empty, each ubatch leaving behind what the next
one may reuse.
MemoryKept is the refinement. The mapping counts cells that are not torn and not lost from view; `KnownIs` shows that these
are always exactly the positions before the ubatch being computed, or up to the last one. That needs, besides `Coherent`,
that while a ubatch is computed every one of its cells in the base cache is torn (`AllTorn`): no earlier position of the
sequence is where it is placed, and no other cell has its positions. Each action then is one of the abstract ones, and
Apply and a refused batch are none.

Only model-checked: the liveness properties; liveness is outside this prover's reach.

## 5. Disagreements found

Each violation run has its finding in `PROJECT.json`: a cancelled download that comes back, a generation whose end never
arrives, a freed context used on iOS, a complete `.part` file that can never be finished, a search for cache slots that
takes positions from a sequence. Not a run of its own: two downloads at once, a resume that
leaves a running download on the screen that nothing runs, a prompt longer than n_batch.

## 6. Plan

1. Shell: the hand-over of completed downloads to the session (main.dart:207), composing both controllers.
2. PartialDownload: the converse of BytesKept for a cancel (its bytes are gone).
3. Stop-sequence output of the iOS bridge as functions checked against a reference definition; token limits of
   engine.dart; `_restorePriority`.

Not modelled, and why: layout, speech, the language table and the catalogue (data); the macOS plugin (an older copy of
iOS'); the multimodal API and the library's own downloaders (not called by the app). Of llama.cpp, whose vendored 450,000
lines are nearly all of the repository, the parts with a protocol that runs under every token are modelled; kernels,
quantization, the other backends (not built into the app), tokenizers, model loaders and graphs of a hundred
architectures are numeric code or tables without states to explore, so the share of all lines that the map covers
stays small. Of the app's own code and the native plugins the map covers what keeps state; the rest of those files is
layout, logging and parameters.
