------------------------------ MODULE Threadpool ------------------------------
(***************************************************************************)
(* The CPU thread pool of ggml, ggml-cpu.c, as the app builds it (without  *)
(* OpenMP): a main thread 0 that runs graphs and workers that poll, then   *)
(* sleep, for the next one.  A step is what a thread does between two      *)
(* accesses of shared memory that the others can see; what is done under   *)
(* the mutex up to a wait is one step of a worker.  The sequentially       *)
(* consistent fences of barrier, kick-off and thread_sync make the order   *)
(* of the steps one order for all threads.                                 *)
(***************************************************************************)
EXTENDS Integers, Sequences, FiniteSets

CONSTANTS
  PoolSize,     \* n_threads of the pool
  Graphs,       \* graphs to compute: sequences of operations
  RawChunks,    \* chunks of a matrix product before it is re-chunked
  PerThread,    \* fewer chunks a thread than this are poor: 4 in the code
  MaxGraphs,    \* bound: graphs computed by one pool and pools created
  MayAbort,     \* whether an abort callback is set
  MayPause      \* whether the caller uses a pool of its own, and pauses it

Ops     == {"rows", "matmul", "nop"}
Threads == 0 .. PoolSize - 1
Workers == Threads \ {0}

ASSUME PoolAssumption ==
  /\ PoolSize \in Nat \ {0} /\ MaxGraphs \in Nat /\ RawChunks \in Nat \ {0}
  /\ PerThread \in Nat
  /\ Graphs \subseteq Seq(Ops)
  /\ MayAbort \in BOOLEAN /\ MayPause \in BOOLEAN

VARIABLES
  tp,      \* struct ggml_threadpool
  th,      \* th[i]: thread i, with its ggml_compute_state
  locked,  \* whether the main thread holds the mutex
  job,     \* what the main thread was called for
  work     \* work[p]: how often the piece p of the graph was computed

vars == <<tp, th, locked, job, work>>

(* Where a thread is.  Main thread only: out of any pool, idle between     *)
(* graphs, and the steps of a call.  Workers only: asleep and between.     *)
Counters == {"out", "idle", "kick", "wake", "return", "free", "freeWake", "join",
  "unborn", "loop", "pauseLock", "pauseWait", "stopCheck", "poll", "workLock",
  "workWait", "pending", "exited",
  "start", "node", "rows", "convert", "setChunk", "chunk", "nextChunk", "abort",
  "enter", "reset", "pass", "wait"}

Pools == [graph: Graphs \cup {<<>>}, count: 0 .. MaxGraphs, threads: 0 .. PoolSize,
  barrier: 0 .. PoolSize, passed: Nat, chunk: Nat, stop: BOOLEAN, pause: BOOLEAN,
  abort: Int, ec: {"success", "aborted"}]

States == [pc: Counters, after: Counters,       \* after: where the barrier returns to
  node: Nat, nth: 0 .. PoolSize, passed: Nat, chunk: Nat, last: Nat, pending: BOOLEAN]

(* A piece of a graph: its node, the stage of the node and its index.      *)
Piece(k, stage, j) == <<k, stage, j>>

(* If the chunking is poor for the number of threads, chunk by thread.     *)
ChunksFor(n) == IF RawChunks < n * PerThread THEN n ELSE RawChunks

NodePieces(op, k, n) ==
  CASE op = "rows"   -> {Piece(k, "rows", i) : i \in 0 .. n - 1}
    [] op = "matmul" -> {Piece(k, "convert", i) : i \in 0 .. n - 1}
                          \cup {Piece(k, "chunk", c) : c \in 0 .. ChunksFor(n) - 1}
    [] op = "nop"    -> {}

GraphPieces(g, n) == UNION {NodePieces(g[k + 1], k, n) : k \in 0 .. Len(g) - 1}

(* Two stages a node: whatever comes before its chunks, and its chunks.    *)
StageOf(p) == 2 * p[1] + IF p[2] = "chunk" THEN 2 ELSE 1

GraphStages(g, n) ==
  [s \in 1 .. 2 * Len(g) |-> {p \in GraphPieces(g, n) : StageOf(p) = s}]

AllPieces(stages) == UNION {stages[s] : s \in DOMAIN stages}

Plans == {<<>>} \cup {GraphStages(g, n) : g \in Graphs, n \in 1 .. PoolSize}

TypeOK ==
  /\ tp \in Pools
  /\ th \in [Threads -> States]
  /\ locked \in BOOLEAN
  /\ job \in [stages: Plans, threads: 0 .. PoolSize, made: 0 .. MaxGraphs,
              disposable: BOOLEAN, status: {"success", "aborted"}]
  /\ work \in [AllPieces(job.stages) -> 0 .. 1]

NewPool(paused) == [graph |-> <<>>, count |-> 0, threads |-> 0,
  barrier |-> 0, passed |-> 0, chunk |-> 0, stop |-> FALSE, pause |-> paused,
  abort |-> -1, ec |-> "success"]

NewThread(pc) == [pc |-> pc, after |-> pc, node |-> 0, nth |-> 0, passed |-> 0,
  chunk |-> 0, last |-> 0, pending |-> FALSE]

Init ==
  /\ tp = NewPool(FALSE)
  /\ th = [i \in Threads |-> NewThread(IF i = 0 THEN "out" ELSE "unborn")]
  /\ locked = FALSE
  /\ job = [stages |-> <<>>, threads |-> 0, made |-> 0, disposable |-> FALSE,
            status |-> "success"]
  /\ work = <<>>

At(i, pc)    == th[i].pc = pc
Goes(i, pc)  == th' = [th EXCEPT ![i].pc = pc]
Moves(i, r)  == th' = [th EXCEPT ![i] = r]
Silently     == UNCHANGED <<tp, locked, job, work>>

(* ggml_cond_broadcast: the sleepers go on from their wait, in states s.   *)
Awake(s) == [i \in Threads |->
  CASE s[i].pc = "workWait"  -> [s[i] EXCEPT !.pc = "workLock"]
    [] s[i].pc = "pauseWait" -> [s[i] EXCEPT !.pc = "loop"]
    [] OTHER                 -> s[i]]

MainGoes(s, pc) == [s EXCEPT ![0].pc = pc]
-----------------------------------------------------------------------------
(* The main thread outside of a graph.                                     *)

Created(pc) == [i \in Threads |-> NewThread(IF i = 0 THEN pc ELSE "loop")]

(* ggml_threadpool_new: a pool of the caller's own.                        *)
CreatePool(paused) ==
  /\ At(0, "out") /\ MayPause
  /\ job.made < MaxGraphs
  /\ tp' = NewPool(paused)
  /\ th' = Created("idle")
  /\ job' = [job EXCEPT !.disposable = FALSE]
  /\ UNCHANGED <<locked, work>>

Begins(g, n) ==
  /\ job.made < MaxGraphs
  /\ job' = [job EXCEPT !.stages = GraphStages(g, n), !.threads = n,
                        !.made = @ + 1, !.disposable = At(0, "out")]
  /\ work' = [p \in AllPieces(job'.stages) |-> 0]
  /\ UNCHANGED locked

(* ggml_graph_compute without a pool: as many threads as asked for; all of *)
(* them are created before any work.                                       *)
ComputeDisposable(g) ==
  /\ At(0, "out")
  /\ Begins(g, PoolSize)
  /\ tp' = [NewPool(FALSE) EXCEPT !.graph = g]
  /\ th' = Created("kick")

(* ggml_graph_compute with a pool, whose fields it resets unlocked.        *)
ComputeInPool(g, n) ==
  /\ At(0, "idle")
  /\ Begins(g, IF n > PoolSize THEN PoolSize ELSE n)
  /\ tp' = [tp EXCEPT !.graph = g, !.chunk = 0, !.abort = -1, !.ec = "success"]
  /\ Goes(0, "kick")

PausePool ==
  /\ At(0, "idle") /\ ~tp.pause
  /\ tp' = [tp EXCEPT !.pause = TRUE]
  /\ th' = Awake(th)
  /\ UNCHANGED <<locked, job, work>>

ResumePool ==
  /\ At(0, "idle") /\ tp.pause
  /\ tp' = [tp EXCEPT !.pause = FALSE]
  /\ th' = Awake(th)
  /\ UNCHANGED <<locked, job, work>>

FreePool ==
  /\ At(0, "idle")
  /\ Goes(0, "free")
  /\ UNCHANGED <<tp, locked, job, work>>

(* ggml_graph_compute_kickoff: polling workers see the first store at once. *)
Kick ==
  /\ At(0, "kick")
  /\ tp' = [tp EXCEPT !.count = @ + 1, !.threads = job.threads]
  /\ locked' = TRUE
  /\ Goes(0, "wake")
  /\ UNCHANGED <<job, work>>

Wake ==
  /\ At(0, "wake")
  /\ tp' = [tp EXCEPT !.pause = FALSE]
  /\ locked' = FALSE
  /\ th' = MainGoes(Awake(th), "start")
  /\ UNCHANGED <<job, work>>

Return ==
  /\ At(0, "return")
  /\ job' = [job EXCEPT !.status = tp.ec]
  /\ Goes(0, IF job.disposable THEN "free" ELSE "idle")
  /\ UNCHANGED <<tp, locked, work>>

(* ggml_threadpool_free.                                                   *)
Free ==
  /\ At(0, "free")
  /\ tp' = [tp EXCEPT !.stop = TRUE]
  /\ locked' = TRUE
  /\ Goes(0, "freeWake")
  /\ UNCHANGED <<job, work>>

(* A slip: a paused pool stays paused. *)
FreeWakeStillPaused ==
  /\ At(0, "freeWake")
  /\ locked' = FALSE
  /\ th' = MainGoes(Awake(th), "join")
  /\ UNCHANGED <<tp, job, work>>

FreeWake ==
  /\ At(0, "freeWake")
  /\ tp' = [tp EXCEPT !.pause = FALSE]
  /\ locked' = FALSE
  /\ th' = MainGoes(Awake(th), "join")
  /\ UNCHANGED <<job, work>>

Join ==
  /\ At(0, "join")
  /\ \A i \in Workers : At(i, "exited")
  /\ tp' = NewPool(FALSE)
  /\ th' = [i \in Threads |-> NewThread(IF i = 0 THEN "out" ELSE "unborn")]
  /\ UNCHANGED <<locked, job, work>>
-----------------------------------------------------------------------------
(* ggml_graph_compute_secondary_thread.                                    *)

PauseCheck(i) ==
  /\ At(i, "loop")
  /\ Goes(i, IF tp.pause THEN "pauseLock" ELSE "stopCheck")
  /\ Silently

PauseLock(i) ==
  /\ At(i, "pauseLock") /\ ~locked
  /\ Goes(i, IF tp.pause THEN "pauseWait" ELSE "loop")
  /\ Silently

StopCheck(i) ==
  /\ At(i, "stopCheck")
  /\ Goes(i, IF tp.stop THEN "exited" ELSE "poll")
  /\ Silently

(* ggml_graph_compute_thread_ready.                                        *)
NewGraph(i) == tp.count # th[i].last
Ready(i)    == tp.stop \/ tp.pause \/ NewGraph(i)
Seen(i)     ==
  IF tp.stop \/ tp.pause THEN th[i]
  ELSE [th[i] EXCEPT !.pending = i < tp.threads, !.last = tp.count]

(* poll_for_work: some rounds without the mutex.                           *)
Poll(i) ==
  /\ At(i, "poll")
  /\ Moves(i, IF Ready(i) /\ Seen(i).pending
              THEN [Seen(i) EXCEPT !.pc = "pending"]
              ELSE [(IF Ready(i) THEN Seen(i) ELSE th[i]) EXCEPT !.pc = "workLock"])
  /\ Silently

(* A slip: the pool is not looked at again once the mutex is held. *)
SleepUnchecked(i) ==
  /\ At(i, "workLock") /\ ~locked
  /\ Goes(i, "workWait")
  /\ Silently

CheckForWork(i) ==
  /\ At(i, "workLock") /\ ~locked
  /\ \/ Ready(i) /\ Moves(i, [Seen(i) EXCEPT !.pc = "pending"])
     \/ ~Ready(i) /\ Goes(i, "workWait")
  /\ Silently

TakeWork(i) ==
  /\ At(i, "pending")
  /\ Moves(i, [th[i] EXCEPT !.pending = FALSE,
                            !.pc = IF th[i].pending THEN "start" ELSE "loop"])
  /\ Silently

(* A condition variable may wake a thread that nobody signalled.           *)
SpuriousWakeup(i) ==
  /\ th[i].pc \in {"workWait", "pauseWait"} /\ ~locked
  /\ Goes(i, IF At(i, "workWait") THEN "workLock" ELSE "loop")
  /\ Silently
-----------------------------------------------------------------------------
(* ggml_graph_compute_thread, by every thread of the graph.                *)

Start(i) ==
  /\ At(i, "start")
  /\ Moves(i, [th[i] EXCEPT !.pc = "node", !.node = 0, !.nth = tp.threads])
  /\ Silently

(* ggml_barrier; it loads the thread count and how often it was passed.    *)
ToBarrier(r, after) ==
  IF tp.threads = 1 THEN [r EXCEPT !.pc = after]
  ELSE [r EXCEPT !.pc = "enter", !.after = after, !.passed = tp.passed]

Leaves(i) == IF i = 0 THEN "return" ELSE "loop"

Stopped(i) == th[i].node = Len(tp.graph) \/ tp.abort = th[i].node

(* A slip: no barrier after the last node, "as nothing follows it". *)
NodeNoLastBarrier(i) ==
  /\ At(i, "node")
  /\ LET op == tp.graph[th[i].node + 1] IN
     Moves(i, IF Stopped(i) THEN [th[i] EXCEPT !.pc = Leaves(i)]
              ELSE IF op = "nop" THEN [th[i] EXCEPT !.node = @ + 1]
              ELSE IF op = "rows" THEN [th[i] EXCEPT !.pc = "rows"]
              ELSE [th[i] EXCEPT !.pc = "convert"])
  /\ Silently

(* The loop head: the next node, or the final barrier.                     *)
Node(i) ==
  /\ At(i, "node")
  /\ LET op == tp.graph[th[i].node + 1] IN
     Moves(i, IF Stopped(i) THEN ToBarrier(th[i], Leaves(i))
              ELSE IF op = "nop" THEN [th[i] EXCEPT !.node = @ + 1]
              ELSE IF op = "rows" THEN [th[i] EXCEPT !.pc = "rows"]
              ELSE [th[i] EXCEPT !.pc = "convert"])
  /\ Silently

Computes(i, stage, j) ==
  work' = [work EXCEPT ![Piece(th[i].node, stage, j)] = @ + 1]

Rows(i) ==
  /\ At(i, "rows")
  /\ Computes(i, "rows", i)
  /\ Goes(i, "abort")
  /\ UNCHANGED <<tp, locked, job>>

(* ggml_compute_forward_mul_mat: the second operand is converted into the  *)
(* work buffer, a slice per thread.                                        *)
Convert(i) ==
  /\ At(i, "convert")
  /\ Computes(i, "convert", i)
  /\ Moves(i, IF i = 0 THEN [th[i] EXCEPT !.pc = "setChunk"]
              ELSE ToBarrier([th[i] EXCEPT !.chunk = i], "chunk"))
  /\ UNCHANGED <<tp, locked, job>>

SetChunk ==
  /\ At(0, "setChunk")
  /\ tp' = [tp EXCEPT !.chunk = th[0].nth]
  /\ Moves(0, ToBarrier([th[0] EXCEPT !.chunk = 0], "chunk"))
  /\ UNCHANGED <<locked, job, work>>

Chunk(i) ==
  /\ At(i, "chunk")
  /\ LET n == ChunksFor(th[i].nth) IN
     IF th[i].chunk < n
     THEN /\ Computes(i, "chunk", th[i].chunk)
          /\ Goes(i, IF th[i].nth >= n THEN "abort" ELSE "nextChunk")
     ELSE Goes(i, "abort") /\ UNCHANGED work
  /\ UNCHANGED <<tp, locked, job>>

NextChunk(i) ==
  /\ At(i, "nextChunk")
  /\ Moves(i, [th[i] EXCEPT !.pc = "chunk", !.chunk = tp.chunk])
  /\ tp' = [tp EXCEPT !.chunk = @ + 1]
  /\ UNCHANGED <<locked, job, work>>

(* Only thread 0 asks the callback.  No barrier after the last node.       *)
AfterNode(i) ==
  LET r == [th[i] EXCEPT !.node = @ + 1]
  IN  IF r.node < Len(tp.graph) THEN ToBarrier(r, "node")
      ELSE [r EXCEPT !.pc = "node"]

Asked(i, node) ==
  /\ Moves(i, AfterNode(i))
  /\ \/ UNCHANGED tp
     \/ /\ i = 0 /\ MayAbort
        /\ tp' = [tp EXCEPT !.abort = node, !.ec = "aborted"]
  /\ UNCHANGED <<locked, job, work>>

(* A slip: the other threads are told to stop at the node just computed. *)
AbortCheckHere(i) == At(i, "abort") /\ Asked(i, th[i].node)

AbortCheck(i) == At(i, "abort") /\ Asked(i, th[i].node + 1)

(* Outside of the graph nothing is left of its local variables.            *)
Past(i) ==
  IF th[i].after \in {"node", "chunk"} THEN [th[i] EXCEPT !.pc = th[i].after]
  ELSE [NewThread(th[i].after) EXCEPT !.last = th[i].last]

EnterBarrier(i) ==
  /\ At(i, "enter")
  /\ tp' = [tp EXCEPT !.barrier = @ + 1]
  /\ Goes(i, IF tp.barrier = tp.threads - 1 THEN "reset" ELSE "wait")
  /\ UNCHANGED <<locked, job, work>>

(* A slip: the count of those who entered is left as it is. *)
ResetNothing(i) == At(i, "reset") /\ Goes(i, "pass") /\ Silently

ResetBarrier(i) ==
  /\ At(i, "reset")
  /\ tp' = [tp EXCEPT !.barrier = 0]
  /\ Goes(i, "pass")
  /\ UNCHANGED <<locked, job, work>>

PassBarrier(i) ==
  /\ At(i, "pass")
  /\ tp' = [tp EXCEPT !.passed = @ + 1]
  /\ Moves(i, Past(i))
  /\ UNCHANGED <<locked, job, work>>

LeaveBarrier(i) ==
  /\ At(i, "wait")
  /\ tp.passed # th[i].passed
  /\ Moves(i, Past(i))
  /\ Silently
-----------------------------------------------------------------------------
Compute(i) ==
  \/ Start(i) \/ Node(i) \/ Rows(i) \/ Convert(i) \/ Chunk(i) \/ NextChunk(i)
  \/ AbortCheck(i)
  \/ EnterBarrier(i) \/ ResetBarrier(i) \/ PassBarrier(i) \/ LeaveBarrier(i)

Worker(i) ==
  \/ PauseCheck(i) \/ PauseLock(i) \/ StopCheck(i) \/ Poll(i) \/ CheckForWork(i)
  \/ TakeWork(i) \/ Compute(i)

Main == Kick \/ Wake \/ Return \/ Free \/ FreeWake \/ Join \/ SetChunk \/ Compute(0)

Caller ==
  \/ \E paused \in BOOLEAN : CreatePool(paused)
  \/ \E g \in Graphs : ComputeDisposable(g) \/ \E n \in 1 .. PoolSize + 1 : ComputeInPool(g, n)
  \/ PausePool \/ ResumePool \/ FreePool

(* The caller has made its last call.                                      *)
Finished == At(0, "out") /\ job.made = MaxGraphs /\ UNCHANGED vars

Next ==
  \/ Caller \/ Main \/ Finished
  \/ \E i \in Workers : Worker(i) \/ SpuriousWakeup(i)

Spec == Init /\ [][Next]_vars

(* The system schedules every thread that can run.                         *)
FairSpec == Spec /\ WF_vars(Main) /\ \A i \in Workers : WF_vars(Worker(i))
-----------------------------------------------------------------------------
(* The pieces of a graph are each computed once, in the order of its       *)
(* stages, and the status returned is true of them.                        *)
Promised == INSTANCE GraphCompute WITH
  running <- th[0].pc \notin {"out", "idle", "free", "freeWake", "join"},
  stages  <- job.stages,
  status  <- job.status

KeepsPromise == Promised!Spec

(* "No worker threads should be accessing the parameters below at this     *)
(* stage" (ggml-cpu.c:3247): when the caller may reset the pool for the    *)
(* next graph, no worker is in the one before, but for leaving its last    *)
(* barrier.                                                                *)
InGraph(i) == th[i].pc \in {"start", "node", "rows", "convert", "chunk",
  "nextChunk", "abort", "enter", "reset", "pass"}

ResetAlone ==
  At(0, "idle") =>
    /\ tp.barrier = 0
    /\ \A i \in Workers :
         /\ ~InGraph(i)
         /\ At(i, "wait") => th[i].after = "loop" /\ th[i].passed # tp.passed

(* Every call returns: no wake-up is lost and no barrier keeps a thread.   *)
CallsReturn == At(0, "kick") ~> At(0, "idle") \/ At(0, "out")

(* Freeing a pool, sleeping or paused, ends all of its threads.            *)
PoolsEnd == At(0, "free") ~> At(0, "out")
=============================================================================
