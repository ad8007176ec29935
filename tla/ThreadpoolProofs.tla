-------------------------- MODULE ThreadpoolProofs --------------------------
(***************************************************************************)
(* Theorems about Threadpool for any number of threads, any graphs, any    *)
(* chunking and any number of calls.                                       *)
(*                                                                         *)
(* A thread that waits at a barrier the others have passed already does    *)
(* nothing but leave: the argument is about Eff, where it has left.  There *)
(* all threads of a graph pass a barrier at once, so that they are always  *)
(* in one same part of the graph, between two barriers.                    *)
(***************************************************************************)
EXTENDS Threadpool, FiniteSetTheorems, TLAPS

-----------------------------------------------------------------------------
(* The inductive invariant.                                                *)

Late(i) == At(i, "wait") /\ th[i].passed # tp.passed

Eff == [i \in Threads |-> IF Late(i) THEN Past(i) ELSE th[i]]

InBarrier == {"enter", "reset", "pass", "wait"}
Inside == {"node", "rows", "convert", "setChunk", "chunk", "nextChunk", "abort"}
            \cup InBarrier
Asleep == {"unborn", "loop", "pauseLock", "pauseWait", "stopCheck", "poll",
           "workLock", "workWait", "pending", "exited"}
Resting == {"out", "idle", "kick", "return", "free", "freeWake", "join"}

Running == Eff[0].pc \in Inside \cup {"wake", "start"}
Busy(i) == Eff[i].pc \in Inside \cup {"start"} \/ Eff[i].pending
Members == 0 .. tp.threads - 1

(* A thread in a barrier came there with the barrier as it is now, or is   *)
(* late.                                                                   *)
WaitOK ==
  \A i \in Threads :
    /\ th[i].pc \in InBarrier => th[i].after \in {"node", "chunk", Leaves(i)}
    /\ th[i].pc \in {"enter", "reset", "pass"} => th[i].passed = tp.passed
    /\ th[i].pc = "wait" => th[i].passed <= tp.passed

(* A worker of the present graph is in it from when it has seen it until   *)
(* all are through; the others sleep.                                      *)
WorkersOK ==
  \A i \in Workers :
    /\ Eff[i].pc \in Asleep \cup {"start"} \cup (Inside \ {"setChunk"})
    /\ Eff[i].pending => Eff[i].pc = "pending"
    /\ Eff[i].last <= tp.count
    /\ Busy(i) => Running /\ i \in Members
    /\ i \in Members => (Eff[i].last = tp.count <=> Busy(i) \/ ~Running)

(* The call in progress.                                                   *)
CallOK ==
  /\ Eff[0].pc \in Resting \cup {"wake", "start"} \cup Inside
  /\ ~Eff[0].pending
  /\ tp.count <= job.made /\ (Eff[0].pc = "kick" => tp.count < job.made)
  /\ tp.ec = "aborted" <=> tp.abort # -1
  /\ ~Running => tp.barrier = 0
  /\ Running \/ Eff[0].pc \in {"kick", "return"} =>
       /\ job.threads \in 1 .. PoolSize
       /\ tp.graph \in Graphs
       /\ job.stages = GraphStages(tp.graph, job.threads)
  /\ Running \/ Eff[0].pc = "return" => tp.threads = job.threads
  /\ Eff[0].pc = "kick" => tp.abort = -1

(* Those who entered the barrier are counted, and the last one finds the   *)
(* others waiting.                                                         *)
BarrierOK ==
  Running =>
    /\ tp.threads = 1 => Eff[0].pc \notin InBarrier /\ tp.barrier = 0
    /\ \A i \in Members :
         Eff[i].pc \in {"reset", "pass"} =>
           /\ tp.barrier = IF Eff[i].pc = "reset" THEN tp.threads ELSE 0
           /\ \A j \in Members \ {i} : Eff[j].pc = "wait"
    /\ (\A i \in Members : Eff[i].pc \notin {"reset", "pass"}) =>
         tp.barrier = Cardinality({i \in Members : Eff[i].pc = "wait"})

(* The part of a graph that begins at node n, after a barrier: over the    *)
(* nops that follow, to a node that is computed or to the end.             *)
Toward(n, m) ==
  /\ n <= m /\ m <= Len(tp.graph)
  /\ \A k \in n + 1 .. m : tp.graph[k] = "nop"
  /\ tp.abort = n => m = n

Working(n, m, op) ==
  Toward(n, m) /\ m < Len(tp.graph) /\ tp.graph[m + 1] = op /\ tp.abort # n

\* The last node was computed: on to a barrier, or to the end
Done(r) ==
  \/ r.pc \in InBarrier /\ r.after = "node" /\ r.node < Len(tp.graph)
  \/ /\ r.node = Len(tp.graph)
     /\ r.pc = "node" \/ (r.pc \in InBarrier /\ r.after \in {"loop", "return"})

InFirst(r, n) ==
  \/ r.pc = "node" /\ Toward(n, r.node)
  \/ r.pc \in {"rows", "abort"} /\ Working(n, r.node, "rows")
  \/ r.pc \in {"convert", "setChunk"} /\ Working(n, r.node, "matmul")
  \/ r.pc \in InBarrier /\ r.after = "chunk" /\ Working(n, r.node, "matmul")
  \/ Done(r) /\ r.node > 0 /\ Working(n, r.node - 1, "rows")
  \/ /\ r.pc \in InBarrier /\ r.after \in {"loop", "return"}
     /\ Toward(n, r.node) /\ r.node \in {Len(tp.graph), tp.abort}

\* The chunks of node n, after the barrier within it
InSecond(r, n) ==
  /\ n < Len(tp.graph) /\ tp.graph[n + 1] = "matmul"
  /\ \/ r.pc \in {"chunk", "nextChunk", "abort"} /\ r.node = n
     \/ Done(r) /\ r.node = n + 1

Unstarted(i) == Eff[i].pc \notin Inside

Together(n, half) ==
  \A i \in Members :
    \/ Unstarted(i) /\ n = 0 /\ ~half
    \/ /\ Eff[i].pc \in Inside /\ Eff[i].nth = tp.threads
       /\ IF half THEN InSecond(Eff[i], n) ELSE InFirst(Eff[i], n)

(* An abort is for the nodes after the part in which thread 0 asked for    *)
(* it, and then for all.                                                   *)
AbortOK(n, half) ==
  \/ tp.abort = -1
  \/ n > 0 /\ ~half /\ tp.abort = n
  \/ /\ Done(Eff[0]) /\ Eff[0].node = tp.abort /\ tp.abort > 0
     /\ IF half THEN tp.abort = n + 1 ELSE Working(n, tp.abort - 1, "rows")

(* Each chunk is taken by one thread: at first that of its own number, then *)
(* what the counter says.                                                  *)
Holds(i, c) == Eff[i].pc = "chunk" /\ Eff[i].chunk = c

ChunksOK(half) ==
  /\ half =>
       /\ tp.chunk >= tp.threads
       /\ \A i \in Members :
            /\ Eff[i].pc = "chunk" => Eff[i].chunk < tp.chunk
            /\ Eff[i].pc \notin {"chunk", "nextChunk"} => tp.chunk >= ChunksFor(tp.threads)
            /\ \A j \in Members \ {i} : Eff[i].pc = "chunk" => ~Holds(j, Eff[i].chunk)
  /\ \A i \in Members :
       Eff[i].pc \in InBarrier /\ Eff[i].after = "chunk" =>
         Eff[i].chunk = i /\ (i = 0 => tp.chunk = tp.threads)

(* What was computed so far.                                               *)
PastRows(r, k) ==
  r.pc \in Inside /\ (k < r.node \/ (k = r.node /\ r.pc = "abort"))

PastConvert(r, k) ==
  /\ r.pc \in Inside
  /\ \/ k < r.node
     \/ k = r.node /\ \/ r.pc \in {"setChunk", "chunk", "nextChunk", "abort"}
                      \/ r.pc \in InBarrier /\ r.after = "chunk"

PastChunk(n, half, k, c) ==
  \/ k < n
  \/ k = n /\ half /\ c < tp.chunk /\ \A i \in Members : ~Holds(i, c)

Once(p, past) == work[p] = IF past THEN 1 ELSE 0

WorkOK(n, half) ==
  \A k \in 0 .. Len(tp.graph) - 1 :
    /\ tp.graph[k + 1] = "rows" =>
         \A i \in Members : Once(Piece(k, "rows", i), PastRows(Eff[i], k))
    /\ tp.graph[k + 1] = "matmul" =>
         /\ \A i \in Members : Once(Piece(k, "convert", i), PastConvert(Eff[i], k))
         /\ \A c \in 0 .. ChunksFor(tp.threads) - 1 :
              Once(Piece(k, "chunk", c), PastChunk(n, half, k, c))

PartOK(n, half) ==
  Together(n, half) /\ AbortOK(n, half) /\ ChunksOK(half) /\ WorkOK(n, half)

GraphOK == Running => \E n \in 0 .. Len(tp.graph), half \in BOOLEAN : PartOK(n, half)

(* Before the first node, and after the last.                              *)
StopsAt == IF tp.abort = -1 THEN Len(tp.graph) ELSE tp.abort

EndsOK ==
  /\ Eff[0].pc = "kick" => \A p \in AllPieces(job.stages) : work[p] = 0
  /\ Eff[0].pc = "return" =>
       /\ tp.abort = -1 \/ tp.abort \in 1 .. Len(tp.graph)
       /\ \A p \in AllPieces(job.stages) : Once(p, p[1] < StopsAt)

IInv ==
  /\ TypeOK /\ WaitOK /\ WorkersOK /\ CallOK /\ BarrierOK /\ GraphOK /\ EndsOK

-----------------------------------------------------------------------------
(* Threads, pieces and stages.                                             *)

LEMMA SomeThreads ==
  /\ PoolSize \in Nat \ {0}
  /\ 0 \in Threads /\ 0 \notin Workers
  /\ \A i \in Workers : i \in Threads /\ i \in Nat /\ i > 0 /\ i # 0
  /\ \A i \in Threads : i = 0 \/ i \in Workers
BY PoolAssumption DEF Threads, Workers

LEMMA SomeChunks ==
  ASSUME NEW n \in Nat \ {0}
  PROVE  ChunksFor(n) \in Nat \ {0}
BY PoolAssumption DEF ChunksFor

LEMMA Upto ==
  ASSUME NEW n \in Nat
  PROVE  IsFiniteSet(0 .. n - 1) /\ Cardinality(0 .. n - 1) = n
<1>1. 0 \in Int /\ n - 1 \in Int
  OBVIOUS
<1>2. /\ IsFiniteSet(0 .. (n - 1))
      /\ Cardinality(0 .. (n - 1)) = IF 0 > n - 1 THEN 0 ELSE (n - 1) - 0 + 1
  BY ONLY <1>1, FS_Interval, Zenon
<1>3. (IF 0 > n - 1 THEN 0 ELSE (n - 1) - 0 + 1) = n
  OBVIOUS
<1> QED
  BY <1>2, <1>3

LEMMA CountTyped ==
  ASSUME TypeOK
  PROVE  /\ tp \in Pools /\ tp.count \in Nat /\ tp.passed \in Nat /\ tp.chunk \in Nat
         /\ tp.barrier \in Nat /\ tp.abort \in Int /\ job.made \in Nat
<1>1. tp \in Pools /\ job.made \in 0 .. MaxGraphs
  BY DEF TypeOK
<1> QED
  BY <1>1, PoolAssumption DEF Pools

LEMMA SomeMembers ==
  ASSUME TypeOK
  PROVE  /\ tp.threads \in Nat /\ tp.threads <= PoolSize
         /\ Members \subseteq Threads /\ IsFiniteSet(Members)
         /\ Cardinality(Members) = tp.threads
<1>1. tp.threads \in 0 .. PoolSize
  BY DEF TypeOK, Pools
<1>2. tp.threads \in Nat
  BY <1>1, PoolAssumption
<1>3. IsFiniteSet(Members) /\ Cardinality(Members) = tp.threads
  BY <1>2, Upto DEF Members
<1> QED
  BY <1>1, <1>3, PoolAssumption DEF Members, Threads

(* Pieces with other nodes, stages or indices are others.                  *)
LEMMA PieceFields ==
  ASSUME NEW k, NEW s, NEW j
  PROVE  /\ Piece(k, s, j)[1] = k
         /\ Piece(k, s, j)[2] = s
         /\ Piece(k, s, j)[3] = j
BY DEF Piece

LEMMA PiecesDiffer ==
  ASSUME NEW k, NEW s, NEW j, NEW l, NEW t, NEW m,
         Piece(k, s, j) = Piece(l, t, m)
  PROVE  k = l /\ s = t /\ j = m
BY PieceFields

LEMMA OpsOf ==
  ASSUME NEW g \in Seq(Ops), NEW k \in 0 .. Len(g) - 1
  PROVE  g[k + 1] \in {"rows", "matmul", "nop"}
BY DEF Ops

(* The pieces of a node are those that its operation says.                 *)
LEMMA NodePieceOf ==
  ASSUME NEW k, NEW n, NEW op \in Ops, NEW p
  PROVE  p \in NodePieces(op, k, n) <=>
           \/ op = "rows" /\ \E i \in 0 .. n - 1 : p = Piece(k, "rows", i)
           \/ op = "matmul" /\ \E i \in 0 .. n - 1 : p = Piece(k, "convert", i)
           \/ op = "matmul" /\ \E c \in 0 .. ChunksFor(n) - 1 : p = Piece(k, "chunk", c)
<1>1. CASE op = "rows"
  BY <1>1 DEF NodePieces
<1>2. CASE op = "matmul"
  BY <1>2 DEF NodePieces
<1>3. CASE op = "nop"
  BY <1>3 DEF NodePieces
<1> QED
  BY <1>1, <1>2, <1>3 DEF Ops

LEMMA PieceShape ==
  ASSUME NEW k \in Nat, NEW n, NEW op \in Ops, NEW p \in NodePieces(op, k, n)
  PROVE  p[1] = k /\ StageOf(p) \in {2 * k + 1, 2 * k + 2}
<1>1. PICK s, j : p = Piece(k, s, j)
  BY NodePieceOf
<1>2. p[1] = k
  BY <1>1, PieceFields
<1> QED
  BY <1>2 DEF StageOf

(* Every piece of a graph is in one of its stages.                         *)
LEMMA PiecesOfGraph ==
  ASSUME NEW g \in Seq(Ops), NEW n \in Nat
  PROVE  AllPieces(GraphStages(g, n)) = GraphPieces(g, n)
<1> DEFINE S == GraphStages(g, n)
<1>1. DOMAIN S = 1 .. 2 * Len(g)
  BY DEF GraphStages
<1>2. \A s \in 1 .. 2 * Len(g) : S[s] = {p \in GraphPieces(g, n) : StageOf(p) = s}
  BY DEF GraphStages
<1>3. ASSUME NEW p \in GraphPieces(g, n) PROVE StageOf(p) \in 1 .. 2 * Len(g)
  <2>1. PICK k \in 0 .. Len(g) - 1 : p \in NodePieces(g[k + 1], k, n)
    BY <1>3 DEF GraphPieces
  <2>2. g[k + 1] \in Ops
    BY <2>1
  <2>3. StageOf(p) \in {2 * k + 1, 2 * k + 2}
    BY <2>1, <2>2, PieceShape
  <2> QED
    BY <2>3
<1> HIDE DEF S
<1> QED
  BY <1>1, <1>2, <1>3 DEF AllPieces, S

LEMMA PieceOfGraph ==
  ASSUME NEW g \in Seq(Ops), NEW n \in Nat, NEW p
  PROVE  p \in GraphPieces(g, n) <=>
           \E k \in 0 .. Len(g) - 1 : p \in NodePieces(g[k + 1], k, n)
BY DEF GraphPieces

-----------------------------------------------------------------------------
(* What becomes of Eff.                                                    *)

LEMMA NewTyped ==
  /\ \A pc \in Counters : NewThread(pc) \in States
  /\ \A b \in BOOLEAN : NewPool(b) \in Pools
BY PoolAssumption DEF NewThread, States, NewPool, Pools

LEMMA RestartTyped ==
  ASSUME NEW r \in States, NEW pc \in Counters
  PROVE  /\ [r EXCEPT !.pc = pc] \in States
         /\ [NewThread(pc) EXCEPT !.last = r.last] \in States
<1>1. NewThread(pc) \in States
  BY NewTyped
<1> QED
  BY <1>1 DEF States

LEMMA PastTyped ==
  ASSUME TypeOK, NEW i \in Threads
  PROVE  /\ th[i] \in States /\ Past(i) \in States
         /\ Eff[i] \in States
         /\ ~Late(i) => Eff[i] = th[i]
         /\ Late(i) => Eff[i] = Past(i)
<1>1. th[i] \in States
  BY DEF TypeOK
<1>2. th[i].after \in Counters
  BY <1>1 DEF States
<1>3. Past(i) \in States
  BY <1>1, <1>2, RestartTyped DEF Past
<1> QED
  BY <1>1, <1>3 DEF Eff

LEMMA EffTyped ==
  ASSUME TypeOK
  PROVE  Eff \in [Threads -> States]
BY PastTyped DEF Eff

(* A thread that goes on, but not past a barrier.                          *)
LEMMA EffMoves ==
  ASSUME TypeOK, NEW i \in Threads, NEW r, Moves(i, r), tp'.passed = tp.passed,
         r.pc = "wait" => r.passed = tp.passed
  PROVE  Eff' = [Eff EXCEPT ![i] = r]
<1>1. th' = [th EXCEPT ![i] = r] /\ th \in [Threads -> States]
  BY DEF Moves, TypeOK
<1>2. th'[i] = r /\ \A j \in Threads \ {i} : th'[j] = th[j]
  BY <1>1
<1>3. ~Late(i)'
  BY <1>2 DEF Late, At
<1>4. \A j \in Threads \ {i} : (Late(j)' <=> Late(j)) /\ Past(j)' = Past(j)
  BY <1>2 DEF Late, At, Past
<1>5. Eff' = [j \in Threads |-> IF Late(j)' THEN Past(j)' ELSE th'[j]]
  BY DEF Eff
<1>6. \A j \in Threads : Eff'[j] = IF j = i THEN r ELSE Eff[j]
  BY <1>2, <1>3, <1>4, <1>5 DEF Eff
<1> QED
  BY <1>5, <1>6, EffTyped

LEMMA EffGoes ==
  ASSUME TypeOK, NEW i \in Threads, NEW pc, Goes(i, pc), tp'.passed = tp.passed,
         pc # "wait"
  PROVE  Eff' = [Eff EXCEPT ![i] = [th[i] EXCEPT !.pc = pc]]
<1>1. th[i] \in States
  BY PastTyped
<1>2. [th[i] EXCEPT !.pc = pc].pc = pc
  BY <1>1 DEF States
<1>3. th' = [th EXCEPT ![i] = [th[i] EXCEPT !.pc = pc]]
  BY DEF Goes
<1>4. Moves(i, [th[i] EXCEPT !.pc = pc])
  BY <1>3 DEF Moves
<1> QED
  BY <1>2, <1>4, EffMoves

(* A late thread only leaves.                                              *)
LEMMA EffLeaves ==
  ASSUME TypeOK, WaitOK, NEW i \in Threads, LeaveBarrier(i)
  PROVE  Eff' = Eff
<1>1. th' = [th EXCEPT ![i] = Past(i)] /\ tp' = tp /\ th \in [Threads -> States]
  BY DEF LeaveBarrier, Moves, Silently, TypeOK
<1>2. Late(i)
  BY DEF LeaveBarrier, Late
<1>3. th[i].after # "wait" /\ Past(i).pc = th[i].after
  BY <1>2, PastTyped DEF Late, At, WaitOK, InBarrier, Leaves, Past, NewThread, States
<1>4. th'[i] = Past(i) /\ \A j \in Threads \ {i} : th'[j] = th[j]
  BY <1>1
<1>5. ~Late(i)'
  BY <1>3, <1>4 DEF Late, At
<1>6. \A j \in Threads \ {i} : (Late(j)' <=> Late(j)) /\ Past(j)' = Past(j)
  BY <1>1, <1>4 DEF Late, At, Past
<1>7. Eff' = [j \in Threads |-> IF Late(j)' THEN Past(j)' ELSE th'[j]]
  BY DEF Eff
<1>8. \A j \in Threads : Eff'[j] = Eff[j]
  BY <1>2, <1>4, <1>5, <1>6, <1>7 DEF Eff
<1> QED
  BY <1>7, <1>8, EffTyped

(* Those who slept on the condition variable look again.                   *)
Woken(r, s) ==
  \/ s = r
  \/ r.pc = "workWait" /\ s = [r EXCEPT !.pc = "workLock"]
  \/ r.pc = "pauseWait" /\ s = [r EXCEPT !.pc = "loop"]

LEMMA AwakeTyped ==
  ASSUME TypeOK
  PROVE  /\ Awake(th) \in [Threads -> States]
         /\ \A i \in Threads : Woken(th[i], Awake(th)[i])
<1>1. ASSUME NEW i \in Threads PROVE Awake(th)[i] \in States /\ Woken(th[i], Awake(th)[i])
  <2>1. th[i] \in States
    BY DEF TypeOK
  <2>2. "workLock" \in Counters /\ "loop" \in Counters
    BY DEF Counters
  <2>3. [th[i] EXCEPT !.pc = "workLock"] \in States /\ [th[i] EXCEPT !.pc = "loop"] \in States
    BY <2>1, <2>2, RestartTyped
  <2> QED
    BY <2>1, <2>3 DEF Awake, Woken
<1> QED
  BY <1>1 DEF Awake

LEMMA EffAwakes ==
  ASSUME TypeOK, NEW f, f = Awake(th), \A i \in Workers : th'[i] = f[i], tp'.passed = tp.passed
  PROVE  \A i \in Workers : Woken(Eff[i], Eff'[i])
<1> SUFFICES ASSUME NEW i \in Workers PROVE Woken(Eff[i], Eff'[i])
  OBVIOUS
<1>1. i \in Threads /\ th[i] \in States /\ Woken(th[i], th'[i])
  BY AwakeTyped, SomeThreads, PastTyped
<1>2. Eff'[i] = IF Late(i)' THEN Past(i)' ELSE th'[i]
  BY <1>1 DEF Eff
<1>3. Eff[i] = IF Late(i) THEN Past(i) ELSE th[i]
  BY <1>1 DEF Eff
<1>4. CASE th'[i] = th[i]
  <2>1. (Late(i)' <=> Late(i)) /\ Past(i)' = Past(i)
    BY <1>4 DEF Late, At, Past
  <2> QED
    BY <2>1, <1>2, <1>3, <1>4 DEF Woken
<1>5. CASE th'[i] # th[i]
  <2>1. th[i].pc \in {"workWait", "pauseWait"} /\ th'[i].pc \in {"workLock", "loop"}
    BY <1>1, <1>5 DEF Woken, States
  <2>2. ~Late(i) /\ ~Late(i)'
    BY <2>1 DEF Late, At
  <2> QED
    BY <2>2, <1>1, <1>2, <1>3
<1> QED
  BY <1>4, <1>5

-----------------------------------------------------------------------------
(* Steps that leave every thread that is in the graph where it is.         *)

SameNodes == tp'.graph = tp.graph /\ tp'.threads = tp.threads
SameGraph == SameNodes /\ tp'.abort = tp.abort

LEMMA SamePlaces ==
  ASSUME SameGraph, NEW r, NEW n
  PROVE  /\ \A m : Toward(n, m)' <=> Toward(n, m)
         /\ \A m, op : Working(n, m, op)' <=> Working(n, m, op)
         /\ Done(r)' <=> Done(r)
         /\ InFirst(r, n)' <=> InFirst(r, n)
         /\ InSecond(r, n)' <=> InSecond(r, n)
<1>1. \A m : Toward(n, m)' <=> Toward(n, m)
  BY DEF SameGraph, SameNodes, Toward
<1>2. \A m, op : Working(n, m, op)' <=> Working(n, m, op)
  BY <1>1 DEF SameGraph, SameNodes, Working
<1>3. Done(r)' <=> Done(r)
  BY DEF SameGraph, SameNodes, Done
<1>4. InSecond(r, n)' <=> InSecond(r, n)
  BY <1>3 DEF SameGraph, SameNodes, InSecond
<1>5. InFirst(r, n)' <=> InFirst(r, n)
  BY <1>1, <1>2, <1>3 DEF SameGraph, SameNodes, InFirst
<1> QED
  BY <1>1, <1>2, <1>3, <1>4, <1>5

Undisturbed(i) ==
  Eff'[i] = Eff[i] \/ (Eff[i].pc \notin Inside /\ Eff'[i].pc \notin Inside)

LEMMA PartUndisturbed ==
  ASSUME TypeOK, SameGraph, tp'.chunk = tp.chunk, work' = work, 0 \in Members,
         \A i \in Members : Undisturbed(i), NEW n, NEW half, PartOK(n, half)
  PROVE  PartOK(n, half)'
<1>1. Members' = Members
  BY DEF SameGraph, SameNodes, Members
<1>2. Together(n, half)'
  <2> SUFFICES ASSUME NEW i \in Members
               PROVE  (\/ Unstarted(i) /\ n = 0 /\ ~half
                       \/ /\ Eff[i].pc \in Inside /\ Eff[i].nth = tp.threads
                          /\ IF half THEN InSecond(Eff[i], n) ELSE InFirst(Eff[i], n))'
    BY <1>1 DEF Together
  <2>1. CASE Eff'[i] = Eff[i]
    BY <2>1, SamePlaces DEF PartOK, Together, Unstarted, SameGraph, SameNodes
  <2>2. CASE Eff[i].pc \notin Inside /\ Eff'[i].pc \notin Inside
    BY <2>2 DEF PartOK, Together, Unstarted
  <2> QED
    BY <2>1, <2>2 DEF Undisturbed
<1>3. AbortOK(n, half)'
  <2>1. \A op, m : Working(n, m, op)' <=> Working(n, m, op)
    BY SamePlaces
  <2>2. Done(Eff[0]) /\ Eff[0].pc \in Inside => Done(Eff[0])' /\ Eff'[0] = Eff[0]
    BY SamePlaces DEF Undisturbed
  <2>3. Done(Eff[0]) => Eff[0].pc \in Inside
    BY DEF Done, Inside
  <2> QED
    BY <2>1, <2>2, <2>3 DEF PartOK, AbortOK, SameGraph, SameNodes
<1>4. ChunksOK(half)'
  <2>1. \A i \in Members : \A c : Holds(i, c)' <=> Holds(i, c)
    BY DEF Holds, Undisturbed, Inside
  <2>2. \A i \in Members : Eff'[i].pc \in Inside => Eff'[i] = Eff[i]
    BY DEF Undisturbed
  <2>3. half => \A i \in Members : Eff'[i] = Eff[i]
    BY DEF PartOK, Together, Unstarted, Undisturbed
  <2>4. half' = half /\ n' = n
    OBVIOUS
  <2>5. {"chunk"} \cup InBarrier \subseteq Inside
    BY DEF Inside
  <2> QED
    BY <1>1, <2>1, <2>2, <2>3, <2>5 DEF PartOK, ChunksOK, SameGraph, SameNodes
<1>5. WorkOK(n, half)'
  <2>1. \A i \in Members : \A c : Holds(i, c)' <=> Holds(i, c)
    BY DEF Holds, Undisturbed, Inside
  <2>2. \A i \in Members : \A k : PastRows(Eff[i], k)' <=> PastRows(Eff[i], k)
    BY DEF PastRows, Undisturbed
  <2>3. \A i \in Members : \A k : PastConvert(Eff[i], k)' <=> PastConvert(Eff[i], k)
    BY DEF PastConvert, Undisturbed
  <2>4. \A k, c : PastChunk(n, half, k, c)' <=> PastChunk(n, half, k, c)
    BY <1>1, <2>1 DEF PastChunk
  <2> QED
    BY <1>1, <2>2, <2>3, <2>4 DEF PartOK, WorkOK, SameGraph, SameNodes, Once
<1> QED
  BY <1>2, <1>3, <1>4, <1>5 DEF PartOK

LEMMA GraphUndisturbed ==
  ASSUME TypeOK, CallOK, GraphOK, BarrierOK, SameGraph, Running' => Running,
         tp'.chunk = tp.chunk, tp'.barrier = tp.barrier, work' = work,
         \A i \in Members : Undisturbed(i)
  PROVE  GraphOK' /\ BarrierOK'
<1> SUFFICES ASSUME Running, Running' PROVE GraphOK' /\ BarrierOK'
  BY DEF GraphOK, BarrierOK
<1>1. Members' = Members /\ 0 \in Members
  BY PoolAssumption DEF SameGraph, SameNodes, Members, CallOK
<1>2. PICK n \in 0 .. Len(tp.graph), half \in BOOLEAN : PartOK(n, half)
  BY DEF GraphOK
<1>3. PartOK(n, half)'
  BY <1>1, <1>2, PartUndisturbed
<1>4. GraphOK'
  BY <1>2, <1>3 DEF GraphOK, SameGraph, SameNodes
<1>5. ASSUME NEW i \in Members
      PROVE  /\ (Eff'[i].pc = "wait") = (Eff[i].pc = "wait")
             /\ (Eff'[i].pc = "reset") = (Eff[i].pc = "reset")
             /\ (Eff'[i].pc = "pass") = (Eff[i].pc = "pass")
             /\ (Eff'[i].pc \in InBarrier) = (Eff[i].pc \in InBarrier)
  <2>1. CASE Eff'[i] = Eff[i]
    BY <2>1
  <2>2. CASE Eff[i].pc \notin Inside /\ Eff'[i].pc \notin Inside
    BY <2>2 DEF Inside, InBarrier
  <2> QED
    BY <2>1, <2>2 DEF Undisturbed
<1>6. {i \in Members : Eff'[i].pc = "wait"} = {i \in Members : Eff[i].pc = "wait"}
  BY <1>5
<1>7. tp'.threads = 1 => Eff'[0].pc \notin InBarrier /\ tp'.barrier = 0
  BY <1>1, <1>5 DEF BarrierOK, SameGraph, SameNodes
<1>8. ASSUME NEW i \in Members, Eff'[i].pc \in {"reset", "pass"}
      PROVE  /\ tp'.barrier = IF Eff'[i].pc = "reset" THEN tp'.threads ELSE 0
             /\ \A j \in Members \ {i} : Eff'[j].pc = "wait"
  BY <1>5, <1>8 DEF BarrierOK, SameGraph, SameNodes
<1>9. ASSUME \A i \in Members : Eff'[i].pc \notin {"reset", "pass"}
      PROVE  tp'.barrier = Cardinality({i \in Members : Eff'[i].pc = "wait"})
  BY <1>5, <1>6, <1>9 DEF BarrierOK
<1>10. BarrierOK'
  BY <1>1, <1>7, <1>8, <1>9 DEF BarrierOK
<1> QED
  BY <1>4, <1>10

-----------------------------------------------------------------------------
(* The steps of a worker outside of a graph.                               *)

LEMMA SleeperSteps ==
  ASSUME IInv, NEW i \in Workers, th[i].pc \in Asleep, NEW r \in States,
         Moves(i, r), Silently,
         r.pc \in Asleep \cup {"start"}, r.pending => r.pc = "pending",
         r.last <= tp.count,
         r.pc = "start" \/ r.pending => Running /\ i \in Members,
         i \in Members => (r.last = tp.count <=> r.pc = "start" \/ r.pending \/ ~Running)
  PROVE  IInv'
<1>1. TypeOK /\ WaitOK /\ WorkersOK /\ CallOK /\ BarrierOK /\ GraphOK /\ EndsOK
  BY DEF IInv
<1>2. /\ i \in Threads /\ i # 0 /\ 0 \in Threads
      /\ th \in [Threads -> States]
      /\ tp' = tp /\ locked' = locked /\ job' = job /\ work' = work
      /\ th' = [th EXCEPT ![i] = r]
  BY <1>1, SomeThreads DEF Silently, Moves, TypeOK
<1>3. r.pc \notin Inside /\ th[i].pc \notin Inside
  BY DEF Asleep, Inside, InBarrier
<1>4. Eff' = [Eff EXCEPT ![i] = r]
  BY <1>1, <1>2, <1>3, EffMoves DEF Inside, InBarrier
<1>5. Eff \in [Threads -> States] /\ Eff[i] = th[i]
  BY <1>1, <1>2, <1>3, EffTyped, PastTyped DEF Late, At, Inside, InBarrier
<1>6. Eff'[i] = r /\ \A j \in Threads \ {i} : Eff'[j] = Eff[j]
  BY <1>2, <1>4, <1>5
<1>7. Eff'[0] = Eff[0] /\ (Running' <=> Running) /\ Members' = Members
  BY <1>2, <1>6 DEF Running, Members
<1>8. TypeOK'
  BY <1>1, <1>2 DEF TypeOK
<1>9. WaitOK'
  <2>1. r.pc \notin InBarrier
    BY <1>3 DEF Inside
  <2>2. th'[i] = r /\ \A j \in Threads \ {i} : th'[j] = th[j]
    BY <1>2
  <2> QED
    BY <1>1, <1>2, <2>1, <2>2 DEF WaitOK, Leaves, InBarrier
<1>10. WorkersOK'
  <2> SUFFICES ASSUME NEW j \in Workers
               PROVE  (/\ Eff[j].pc \in Asleep \cup {"start"} \cup (Inside \ {"setChunk"})
                       /\ Eff[j].pending => Eff[j].pc = "pending"
                       /\ Eff[j].last <= tp.count
                       /\ Busy(j) => Running /\ j \in Members
                       /\ j \in Members => (Eff[j].last = tp.count <=> Busy(j) \/ ~Running))'
    BY DEF WorkersOK
  <2>1. CASE j = i
    BY <2>1, <1>2, <1>3, <1>6, <1>7 DEF Busy
  <2>2. CASE j # i
    <3>1. Eff'[j] = Eff[j]
      BY <2>2, <1>6, SomeThreads
    <3> QED
      BY <3>1, <1>1, <1>2, <1>7 DEF WorkersOK, Busy
  <2> QED
    BY <2>1, <2>2
<1>11. CallOK'
  BY <1>1, <1>2, <1>7 DEF CallOK
<1>12. SameGraph /\ \A j \in Members : Undisturbed(j)
  BY <1>1, <1>2, <1>3, <1>5, <1>6, SomeMembers DEF SameGraph, SameNodes, Undisturbed
<1>13. GraphOK' /\ BarrierOK'
  BY <1>1, <1>2, <1>7, <1>12, GraphUndisturbed
<1>14. EndsOK'
  BY <1>1, <1>2, <1>7 DEF EndsOK, StopsAt, Once
<1> QED
  BY <1>8, <1>9, <1>10, <1>11, <1>13, <1>14 DEF IInv

(* What a sleeping worker is like.                                         *)
LEMMA Sleeper ==
  ASSUME IInv, NEW i \in Workers, th[i].pc \in Asleep
  PROVE  /\ i \in Threads /\ th[i] \in States /\ Eff[i] = th[i]
         /\ th[i].pending => th[i].pc = "pending"
         /\ th[i].last <= tp.count
         /\ th[i].pending => Running /\ i \in Members
         /\ i \in Members => (th[i].last = tp.count <=> th[i].pending \/ ~Running)
<1>1. TypeOK /\ WorkersOK /\ i \in Threads
  BY SomeThreads DEF IInv
<1>2. th[i] \in States /\ Eff[i] = th[i]
  BY <1>1, PastTyped DEF Late, At, Asleep
<1>3. Busy(i) <=> th[i].pending
  BY <1>2 DEF Busy, Asleep, Inside, InBarrier
<1> QED
  BY <1>1, <1>2, <1>3 DEF WorkersOK

LEMMA SleeperGoes ==
  ASSUME IInv, NEW i \in Workers, th[i].pc \in Asleep \ {"pending"},
         NEW pc \in Asleep, Goes(i, pc), Silently
  PROVE  IInv'
<1> DEFINE r == [th[i] EXCEPT !.pc = pc]
<1>1. pc \in Counters
  BY DEF Asleep, Counters
<1>2. th[i] \in States /\ ~th[i].pending
  BY Sleeper
<1>3. /\ r \in States /\ r.pc = pc /\ r.pending = th[i].pending /\ r.last = th[i].last
  BY <1>1, <1>2, RestartTyped DEF States
<1>4. Moves(i, r)
  BY DEF Goes, Moves
<1>5. pc # "start"
  BY DEF Asleep
<1> HIDE DEF r
<1> QED
  BY <1>2, <1>3, <1>4, <1>5, Sleeper, SleeperSteps

(* A worker that sees a new graph is one of those whom it waits for, or    *)
(* has no part in it.                                                      *)
LEMMA SeenOK ==
  ASSUME IInv, NEW i \in Workers, th[i].pc \in Asleep \ {"pending"}
  PROVE  /\ Seen(i) \in States
         /\ Seen(i).pc = th[i].pc
         /\ Seen(i).last <= tp.count
         /\ Ready(i) /\ Seen(i).pending => Running /\ i \in Members
         /\ Ready(i) /\ i \in Members =>
              (Seen(i).last = tp.count <=> Seen(i).pending \/ ~Running)
<1>1. /\ i \in Threads /\ th[i] \in States /\ ~th[i].pending /\ th[i].last <= tp.count
      /\ i \in Members => (th[i].last = tp.count <=> ~Running)
  BY Sleeper
<1>2. tp.count \in Nat /\ tp.threads \in Nat /\ i \in Nat
  BY SomeMembers, SomeThreads, PoolAssumption DEF IInv, TypeOK, Pools
<1>3. i < tp.threads <=> i \in Members
  BY <1>2 DEF Members
<1>4. CASE tp.stop \/ tp.pause
  BY <1>4, <1>1 DEF Seen
<1>5. CASE ~(tp.stop \/ tp.pause)
  <2> DEFINE b == i < tp.threads
  <2>1. Seen(i) = [th[i] EXCEPT !.pending = b, !.last = tp.count]
    BY <1>5 DEF Seen
  <2>2. b \in BOOLEAN /\ (b <=> i \in Members)
    BY <1>2, <1>3
  <2> HIDE DEF b
  <2>3. /\ Seen(i) \in States /\ Seen(i).pc = th[i].pc
        /\ Seen(i).pending = b /\ Seen(i).last = tp.count
    BY <2>1, <2>2, <1>1, <1>2 DEF States
  <2>4. Ready(i) => tp.count # th[i].last
    BY <1>5 DEF Ready, NewGraph
  <2> QED
    BY <2>2, <2>3, <2>4, <1>1, <1>2
<1> QED
  BY <1>4, <1>5

LEMMA PollStep ==
  ASSUME IInv, NEW i \in Workers, Poll(i)
  PROVE  IInv'
<1>1. th[i].pc \in Asleep \ {"pending"}
  BY DEF Poll, At, Asleep
<1>2. th[i] \in States
  BY <1>1, Sleeper
<1>3. {"pending", "workLock"} \subseteq Counters \cap Asleep
  BY DEF Asleep, Counters
<1>4. CASE Ready(i) /\ Seen(i).pending
  <2> DEFINE r == [Seen(i) EXCEPT !.pc = "pending"]
  <2>1. r \in States /\ r.pc = "pending" /\ r.pending = Seen(i).pending /\ r.last = Seen(i).last
    BY <1>1, <1>3, SeenOK, RestartTyped DEF States
  <2>2. Moves(i, r) /\ Silently
    BY <1>4 DEF Poll
  <2> HIDE DEF r
  <2> QED
    BY <1>1, <1>3, <1>4, <2>1, <2>2, SeenOK, SleeperSteps
<1>5. CASE ~(Ready(i) /\ Seen(i).pending)
  <2> DEFINE s == IF Ready(i) THEN Seen(i) ELSE th[i]
             r == [s EXCEPT !.pc = "workLock"]
  <2>1. /\ s \in States /\ ~s.pending /\ s.last <= tp.count
        /\ i \in Members => (s.last = tp.count <=> ~Running)
    BY <1>1, <1>5, SeenOK, Sleeper
  <2>2. r \in States /\ r.pc = "workLock" /\ r.pending = s.pending /\ r.last = s.last
    BY <2>1, <1>3, RestartTyped DEF States
  <2>3. Moves(i, r) /\ Silently
    BY <1>5 DEF Poll
  <2> HIDE DEF r, s
  <2> QED
    BY <1>1, <1>3, <2>1, <2>2, <2>3, SleeperSteps
<1> QED
  BY <1>4, <1>5

LEMMA CheckForWorkStep ==
  ASSUME IInv, NEW i \in Workers, CheckForWork(i)
  PROVE  IInv'
<1>1. th[i].pc \in Asleep \ {"pending"}
  BY DEF CheckForWork, At, Asleep
<1>2. {"pending", "workWait"} \subseteq Counters \cap Asleep
  BY DEF Asleep, Counters
<1>3. CASE Ready(i) /\ Moves(i, [Seen(i) EXCEPT !.pc = "pending"])
  <2> DEFINE r == [Seen(i) EXCEPT !.pc = "pending"]
  <2>1. r \in States /\ r.pc = "pending" /\ r.pending = Seen(i).pending /\ r.last = Seen(i).last
    BY <1>1, <1>2, SeenOK, RestartTyped DEF States
  <2>2. Moves(i, r) /\ Silently
    BY <1>3 DEF CheckForWork
  <2> HIDE DEF r
  <2> QED
    BY <1>1, <1>2, <1>3, <2>1, <2>2, SeenOK, SleeperSteps
<1>4. CASE Goes(i, "workWait")
  BY <1>1, <1>2, <1>4, SleeperGoes DEF CheckForWork
<1> QED
  BY <1>3, <1>4 DEF CheckForWork

LEMMA TakeWorkStep ==
  ASSUME IInv, NEW i \in Workers, TakeWork(i)
  PROVE  IInv'
<1> DEFINE pc == IF th[i].pending THEN "start" ELSE "loop"
           r == [th[i] EXCEPT !.pending = FALSE, !.pc = pc]
<1>1. th[i].pc \in Asleep
  BY DEF TakeWork, At, Asleep
<1>2. pc \in Counters /\ pc \in Asleep \cup {"start"}
  BY DEF Asleep, Counters
<1>3. th[i] \in States
  BY <1>1, Sleeper
<1>4. r \in States /\ r.pc = pc /\ ~r.pending /\ r.last = th[i].last
  BY <1>2, <1>3 DEF States
<1>5. Moves(i, r) /\ Silently
  BY DEF TakeWork
<1>6. pc = "start" <=> th[i].pending
  OBVIOUS
<1> HIDE DEF r, pc
<1> QED
  BY <1>1, <1>2, <1>4, <1>5, <1>6, Sleeper, SleeperSteps

LEMMA SleeperStep ==
  ASSUME IInv, NEW i \in Workers,
         \/ PauseCheck(i) \/ PauseLock(i) \/ StopCheck(i) \/ Poll(i) \/ CheckForWork(i)
         \/ TakeWork(i) \/ SpuriousWakeup(i)
  PROVE  IInv'
<1>1. CASE PauseCheck(i)
  BY <1>1, SleeperGoes DEF PauseCheck, At, Asleep
<1>2. CASE PauseLock(i)
  BY <1>2, SleeperGoes DEF PauseLock, At, Asleep
<1>3. CASE StopCheck(i)
  BY <1>3, SleeperGoes DEF StopCheck, At, Asleep
<1>4. CASE SpuriousWakeup(i)
  BY <1>4, SleeperGoes DEF SpuriousWakeup, At, Asleep
<1> QED
  BY <1>1, <1>2, <1>3, <1>4, PollStep, CheckForWorkStep, TakeWorkStep

-----------------------------------------------------------------------------
(* The steps of the main thread outside of a graph.                        *)

LEMMA WokenWorkers ==
  ASSUME IInv, \A i \in Workers : Woken(th[i], th'[i]), \A i \in Workers : Woken(Eff[i], Eff'[i]),
         th'[0].pc \notin InBarrier, Running' <=> Running,
         tp'.count = tp.count, tp'.threads = tp.threads, tp'.passed = tp.passed
  PROVE  WaitOK' /\ WorkersOK'
<1>1. TypeOK /\ WaitOK /\ WorkersOK /\ Members' = Members
  BY DEF IInv, Members
<1>2. WaitOK'
  <2> SUFFICES ASSUME NEW i \in Threads
               PROVE  (/\ th[i].pc \in InBarrier => th[i].after \in {"node", "chunk", Leaves(i)}
                       /\ th[i].pc \in {"enter", "reset", "pass"} => th[i].passed = tp.passed
                       /\ th[i].pc = "wait" => th[i].passed <= tp.passed)'
    BY DEF WaitOK
  <2>1. CASE i = 0
    BY <2>1 DEF InBarrier
  <2>2. CASE i \in Workers
    <3>1. th[i] \in States /\ Woken(th[i], th'[i])
      BY <1>1, <2>2, PastTyped
    <3>2. th'[i] = th[i] \/ th'[i].pc \in {"workLock", "loop"}
      BY <3>1 DEF Woken, States
    <3> QED
      BY <3>2, <1>1 DEF WaitOK, Leaves, InBarrier
  <2> QED
    BY <2>1, <2>2, SomeThreads
<1>3. WorkersOK'
  <2> SUFFICES ASSUME NEW i \in Workers
               PROVE  (/\ Eff[i].pc \in Asleep \cup {"start"} \cup (Inside \ {"setChunk"})
                       /\ Eff[i].pending => Eff[i].pc = "pending"
                       /\ Eff[i].last <= tp.count
                       /\ Busy(i) => Running /\ i \in Members
                       /\ i \in Members => (Eff[i].last = tp.count <=> Busy(i) \/ ~Running))'
    BY DEF WorkersOK
  <2>1. Eff[i] \in States /\ Woken(Eff[i], Eff'[i])
    BY <1>1, PastTyped, SomeThreads
  <2>2. CASE Eff'[i] = Eff[i]
    BY <2>2, <1>1 DEF WorkersOK, Busy
  <2>3. CASE Eff'[i] # Eff[i]
    <3>1. /\ Eff[i].pc \in {"workWait", "pauseWait"} /\ Eff'[i].pc \in {"workLock", "loop"}
          /\ Eff'[i].pending = Eff[i].pending /\ Eff'[i].last = Eff[i].last
      BY <2>1, <2>3 DEF Woken, States
    <3>2. ~Eff[i].pending
      BY <3>1, <1>1 DEF WorkersOK
    <3>3. ~Busy(i) /\ ~Busy(i)'
      BY <3>1, <3>2 DEF Busy, Inside, InBarrier
    <3> QED
      BY <3>1, <3>2, <3>3, <1>1 DEF WorkersOK, Asleep
  <2> QED
    BY <2>2, <2>3
<1> QED
  BY <1>2, <1>3

LEMMA RestingSteps ==
  ASSUME IInv, th[0].pc \in Resting, th' \in [Threads -> States],
         th'[0].pc \in Resting, ~th'[0].pending,
         \A i \in Workers : Woken(th[i], th'[i]), \A i \in Workers : Woken(Eff[i], Eff'[i]),
         tp'.count = tp.count, tp'.threads = tp.threads, tp'.passed = tp.passed
  PROVE  /\ Eff[0] = th[0] /\ Eff'[0] = th'[0] /\ ~Running /\ ~Running'
         /\ WaitOK' /\ WorkersOK' /\ GraphOK' /\ BarrierOK'
<1>1. 0 \in Threads /\ TypeOK
  BY SomeThreads DEF IInv
<1>2. Eff[0] = th[0] /\ Eff'[0] = th'[0]
  BY <1>1 DEF Eff, Late, At, Resting
<1>3. ~Running /\ ~Running'
  BY <1>2 DEF Running, Resting, Inside, InBarrier
<1>4. WaitOK' /\ WorkersOK'
  BY <1>3, WokenWorkers DEF Resting, InBarrier
<1> QED
  BY <1>2, <1>3, <1>4 DEF GraphOK, BarrierOK

(* The thread records when only the main thread goes on.                   *)
LEMMA MainGoesOn ==
  ASSUME TypeOK, th[0].pc # "wait", NEW pc \in Counters, pc # "wait", Goes(0, pc),
         tp'.passed = tp.passed
  PROVE  /\ th' \in [Threads -> States]
         /\ th'[0] = [th[0] EXCEPT !.pc = pc]
         /\ th'[0].pc = pc /\ th'[0].pending = th[0].pending
         /\ \A i \in Workers : Woken(th[i], th'[i])
         /\ \A i \in Workers : Woken(Eff[i], Eff'[i])
<1>1. 0 \in Threads /\ th \in [Threads -> States]
  BY SomeThreads DEF TypeOK
<1>2. th' = [th EXCEPT ![0] = [th[0] EXCEPT !.pc = pc]]
  BY DEF Goes
<1>3. [th[0] EXCEPT !.pc = pc] \in States
  BY <1>1, RestartTyped
<1>4. \A i \in Workers : th'[i] = th[i]
  BY <1>1, <1>2, SomeThreads
<1>5. Eff' = [Eff EXCEPT ![0] = [th[0] EXCEPT !.pc = pc]]
  BY <1>1, EffGoes
<1>6. \A i \in Workers : Eff'[i] = Eff[i]
  BY <1>5, EffTyped, SomeThreads
<1>7. th'[0] = [th[0] EXCEPT !.pc = pc] /\ th[0] \in States
  BY <1>1, <1>2
<1> QED
  BY <1>1, <1>2, <1>3, <1>4, <1>6, <1>7 DEF Woken, States

LEMMA MainWakes ==
  ASSUME TypeOK, th[0].pc \notin {"wait", "workWait", "pauseWait"},
         NEW pc \in Counters, pc # "wait", th' = MainGoes(Awake(th), pc), tp'.passed = tp.passed
  PROVE  /\ th' \in [Threads -> States]
         /\ th'[0].pc = pc /\ th'[0].pending = th[0].pending
         /\ \A i \in Workers : Woken(th[i], th'[i])
         /\ \A i \in Workers : Woken(Eff[i], Eff'[i])
<1> DEFINE f == Awake(th)
<1>1. 0 \in Threads /\ f \in [Threads -> States] /\ \A i \in Threads : Woken(th[i], f[i])
  BY SomeThreads, AwakeTyped
<1>2. f[0] = th[0]
  BY <1>1 DEF Woken
<1>3. th' = [f EXCEPT ![0] = [f[0] EXCEPT !.pc = pc]]
  BY DEF MainGoes
<1>4. [f[0] EXCEPT !.pc = pc] \in States
  BY <1>1, RestartTyped
<1>5. f = Awake(th)
  OBVIOUS
<1> HIDE DEF f
<1>6. \A i \in Workers : th'[i] = f[i]
  BY <1>1, <1>3, SomeThreads
<1>7. \A i \in Workers : Woken(Eff[i], Eff'[i])
  BY <1>5, <1>6, EffAwakes
<1>8. th'[0] = [f[0] EXCEPT !.pc = pc] /\ f[0] \in States
  BY <1>1, <1>3
<1> QED
  BY <1>1, <1>2, <1>3, <1>4, <1>6, <1>7, <1>8, SomeThreads DEF States

(* A new pool: nobody has done anything.                                   *)
LEMMA FreshSteps ==
  ASSUME IInv, NEW pc \in Resting, NEW wpc \in {"loop", "unborn"},
         th' = [i \in Threads |-> NewThread(IF i = 0 THEN pc ELSE wpc)],
         tp'.count = 0, tp'.threads = 0
  PROVE  /\ th' \in [Threads -> States]
         /\ Eff'[0] = NewThread(pc) /\ ~Running'
         /\ WaitOK' /\ WorkersOK' /\ GraphOK' /\ BarrierOK'
<1>1. pc \in Counters /\ wpc \in Counters
  BY DEF Resting, Counters
<1>2. \A i \in Threads : th'[i] = NewThread(IF i = 0 THEN pc ELSE wpc)
  OBVIOUS
<1>3. \A i \in Threads : th'[i] \in States
  BY <1>1, <1>2, NewTyped
<1>4. \A i \in Threads :
        /\ th'[i].pc = IF i = 0 THEN pc ELSE wpc
        /\ th'[i].last = 0 /\ ~th'[i].pending
  BY <1>2 DEF NewThread
<1>5. \A i \in Threads : th'[i].pc \notin InBarrier \cup Inside \cup {"start", "wake"}
  BY <1>4 DEF Resting, InBarrier, Inside
<1>6. \A i \in Threads : Eff'[i] = th'[i]
  BY <1>5 DEF Eff, Late, At, InBarrier
<1>7. ~Running' /\ Eff'[0] = NewThread(pc)
  BY <1>2, <1>5, <1>6, SomeThreads DEF Running
<1>8. WaitOK'
  BY <1>5 DEF WaitOK, InBarrier
<1>9. \A i \in Threads : i \notin Members'
  BY SomeMembers, SomeThreads DEF Members, Threads
<1>10. WorkersOK'
  <2> SUFFICES ASSUME NEW i \in Workers
               PROVE  (/\ Eff[i].pc \in Asleep \cup {"start"} \cup (Inside \ {"setChunk"})
                       /\ Eff[i].pending => Eff[i].pc = "pending"
                       /\ Eff[i].last <= tp.count
                       /\ Busy(i) => Running /\ i \in Members
                       /\ i \in Members => (Eff[i].last = tp.count <=> Busy(i) \/ ~Running))'
    BY DEF WorkersOK
  <2>1. i \in Threads /\ i # 0
    BY SomeThreads
  <2>2. Eff'[i].pc = wpc /\ Eff'[i].last = 0 /\ ~Eff'[i].pending
    BY <2>1, <1>4, <1>6
  <2>3. ~Busy(i)'
    BY <2>1, <2>2, <1>5, <1>6 DEF Busy
  <2> QED
    BY <2>1, <2>2, <2>3, <1>9 DEF Asleep
<1> QED
  BY <1>3, <1>7, <1>8, <1>10 DEF GraphOK, BarrierOK

LEMMA CreatePoolStep ==
  ASSUME IInv, NEW paused \in BOOLEAN, CreatePool(paused)
  PROVE  IInv'
<1>1. /\ TypeOK /\ CallOK /\ th[0].pc = "out"
      /\ tp' = NewPool(paused) /\ th' = Created("idle")
      /\ job' = [job EXCEPT !.disposable = FALSE] /\ locked' = locked /\ work' = work
  BY DEF IInv, CreatePool, At
<1>2. th' = [i \in Threads |-> NewThread(IF i = 0 THEN "idle" ELSE "loop")]
  BY <1>1 DEF Created
<1>3. /\ tp'.count = 0 /\ tp'.threads = 0 /\ tp'.barrier = 0 /\ tp'.abort = -1
      /\ tp'.ec = "success" /\ tp' \in Pools
  BY <1>1, NewTyped DEF NewPool
<1>4. /\ th' \in [Threads -> States] /\ Eff'[0] = NewThread("idle") /\ ~Running'
      /\ WaitOK' /\ WorkersOK' /\ GraphOK' /\ BarrierOK'
  BY <1>2, <1>3, FreshSteps DEF Resting
<1>5. Eff'[0].pc = "idle" /\ ~Eff'[0].pending
  BY <1>4 DEF NewThread
<1>6. job'.stages = job.stages /\ job'.made = job.made /\ job'.made \in Nat
  BY <1>1, PoolAssumption DEF TypeOK
<1>7. TypeOK'
  BY <1>1, <1>3, <1>4 DEF TypeOK
<1>8. CallOK'
  BY <1>3, <1>4, <1>5, <1>6 DEF CallOK, Resting
<1>9. EndsOK'
  BY <1>5 DEF EndsOK
<1> QED
  BY <1>4, <1>7, <1>8, <1>9 DEF IInv

(* A graph is about to be computed by n threads.                           *)
LEMMA BeginsTyped ==
  ASSUME TypeOK, NEW g \in Graphs, NEW n \in 1 .. PoolSize, Begins(g, n)
  PROVE  /\ job' \in [stages: Plans, threads: 0 .. PoolSize, made: 0 .. MaxGraphs,
                      disposable: BOOLEAN, status: {"success", "aborted"}]
         /\ job'.stages = GraphStages(g, n) /\ job'.threads = n
         /\ job'.made = job.made + 1 /\ job.made \in Nat
         /\ job'.status = job.status
         /\ work' = [p \in AllPieces(job'.stages) |-> 0]
         /\ locked' = locked
<1>1. GraphStages(g, n) \in Plans
  BY DEF Plans
<1>2. job.made \in 0 .. MaxGraphs /\ job.made < MaxGraphs /\ n \in 0 .. PoolSize
  BY PoolAssumption DEF TypeOK, Begins
<1> DEFINE d == At(0, "out")
           m == job.made + 1
           J == [stages: Plans, threads: 0 .. PoolSize, made: 0 .. MaxGraphs,
                 disposable: BOOLEAN, status: {"success", "aborted"}]
<1>3. d \in BOOLEAN
  BY DEF At
<1>4. m \in 0 .. MaxGraphs
  BY <1>2, PoolAssumption
<1>5. job' = [job EXCEPT !.stages = GraphStages(g, n), !.threads = n,
                         !.made = m, !.disposable = d]
  BY DEF Begins
<1>6. job \in J
  BY DEF TypeOK
<1> HIDE DEF d, m
<1>7. /\ job' \in J /\ job'.stages = GraphStages(g, n) /\ job'.threads = n
      /\ job'.made = m /\ job'.status = job.status
  BY <1>1, <1>2, <1>3, <1>4, <1>5, <1>6
<1> QED
  BY <1>2, <1>7 DEF Begins, m

LEMMA KickNext ==
  ASSUME TypeOK, CallOK, NEW g \in Graphs, NEW n \in 1 .. PoolSize, Begins(g, n),
         th' \in [Threads -> States], tp' \in Pools,
         Eff'[0].pc = "kick", ~Eff'[0].pending, ~Running',
         tp'.count <= tp.count, tp'.barrier = 0, tp'.ec = "success", tp'.abort = -1,
         tp'.graph = g
  PROVE  TypeOK' /\ CallOK' /\ EndsOK'
<1>1. TypeOK'
  BY BeginsTyped DEF TypeOK
<1>2. tp'.count <= job.made /\ tp'.count < job'.made
  <2>1. tp'.count \in 0 .. MaxGraphs /\ tp.count \in Nat /\ job.made \in Nat
    <3>1. tp'.count \in 0 .. MaxGraphs
      BY DEF Pools
    <3> QED
      BY <3>1, CountTyped
  <2>2. tp.count <= job.made
    BY DEF CallOK
  <2>3. job'.made = job.made + 1
    BY BeginsTyped
  <2> QED
    BY <2>1, <2>2, <2>3, PoolAssumption
<1>3. /\ job'.threads \in 1 .. PoolSize /\ tp'.graph \in Graphs
      /\ job'.stages = GraphStages(tp'.graph, job'.threads) /\ job'.made = job.made + 1
      /\ job.made \in Nat
  BY BeginsTyped
<1>4. CallOK'
  <2>1. (job.stages = GraphStages(tp.graph, job.threads))'
    BY <1>3
  <2>2. tp'.count <= job'.made
    <3>1. tp'.count \in 0 .. MaxGraphs
      BY DEF Pools
    <3> QED
      BY <1>2, <1>3, <3>1, CountTyped, PoolAssumption
  <2> QED
    BY <1>2, <1>3, <2>1, <2>2 DEF CallOK, Resting
<1>5. EndsOK'
  BY BeginsTyped DEF EndsOK
<1> QED
  BY <1>1, <1>4, <1>5

LEMMA ComputeDisposableStep ==
  ASSUME IInv, NEW g \in Graphs, ComputeDisposable(g)
  PROVE  IInv'
<1>1. /\ TypeOK /\ CallOK /\ th[0].pc = "out" /\ Begins(g, PoolSize)
      /\ tp' = [NewPool(FALSE) EXCEPT !.graph = g] /\ th' = Created("kick")
  BY DEF IInv, ComputeDisposable, At
<1>2. th' = [i \in Threads |-> NewThread(IF i = 0 THEN "kick" ELSE "loop")]
  BY <1>1 DEF Created
<1>3. NewPool(FALSE) \in Pools
  BY NewTyped
<1>4. /\ tp' \in Pools /\ tp'.graph = g /\ tp'.count = NewPool(FALSE).count
      /\ tp'.threads = NewPool(FALSE).threads /\ tp'.barrier = NewPool(FALSE).barrier
      /\ tp'.abort = NewPool(FALSE).abort /\ tp'.ec = NewPool(FALSE).ec
  BY <1>1, <1>3 DEF Pools
<1>5. /\ tp'.count = 0 /\ tp'.threads = 0 /\ tp'.barrier = 0
      /\ tp'.abort = -1 /\ tp'.ec = "success"
  BY <1>4 DEF NewPool
<1>6. /\ th' \in [Threads -> States] /\ Eff'[0] = NewThread("kick") /\ ~Running'
      /\ WaitOK' /\ WorkersOK' /\ GraphOK' /\ BarrierOK'
  BY <1>2, <1>5, FreshSteps DEF Resting
<1>7. Eff'[0].pc = "kick" /\ ~Eff'[0].pending
  BY <1>6 DEF NewThread
<1>8. PoolSize \in 1 .. PoolSize
  BY SomeThreads
<1>9. tp'.count <= tp.count
  <2>1. tp.count \in Nat
    BY <1>1, CountTyped
  <2> QED
    BY <1>5, <2>1
<1>10. TypeOK' /\ CallOK' /\ EndsOK'
  BY <1>1, <1>4, <1>5, <1>6, <1>7, <1>8, <1>9, KickNext
<1> QED
  BY <1>6, <1>10 DEF IInv

LEMMA ComputeInPoolStep ==
  ASSUME IInv, NEW g \in Graphs, NEW m \in 1 .. PoolSize + 1, ComputeInPool(g, m)
  PROVE  IInv'
<1> DEFINE n == IF m > PoolSize THEN PoolSize ELSE m
<1>1. /\ TypeOK /\ CallOK /\ th[0].pc = "idle" /\ Begins(g, n) /\ Goes(0, "kick")
      /\ tp' = [tp EXCEPT !.graph = g, !.chunk = 0, !.abort = -1, !.ec = "success"]
  BY DEF IInv, ComputeInPool, At
<1>2. n \in 1 .. PoolSize
  BY PoolAssumption
<1> HIDE DEF n
<1>3. /\ tp' \in Pools /\ tp'.graph = g /\ tp'.count = tp.count
      /\ tp'.threads = tp.threads /\ tp'.barrier = tp.barrier /\ tp'.passed = tp.passed
      /\ tp'.abort = -1 /\ tp'.ec = "success"
  <2>1. tp \in Pools /\ 0 \in Nat /\ -1 \in Int /\ "success" \in {"success", "aborted"}
    BY <1>1, CountTyped
  <2> QED
    BY <1>1, <2>1 DEF Pools
<1>4. "kick" \in Counters
  BY DEF Counters
<1>5. /\ th' \in [Threads -> States]
      /\ th'[0].pc = "kick" /\ th'[0].pending = th[0].pending
      /\ \A i \in Workers : Woken(th[i], th'[i])
      /\ \A i \in Workers : Woken(Eff[i], Eff'[i])
  BY <1>1, <1>3, <1>4, MainGoesOn
<1>6. Eff[0] = th[0]
  BY <1>1, SomeThreads DEF Eff, Late, At
<1>7. /\ Eff'[0] = th'[0] /\ ~Running /\ ~Running'
      /\ WaitOK' /\ WorkersOK' /\ GraphOK' /\ BarrierOK'
  BY <1>1, <1>3, <1>5, <1>6, RestingSteps DEF Resting, CallOK
<1>8. tp'.barrier = 0 /\ tp'.count <= tp.count
  BY <1>1, <1>3, <1>7, CountTyped DEF CallOK
<1>9. TypeOK' /\ CallOK' /\ EndsOK'
  BY <1>1, <1>2, <1>3, <1>5, <1>6, <1>7, <1>8, KickNext DEF CallOK
<1> QED
  BY <1>7, <1>9 DEF IInv

(* Steps of the main thread that leave the call as it is.                  *)
LEMMA RestTyped ==
  ASSUME IInv, th[0].pc \in Resting, NEW pc \in Resting \ {"kick", "return"}, ~Running,
         Eff'[0].pc = pc, ~Eff'[0].pending, ~Running', th' \in [Threads -> States],
         tp' \in Pools, locked' \in BOOLEAN, work' = work,
         job' \in [stages: Plans, threads: 0 .. PoolSize, made: 0 .. MaxGraphs,
                   disposable: BOOLEAN, status: {"success", "aborted"}],
         job'.stages = job.stages, job'.made = job.made,
         tp'.count = tp.count, tp'.barrier = tp.barrier, tp'.abort = tp.abort, tp'.ec = tp.ec
  PROVE  TypeOK' /\ CallOK' /\ EndsOK'
<1>1. TypeOK' /\ EndsOK'
  BY DEF IInv, TypeOK, EndsOK
<1>2. CallOK'
  BY DEF IInv, CallOK
<1> QED
  BY <1>1, <1>2

LEMMA PauseResumeStep ==
  ASSUME IInv, PausePool \/ ResumePool
  PROVE  IInv'
<1>1. PICK b \in BOOLEAN :
        /\ th[0].pc = "idle" /\ th' = Awake(th) /\ tp' = [tp EXCEPT !.pause = b]
        /\ locked' = locked /\ job' = job /\ work' = work
  BY DEF PausePool, ResumePool, At
<1>2. TypeOK /\ CallOK /\ 0 \in Threads
  BY SomeThreads DEF IInv
<1>3. /\ tp' \in Pools /\ tp'.count = tp.count /\ tp'.threads = tp.threads
      /\ tp'.barrier = tp.barrier /\ tp'.passed = tp.passed
      /\ tp'.abort = tp.abort /\ tp'.ec = tp.ec
  BY <1>1, <1>2, CountTyped DEF Pools
<1>4. /\ th' \in [Threads -> States] /\ th'[0] = th[0]
      /\ \A i \in Workers : Woken(th[i], th'[i])
  BY <1>1, <1>2, AwakeTyped, SomeThreads DEF Woken
<1>5. \A i \in Workers : Woken(Eff[i], Eff'[i])
  BY <1>1, <1>2, <1>3, EffAwakes
<1>6. Eff[0] = th[0]
  BY <1>1, <1>2 DEF Eff, Late, At
<1>7. /\ Eff'[0] = th'[0] /\ ~Running /\ ~Running'
      /\ WaitOK' /\ WorkersOK' /\ GraphOK' /\ BarrierOK'
  BY <1>1, <1>2, <1>3, <1>4, <1>5, <1>6, RestingSteps DEF Resting, CallOK
<1>8. TypeOK' /\ CallOK' /\ EndsOK'
  BY <1>1, <1>2, <1>3, <1>4, <1>6, <1>7, RestTyped DEF Resting, CallOK, TypeOK
<1> QED
  BY <1>7, <1>8 DEF IInv

LEMMA MainRests ==
  ASSUME IInv, th[0].pc \in Resting, NEW pc \in Resting \ {"kick", "return"},
         Goes(0, pc) \/ th' = MainGoes(Awake(th), pc),
         tp' \in Pools, locked' \in BOOLEAN, work' = work,
         job' \in [stages: Plans, threads: 0 .. PoolSize, made: 0 .. MaxGraphs,
                   disposable: BOOLEAN, status: {"success", "aborted"}],
         job'.stages = job.stages, job'.made = job.made,
         tp'.count = tp.count, tp'.threads = tp.threads, tp'.passed = tp.passed,
         tp'.barrier = tp.barrier, tp'.abort = tp.abort, tp'.ec = tp.ec
  PROVE  IInv'
<1>1. TypeOK /\ CallOK /\ 0 \in Threads
  BY SomeThreads DEF IInv
<1>2. pc \in Counters /\ pc # "wait"
  BY DEF Resting, Counters
<1>3. th[0].pc \notin {"wait", "workWait", "pauseWait"}
  BY DEF Resting
<1>4. /\ th' \in [Threads -> States]
      /\ th'[0].pc = pc /\ th'[0].pending = th[0].pending
      /\ \A i \in Workers : Woken(th[i], th'[i])
      /\ \A i \in Workers : Woken(Eff[i], Eff'[i])
  BY <1>1, <1>2, <1>3, MainGoesOn, MainWakes
<1>5. Eff[0] = th[0]
  BY <1>1, <1>3 DEF Eff, Late, At
<1>6. /\ Eff'[0] = th'[0] /\ ~Running /\ ~Running'
      /\ WaitOK' /\ WorkersOK' /\ GraphOK' /\ BarrierOK'
  BY <1>1, <1>4, <1>5, RestingSteps DEF CallOK
<1>7. TypeOK' /\ CallOK' /\ EndsOK'
  BY <1>1, <1>4, <1>5, <1>6, RestTyped DEF CallOK
<1> QED
  BY <1>6, <1>7 DEF IInv

LEMMA RestStep ==
  ASSUME IInv, FreePool \/ Return \/ Free \/ FreeWake
  PROVE  IInv'
<1>1. /\ tp \in Pools /\ locked \in BOOLEAN
      /\ job \in [stages: Plans, threads: 0 .. PoolSize, made: 0 .. MaxGraphs,
                  disposable: BOOLEAN, status: {"success", "aborted"}]
  BY DEF IInv, TypeOK
<1>2. CASE FreePool
  BY <1>1, <1>2, MainRests DEF FreePool, At, Resting
<1>3. CASE Return
  <2>1. tp.ec \in {"success", "aborted"}
    BY <1>1 DEF Pools
  <2>2. /\ job' = [job EXCEPT !.status = tp.ec] /\ tp' = tp /\ locked' = locked /\ work' = work
        /\ th[0].pc = "return" /\ Goes(0, IF job.disposable THEN "free" ELSE "idle")
    BY <1>3 DEF Return, At
  <2>3. /\ job'.stages = job.stages /\ job'.made = job.made
        /\ job' \in [stages: Plans, threads: 0 .. PoolSize, made: 0 .. MaxGraphs,
                     disposable: BOOLEAN, status: {"success", "aborted"}]
    BY <1>1, <2>1, <2>2
  <2> QED
    BY <1>1, <2>2, <2>3, MainRests DEF Resting
<1>4. CASE Free
  <2>1. /\ th[0].pc = "free" /\ tp' = [tp EXCEPT !.stop = TRUE] /\ locked' = TRUE
        /\ Goes(0, "freeWake") /\ job' = job /\ work' = work
    BY <1>4 DEF Free, At
  <2>2. /\ tp' \in Pools /\ tp'.count = tp.count /\ tp'.threads = tp.threads
        /\ tp'.barrier = tp.barrier /\ tp'.passed = tp.passed
        /\ tp'.abort = tp.abort /\ tp'.ec = tp.ec
    BY <1>1, <2>1 DEF Pools
  <2> QED
    BY <1>1, <2>1, <2>2, MainRests DEF Resting
<1>5. CASE FreeWake
  <2>1. /\ th[0].pc = "freeWake" /\ tp' = [tp EXCEPT !.pause = FALSE] /\ locked' = FALSE
        /\ th' = MainGoes(Awake(th), "join") /\ job' = job /\ work' = work
    BY <1>5 DEF FreeWake, At
  <2>2. /\ tp' \in Pools /\ tp'.count = tp.count /\ tp'.threads = tp.threads
        /\ tp'.barrier = tp.barrier /\ tp'.passed = tp.passed
        /\ tp'.abort = tp.abort /\ tp'.ec = tp.ec
    BY <1>1, <2>1 DEF Pools
  <2> QED
    BY <1>1, <2>1, <2>2, MainRests DEF Resting
<1> QED
  BY <1>2, <1>3, <1>4, <1>5

LEMMA JoinStep ==
  ASSUME IInv, Join
  PROVE  IInv'
<1>1. /\ TypeOK /\ CallOK /\ th[0].pc = "join" /\ tp' = NewPool(FALSE)
      /\ th' = [i \in Threads |-> NewThread(IF i = 0 THEN "out" ELSE "unborn")]
      /\ locked' = locked /\ job' = job /\ work' = work
  BY DEF IInv, Join, At
<1>2. /\ tp'.count = 0 /\ tp'.threads = 0 /\ tp'.barrier = 0 /\ tp'.abort = -1
      /\ tp'.ec = "success" /\ tp' \in Pools
  BY <1>1, NewTyped DEF NewPool
<1>3. /\ th' \in [Threads -> States] /\ Eff'[0] = NewThread("out") /\ ~Running'
      /\ WaitOK' /\ WorkersOK' /\ GraphOK' /\ BarrierOK'
  BY <1>1, <1>2, FreshSteps DEF Resting
<1>4. Eff'[0].pc = "out" /\ ~Eff'[0].pending
  BY <1>3 DEF NewThread
<1>5. TypeOK'
  BY <1>1, <1>2, <1>3 DEF TypeOK
<1>6. tp'.count <= job'.made
  <2>1. job.made \in Nat /\ job'.made = job.made
    BY <1>1, CountTyped
  <2> QED
    BY <1>2, <2>1
<1>7. CallOK'
  BY <1>2, <1>3, <1>4, <1>6 DEF CallOK, Resting
<1>8. EndsOK'
  BY <1>4 DEF EndsOK
<1> QED
  BY <1>3, <1>5, <1>7, <1>8 DEF IInv

(* Kicked off, the graph has all of its threads ahead of its first node.   *)
LEMMA PiecesAre ==
  ASSUME TypeOK, Eff[0].pc \in {"kick", "return"} \/ Running, CallOK, NEW n, n = job.threads
  PROVE  /\ Len(tp.graph) \in Nat /\ tp.graph \in Seq(Ops) /\ n \in Nat \ {0} /\ n <= PoolSize
         /\ \A k \in 0 .. Len(tp.graph) - 1 : tp.graph[k + 1] \in {"rows", "matmul", "nop"}
         /\ \A p : p \in AllPieces(job.stages) <=>
              \E k \in 0 .. Len(tp.graph) - 1 :
                \/ tp.graph[k + 1] = "rows" /\ \E i \in 0 .. n - 1 : p = Piece(k, "rows", i)
                \/ tp.graph[k + 1] = "matmul" /\ \E i \in 0 .. n - 1 : p = Piece(k, "convert", i)
                \/ tp.graph[k + 1] = "matmul" /\ \E c \in 0 .. ChunksFor(n) - 1 : p = Piece(k, "chunk", c)
<1> DEFINE g == tp.graph
<1>1. n \in 1 .. PoolSize /\ g \in Graphs /\ job.stages = GraphStages(g, n)
  BY DEF CallOK
<1>2. g \in Seq(Ops) /\ n \in Nat /\ Len(g) \in Nat
  BY <1>1, PoolAssumption
<1>3. AllPieces(job.stages) = GraphPieces(g, n)
  BY <1>1, <1>2, PiecesOfGraph
<1> HIDE DEF g
<1>4. \A k \in 0 .. Len(g) - 1 : g[k + 1] \in {"rows", "matmul", "nop"} /\ g[k + 1] \in Ops
  BY <1>2 DEF Ops
<1>5. \A p : p \in GraphPieces(g, n) <=>
              \E k \in 0 .. Len(g) - 1 : p \in NodePieces(g[k + 1], k, n)
  BY <1>2, PieceOfGraph
<1> DEFINE Of(p, k) ==
             \/ g[k + 1] = "rows" /\ \E i \in 0 .. n - 1 : p = Piece(k, "rows", i)
             \/ g[k + 1] = "matmul" /\ \E i \in 0 .. n - 1 : p = Piece(k, "convert", i)
             \/ g[k + 1] = "matmul" /\ \E c \in 0 .. ChunksFor(n) - 1 : p = Piece(k, "chunk", c)
<1>6. ASSUME NEW p, NEW k \in 0 .. Len(g) - 1
      PROVE  p \in NodePieces(g[k + 1], k, n) <=> Of(p, k)
  <2>1. g[k + 1] \in Ops
    BY <1>4
  <2> QED
    BY ONLY <2>1, NodePieceOf
<1>7. n <= PoolSize /\ n \in Nat \ {0}
  BY <1>1, PoolAssumption
<1> HIDE DEF Of
<1>8. \A p : p \in AllPieces(job.stages) <=> \E k \in 0 .. Len(g) - 1 : Of(p, k)
  BY <1>3, <1>5, <1>6
<1> QED
  BY <1>2, <1>4, <1>7, <1>8 DEF g, Of

LEMMA KickStep ==
  ASSUME IInv, Kick
  PROVE  IInv'
<1>1. /\ TypeOK /\ WaitOK /\ WorkersOK /\ CallOK /\ EndsOK /\ th[0].pc = "kick" /\ 0 \in Threads
      /\ tp' = [tp EXCEPT !.count = tp.count + 1, !.threads = job.threads]
      /\ locked' = TRUE /\ Goes(0, "wake") /\ job' = job /\ work' = work
  BY SomeThreads DEF IInv, Kick, At
<1>2. Eff[0] = th[0] /\ ~Running
  BY <1>1 DEF Eff, Late, At, Running, Inside, InBarrier
<1>3. /\ tp.count + 1 \in 0 .. MaxGraphs /\ tp.count + 1 <= job.made /\ tp.count \in Nat
      /\ job.threads \in 0 .. PoolSize /\ job.threads \in Nat /\ job.threads > 0
  <2>1. tp.count \in Nat /\ job.made \in 0 .. MaxGraphs /\ tp.count < job.made
    BY <1>1, <1>2, CountTyped DEF CallOK, TypeOK
  <2>2. job.threads \in 1 .. PoolSize
    BY <1>1, <1>2 DEF CallOK
  <2> QED
    BY <2>1, <2>2, PoolAssumption
<1>4. /\ tp' \in Pools /\ tp'.count = tp.count + 1 /\ tp'.threads = job.threads
      /\ tp'.barrier = tp.barrier /\ tp'.passed = tp.passed /\ tp'.chunk = tp.chunk
      /\ tp'.abort = tp.abort /\ tp'.ec = tp.ec /\ tp'.graph = tp.graph
  BY <1>1, <1>3, CountTyped DEF Pools
<1>5. "wake" \in Counters
  BY DEF Counters
<1>6. /\ th' \in [Threads -> States]
      /\ th'[0].pc = "wake" /\ th'[0].pending = th[0].pending
      /\ \A i \in Workers : Woken(th[i], th'[i])
      /\ \A i \in Workers : Woken(Eff[i], Eff'[i])
  BY <1>1, <1>4, <1>5, MainGoesOn
<1>7. Eff'[0] = th'[0] /\ Eff'[0].pc = "wake" /\ ~Eff'[0].pending
  BY <1>1, <1>2, <1>6 DEF Eff, Late, At, CallOK
<1>8. Running'
  BY <1>7 DEF Running
<1>9. /\ \A i \in Threads \ {0} : th'[i] = th[i]
      /\ \A i \in Workers : Eff'[i] = Eff[i]
  BY <1>1, <1>4, EffGoes, EffTyped, SomeThreads DEF Goes, TypeOK
<1>10. \A i \in Workers : ~Busy(i) /\ Eff[i].pc \notin Inside
  BY <1>1, <1>2 DEF WorkersOK, Busy
<1>11. TypeOK'
  BY <1>1, <1>4, <1>6 DEF TypeOK
<1>12. WaitOK'
  <2>1. th'[0].pc \notin InBarrier /\ th'[0].pc \notin {"enter", "reset", "pass", "wait"}
    BY <1>6 DEF InBarrier
  <2> QED
    BY <2>1, <1>1, <1>4, <1>9 DEF WaitOK, Leaves
<1>13. WorkersOK'
  <2> SUFFICES ASSUME NEW i \in Workers
               PROVE  (/\ Eff[i].pc \in Asleep \cup {"start"} \cup (Inside \ {"setChunk"})
                       /\ Eff[i].pending => Eff[i].pc = "pending"
                       /\ Eff[i].last <= tp.count
                       /\ Busy(i) => Running /\ i \in Members
                       /\ i \in Members => (Eff[i].last = tp.count <=> Busy(i) \/ ~Running))'
    BY DEF WorkersOK
  <2>1. Eff[i].last \in Nat /\ Eff[i].last <= tp.count
    BY <1>1, EffTyped, SomeThreads DEF WorkersOK, States
  <2>2. Eff'[i].last <= tp'.count /\ Eff'[i].last # tp'.count
    BY <2>1, <1>3, <1>4, <1>9
  <2>3. ~Busy(i)'
    BY <1>9, <1>10 DEF Busy
  <2> QED
    BY <2>2, <2>3, <1>1, <1>8, <1>9 DEF WorkersOK
<1>14. CallOK'
  BY <1>1, <1>2, <1>3, <1>4, <1>7, <1>8 DEF CallOK
<1>15. Members' = 0 .. job.threads - 1 /\ \A i \in Members' : i = 0 \/ i \in Workers
  BY <1>3, <1>4, PoolAssumption DEF Members, Workers, Threads
<1>16. \A i \in Members' : Eff'[i].pc \notin Inside
  BY <1>7, <1>9, <1>10, <1>15 DEF Inside, InBarrier
<1>17. BarrierOK'
  <2>1. {i \in Members' : Eff'[i].pc = "wait"} = {}
    BY <1>16 DEF Inside, InBarrier
  <2>2. Cardinality({i \in Members' : Eff'[i].pc = "wait"}) = 0
    BY <2>1, FS_EmptySet
  <2>3. tp'.barrier = 0
    BY <1>1, <1>2, <1>4 DEF CallOK
  <2> QED
    BY <2>2, <2>3, <1>7, <1>16 DEF BarrierOK, Inside, InBarrier
<1>18. GraphOK'
  <2>1. 0 \in 0 .. Len(tp'.graph) /\ FALSE \in BOOLEAN
    BY <1>1, <1>2, <1>4, PiecesAre
  <2>2. Together(0, FALSE)'
    BY <1>16 DEF Together, Unstarted
  <2>3. AbortOK(0, FALSE)'
    BY <1>1, <1>2, <1>4 DEF AbortOK, CallOK
  <2>4. ChunksOK(FALSE)'
    BY <1>16 DEF ChunksOK, Inside
  <2>5. WorkOK(0, FALSE)'
    <3> SUFFICES ASSUME NEW k \in 0 .. Len(tp.graph) - 1
                 PROVE  (/\ tp.graph[k + 1] = "rows" =>
                              \A i \in Members : Once(Piece(k, "rows", i), PastRows(Eff[i], k))
                         /\ tp.graph[k + 1] = "matmul" =>
                              /\ \A i \in Members : Once(Piece(k, "convert", i), PastConvert(Eff[i], k))
                              /\ \A c \in 0 .. ChunksFor(tp.threads) - 1 :
                                   Once(Piece(k, "chunk", c), PastChunk(0, FALSE, k, c)))'
      BY <1>4 DEF WorkOK
    <3>1. \A i \in Members' : ~PastRows(Eff[i], k)' /\ ~PastConvert(Eff[i], k)'
      BY <1>16 DEF PastRows, PastConvert
    <3>2. \A c : ~PastChunk(0, FALSE, k, c)'
      BY DEF PastChunk
    <3>3. /\ tp.graph[k + 1] = "rows" => \A i \in Members' : work'[Piece(k, "rows", i)] = 0
          /\ tp.graph[k + 1] = "matmul" =>
               /\ \A i \in Members' : work'[Piece(k, "convert", i)] = 0
               /\ \A c \in 0 .. ChunksFor(job.threads) - 1 : work'[Piece(k, "chunk", c)] = 0
      BY <1>1, <1>2, <1>15, PiecesAre DEF EndsOK
    <3> QED
      BY <3>1, <3>2, <3>3, <1>4 DEF Once
  <2> QED
    BY <2>1, <2>2, <2>3, <2>4, <2>5 DEF GraphOK, PartOK
<1>19. EndsOK'
  BY <1>7 DEF EndsOK
<1> QED
  BY <1>11, <1>12, <1>13, <1>14, <1>17, <1>18, <1>19 DEF IInv

LEMMA WakeStep ==
  ASSUME IInv, Wake
  PROVE  IInv'
<1>1. /\ TypeOK /\ WaitOK /\ WorkersOK /\ CallOK /\ GraphOK /\ BarrierOK
      /\ th[0].pc = "wake" /\ 0 \in Threads
      /\ tp' = [tp EXCEPT !.pause = FALSE] /\ th' = MainGoes(Awake(th), "start")
      /\ locked' = FALSE /\ job' = job /\ work' = work
  BY SomeThreads DEF IInv, Wake, At
<1>2. Eff[0] = th[0] /\ Running
  BY <1>1 DEF Eff, Late, At, Running
<1>3. /\ tp' \in Pools /\ tp'.count = tp.count /\ tp'.threads = tp.threads
      /\ tp'.barrier = tp.barrier /\ tp'.passed = tp.passed /\ tp'.chunk = tp.chunk
      /\ tp'.abort = tp.abort /\ tp'.ec = tp.ec /\ tp'.graph = tp.graph
  BY <1>1, CountTyped DEF Pools
<1>4. "start" \in Counters
  BY DEF Counters
<1>5. /\ th' \in [Threads -> States]
      /\ th'[0].pc = "start" /\ th'[0].pending = th[0].pending
      /\ \A i \in Workers : Woken(th[i], th'[i])
      /\ \A i \in Workers : Woken(Eff[i], Eff'[i])
  BY <1>1, <1>3, <1>4, MainWakes
<1>6. Eff'[0] = th'[0] /\ Eff'[0].pc = "start" /\ ~Eff'[0].pending
  BY <1>1, <1>2, <1>5 DEF Eff, Late, At, CallOK
<1>7. Running'
  BY <1>6 DEF Running
<1>8. TypeOK'
  BY <1>1, <1>3, <1>5 DEF TypeOK
<1>9. WaitOK' /\ WorkersOK'
  BY <1>2, <1>3, <1>5, <1>7, WokenWorkers DEF InBarrier
<1>10. CallOK'
  BY <1>1, <1>2, <1>3, <1>6, <1>7 DEF CallOK
<1>11. \A i \in Members : Undisturbed(i)
  <2> SUFFICES ASSUME NEW i \in Members PROVE Undisturbed(i)
    OBVIOUS
  <2>1. CASE i = 0
    BY <2>1, <1>1, <1>2, <1>6 DEF Undisturbed, Inside, InBarrier
  <2>2. CASE i \in Workers
    <3>1. Eff[i] \in States /\ Woken(Eff[i], Eff'[i])
      BY <1>1, <1>5, <2>2, EffTyped, SomeThreads
    <3> QED
      BY <3>1 DEF Woken, Undisturbed, States, Inside, InBarrier
  <2> QED
    BY <2>1, <2>2, <1>1, SomeMembers, SomeThreads
<1>12. GraphOK' /\ BarrierOK'
  BY <1>1, <1>2, <1>3, <1>11, GraphUndisturbed DEF SameGraph, SameNodes
<1>13. EndsOK'
  BY <1>6 DEF EndsOK
<1> QED
  BY <1>8, <1>9, <1>10, <1>12, <1>13 DEF IInv

-----------------------------------------------------------------------------
(* A step of a thread within its part of the graph, piece by piece.        *)

Only(i, r) == Eff'[i] = r /\ \A j \in Threads \ {i} : Eff'[j] = Eff[j]

LEMMA TogetherStep ==
  ASSUME SameGraph, NEW i \in Members, Members \subseteq Threads, NEW r, Only(i, r),
         NEW n, NEW half, Together(n, half), r.pc \in Inside, r.nth = tp.threads,
         IF half THEN InSecond(r, n) ELSE InFirst(r, n)
  PROVE  Together(n, half)'
<1>1. Members' = Members
  BY DEF SameGraph, SameNodes, Members
<1> SUFFICES ASSUME NEW j \in Members
             PROVE  (\/ Unstarted(j) /\ n = 0 /\ ~half
                     \/ /\ Eff[j].pc \in Inside /\ Eff[j].nth = tp.threads
                        /\ IF half THEN InSecond(Eff[j], n) ELSE InFirst(Eff[j], n))'
  BY <1>1 DEF Together
<1>2. CASE j = i
  BY <1>2, SamePlaces DEF Only, SameGraph, SameNodes
<1>3. CASE j # i
  BY <1>3, SamePlaces DEF Only, SameGraph, SameNodes, Together, Unstarted
<1> QED
  BY <1>2, <1>3

LEMMA AbortStep ==
  ASSUME SameGraph, NEW i \in Members, Members \subseteq Threads, NEW r, Only(i, r),
         0 \in Threads, NEW n, NEW half, AbortOK(n, half),
         i = 0 /\ Done(Eff[0]) => Done(r) /\ r.node = Eff[0].node
  PROVE  AbortOK(n, half)'
<1>1. \A m, op : Working(n, m, op)' <=> Working(n, m, op)
  BY SamePlaces
<1>2. Done(Eff[0]) => Done(Eff[0])' /\ Eff'[0].node = Eff[0].node
  <2>1. CASE i = 0
    BY <2>1, SamePlaces DEF Only
  <2>2. CASE i # 0
    BY <2>2, SamePlaces DEF Only
  <2> QED
    BY <2>1, <2>2
<1> QED
  BY <1>1, <1>2 DEF AbortOK, SameGraph, SameNodes

LEMMA ChunksStep ==
  ASSUME SameNodes, tp'.chunk = tp.chunk, NEW i \in Members, Members \subseteq Threads,
         NEW r, Only(i, r), NEW half, ChunksOK(half),
         half /\ r.pc = "chunk" =>
           r.chunk < tp.chunk /\ \A j \in Members \ {i} : ~Holds(j, r.chunk),
         half /\ r.pc \notin {"chunk", "nextChunk"} => tp.chunk >= ChunksFor(tp.threads),
         r.pc \in InBarrier /\ r.after = "chunk" =>
           r.chunk = i /\ (i = 0 => tp.chunk = tp.threads)
  PROVE  ChunksOK(half)'
<1>1. Members' = Members
  BY DEF SameNodes, Members
<1>2. \A j \in Members \ {i} : Eff'[j] = Eff[j]
  BY DEF Only
<1>3. Eff'[i] = r
  BY DEF Only
<1>4. ASSUME half, NEW j \in Members
      PROVE  /\ Eff'[j].pc = "chunk" => Eff'[j].chunk < tp.chunk
             /\ Eff'[j].pc \notin {"chunk", "nextChunk"} => tp.chunk >= ChunksFor(tp.threads)
             /\ \A l \in Members \ {j} : Eff'[j].pc = "chunk" => ~Holds(l, Eff[j].chunk)'
  <2>1. CASE j = i
    BY <1>2, <1>3, <1>4, <2>1 DEF Holds
  <2>2. CASE j # i
    BY <1>2, <1>3, <1>4, <2>2 DEF ChunksOK, Holds
  <2> QED
    BY <2>1, <2>2
<1>5. ASSUME NEW j \in Members, Eff'[j].pc \in InBarrier, Eff'[j].after = "chunk"
      PROVE  Eff'[j].chunk = j /\ (j = 0 => tp.chunk = tp.threads)
  BY <1>2, <1>3, <1>5 DEF ChunksOK
<1> QED
  BY <1>1, <1>4, <1>5 DEF ChunksOK, SameNodes

LEMMA WorkSame ==
  ASSUME SameNodes, NEW i \in Members, Members \subseteq Threads, NEW r, Only(i, r),
         NEW n, NEW half, WorkOK(n, half), work' = work,
         \A k \in 0 .. Len(tp.graph) - 1 :
           /\ tp.graph[k + 1] = "rows" => (PastRows(r, k) <=> PastRows(Eff[i], k))
           /\ tp.graph[k + 1] = "matmul" => (PastConvert(r, k) <=> PastConvert(Eff[i], k)),
         \A k \in 0 .. Len(tp.graph) - 1 : \A c \in 0 .. ChunksFor(tp.threads) - 1 :
           PastChunk(n, half, k, c)' <=> PastChunk(n, half, k, c)
  PROVE  WorkOK(n, half)'
<1>1. Members' = Members
  BY DEF SameNodes, Members
<1> SUFFICES ASSUME NEW k \in 0 .. Len(tp.graph) - 1
             PROVE  (/\ tp.graph[k + 1] = "rows" =>
                          \A j \in Members : Once(Piece(k, "rows", j), PastRows(Eff[j], k))
                     /\ tp.graph[k + 1] = "matmul" =>
                          /\ \A j \in Members : Once(Piece(k, "convert", j), PastConvert(Eff[j], k))
                          /\ \A c \in 0 .. ChunksFor(tp.threads) - 1 :
                               Once(Piece(k, "chunk", c), PastChunk(n, half, k, c)))'
  BY DEF WorkOK, SameNodes
<1>3. ASSUME tp.graph[k + 1] = "rows", NEW j \in Members
      PROVE  Once(Piece(k, "rows", j), PastRows(Eff[j], k))'
  <2>1. Once(Piece(k, "rows", j), PastRows(Eff[j], k))
    BY <1>3 DEF WorkOK
  <2>2. PastRows(Eff[j], k)' <=> PastRows(Eff[j], k)
    BY <1>3 DEF Only, PastRows
  <2> QED
    BY <2>1, <2>2 DEF Once
<1>4. ASSUME tp.graph[k + 1] = "matmul", NEW j \in Members
      PROVE  Once(Piece(k, "convert", j), PastConvert(Eff[j], k))'
  <2>1. Once(Piece(k, "convert", j), PastConvert(Eff[j], k))
    BY <1>4 DEF WorkOK
  <2>2. PastConvert(Eff[j], k)' <=> PastConvert(Eff[j], k)
    BY <1>4 DEF Only, PastConvert
  <2> QED
    BY <2>1, <2>2 DEF Once
<1>5. ASSUME tp.graph[k + 1] = "matmul", NEW c \in 0 .. ChunksFor(tp.threads) - 1
      PROVE  Once(Piece(k, "chunk", c), PastChunk(n, half, k, c))'
  <2>1. Once(Piece(k, "chunk", c), PastChunk(n, half, k, c))
    BY <1>5 DEF WorkOK
  <2> QED
    BY <2>1 DEF Once
<1> QED
  BY <1>1, <1>3, <1>4, <1>5 DEF SameNodes

LEMMA WorkStep ==
  ASSUME SameNodes, NEW i \in Members, Members \subseteq Threads, NEW r, Only(i, r),
         NEW n, NEW half, WorkOK(n, half), work' = work,
         \A k \in 0 .. Len(tp.graph) - 1 :
           /\ tp.graph[k + 1] = "rows" => (PastRows(r, k) <=> PastRows(Eff[i], k))
           /\ tp.graph[k + 1] = "matmul" => (PastConvert(r, k) <=> PastConvert(Eff[i], k)),
         half => /\ tp'.chunk = tp.chunk
                 /\ \A c : r.pc = "chunk" /\ r.chunk = c <=> Holds(i, c)
  PROVE  WorkOK(n, half)'
<1>1. Members' = Members
  BY DEF SameNodes, Members
<1>2. \A k, c : PastChunk(n, half, k, c)' <=> PastChunk(n, half, k, c)
  BY <1>1 DEF PastChunk, Holds, Only
<1> QED
  BY <1>2, WorkSame DEF SameNodes

(* A thread that is not waiting, and nobody is then past the barrier.      *)
LEMMA BarrierStep ==
  ASSUME SameNodes, tp'.barrier = tp.barrier, NEW i \in Members, Members \subseteq Threads,
         NEW r, Only(i, r), Running, BarrierOK, 0 \in Members,
         Eff[i].pc \notin {"wait", "reset", "pass"}, r.pc \notin {"wait", "reset", "pass"},
         tp.threads = 1 => r.pc \notin InBarrier
  PROVE  BarrierOK'
<1>1. Members' = Members /\ Eff'[i] = r /\ \A j \in Members \ {i} : Eff'[j] = Eff[j]
  BY DEF SameNodes, Members, Only
<1>2. \A j \in Members : Eff[j].pc \notin {"reset", "pass"}
  BY DEF BarrierOK
<1>3. \A j \in Members : Eff'[j].pc \notin {"reset", "pass"}
  BY <1>1, <1>2
<1>4. {j \in Members : Eff'[j].pc = "wait"} = {j \in Members : Eff[j].pc = "wait"}
  BY <1>1
<1>5. tp.threads = 1 => Eff'[0].pc \notin InBarrier /\ tp.barrier = 0
  <2>1. CASE i = 0
    BY <2>1, <1>1 DEF BarrierOK
  <2>2. CASE i # 0
    BY <2>2, <1>1 DEF BarrierOK
  <2> QED
    BY <2>1, <2>2
<1> QED
  BY <1>1, <1>2, <1>3, <1>4, <1>5 DEF BarrierOK, SameNodes

(* What holds of a thread in a graph, and of the rest when it goes on.     *)
LEMMA Insider ==
  ASSUME IInv, NEW i \in Threads, th[i].pc \in Inside \cup {"start"}, ~Late(i)
  PROVE  /\ Running /\ i \in Members /\ 0 \in Members /\ Members \subseteq Threads
         /\ Eff[i] = th[i] /\ th[i] \in States
         /\ tp.threads = job.threads /\ tp.threads \in 1 .. PoolSize /\ tp.threads \in Nat
         /\ tp.graph \in Graphs /\ Len(tp.graph) \in Nat
         /\ Eff[0].pc \notin {"kick", "return"}
<1>1. TypeOK /\ WorkersOK /\ CallOK
  BY DEF IInv
<1>2. Eff[i] = th[i] /\ th[i] \in States
  BY <1>1, PastTyped
<1>3. Running /\ (i # 0 => i \in Members)
  BY <1>1, <1>2, SomeThreads DEF WorkersOK, Busy, Running
<1>4. tp.threads = job.threads /\ tp.threads \in 1 .. PoolSize /\ tp.graph \in Graphs
  BY <1>1, <1>3 DEF CallOK
<1>5. 0 \in Members /\ Members \subseteq Threads /\ tp.threads \in Nat
  BY <1>4, PoolAssumption DEF Members, Threads
<1>6. Len(tp.graph) \in Nat
  BY <1>4, PoolAssumption
<1>7. Eff[0].pc \notin {"kick", "return"}
  BY <1>3 DEF Running, Inside, InBarrier
<1> QED
  BY <1>2, <1>3, <1>4, <1>5, <1>6, <1>7

LEMMA InsideSteps ==
  ASSUME IInv, NEW i \in Threads, th[i].pc \in Inside \cup {"start"}, ~Late(i),
         NEW r \in States, Moves(i, r), r.pc \in Inside, r.pc = "setChunk" => i = 0,
         r.pending = th[i].pending, r.last = th[i].last,
         r.pc \in InBarrier => r.after \in {"node", "chunk", Leaves(i)} /\ r.passed = tp.passed,
         tp'.count = tp.count, tp'.threads = tp.threads, tp'.passed = tp.passed
  PROVE  /\ Only(i, r) /\ Running' /\ th' \in [Threads -> States]
         /\ Eff'[0].pc \in Inside \cup {"wake", "start"}
         /\ WaitOK' /\ WorkersOK' /\ EndsOK' /\ ~Eff'[0].pending
<1>1. TypeOK /\ WaitOK /\ WorkersOK /\ CallOK /\ 0 \in Threads
  BY SomeThreads DEF IInv
<1>2. /\ Running /\ i \in Members /\ Eff[i] = th[i]
  BY Insider
<1>3. th' = [th EXCEPT ![i] = r] /\ th \in [Threads -> States]
  BY <1>1 DEF Moves, TypeOK
<1>4. Eff' = [Eff EXCEPT ![i] = r] /\ Eff \in [Threads -> States]
  BY <1>1, EffMoves, EffTyped DEF InBarrier
<1>5. Only(i, r)
  BY <1>4 DEF Only
<1>6. Running' /\ Members' = Members /\ Eff'[0].pc \in Inside \cup {"wake", "start"}
  BY <1>1, <1>2, <1>5 DEF Running, Only, Members
<1>7. WaitOK'
  <2>1. th'[i] = r /\ \A j \in Threads \ {i} : th'[j] = th[j]
    BY <1>3
  <2>2. r.passed \in Nat
    BY DEF States
  <2>3. r.pc = "wait" => r.passed <= tp.passed
    BY <2>2 DEF InBarrier
  <2>4. \A j \in Threads \ {i} :
          (/\ th[j].pc \in InBarrier => th[j].after \in {"node", "chunk", Leaves(j)}
           /\ th[j].pc \in {"enter", "reset", "pass"} => th[j].passed = tp.passed
           /\ th[j].pc = "wait" => th[j].passed <= tp.passed)'
    BY <1>1, <2>1 DEF WaitOK, Leaves
  <2> QED
    BY <2>1, <2>3, <2>4 DEF WaitOK, Leaves, InBarrier
<1>8. WorkersOK'
  <2> SUFFICES ASSUME NEW j \in Workers
               PROVE  (/\ Eff[j].pc \in Asleep \cup {"start"} \cup (Inside \ {"setChunk"})
                       /\ Eff[j].pending => Eff[j].pc = "pending"
                       /\ Eff[j].last <= tp.count
                       /\ Busy(j) => Running /\ j \in Members
                       /\ j \in Members => (Eff[j].last = tp.count <=> Busy(j) \/ ~Running))'
    BY DEF WorkersOK
  <2>1. CASE j = i
    <3>1. Eff'[j] = r /\ j # 0 /\ Busy(j) /\ Busy(j)'
      BY <2>1, <1>2, <1>5, SomeThreads DEF Only, Busy
    <3>2. ~Eff[j].pending
      BY <2>1, <1>1, <1>2 DEF WorkersOK, Inside, InBarrier
    <3> QED
      BY <2>1, <3>1, <3>2, <1>1, <1>2, <1>6 DEF WorkersOK
  <2>2. CASE j # i
    <3>1. Eff'[j] = Eff[j]
      BY <2>2, <1>5, SomeThreads DEF Only
    <3> QED
      BY <3>1, <1>1, <1>2, <1>6 DEF WorkersOK, Busy
  <2> QED
    BY <2>1, <2>2
<1>9. EndsOK'
  BY <1>6 DEF EndsOK, Inside, InBarrier
<1>10. ~Eff'[0].pending
  BY <1>1, <1>2, <1>5 DEF CallOK, Only
<1> QED
  BY <1>3, <1>5, <1>6, <1>7, <1>8, <1>9, <1>10

(* Altogether, a step within a part that computes nothing.                 *)
LEMMA QuietSteps ==
  ASSUME IInv, NEW i \in Threads, th[i].pc \in Inside \cup {"start"}, ~Late(i),
         NEW r \in States, Moves(i, r), Silently, r.pc \in Inside, r.pc = "setChunk" => i = 0,
         r.pending = th[i].pending, r.last = th[i].last,
         r.pc \in InBarrier => r.after \in {"node", "chunk", Leaves(i)} /\ r.passed = tp.passed,
         GraphOK', BarrierOK'
  PROVE  IInv'
<1>1. tp' = tp /\ job' = job /\ work' = work /\ locked' = locked
  BY DEF Silently
<1>2. /\ Running' /\ th' \in [Threads -> States]
      /\ Eff'[0].pc \in Inside \cup {"wake", "start"}
      /\ WaitOK' /\ WorkersOK' /\ EndsOK' /\ ~Eff'[0].pending
  BY <1>1, InsideSteps
<1>3. TypeOK'
  BY <1>1, <1>2 DEF IInv, TypeOK
<1>4. CallOK'
  BY <1>1, <1>2, Insider DEF IInv, CallOK, Inside, InBarrier
<1> QED
  BY <1>2, <1>3, <1>4 DEF IInv

-----------------------------------------------------------------------------
(* The steps within a part of the graph.                                   *)

SameBut(s, r) ==
  /\ s \in States
  /\ s.node = r.node /\ s.nth = r.nth /\ s.chunk = r.chunk
  /\ s.pending = r.pending /\ s.last = r.last

LEMMA WithPc ==
  ASSUME NEW r \in States, NEW pc \in Counters
  PROVE  /\ SameBut([r EXCEPT !.pc = pc], r)
         /\ [r EXCEPT !.pc = pc].pc = pc
         /\ [r EXCEPT !.pc = pc].after = r.after
         /\ [r EXCEPT !.pc = pc].passed = r.passed
BY DEF States, SameBut

LEMMA AtBarrier ==
  ASSUME TypeOK, NEW r \in States, NEW after \in Counters
  PROVE  LET s == ToBarrier(r, after) IN
         /\ SameBut(s, r)
         /\ tp.threads = 1 => s.pc = after
         /\ tp.threads # 1 => s.pc = "enter" /\ s.after = after /\ s.passed = tp.passed
<1>1. tp.passed \in Nat /\ "enter" \in Counters
  BY CountTyped DEF Counters
<1>2. CASE tp.threads = 1
  BY <1>2, WithPc DEF ToBarrier
<1>3. CASE tp.threads # 1
  <2>1. ToBarrier(r, after) = [r EXCEPT !.pc = "enter", !.after = after, !.passed = tp.passed]
    BY <1>3 DEF ToBarrier
  <2> QED
    BY <1>1, <1>3, <2>1 DEF States, SameBut
<1> QED
  BY <1>2, <1>3

(* The parts are those of the graph: a node that is not a nop ends a way   *)
(* over nops.                                                              *)
LEMMA WayEnds ==
  ASSUME NEW n \in Nat, NEW m \in Nat, NEW w \in Nat, NEW op,
         Toward(n, m), Working(n, w, op), op # "nop"
  PROVE  m <= w
<1> SUFFICES ASSUME w < m PROVE FALSE
  OBVIOUS
<1>1. n <= w /\ tp.graph[w + 1] = op
  BY DEF Toward, Working
<1>2. w + 1 \in n + 1 .. m
  BY <1>1
<1> QED
  BY <1>1, <1>2 DEF Toward

LEMMA SameWork ==
  ASSUME NEW n \in Nat, NEW m \in Nat, NEW w \in Nat, NEW op, NEW p,
         Working(n, m, op), op # "nop", Working(n, w, p), p # "nop"
  PROVE  m = w /\ op = p
<1>1. Toward(n, m) /\ Toward(n, w)
  BY DEF Working
<1>2. m <= w /\ w <= m
  BY <1>1, WayEnds
<1>3. m = w
  BY <1>2
<1> QED
  BY <1>3 DEF Working

LEMMA StartStep ==
  ASSUME IInv, NEW i \in Threads, Start(i)
  PROVE  IInv'
<1> DEFINE r == [th[i] EXCEPT !.pc = "node", !.node = 0, !.nth = tp.threads]
<1>1. th[i].pc = "start" /\ Moves(i, r) /\ Silently /\ ~Late(i) /\ th[i].pc \in Inside \cup {"start"}
  BY DEF Start, At, Late
<1>2. /\ Running /\ i \in Members /\ 0 \in Members /\ Members \subseteq Threads
      /\ Eff[i] = th[i] /\ th[i] \in States /\ tp.threads \in 0 .. PoolSize
      /\ Len(tp.graph) \in Nat
  BY <1>1, Insider, PoolAssumption
<1>3. "node" \in Counters /\ 0 \in Nat
  BY DEF Counters
<1>4. /\ r \in States /\ r.pc = "node" /\ r.node = 0 /\ r.nth = tp.threads
      /\ r.pending = th[i].pending /\ r.last = th[i].last
  BY <1>2, <1>3 DEF States
<1> HIDE DEF r
<1>5. r.pc \in Inside /\ r.pc \notin InBarrier
  BY <1>4 DEF Inside, InBarrier
<1>6. tp' = tp /\ job' = job /\ work' = work /\ SameGraph
  BY <1>1 DEF Silently, SameGraph, SameNodes
<1>7. Only(i, r)
  BY <1>1, <1>4, <1>5, <1>6, InsideSteps
<1>8. BarrierOK'
  BY <1>1, <1>2, <1>4, <1>5, <1>6, <1>7, BarrierStep DEF IInv, SameGraph, SameNodes
<1>9. PICK n \in 0 .. Len(tp.graph), half \in BOOLEAN : PartOK(n, half)
  BY <1>2 DEF IInv, GraphOK
<1>10. n = 0 /\ ~half /\ half = FALSE
  BY <1>1, <1>2, <1>9 DEF PartOK, Together, Unstarted, Inside, InBarrier
<1>11. InFirst(r, 0)
  BY <1>2, <1>4 DEF InFirst, Toward
<1>12. Together(n, half)'
  BY <1>2, <1>4, <1>5, <1>6, <1>7, <1>9, <1>10, <1>11, TogetherStep DEF PartOK
<1>13. AbortOK(n, half)'
  BY <1>1, <1>2, <1>6, <1>7, <1>9, SomeThreads, AbortStep DEF PartOK, Done, InBarrier
<1>14. ChunksOK(half)'
  BY <1>2, <1>5, <1>6, <1>7, <1>9, <1>10, ChunksStep DEF PartOK, SameGraph, SameNodes
<1>15. \A k \in 0 .. Len(tp.graph) - 1 : /\ ~PastRows(r, k) /\ ~PastRows(Eff[i], k)
                                         /\ ~PastConvert(r, k) /\ ~PastConvert(Eff[i], k)
  BY <1>1, <1>2, <1>4, <1>5 DEF PastRows, PastConvert, Inside, InBarrier
<1>16. WorkOK(n, half)'
  BY <1>2, <1>6, <1>7, <1>9, <1>10, <1>15, WorkStep DEF PartOK, SameGraph, SameNodes
<1>17. GraphOK'
  BY <1>6, <1>9, <1>12, <1>13, <1>14, <1>16 DEF GraphOK, PartOK
<1> QED
  BY <1>1, <1>4, <1>5, <1>8, <1>17, QuietSteps DEF InBarrier

(* A step that only changes where the thread is in its part.               *)
LEMMA PlaceSteps ==
  ASSUME IInv, NEW i \in Threads, th[i].pc \in Inside \ {"wait", "reset", "pass"},
         NEW r \in States, Moves(i, r), Silently,
         r.pc \in Inside \ {"setChunk", "wait", "reset", "pass"},
         r.nth = th[i].nth, r.chunk = th[i].chunk, r.pending = th[i].pending, r.last = th[i].last,
         r.pc \in InBarrier => r.after \in {"node", Leaves(i)} /\ r.passed = tp.passed,
         tp.threads = 1 => r.pc \notin InBarrier,
         NEW n \in 0 .. Len(tp.graph), NEW half \in BOOLEAN, PartOK(n, half),
         IF half THEN InSecond(r, n) ELSE InFirst(r, n),
         Done(th[i]) => Done(r) /\ r.node = th[i].node,
         half => {r.pc, th[i].pc} \cap {"chunk", "nextChunk"} = {},
         \A k \in 0 .. Len(tp.graph) - 1 :
           /\ tp.graph[k + 1] = "rows" => (PastRows(r, k) <=> PastRows(Eff[i], k))
           /\ tp.graph[k + 1] = "matmul" => (PastConvert(r, k) <=> PastConvert(Eff[i], k))
  PROVE  IInv'
<1>1. ~Late(i) /\ th[i].pc \in Inside \cup {"start"}
  BY DEF Late, At
<1>2. /\ Running /\ i \in Members /\ 0 \in Members /\ Members \subseteq Threads
      /\ Eff[i] = th[i]
  BY <1>1, Insider
<1>3. tp' = tp /\ job' = job /\ work' = work /\ SameGraph
  BY DEF Silently, SameGraph, SameNodes
<1>4. Only(i, r)
  BY <1>1, <1>3, InsideSteps
<1>5. BarrierOK'
  BY <1>2, <1>3, <1>4, BarrierStep DEF IInv, SameGraph, SameNodes
<1>6. r.nth = tp.threads
  BY <1>2 DEF PartOK, Together, Unstarted
<1>7. Together(n, half)'
  BY <1>2, <1>3, <1>4, <1>6, TogetherStep DEF PartOK
<1>8. AbortOK(n, half)'
  BY <1>2, <1>3, <1>4, SomeThreads, AbortStep DEF PartOK
<1>9. half => tp.chunk >= ChunksFor(tp.threads)
  BY <1>2 DEF PartOK, ChunksOK
<1>10. r.pc \in InBarrier => r.after # "chunk"
  BY DEF Leaves
<1>11. ChunksOK(half)'
  BY <1>2, <1>3, <1>4, <1>9, <1>10, ChunksStep DEF PartOK, SameGraph, SameNodes
<1>12. half => \A c : r.pc = "chunk" /\ r.chunk = c <=> Holds(i, c)
  BY <1>2 DEF Holds
<1>13. WorkOK(n, half)'
  BY <1>2, <1>3, <1>4, <1>12, WorkStep DEF PartOK, SameGraph, SameNodes
<1>14. GraphOK'
  BY <1>3, <1>7, <1>8, <1>11, <1>13 DEF GraphOK, PartOK
<1> QED
  BY <1>1, <1>5, <1>14, QuietSteps

LEMMA AtNode ==
  ASSUME IInv, NEW i \in Threads, th[i].pc = "node",
         NEW n \in 0 .. Len(tp.graph), NEW half \in BOOLEAN, PartOK(n, half)
  PROVE  /\ th[i].node \in Nat /\ Len(tp.graph) \in Nat
         /\ half => Done(th[i]) /\ th[i].node = n + 1 /\ InSecond(th[i], n)
         /\ ~half => \/ Toward(n, th[i].node)
                     \/ Done(th[i]) /\ th[i].node > 0 /\ Working(n, th[i].node - 1, "rows")
         /\ Done(th[i]) <=> th[i].node = Len(tp.graph)
         /\ ~Stopped(i) => /\ ~half /\ Toward(n, th[i].node)
                           /\ th[i].node < Len(tp.graph) /\ tp.abort # n
<1>1. ~Late(i) /\ th[i].pc \in Inside \cup {"start"}
  BY DEF Late, At, Inside
<1>2. /\ Running /\ i \in Members /\ Eff[i] = th[i] /\ th[i] \in States
      /\ Len(tp.graph) \in Nat
  BY <1>1, Insider
<1>3. th[i].node \in Nat
  BY <1>2 DEF States
<1>4. Done(th[i]) <=> th[i].node = Len(tp.graph)
  BY DEF Done, InBarrier
<1>5. IF half THEN InSecond(th[i], n) ELSE InFirst(th[i], n)
  BY <1>2 DEF PartOK, Together, Unstarted, Inside
<1>6. half => Done(th[i]) /\ th[i].node = n + 1
  BY <1>5 DEF InSecond
<1>7. ~half => \/ Toward(n, th[i].node)
               \/ Done(th[i]) /\ th[i].node > 0 /\ Working(n, th[i].node - 1, "rows")
  BY <1>5 DEF InFirst, InBarrier
<1>8. ASSUME ~Stopped(i)
      PROVE  ~half /\ Toward(n, th[i].node) /\ th[i].node < Len(tp.graph) /\ tp.abort # n
  <2>1. th[i].node # Len(tp.graph) /\ tp.abort # th[i].node
    BY <1>8 DEF Stopped
  <2>2. ~half /\ Toward(n, th[i].node)
    BY <2>1, <1>4, <1>6, <1>7
  <2> QED
    BY <2>1, <2>2, <1>2, <1>3 DEF Toward
<1> QED
  BY <1>2, <1>3, <1>4, <1>5, <1>6, <1>7, <1>8

(* A thread that is at a node, and one that has come to its operation.     *)
LEMMA NodeGoes ==
  ASSUME IInv, NEW i \in Threads, Node(i), tp.threads # 1 \/ ~Stopped(i)
  PROVE  IInv'
<1>1. th[i].pc = "node" /\ ~Late(i) /\ Silently /\ th[i].pc \in Inside \cup {"start"}
  BY DEF Node, At, Late, Inside
<1>2. /\ Running /\ Eff[i] = th[i] /\ th[i] \in States /\ TypeOK
  BY <1>1, Insider DEF IInv
<1>3. PICK n \in 0 .. Len(tp.graph), half \in BOOLEAN : PartOK(n, half)
  BY <1>2 DEF IInv, GraphOK
<1> DEFINE m == th[i].node
<1>4. /\ m \in Nat /\ Len(tp.graph) \in Nat
      /\ half => Done(th[i]) /\ m = n + 1 /\ InSecond(th[i], n)
      /\ ~half => \/ Toward(n, m)
                  \/ Done(th[i]) /\ m > 0 /\ Working(n, m - 1, "rows")
      /\ Done(th[i]) <=> m = Len(tp.graph)
      /\ ~Stopped(i) => ~half /\ Toward(n, m) /\ m < Len(tp.graph) /\ tp.abort # n
  BY <1>1, <1>3, AtNode
<1>5. \A k : /\ PastRows(th[i], k) <=> k < m
             /\ PastConvert(th[i], k) <=> k < m
  BY <1>1 DEF PastRows, PastConvert, Inside, InBarrier
<1>6. CASE Stopped(i)
  <2> DEFINE r == ToBarrier(th[i], Leaves(i))
  <2>1. Moves(i, r) /\ tp.threads # 1
    BY <1>6 DEF Node
  <2>2. Leaves(i) \in Counters /\ Leaves(i) \in {"loop", "return"}
    BY DEF Leaves, Counters
  <2>3. SameBut(r, th[i]) /\ r.pc = "enter" /\ r.after = Leaves(i) /\ r.passed = tp.passed
    BY <1>2, <2>1, <2>2, AtBarrier
  <2> HIDE DEF r
  <2>4. /\ r \in States /\ r.node = m /\ r.nth = th[i].nth /\ r.chunk = th[i].chunk
        /\ r.pending = th[i].pending /\ r.last = th[i].last
    BY <2>3 DEF SameBut
  <2>5. r.pc \in Inside \ {"setChunk", "wait", "reset", "pass"} /\ r.pc \in InBarrier
    BY <2>3 DEF Inside, InBarrier
  <2>6. Done(r) <=> m = Len(tp.graph)
    BY <2>2, <2>3, <2>4, <2>5 DEF Done
  <2>7. IF half THEN InSecond(r, n) ELSE InFirst(r, n)
    <3>1. CASE half
      BY <3>1, <1>4, <2>4, <2>6 DEF InSecond
    <3>2. CASE ~half /\ Toward(n, m)
      <4>1. m \in {Len(tp.graph), tp.abort}
        BY <1>6 DEF Stopped
      <4> QED
        BY <3>2, <4>1, <2>2, <2>3, <2>4, <2>5 DEF InFirst
    <3>3. CASE ~half /\ Done(th[i]) /\ m > 0 /\ Working(n, m - 1, "rows")
      BY <3>3, <1>4, <2>4, <2>6 DEF InFirst
    <3> QED
      BY <3>1, <3>2, <3>3, <1>4
  <2>8. \A k : (PastRows(r, k) <=> k < m) /\ (PastConvert(r, k) <=> k < m)
    BY <2>2, <2>3, <2>4, <2>5 DEF PastRows, PastConvert
  <2> QED
    BY <1>1, <1>2, <1>3, <1>4, <1>5, <2>1, <2>3, <2>4, <2>5, <2>6, <2>7, <2>8, PlaceSteps
       DEF Inside, InBarrier
<1>7. CASE ~Stopped(i)
  <2> DEFINE op == tp.graph[m + 1]
             r == IF op = "nop" THEN [th[i] EXCEPT !.node = m + 1]
                  ELSE IF op = "rows" THEN [th[i] EXCEPT !.pc = "rows"]
                  ELSE [th[i] EXCEPT !.pc = "convert"]
  <2>1. Moves(i, r)
    BY <1>7 DEF Node
  <2>2. op \in {"rows", "matmul", "nop"}
    <3>1. m \in 0 .. Len(tp.graph) - 1
      BY <1>4, <1>7
    <3>2. tp.graph \in Seq(Ops)
      BY <1>1, Insider, PoolAssumption
    <3> QED
      BY <3>1, <3>2, OpsOf
  <2>3. {"rows", "convert", "node"} \subseteq Counters
    BY DEF Counters
  <2>4. /\ r \in States /\ r.nth = th[i].nth /\ r.chunk = th[i].chunk
        /\ r.pending = th[i].pending /\ r.last = th[i].last
        /\ r.node = IF op = "nop" THEN m + 1 ELSE m
        /\ r.pc = IF op = "nop" THEN "node" ELSE IF op = "rows" THEN "rows" ELSE "convert"
    <3>1. th[i] \in States /\ th[i].pc = "node" /\ th[i].node = m /\ m + 1 \in Nat
      BY <1>1, <1>2, <1>4 DEF States
    <3>2. CASE op = "nop"
      BY <3>1, <3>2 DEF States
    <3>3. CASE op = "rows"
      BY <2>3, <3>1, <3>3 DEF States
    <3>4. CASE op # "nop" /\ op # "rows"
      BY <2>3, <3>1, <3>4 DEF States
    <3> QED
      BY <3>2, <3>3, <3>4
  <2> HIDE DEF r, op
  <2>5. ~Done(th[i]) /\ th[i].pc \in Inside \ {"wait", "reset", "pass"}
    BY <1>1, <1>4, <1>7 DEF Inside
  <2>6. r.pc \in Inside \ {"setChunk", "wait", "reset", "pass"} /\ r.pc \notin InBarrier
    BY <2>4 DEF Inside, InBarrier
  <2>7. InFirst(r, n)
    <3>1. CASE op = "nop"
      <4>1. Toward(n, m + 1)
        BY <3>1, <1>4, <1>7 DEF Toward, op
      <4> QED
        BY <3>1, <4>1, <2>4 DEF InFirst
    <3>2. CASE op # "nop"
      <4>1. Working(n, m, op)
        BY <1>4, <1>7 DEF Working, op
      <4> QED
        BY <3>2, <4>1, <2>2, <2>4 DEF InFirst
    <3> QED
      BY <3>1, <3>2
  <2>8. \A k \in 0 .. Len(tp.graph) - 1 :
          tp.graph[k + 1] # "nop" => (PastRows(r, k) <=> k < m) /\ (PastConvert(r, k) <=> k < m)
    <3>1. \A k : (PastRows(r, k) <=> k < r.node) /\ (PastConvert(r, k) <=> k < r.node)
      BY <2>4, <2>6 DEF PastRows, PastConvert
    <3>2. \A k \in 0 .. Len(tp.graph) - 1 : tp.graph[k + 1] # "nop" => (k < r.node <=> k < m)
      BY <1>4, <2>4 DEF op
    <3> QED
      BY <3>1, <3>2
  <2>9. \A k \in 0 .. Len(tp.graph) - 1 :
          /\ tp.graph[k + 1] = "rows" => (PastRows(r, k) <=> PastRows(Eff[i], k))
          /\ tp.graph[k + 1] = "matmul" => (PastConvert(r, k) <=> PastConvert(Eff[i], k))
    BY <1>2, <1>5, <2>8
  <2> QED
    BY <1>1, <1>3, <1>4, <1>7, <2>1, <2>4, <2>5, <2>6, <2>7, <2>9, PlaceSteps
<1> QED
  BY <1>6, <1>7

(* One more piece is computed.                                             *)
LEMMA OneMore ==
  ASSUME TypeOK, NEW p \in AllPieces(job.stages), work[p] = 0,
         work' = [work EXCEPT ![p] = @ + 1], job' = job
  PROVE  /\ work' \in [AllPieces(job.stages) -> 0 .. 1]
         /\ \A q \in AllPieces(job.stages) : work'[q] = IF q = p THEN 1 ELSE work[q]
<1>1. work \in [AllPieces(job.stages) -> 0 .. 1]
  BY DEF TypeOK
<1>2. work'[p] = 1 /\ \A q \in AllPieces(job.stages) \ {p} : work'[q] = work[q]
  BY <1>1
<1>3. work' = [work EXCEPT ![p] = 1]
  OBVIOUS
<1> QED
  BY <1>1, <1>2, <1>3

LEMMA PiecesIn ==
  ASSUME IInv, Running, NEW k \in 0 .. Len(tp.graph) - 1
  PROVE  /\ tp.graph[k + 1] = "rows" =>
              \A i \in Members : Piece(k, "rows", i) \in AllPieces(job.stages)
         /\ tp.graph[k + 1] = "matmul" =>
              /\ \A i \in Members : Piece(k, "convert", i) \in AllPieces(job.stages)
              /\ \A c \in 0 .. ChunksFor(tp.threads) - 1 :
                   Piece(k, "chunk", c) \in AllPieces(job.stages)
<1>1. TypeOK /\ CallOK
  BY DEF IInv
<1>2. tp.threads = job.threads /\ Members = 0 .. job.threads - 1
  BY <1>1 DEF CallOK, Members
<1> QED
  BY <1>1, <1>2, PiecesAre

(* The step of a thread that computes the piece p: what was computed       *)
(* before, and p.                                                          *)
Adds(p, n, half) ==
  \A k \in 0 .. Len(tp.graph) - 1 :
    /\ tp.graph[k + 1] = "rows" =>
         \A j \in Members : PastRows(Eff[j], k)' <=>
                              PastRows(Eff[j], k) \/ Piece(k, "rows", j) = p
    /\ tp.graph[k + 1] = "matmul" =>
         /\ \A j \in Members : PastConvert(Eff[j], k)' <=>
                                 PastConvert(Eff[j], k) \/ Piece(k, "convert", j) = p
         /\ \A c \in 0 .. ChunksFor(tp.threads) - 1 :
              PastChunk(n, half, k, c)' <=>
                PastChunk(n, half, k, c) \/ Piece(k, "chunk", c) = p

LEMMA WorkMore ==
  ASSUME IInv, Running, SameGraph, job' = job, NEW i \in Members, NEW r, Only(i, r),
         NEW n \in 0 .. Len(tp.graph), NEW half \in BOOLEAN, WorkOK(n, half),
         NEW p \in AllPieces(job.stages), work[p] = 0,
         work' = [work EXCEPT ![p] = @ + 1],
         Adds(p, n, half)
  PROVE  WorkOK(n, half)' /\ work' \in [AllPieces(job.stages) -> 0 .. 1]
<1>1. Members' = Members
  BY DEF SameGraph, SameNodes, Members
<1>2. TypeOK
  BY DEF IInv
<1> SUFFICES ASSUME NEW k \in 0 .. Len(tp.graph) - 1
             PROVE  (/\ tp.graph[k + 1] = "rows" =>
                          \A j \in Members : Once(Piece(k, "rows", j), PastRows(Eff[j], k))
                     /\ tp.graph[k + 1] = "matmul" =>
                          /\ \A j \in Members : Once(Piece(k, "convert", j), PastConvert(Eff[j], k))
                          /\ \A c \in 0 .. ChunksFor(tp.threads) - 1 :
                               Once(Piece(k, "chunk", c), PastChunk(n, half, k, c)))'
  BY <1>2, OneMore DEF WorkOK, SameGraph, SameNodes
<1>3. ASSUME tp.graph[k + 1] = "rows", NEW j \in Members
      PROVE  Once(Piece(k, "rows", j), PastRows(Eff[j], k))'
  <2> DEFINE q == Piece(k, "rows", j)
  <2>1. q \in AllPieces(job.stages)
    BY <1>3, PiecesIn
  <2>2. work'[q] = IF q = p THEN 1 ELSE work[q]
    BY <1>2, <2>1, OneMore
  <2>3. Once(q, PastRows(Eff[j], k))
    BY <1>3 DEF WorkOK
  <2>4. PastRows(Eff[j], k)' <=> PastRows(Eff[j], k) \/ q = p
    BY <1>3 DEF Adds
  <2> HIDE DEF q
  <2>5. Once(q, PastRows(Eff[j], k))'
    BY <2>2, <2>3, <2>4 DEF Once
  <2> QED
    BY <2>5 DEF q
<1>4. ASSUME tp.graph[k + 1] = "matmul", NEW j \in Members
      PROVE  Once(Piece(k, "convert", j), PastConvert(Eff[j], k))'
  <2> DEFINE q == Piece(k, "convert", j)
  <2>1. q \in AllPieces(job.stages)
    BY <1>4, PiecesIn
  <2>2. work'[q] = IF q = p THEN 1 ELSE work[q]
    BY <1>2, <2>1, OneMore
  <2>3. Once(q, PastConvert(Eff[j], k))
    BY <1>4 DEF WorkOK
  <2>4. PastConvert(Eff[j], k)' <=> PastConvert(Eff[j], k) \/ q = p
    BY <1>4 DEF Adds
  <2> HIDE DEF q
  <2>5. Once(q, PastConvert(Eff[j], k))'
    BY <2>2, <2>3, <2>4 DEF Once
  <2> QED
    BY <2>5 DEF q
<1>5. ASSUME tp.graph[k + 1] = "matmul", NEW d \in 0 .. ChunksFor(tp.threads) - 1
      PROVE  Once(Piece(k, "chunk", d), PastChunk(n, half, k, d))'
  <2> DEFINE q == Piece(k, "chunk", d)
  <2>1. q \in AllPieces(job.stages)
    BY <1>5, PiecesIn
  <2>2. work'[q] = IF q = p THEN 1 ELSE work[q]
    BY <1>2, <2>1, OneMore
  <2>3. Once(q, PastChunk(n, half, k, d))
    BY <1>5 DEF WorkOK
  <2>4. PastChunk(n, half, k, d)' <=> PastChunk(n, half, k, d) \/ q = p
    BY <1>5 DEF Adds
  <2> HIDE DEF q
  <2>5. Once(q, PastChunk(n, half, k, d))'
    BY <2>2, <2>3, <2>4 DEF Once
  <2> QED
    BY <2>5 DEF q
<1> QED
  BY <1>1, <1>3, <1>4, <1>5 DEF SameGraph, SameNodes

(* The rest of the invariant after a step in the graph.                    *)
LEMMA PartSteps ==
  ASSUME IInv, NEW i \in Threads, th[i].pc \in Inside \cup {"start"}, ~Late(i),
         NEW r \in States, Moves(i, r), r.pc \in Inside, r.pc = "setChunk" => i = 0,
         r.pending = th[i].pending, r.last = th[i].last,
         r.pc \in InBarrier => r.after \in {"node", "chunk", Leaves(i)} /\ r.passed = tp.passed,
         locked' = locked, job' = job, tp' \in Pools,
         tp'.graph = tp.graph, tp'.count = tp.count, tp'.threads = tp.threads,
         tp'.passed = tp.passed, tp'.ec = "aborted" <=> tp'.abort # -1,
         work' \in [AllPieces(job.stages) -> 0 .. 1],
         GraphOK', BarrierOK'
  PROVE  IInv'
<1>1. /\ Running' /\ th' \in [Threads -> States]
      /\ Eff'[0].pc \in Inside \cup {"wake", "start"}
      /\ WaitOK' /\ WorkersOK' /\ EndsOK' /\ ~Eff'[0].pending
  BY InsideSteps
<1>2. TypeOK'
  BY <1>1 DEF IInv, TypeOK
<1>3. CallOK'
  BY <1>1, Insider DEF IInv, CallOK, Inside, InBarrier
<1> QED
  BY <1>1, <1>2, <1>3 DEF IInv

LEMMA RowsStep ==
  ASSUME IInv, NEW i \in Threads, Rows(i)
  PROVE  IInv'
<1> DEFINE r == [th[i] EXCEPT !.pc = "abort"]
           m == th[i].node
           p == Piece(m, "rows", i)
<1>1. /\ th[i].pc = "rows" /\ ~Late(i) /\ th[i].pc \in Inside \cup {"start"}
      /\ Moves(i, r) /\ work' = [work EXCEPT ![p] = @ + 1]
      /\ tp' = tp /\ locked' = locked /\ job' = job
  BY DEF Rows, At, Late, Inside, Goes, Moves, Computes
<1>2. /\ Running /\ i \in Members /\ 0 \in Members /\ Members \subseteq Threads
      /\ Eff[i] = th[i] /\ th[i] \in States /\ Len(tp.graph) \in Nat /\ tp \in Pools
  BY <1>1, Insider DEF IInv, TypeOK
<1>3. "abort" \in Counters
  BY DEF Counters
<1>4. SameBut(r, th[i]) /\ r.pc = "abort"
  BY <1>2, <1>3, WithPc
<1>5. m \in Nat
  BY <1>2 DEF States
<1> HIDE DEF r, p
<1>6. PICK n \in 0 .. Len(tp.graph), half \in BOOLEAN : PartOK(n, half)
  BY <1>2 DEF IInv, GraphOK
<1>7. ~half /\ Working(n, m, "rows") /\ th[i].nth = tp.threads
  BY <1>1, <1>2, <1>6 DEF PartOK, Together, Unstarted, InFirst, InSecond, Done, Inside, InBarrier
<1>8. m \in 0 .. Len(tp.graph) - 1 /\ tp.graph[m + 1] = "rows"
  BY <1>2, <1>5, <1>7 DEF Working
<1>9. p \in AllPieces(job.stages) /\ work[p] = 0
  <2>1. Once(p, PastRows(Eff[i], m))
    BY <1>2, <1>6, <1>8 DEF PartOK, WorkOK, p
  <2>2. ~PastRows(Eff[i], m)
    BY <1>1, <1>2, <1>5 DEF PastRows
  <2> QED
    BY <1>2, <1>8, <2>1, <2>2, PiecesIn DEF p, Once
<1>10. r.pc \in Inside /\ r.pc \notin InBarrier
  BY <1>4 DEF Inside, InBarrier
<1>11. SameGraph
  BY <1>1 DEF SameGraph, SameNodes
<1>12. Only(i, r)
  BY <1>1, <1>4, <1>10, InsideSteps DEF SameBut
<1>13. BarrierOK'
  BY <1>1, <1>2, <1>4, <1>10, <1>11, <1>12, BarrierStep DEF IInv, SameGraph, SameNodes
<1>14. Together(n, half)'
  <2>1. InFirst(r, n)
    BY <1>4, <1>7 DEF InFirst, SameBut
  <2> QED
    BY <1>2, <1>4, <1>6, <1>7, <1>10, <1>11, <1>12, <2>1, TogetherStep DEF PartOK, SameBut
<1>15. AbortOK(n, half)'
  <2>1. ~Done(th[i])
    BY <1>1 DEF Done, InBarrier
  <2> QED
    BY <1>2, <1>6, <1>11, <1>12, <2>1, SomeThreads, AbortStep DEF PartOK
<1>16. ChunksOK(half)'
  BY <1>1, <1>2, <1>6, <1>7, <1>10, <1>11, <1>12, ChunksStep DEF PartOK, SameGraph, SameNodes
<1>17. WorkOK(n, half)' /\ work' \in [AllPieces(job.stages) -> 0 .. 1]
  <2>1. ASSUME NEW k \in 0 .. Len(tp.graph) - 1, NEW j \in Members
        PROVE  PastRows(Eff[j], k)' <=> PastRows(Eff[j], k) \/ Piece(k, "rows", j) = p
    <3>1. CASE j = i
      <4>1. PastRows(Eff[j], k)' <=> k < m \/ k = m
        BY <3>1, <1>4, <1>10, <1>12 DEF PastRows, Only, SameBut
      <4>2. PastRows(Eff[j], k) <=> k < m
        BY <3>1, <1>1, <1>2 DEF PastRows, Inside
      <4>3. k = m <=> Piece(k, "rows", j) = p
        BY <3>1, PiecesDiffer DEF p
      <4> QED
        BY <4>1, <4>2, <4>3
    <3>2. CASE j # i
      <4>1. Eff'[j] = Eff[j]
        BY <3>2, <1>2, <1>12 DEF Only
      <4>2. Piece(k, "rows", j) # p
        BY <3>2, PiecesDiffer DEF p
      <4> QED
        BY <4>1, <4>2 DEF PastRows
    <3> QED
      BY <3>1, <3>2
  <2>2. ASSUME NEW k \in 0 .. Len(tp.graph) - 1, NEW j \in Members, tp.graph[k + 1] = "matmul"
        PROVE  PastConvert(Eff[j], k)' <=> PastConvert(Eff[j], k) \/ Piece(k, "convert", j) = p
    <3>1. Piece(k, "convert", j) # p /\ k # m
      BY <1>8, <2>2, PiecesDiffer DEF p
    <3>2. CASE j = i
      BY <3>1, <3>2, <1>1, <1>2, <1>4, <1>10, <1>12 DEF PastConvert, Only, SameBut, Inside
    <3>3. CASE j # i
      BY <3>1, <3>3, <1>2, <1>12 DEF PastConvert, Only
    <3> QED
      BY <3>2, <3>3
  <2>3. \A k, c : /\ PastChunk(n, half, k, c)' <=> PastChunk(n, half, k, c)
                  /\ Piece(k, "chunk", c) # p
    <3>1. \A k, c : Piece(k, "chunk", c) # p
      BY PiecesDiffer DEF p
    <3> QED
      BY <3>1, <1>7 DEF PastChunk
  <2>4. WorkOK(n, half)
    BY <1>6 DEF PartOK
  <2>5. Adds(p, n, half)
    BY <2>1, <2>2, <2>3 DEF Adds
  <2> QED
    BY <1>1, <1>2, <1>9, <1>11, <1>12, <2>4, <2>5, WorkMore
<1>18. GraphOK'
  BY <1>6, <1>11, <1>14, <1>15, <1>16, <1>17 DEF GraphOK, PartOK, SameGraph, SameNodes
<1>19. tp'.ec = "aborted" <=> tp'.abort # -1
  BY <1>1 DEF IInv, CallOK
<1> QED
  BY <1>1, <1>2, <1>4, <1>10, <1>13, <1>17, <1>18, <1>19, PartSteps DEF SameBut

LEMMA ConvertStep ==
  ASSUME IInv, NEW i \in Threads, Convert(i)
  PROVE  IInv'
<1> DEFINE r == IF i = 0 THEN [th[i] EXCEPT !.pc = "setChunk"]
                ELSE ToBarrier([th[i] EXCEPT !.chunk = i], "chunk")
           m == th[i].node
           p == Piece(m, "convert", i)
<1>1. /\ th[i].pc = "convert" /\ ~Late(i) /\ th[i].pc \in Inside \cup {"start"}
      /\ Moves(i, r) /\ work' = [work EXCEPT ![p] = @ + 1]
      /\ tp' = tp /\ locked' = locked /\ job' = job
  BY DEF Convert, At, Late, Inside, Moves, Computes
<1>2. /\ Running /\ i \in Members /\ 0 \in Members /\ Members \subseteq Threads
      /\ Eff[i] = th[i] /\ th[i] \in States /\ Len(tp.graph) \in Nat /\ tp \in Pools /\ TypeOK
      /\ tp.threads \in Nat
  BY <1>1, Insider DEF IInv, TypeOK
<1>3. /\ r \in States /\ r.node = m /\ r.nth = th[i].nth
      /\ r.pending = th[i].pending /\ r.last = th[i].last
      /\ i = 0 => r.pc = "setChunk"
      /\ i # 0 => /\ r.pc = "enter" /\ r.after = "chunk" /\ r.passed = tp.passed
                  /\ r.chunk = i /\ tp.threads # 1
  <2>1. CASE i = 0
    <3>1. "setChunk" \in Counters
      BY DEF Counters
    <3> QED
      BY <2>1, <3>1, <1>2, WithPc DEF SameBut
  <2>2. CASE i # 0
    <3> DEFINE q == [th[i] EXCEPT !.chunk = i]
    <3>1. /\ q \in States /\ q.chunk = i /\ q.node = m /\ q.nth = th[i].nth
          /\ q.pending = th[i].pending /\ q.last = th[i].last
      BY <1>2, SomeThreads DEF States
    <3>2. tp.threads # 1
      BY <1>2, <2>2 DEF Members
    <3>3. "chunk" \in Counters
      BY DEF Counters
    <3>4. r = ToBarrier(q, "chunk")
      BY <2>2
    <3> HIDE DEF q, r
    <3> QED
      BY <2>2, <3>1, <3>2, <3>3, <3>4, <1>2, AtBarrier DEF SameBut
  <2> QED
    BY <2>1, <2>2
<1>4. m \in Nat
  BY <1>2 DEF States
<1> HIDE DEF r, p
<1>5. PICK n \in 0 .. Len(tp.graph), half \in BOOLEAN : PartOK(n, half)
  BY <1>2 DEF IInv, GraphOK
<1>6. ~half /\ Working(n, m, "matmul") /\ th[i].nth = tp.threads
  BY <1>1, <1>2, <1>5 DEF PartOK, Together, Unstarted, InFirst, InSecond, Done, Inside, InBarrier
<1>7. m \in 0 .. Len(tp.graph) - 1 /\ tp.graph[m + 1] = "matmul"
  BY <1>2, <1>4, <1>6 DEF Working
<1>8. p \in AllPieces(job.stages) /\ work[p] = 0
  <2>1. Once(p, PastConvert(Eff[i], m))
    BY <1>2, <1>5, <1>7 DEF PartOK, WorkOK, p
  <2>2. ~PastConvert(Eff[i], m)
    BY <1>1, <1>2, <1>4 DEF PastConvert, InBarrier
  <2> QED
    BY <1>2, <1>7, <2>1, <2>2, PiecesIn DEF p, Once
<1>9. r.pc \in Inside /\ r.pc \notin {"wait", "reset", "pass", "abort", "chunk", "nextChunk"}
      /\ (r.pc \in InBarrier <=> i # 0)
  BY <1>3 DEF Inside, InBarrier
<1>10. SameGraph
  BY <1>1 DEF SameGraph, SameNodes
<1>11. Only(i, r)
  BY <1>1, <1>3, <1>9, InsideSteps
<1>12. BarrierOK'
  BY <1>1, <1>2, <1>3, <1>9, <1>10, <1>11, BarrierStep DEF IInv, Members, SameGraph, SameNodes
<1>13. Together(n, half)'
  <2>1. InFirst(r, n)
    BY <1>3, <1>6, <1>9 DEF InFirst
  <2> QED
    BY <1>2, <1>3, <1>5, <1>6, <1>9, <1>10, <1>11, <2>1, TogetherStep DEF PartOK
<1>14. AbortOK(n, half)'
  <2>1. ~Done(th[i])
    BY <1>1 DEF Done, InBarrier
  <2> QED
    BY <1>2, <1>5, <1>10, <1>11, <2>1, SomeThreads, AbortStep DEF PartOK
<1>15. ChunksOK(half)'
  BY <1>1, <1>2, <1>3, <1>5, <1>6, <1>9, <1>10, <1>11, ChunksStep DEF PartOK, SameGraph, SameNodes
<1>16. WorkOK(n, half)' /\ work' \in [AllPieces(job.stages) -> 0 .. 1]
  <2>1. ASSUME NEW k \in 0 .. Len(tp.graph) - 1, NEW j \in Members
        PROVE  PastConvert(Eff[j], k)' <=> PastConvert(Eff[j], k) \/ Piece(k, "convert", j) = p
    <3>1. CASE j = i
      <4>1. PastConvert(r, k) <=> k < m \/ k = m
        BY <3>1, <1>3, <1>9 DEF PastConvert
      <4>2. PastConvert(Eff[j], k) <=> k < m
        BY <3>1, <1>1, <1>2 DEF PastConvert, Inside, InBarrier
      <4>3. k = m <=> Piece(k, "convert", j) = p
        BY <3>1, PiecesDiffer DEF p
      <4>4. PastConvert(Eff[j], k)' <=> PastConvert(r, k)
        BY <3>1, <1>11 DEF Only, PastConvert
      <4> QED
        BY <4>1, <4>2, <4>3, <4>4
    <3>2. CASE j # i
      <4>1. Eff'[j] = Eff[j]
        BY <3>2, <1>2, <1>11 DEF Only
      <4>2. Piece(k, "convert", j) # p
        BY <3>2, PiecesDiffer DEF p
      <4> QED
        BY <4>1, <4>2 DEF PastConvert
    <3> QED
      BY <3>1, <3>2
  <2>2. ASSUME NEW k \in 0 .. Len(tp.graph) - 1, NEW j \in Members, tp.graph[k + 1] = "rows"
        PROVE  PastRows(Eff[j], k)' <=> PastRows(Eff[j], k) \/ Piece(k, "rows", j) = p
    <3>1. Piece(k, "rows", j) # p /\ k # m
      BY <1>7, <2>2, PiecesDiffer DEF p
    <3>2. CASE j = i
      BY <3>1, <3>2, <1>1, <1>2, <1>3, <1>9, <1>11 DEF PastRows, Only, Inside
    <3>3. CASE j # i
      BY <3>1, <3>3, <1>2, <1>11 DEF PastRows, Only
    <3> QED
      BY <3>2, <3>3
  <2>3. \A k, c : /\ PastChunk(n, half, k, c)' <=> PastChunk(n, half, k, c)
                  /\ Piece(k, "chunk", c) # p
    <3>1. \A k, c : Piece(k, "chunk", c) # p
      BY PiecesDiffer DEF p
    <3> QED
      BY <3>1, <1>6 DEF PastChunk
  <2>4. WorkOK(n, half)
    BY <1>5 DEF PartOK
  <2>5. Adds(p, n, half)
    BY <2>1, <2>2, <2>3 DEF Adds
  <2> QED
    BY <1>1, <1>2, <1>8, <1>10, <1>11, <2>4, <2>5, WorkMore
<1>17. GraphOK'
  BY <1>5, <1>10, <1>13, <1>14, <1>15, <1>16 DEF GraphOK, PartOK, SameGraph, SameNodes
<1>18. tp'.ec = "aborted" <=> tp'.abort # -1
  BY <1>1 DEF IInv, CallOK
<1> QED
  BY <1>1, <1>2, <1>3, <1>9, <1>12, <1>16, <1>17, <1>18, PartSteps

(* The counter of the chunks is set before the barrier, after which it is  *)
(* used.                                                                   *)
LEMMA SetChunkGoes ==
  ASSUME IInv, SetChunk, tp.threads # 1
  PROVE  IInv'
<1> DEFINE q == [th[0] EXCEPT !.chunk = 0]
           r == ToBarrier(q, "chunk")
           m == th[0].node
<1>1. /\ th[0].pc = "setChunk" /\ ~Late(0) /\ th[0].pc \in Inside \cup {"start"}
      /\ Moves(0, r) /\ work' = work
      /\ tp' = [tp EXCEPT !.chunk = th[0].nth] /\ locked' = locked /\ job' = job
      /\ 0 \in Threads
  BY SomeThreads DEF SetChunk, At, Late, Inside, Moves
<1>2. /\ Running /\ 0 \in Members /\ Members \subseteq Threads
      /\ Eff[0] = th[0] /\ th[0] \in States /\ Len(tp.graph) \in Nat /\ tp \in Pools /\ TypeOK
      /\ tp.threads \in Nat
  BY <1>1, Insider DEF IInv, TypeOK
<1>3. /\ r \in States /\ r.node = m /\ r.nth = th[0].nth
      /\ r.pending = th[0].pending /\ r.last = th[0].last
      /\ r.pc = "enter" /\ r.after = "chunk" /\ r.passed = tp.passed
      /\ r.chunk = 0
  <2>1. /\ q \in States /\ q.chunk = 0 /\ q.node = m /\ q.nth = th[0].nth
        /\ q.pending = th[0].pending /\ q.last = th[0].last
    BY <1>2, SomeThreads DEF States
  <2>2. "chunk" \in Counters
    BY DEF Counters
  <2> HIDE DEF q
  <2> QED
    BY <2>1, <2>2, <1>2, AtBarrier DEF SameBut
<1>4. m \in Nat
  BY <1>2 DEF States
<1> HIDE DEF r, q
<1>5. PICK n \in 0 .. Len(tp.graph), half \in BOOLEAN : PartOK(n, half)
  BY <1>2 DEF IInv, GraphOK
<1>6. ~half /\ Working(n, m, "matmul") /\ th[0].nth = tp.threads
  BY <1>1, <1>2, <1>5 DEF PartOK, Together, Unstarted, InFirst, InSecond, Done, Inside, InBarrier
<1>7. /\ tp' \in Pools /\ tp'.chunk = tp.threads
      /\ tp'.graph = tp.graph /\ tp'.count = tp.count /\ tp'.threads = tp.threads
      /\ tp'.passed = tp.passed /\ tp'.ec = tp.ec /\ tp'.abort = tp.abort
      /\ tp'.barrier = tp.barrier
  BY <1>1, <1>2, <1>6 DEF Pools
<1>8. r.pc \in Inside /\ r.pc \in InBarrier /\ r.pc \notin {"wait", "reset", "pass"}
  BY <1>3 DEF Inside, InBarrier
<1>9. SameGraph
  BY <1>7 DEF SameGraph, SameNodes
<1>10. Only(0, r)
  BY <1>1, <1>3, <1>7, <1>8, InsideSteps
<1>11. BarrierOK'
  BY <1>1, <1>2, <1>3, <1>7, <1>8, <1>9, <1>10, BarrierStep DEF IInv, SameGraph, SameNodes
<1>12. Together(n, half)'
  <2>1. InFirst(r, n)
    BY <1>3, <1>6, <1>8 DEF InFirst
  <2> QED
    BY <1>2, <1>3, <1>5, <1>6, <1>8, <1>9, <1>10, <2>1, TogetherStep DEF PartOK
<1>13. AbortOK(n, half)'
  <2>1. ~Done(th[0])
    BY <1>1 DEF Done, InBarrier
  <2> QED
    BY <1>2, <1>5, <1>9, <1>10, <2>1, SomeThreads, AbortStep DEF PartOK
<1>14. ChunksOK(half)'
  <2>1. Members' = Members
    BY <1>7 DEF Members
  <2>2. \A j \in Members \ {0} : Eff'[j] = Eff[j]
    BY <1>2, <1>10 DEF Only
  <2>3. Eff'[0] = r
    BY <1>10 DEF Only
  <2>4. ChunksOK(half)
    BY <1>5 DEF PartOK
  <2> QED
    BY <1>3, <1>6, <1>7, <2>1, <2>2, <2>3, <2>4 DEF ChunksOK
<1>15. \A k : /\ PastRows(r, k) <=> k < m
              /\ PastRows(Eff[0], k) <=> k < m
              /\ PastConvert(r, k) <=> k < m \/ k = m
              /\ PastConvert(Eff[0], k) <=> k < m \/ k = m
  BY <1>1, <1>2, <1>3, <1>8 DEF PastRows, PastConvert, Inside, InBarrier
<1>16. WorkOK(n, half)'
  BY <1>1, <1>2, <1>5, <1>6, <1>9, <1>10, <1>15, WorkStep DEF PartOK, SameGraph, SameNodes
<1>17. GraphOK'
  BY <1>5, <1>9, <1>12, <1>13, <1>14, <1>16 DEF GraphOK, PartOK, SameGraph, SameNodes
<1>18. tp'.ec = "aborted" <=> tp'.abort # -1
  BY <1>7 DEF IInv, CallOK
<1>19. work' \in [AllPieces(job.stages) -> 0 .. 1]
  BY <1>1, <1>2 DEF TypeOK
<1> QED
  BY <1>1, <1>2, <1>3, <1>7, <1>8, <1>11, <1>17, <1>18, <1>19, PartSteps


(* A thread that has taken a chunk computes it, or finds that there is none. *)
LEMMA AtChunk ==
  ASSUME IInv, NEW i \in Threads, th[i].pc \in {"chunk", "nextChunk"},
         NEW n \in 0 .. Len(tp.graph), NEW half \in BOOLEAN, PartOK(n, half)
  PROVE  /\ half /\ th[i].node = n /\ th[i].nth = tp.threads
         /\ n \in 0 .. Len(tp.graph) - 1 /\ tp.graph[n + 1] = "matmul"
         /\ tp.chunk >= tp.threads
         /\ th[i].pc = "chunk" =>
              /\ th[i].chunk < tp.chunk
              /\ \A j \in Members \ {i} : ~Holds(j, th[i].chunk)
         /\ \A j \in Members : Eff[j].pc \in InBarrier => Eff[j].after # "chunk"
<1>1. ~Late(i) /\ th[i].pc \in Inside \cup {"start"}
  BY DEF Late, At, Inside
<1>2. /\ i \in Members /\ Eff[i] = th[i] /\ Len(tp.graph) \in Nat
  BY <1>1, Insider
<1>3. half /\ th[i].node = n /\ n < Len(tp.graph) /\ tp.graph[n + 1] = "matmul"
      /\ th[i].nth = tp.threads
  BY <1>2 DEF PartOK, Together, Unstarted, InFirst, InSecond, Done, Inside, InBarrier
<1>4. \A j \in Members : InSecond(Eff[j], n)
  BY <1>3 DEF PartOK, Together
<1>5. \A j \in Members : Eff[j].pc \in InBarrier => Eff[j].after # "chunk"
  BY <1>4 DEF InSecond, Done, InBarrier
<1> QED
  BY <1>2, <1>3, <1>5 DEF PartOK, ChunksOK

LEMMA ChunkStep ==
  ASSUME IInv, NEW i \in Threads, Chunk(i)
  PROVE  IInv'
<1> DEFINE N == ChunksFor(th[i].nth)
           d == th[i].chunk
           m == th[i].node
           p == Piece(m, "chunk", d)
           pc == IF d < N /\ ~(th[i].nth >= N) THEN "nextChunk" ELSE "abort"
           r == [th[i] EXCEPT !.pc = pc]
<1>1. /\ th[i].pc = "chunk" /\ ~Late(i) /\ th[i].pc \in Inside \cup {"start"}
      /\ Moves(i, r)
      /\ d < N => work' = [work EXCEPT ![p] = @ + 1]
      /\ ~(d < N) => work' = work
      /\ tp' = tp /\ locked' = locked /\ job' = job
  BY DEF Chunk, At, Late, Inside, Goes, Moves, Computes
<1>2. /\ Running /\ i \in Members /\ 0 \in Members /\ Members \subseteq Threads
      /\ Eff[i] = th[i] /\ th[i] \in States /\ Len(tp.graph) \in Nat /\ tp \in Pools
      /\ TypeOK /\ tp.threads \in Nat \ {0} /\ tp.chunk \in Nat
  BY <1>1, Insider, CountTyped DEF IInv, TypeOK
<1>3. pc \in Counters /\ pc \in {"abort", "nextChunk"}
  BY DEF Counters
<1> HIDE DEF p
<1>4. SameBut(r, th[i]) /\ r.pc = pc
  <2> HIDE DEF pc
  <2> QED
    BY <1>2, <1>3, WithPc
<1>5. d \in Nat
  BY <1>2 DEF States
<1>6. PICK n \in 0 .. Len(tp.graph), half \in BOOLEAN : PartOK(n, half)
  BY <1>2 DEF IInv, GraphOK
<1>7. /\ half /\ m = n /\ th[i].nth = tp.threads /\ n \in 0 .. Len(tp.graph) - 1
      /\ tp.graph[n + 1] = "matmul" /\ tp.chunk >= tp.threads /\ d < tp.chunk
      /\ \A j \in Members \ {i} : ~Holds(j, d)
  BY <1>1, <1>6, AtChunk
<1>8. N = ChunksFor(tp.threads) /\ N \in Nat
  BY <1>2, <1>7, SomeChunks
<1>9. pc = "abort" => tp.chunk >= N
  BY <1>2, <1>5, <1>7, <1>8
<1> HIDE DEF r, pc, N
<1>10. r.pc \in Inside /\ r.pc \notin InBarrier /\ r.pc \in {"abort", "nextChunk"}
  BY <1>3, <1>4 DEF Inside, InBarrier
<1>11. SameGraph
  BY <1>1 DEF SameGraph, SameNodes
<1>12. Only(i, r)
  BY <1>1, <1>4, <1>10, InsideSteps DEF SameBut
<1>13. BarrierOK'
  BY <1>1, <1>2, <1>10, <1>11, <1>12, BarrierStep DEF IInv, SameGraph, SameNodes
<1>14. Together(n, half)'
  <2>1. InSecond(r, n)
    BY <1>4, <1>7, <1>10 DEF InSecond, SameBut
  <2> QED
    BY <1>2, <1>4, <1>6, <1>7, <1>10, <1>11, <1>12, <2>1, TogetherStep DEF PartOK, SameBut
<1>15. AbortOK(n, half)'
  <2>1. ~Done(th[i])
    BY <1>1 DEF Done, InBarrier
  <2> QED
    BY <1>2, <1>6, <1>11, <1>12, <2>1, SomeThreads, AbortStep DEF PartOK
<1>16. ChunksOK(half)'
  BY <1>1, <1>2, <1>4, <1>6, <1>8, <1>9, <1>10, <1>11, <1>12, ChunksStep DEF PartOK, SameGraph, SameNodes
<1>17. \A k : /\ PastRows(r, k) <=> k < m \/ (k = m /\ r.pc = "abort")
              /\ PastRows(Eff[i], k) <=> k < m
              /\ PastConvert(r, k) <=> k < m \/ k = m
              /\ PastConvert(Eff[i], k) <=> k < m \/ k = m
  BY <1>1, <1>2, <1>4, <1>10 DEF PastRows, PastConvert, Inside, InBarrier, SameBut
<1>18. \A k \in 0 .. Len(tp.graph) - 1 :
         /\ tp.graph[k + 1] = "rows" => (PastRows(r, k) <=> PastRows(Eff[i], k))
         /\ tp.graph[k + 1] = "matmul" => (PastConvert(r, k) <=> PastConvert(Eff[i], k))
  BY <1>7, <1>17
<1>19. \A k, c : PastChunk(n, half, k, c)' <=>
                   PastChunk(n, half, k, c) \/ (k = n /\ c = d)
  <2>1. Members' = Members /\ tp'.chunk = tp.chunk
    BY <1>1 DEF Members
  <2>2. \A j \in Members \ {i} : \A c : Holds(j, c)' <=> Holds(j, c)
    BY <1>2, <1>12 DEF Only, Holds
  <2>3. \A c : ~Holds(i, c)' /\ (Holds(i, c) <=> c = d)
    BY <1>1, <1>2, <1>10, <1>12 DEF Only, Holds
  <2> QED
    BY <1>7, <2>1, <2>2, <2>3 DEF PastChunk
<1>20. WorkOK(n, half)' /\ work' \in [AllPieces(job.stages) -> 0 .. 1]
  <2>1. CASE d < N
    <3>1. p \in AllPieces(job.stages) /\ work[p] = 0
      <4>1. d \in 0 .. ChunksFor(tp.threads) - 1
        BY <2>1, <1>5, <1>8
      <4>2. Once(p, PastChunk(n, half, n, d))
        BY <4>1, <1>6, <1>7 DEF PartOK, WorkOK, p
      <4>3. ~PastChunk(n, half, n, d)
        BY <1>1, <1>2, <1>7 DEF PastChunk, Holds
      <4> QED
        BY <1>2, <1>7, <4>1, <4>2, <4>3, PiecesIn DEF p, Once
    <3>2. \A k, c : Piece(k, "chunk", c) = p <=> k = n /\ c = d
      BY <1>7, PiecesDiffer DEF p
    <3>3. \A k, j : Piece(k, "rows", j) # p /\ Piece(k, "convert", j) # p
      BY PiecesDiffer DEF p
    <3>4. ASSUME NEW k \in 0 .. Len(tp.graph) - 1, NEW j \in Members
          PROVE  /\ tp.graph[k + 1] = "rows" => (PastRows(Eff[j], k)' <=> PastRows(Eff[j], k))
                 /\ tp.graph[k + 1] = "matmul" =>
                      (PastConvert(Eff[j], k)' <=> PastConvert(Eff[j], k))
      <4>1. CASE j = i
        BY <4>1, <1>12, <1>18 DEF Only, PastRows, PastConvert
      <4>2. CASE j # i
        BY <4>2, <1>2, <1>12 DEF Only, PastRows, PastConvert
      <4> QED
        BY <4>1, <4>2
    <3>5. Adds(p, n, half)
      BY <1>19, <3>2, <3>3, <3>4 DEF Adds
    <3>6. WorkOK(n, half)
      BY <1>6 DEF PartOK
    <3> QED
      BY <1>1, <1>2, <1>6, <1>11, <1>12, <2>1, <3>1, <3>5, <3>6, WorkMore
  <2>2. CASE ~(d < N)
    <3>1. \A k \in 0 .. Len(tp.graph) - 1 : \A c \in 0 .. ChunksFor(tp.threads) - 1 :
            PastChunk(n, half, k, c)' <=> PastChunk(n, half, k, c)
      BY <2>2, <1>5, <1>8, <1>19
    <3>2. WorkOK(n, half)'
      BY <1>1, <1>2, <1>6, <1>11, <1>12, <1>18, <2>2, <3>1, WorkSame DEF PartOK, SameGraph, SameNodes
    <3> QED
      BY <3>2, <2>2, <1>1, <1>2 DEF TypeOK
  <2> QED
    BY <2>1, <2>2
<1>21. GraphOK'
  BY <1>6, <1>11, <1>14, <1>15, <1>16, <1>20 DEF GraphOK, PartOK, SameGraph, SameNodes
<1>22. tp'.ec = "aborted" <=> tp'.abort # -1
  BY <1>1 DEF IInv, CallOK
<1> QED
  BY <1>1, <1>2, <1>4, <1>10, <1>13, <1>20, <1>21, <1>22, PartSteps DEF SameBut

(* The next chunk is one that nobody has, and the counter is then past it. *)
LEMMA NextChunkStep ==
  ASSUME IInv, NEW i \in Threads, NextChunk(i)
  PROVE  IInv'
<1> DEFINE r == [th[i] EXCEPT !.pc = "chunk", !.chunk = tp.chunk]
           m == th[i].node
<1>1. /\ th[i].pc = "nextChunk" /\ ~Late(i) /\ th[i].pc \in Inside \cup {"start"}
      /\ Moves(i, r) /\ work' = work
      /\ tp' = [tp EXCEPT !.chunk = @ + 1] /\ locked' = locked /\ job' = job
  BY DEF NextChunk, At, Late, Inside, Moves
<1>2. /\ Running /\ i \in Members /\ 0 \in Members /\ Members \subseteq Threads
      /\ Eff[i] = th[i] /\ th[i] \in States /\ Len(tp.graph) \in Nat /\ tp \in Pools
      /\ TypeOK /\ tp.threads \in Nat \ {0} /\ tp.chunk \in Nat
  BY <1>1, Insider, CountTyped DEF IInv, TypeOK
<1>3. /\ r \in States /\ r.pc = "chunk" /\ r.chunk = tp.chunk
      /\ r.node = m /\ r.nth = th[i].nth
      /\ r.pending = th[i].pending /\ r.last = th[i].last
  <2>1. "chunk" \in Counters
    BY DEF Counters
  <2> QED
    BY <1>2, <2>1 DEF States
<1> HIDE DEF r
<1>4. /\ tp' \in Pools /\ tp'.chunk = tp.chunk + 1
      /\ tp'.graph = tp.graph /\ tp'.count = tp.count /\ tp'.threads = tp.threads
      /\ tp'.passed = tp.passed /\ tp'.ec = tp.ec /\ tp'.abort = tp.abort
      /\ tp'.barrier = tp.barrier
  BY <1>1, <1>2 DEF Pools
<1>5. PICK n \in 0 .. Len(tp.graph), half \in BOOLEAN : PartOK(n, half)
  BY <1>2 DEF IInv, GraphOK
<1>6. /\ half /\ m = n /\ th[i].nth = tp.threads /\ n \in 0 .. Len(tp.graph) - 1
      /\ tp.graph[n + 1] = "matmul" /\ tp.chunk >= tp.threads
      /\ \A j \in Members : Eff[j].pc \in InBarrier => Eff[j].after # "chunk"
  BY <1>1, <1>5, AtChunk
<1>7. r.pc \in Inside /\ r.pc \notin InBarrier
  BY <1>3 DEF Inside, InBarrier
<1>8. SameGraph
  BY <1>4 DEF SameGraph, SameNodes
<1>9. Only(i, r)
  BY <1>1, <1>3, <1>4, <1>7, InsideSteps
<1>10. BarrierOK'
  BY <1>1, <1>2, <1>3, <1>4, <1>7, <1>8, <1>9, BarrierStep DEF IInv, SameGraph, SameNodes
<1>11. Together(n, half)'
  <2>1. InSecond(r, n)
    BY <1>3, <1>6 DEF InSecond
  <2> QED
    BY <1>2, <1>3, <1>5, <1>6, <1>7, <1>8, <1>9, <2>1, TogetherStep DEF PartOK
<1>12. AbortOK(n, half)'
  <2>1. ~Done(th[i])
    BY <1>1 DEF Done, InBarrier
  <2> QED
    BY <1>2, <1>5, <1>8, <1>9, <2>1, SomeThreads, AbortStep DEF PartOK
<1>13. Members' = Members /\ Eff'[i] = r /\ \A j \in Members \ {i} : Eff'[j] = Eff[j]
  BY <1>2, <1>4, <1>9 DEF Only, Members
<1>14. \A j \in Members : Eff[j].pc = "chunk" => Eff[j].chunk \in Nat /\ Eff[j].chunk < tp.chunk
  <2>1. \A j \in Members : Eff[j] \in States
    BY <1>2, EffTyped
  <2> QED
    BY <1>5, <1>6, <2>1 DEF PartOK, ChunksOK, States
<1>15. ChunksOK(half)'
  <2>1. tp'.chunk >= tp'.threads
    BY <1>2, <1>4, <1>6
  <2>2. ASSUME NEW j \in Members
        PROVE  /\ Eff'[j].pc = "chunk" => Eff'[j].chunk < tp'.chunk
               /\ Eff'[j].pc \notin {"chunk", "nextChunk"} => tp'.chunk >= ChunksFor(tp'.threads)
               /\ \A l \in Members \ {j} : Eff'[j].pc = "chunk" => ~Holds(l, Eff[j].chunk)'
    <3>1. ChunksFor(tp.threads) \in Nat
      BY <1>2, SomeChunks
    <3>2. CASE j = i
      <4>1. \A l \in Members \ {j} : ~Holds(l, tp.chunk)
        BY <1>2, <1>14 DEF Holds
      <4> QED
        BY <1>2, <1>3, <1>4, <1>13, <3>2, <4>1 DEF Holds
    <3>3. CASE j # i
      <4>1. Eff'[j] = Eff[j]
        BY <3>3, <1>13
      <4>2. Eff[j].pc = "chunk" => Eff[j].chunk < tp'.chunk
        BY <1>2, <1>4, <1>14
      <4>3. Eff[j].pc \notin {"chunk", "nextChunk"} => tp'.chunk >= ChunksFor(tp'.threads)
        BY <1>2, <1>4, <1>5, <1>6, <3>1 DEF PartOK, ChunksOK
      <4>4. ASSUME NEW l \in Members \ {j}, Eff[j].pc = "chunk"
            PROVE  ~Holds(l, Eff[j].chunk)'
        <5>1. CASE l = i
          BY <1>2, <1>3, <1>13, <1>14, <4>1, <4>4, <5>1 DEF Holds
        <5>2. CASE l # i
          BY <1>5, <1>6, <1>13, <4>1, <4>4, <5>2 DEF Holds, PartOK, ChunksOK
        <5> QED
          BY <5>1, <5>2
      <4> QED
        BY <4>1, <4>2, <4>3, <4>4
    <3> QED
      BY <3>2, <3>3
  <2>3. \A j \in Members : Eff'[j].pc \in InBarrier => Eff'[j].after # "chunk"
    BY <1>6, <1>7, <1>13
  <2> QED
    BY <1>13, <2>1, <2>2, <2>3 DEF ChunksOK
<1>16. WorkOK(n, half)'
  <2>1. \A k : /\ PastRows(r, k) <=> PastRows(Eff[i], k)
               /\ PastConvert(r, k) <=> PastConvert(Eff[i], k)
    BY <1>1, <1>2, <1>3, <1>7 DEF PastRows, PastConvert, Inside, InBarrier
  <2>2. ASSUME NEW k \in 0 .. Len(tp.graph) - 1, NEW c \in 0 .. ChunksFor(tp.threads) - 1
        PROVE  PastChunk(n, half, k, c)' <=> PastChunk(n, half, k, c)
    <3>1. ChunksFor(tp.threads) \in Nat
      BY <1>2, SomeChunks
    <3>2. c \in Nat
      BY <3>1
    <3>3. ~Holds(i, c)
      BY <1>1, <1>2 DEF Holds
    <3>4. Holds(i, c)' <=> c = tp.chunk
      BY <1>3, <1>13 DEF Holds
    <3>5. \A j \in Members \ {i} : Holds(j, c)' <=> Holds(j, c)
      BY <1>13 DEF Holds
    <3>6. c < tp.chunk + 1 /\ c # tp.chunk <=> c < tp.chunk
      BY <3>2, <1>2
    <3>7. (\A j \in Members : ~Holds(j, c)') <=> c # tp.chunk /\ \A j \in Members : ~Holds(j, c)
      BY <1>2, <3>3, <3>4, <3>5
    <3> QED
      BY <1>4, <1>13, <3>6, <3>7 DEF PastChunk
  <2> QED
    BY <1>1, <1>2, <1>5, <1>8, <1>9, <2>1, <2>2, WorkSame DEF PartOK, SameGraph, SameNodes
<1>17. GraphOK'
  BY <1>5, <1>8, <1>11, <1>12, <1>15, <1>16 DEF GraphOK, PartOK, SameGraph, SameNodes
<1>18. tp'.ec = "aborted" <=> tp'.abort # -1
  BY <1>4 DEF IInv, CallOK
<1>19. work' \in [AllPieces(job.stages) -> 0 .. 1]
  BY <1>1, <1>2 DEF TypeOK
<1> QED
  BY <1>1, <1>2, <1>3, <1>4, <1>7, <1>10, <1>17, <1>18, <1>19, PartSteps


-----------------------------------------------------------------------------
(* The last step in a node: thread 0 may ask for an abort.                 *)

LEMMA AskedPlaces ==
  ASSUME SameNodes, NEW n \in Nat,
         tp'.abort = tp.abort \/ (tp.abort = -1 /\ tp'.abort > n)
  PROVE  /\ \A m, op : Working(n, m, op) => Working(n, m, op)'
         /\ \A r : Done(r)' <=> Done(r)
         /\ \A r \in States : /\ InFirst(r, n) => InFirst(r, n)'
                              /\ InSecond(r, n) => InSecond(r, n)'
<1>1. tp'.abort = n => tp.abort = n
  OBVIOUS
<1>2. \A m : Toward(n, m) => Toward(n, m)'
  BY <1>1 DEF Toward, SameNodes
<1>3. \A m, op : Working(n, m, op) => Working(n, m, op)'
  BY <1>1, <1>2 DEF Working, SameNodes
<1>4. \A r : Done(r)' <=> Done(r)
  BY DEF Done, SameNodes
<1>5. ASSUME NEW r \in States, InSecond(r, n) PROVE InSecond(r, n)'
  BY <1>4, <1>5 DEF InSecond, SameNodes
<1>6. ASSUME NEW r \in States, InFirst(r, n) PROVE InFirst(r, n)'
  <2>1. r.node \in Nat
    BY DEF States
  <2>2. r.node = tp.abort => r.node = tp'.abort
    BY <2>1
  <2> QED
    BY <1>2, <1>3, <1>4, <1>6, <2>2 DEF InFirst, SameNodes
<1> QED
  BY <1>3, <1>4, <1>5, <1>6

(* Where a thread is that has computed its share of a node.                *)
LEMMA AtAbort ==
  ASSUME IInv, NEW i \in Threads, th[i].pc = "abort",
         NEW n \in 0 .. Len(tp.graph), NEW half \in BOOLEAN, PartOK(n, half)
  PROVE  /\ th[i].node \in 0 .. Len(tp.graph) - 1 /\ n <= th[i].node
         /\ th[i].nth = tp.threads
         /\ half => /\ th[i].node = n /\ tp.graph[n + 1] = "matmul"
                    /\ tp.chunk >= ChunksFor(tp.threads)
         /\ ~half => Working(n, th[i].node, "rows")
         /\ i = 0 => tp.abort = -1
<1>1. ~Late(i) /\ th[i].pc \in Inside \cup {"start"}
  BY DEF Late, At, Inside
<1>2. /\ i \in Members /\ Eff[i] = th[i] /\ Len(tp.graph) \in Nat /\ th[i] \in States
  BY <1>1, Insider
<1>3. th[i].node \in Nat
  BY <1>2 DEF States
<1>4. /\ IF half THEN InSecond(th[i], n) ELSE InFirst(th[i], n)
      /\ th[i].nth = tp.threads
  BY <1>2 DEF PartOK, Together, Unstarted, Inside
<1>5. ~Done(th[i])
  BY DEF Done, InBarrier
<1>6. CASE half
  <2>1. th[i].node = n /\ n < Len(tp.graph) /\ tp.graph[n + 1] = "matmul"
    BY <1>4, <1>5, <1>6 DEF InSecond
  <2>2. tp.chunk >= ChunksFor(tp.threads)
    BY <1>2, <1>6 DEF PartOK, ChunksOK
  <2>3. i = 0 => tp.abort = -1
    BY <1>2, <1>5, <1>6 DEF PartOK, AbortOK
  <2> QED
    BY <1>2, <1>3, <1>4, <1>6, <2>1, <2>2, <2>3
<1>7. CASE ~half
  <2>1. Working(n, th[i].node, "rows")
    BY <1>4, <1>5, <1>7 DEF InFirst, InBarrier
  <2>2. n <= th[i].node /\ th[i].node < Len(tp.graph) /\ tp.abort # n
    BY <2>1 DEF Working, Toward
  <2>3. i = 0 => tp.abort = -1
    BY <1>2, <1>5, <2>2 DEF PartOK, AbortOK
  <2> QED
    BY <1>2, <1>3, <1>4, <1>7, <2>1, <2>2, <2>3
<1> QED
  BY <1>6, <1>7

LEMMA AskedTyped ==
  ASSUME IInv, NEW i \in Threads, AbortCheck(i)
  PROVE  LET m == th[i].node
         IN  /\ tp' \in Pools /\ SameNodes
             /\ tp'.count = tp.count /\ tp'.passed = tp.passed
             /\ tp'.chunk = tp.chunk /\ tp'.barrier = tp.barrier
             /\ tp'.ec = "aborted" <=> tp'.abort # -1
             /\ \/ tp'.abort = tp.abort
                \/ i = 0 /\ tp'.abort = m + 1
<1> DEFINE m == th[i].node
<1>1. th[i] \in States /\ tp \in Pools /\ TypeOK /\ CallOK
  BY PastTyped DEF IInv, TypeOK
<1>2. m \in Nat
  BY <1>1 DEF States
<1>3. \/ tp' = tp
      \/ i = 0 /\ tp' = [tp EXCEPT !.abort = m + 1, !.ec = "aborted"]
  BY DEF AbortCheck, Asked
<1>4. CASE tp' = tp
  BY <1>1, <1>4 DEF SameNodes, CallOK
<1>5. CASE i = 0 /\ tp' = [tp EXCEPT !.abort = m + 1, !.ec = "aborted"]
  <2>1. m + 1 \in Int /\ m + 1 # -1
    BY <1>2
  <2> HIDE DEF m
  <2>2. /\ tp' \in Pools /\ tp'.abort = m + 1 /\ tp'.ec = "aborted"
        /\ tp'.graph = tp.graph /\ tp'.threads = tp.threads
        /\ tp'.count = tp.count /\ tp'.passed = tp.passed
        /\ tp'.chunk = tp.chunk /\ tp'.barrier = tp.barrier
    BY <1>1, <1>5, <2>1 DEF Pools
  <2> QED
    BY <1>5, <2>1, <2>2 DEF SameNodes, m
<1> QED
  BY <1>3, <1>4, <1>5

LEMMA AbortCheckGoes ==
  ASSUME IInv, NEW i \in Threads, AbortCheck(i),
         tp.threads # 1 \/ th[i].node + 1 >= Len(tp.graph)
  PROVE  IInv'
<1>a. PICK m : m = th[i].node
  OBVIOUS
<1>b. PICK r : r = AfterNode(i)
  OBVIOUS
<1> DEFINE q == [th[i] EXCEPT !.node = m + 1]
<1>1. /\ th[i].pc = "abort" /\ ~Late(i) /\ th[i].pc \in Inside \cup {"start"}
      /\ Moves(i, r) /\ locked' = locked /\ job' = job /\ work' = work
  BY <1>b DEF AbortCheck, Asked, At, Late, Inside
<1>2. /\ Running /\ i \in Members /\ 0 \in Members /\ Members \subseteq Threads
      /\ Eff[i] = th[i] /\ th[i] \in States /\ Len(tp.graph) \in Nat
      /\ TypeOK /\ BarrierOK /\ CallOK
  BY <1>1, Insider DEF IInv
<1>3. PICK n \in 0 .. Len(tp.graph), half \in BOOLEAN : PartOK(n, half)
  BY <1>2 DEF IInv, GraphOK
<1>4. /\ m \in 0 .. Len(tp.graph) - 1 /\ n <= m /\ th[i].nth = tp.threads
      /\ half => /\ m = n /\ tp.graph[n + 1] = "matmul" /\ tp.chunk >= ChunksFor(tp.threads)
      /\ ~half => Working(n, m, "rows")
      /\ i = 0 => tp.abort = -1
  BY <1>a, <1>1, <1>3, AtAbort
<1>5. m \in Nat /\ n \in Nat /\ 0 \in Threads
  BY <1>4, SomeThreads
<1>6. /\ r \in States /\ r.node = m + 1 /\ r.nth = tp.threads
      /\ r.pending = th[i].pending /\ r.last = th[i].last
      /\ \/ /\ m + 1 < Len(tp.graph) /\ tp.threads # 1
            /\ r.pc = "enter" /\ r.after = "node" /\ r.passed = tp.passed
         \/ m + 1 = Len(tp.graph) /\ r.pc = "node"
  <2>1. /\ q \in States /\ q.node = m + 1 /\ q.nth = th[i].nth
        /\ q.pending = th[i].pending /\ q.last = th[i].last
    BY <1>a, <1>2, <1>5 DEF States
  <2>2. "node" \in Counters
    BY DEF Counters
  <2>3. r = IF q.node < Len(tp.graph) THEN ToBarrier(q, "node")
            ELSE [q EXCEPT !.pc = "node"]
    BY <1>a, <1>b DEF AfterNode
  <2> HIDE DEF q
  <2>4. CASE q.node < Len(tp.graph)
    BY <1>a, <1>2, <1>4, <1>5, <2>1, <2>2, <2>3, <2>4, AtBarrier DEF SameBut
  <2>5. CASE ~(q.node < Len(tp.graph))
    BY <1>2, <1>4, <1>5, <2>1, <2>2, <2>3, <2>5, WithPc DEF SameBut
  <2> QED
    BY <2>4, <2>5
<1> HIDE DEF q
<1>7. /\ tp' \in Pools /\ SameNodes
      /\ tp'.count = tp.count /\ tp'.passed = tp.passed
      /\ tp'.chunk = tp.chunk /\ tp'.barrier = tp.barrier
      /\ tp'.ec = "aborted" <=> tp'.abort # -1
      /\ \/ tp'.abort = tp.abort
         \/ i = 0 /\ tp.abort = -1 /\ tp'.abort = m + 1
  BY <1>a, <1>4, AskedTyped
<1>8. /\ tp'.abort = tp.abort \/ (tp.abort = -1 /\ tp'.abort > n)
      /\ tp'.graph = tp.graph /\ tp'.threads = tp.threads /\ Members' = Members
  BY <1>4, <1>5, <1>7 DEF SameNodes, Members
<1>9. /\ \A k, op : Working(n, k, op) => Working(n, k, op)'
      /\ \A s : Done(s)' <=> Done(s)
      /\ \A s \in States : /\ InFirst(s, n) => InFirst(s, n)'
                           /\ InSecond(s, n) => InSecond(s, n)'
  BY <1>5, <1>7, <1>8, AskedPlaces
<1>10. /\ r.pc \in Inside /\ r.pc \in {"enter", "node"}
       /\ r.pc \in InBarrier => r.after = "node" /\ r.passed = tp.passed
  BY <1>6 DEF Inside, InBarrier
<1>11. Done(r)
  BY <1>6 DEF Done, InBarrier
<1>12. Only(i, r)
  BY <1>1, <1>6, <1>7, <1>8, <1>10, InsideSteps
<1>13. BarrierOK'
  BY <1>1, <1>2, <1>6, <1>7, <1>10, <1>12, BarrierStep DEF InBarrier
<1>14. \A j \in Members \ {i} : Eff'[j] = Eff[j] /\ Eff[j] \in States
  BY <1>2, <1>12, EffTyped DEF Only
<1>15. Eff'[i] = r
  BY <1>12 DEF Only
<1>16. Together(n, half)'
  <2>1. IF half THEN InSecond(r, n) ELSE InFirst(r, n)
    <3>1. m + 1 - 1 = m /\ m + 1 > 0
      BY <1>5
    <3>2. n < Len(tp.graph)
      BY <1>4, <1>5
    <3> QED
      BY <1>4, <1>6, <1>11, <3>1, <3>2 DEF InSecond, InFirst
  <2>3. (/\ Eff[i].pc \in Inside /\ Eff[i].nth = tp.threads
         /\ IF half THEN InSecond(Eff[i], n) ELSE InFirst(Eff[i], n))'
    BY <1>6, <1>8, <1>10, <1>15, <1>9, <2>1
  <2>4. ASSUME NEW j \in Members \ {i}
        PROVE  (\/ Unstarted(j) /\ n = 0 /\ ~half
                \/ /\ Eff[j].pc \in Inside /\ Eff[j].nth = tp.threads
                   /\ IF half THEN InSecond(Eff[j], n) ELSE InFirst(Eff[j], n))'
    BY <1>3, <1>8, <1>9, <1>14 DEF PartOK, Together, Unstarted
  <2> QED
    BY <1>8, <2>3, <2>4 DEF Together
<1>17. AbortOK(n, half)'
  <2>1. CASE tp'.abort = tp.abort
    <3>1. ~Done(th[i]) /\ (i # 0 => Eff'[0] = Eff[0])
      BY <1>1, <1>2, <1>14 DEF Done, InBarrier
    <3>2. Done(Eff[0]) => Eff'[0] = Eff[0]
      BY <1>2, <3>1
    <3> QED
      BY <1>3, <1>9, <2>1, <3>2 DEF PartOK, AbortOK
  <2>2. CASE i = 0 /\ tp'.abort = m + 1
    <3>1. Done(Eff[0])' /\ Eff'[0].node = tp'.abort /\ tp'.abort > 0 /\ tp'.abort - 1 = m
      BY <1>5, <1>6, <1>9, <1>11, <1>15, <2>2
    <3>2. IF half THEN tp'.abort = n + 1 ELSE Working(n, m, "rows")'
      BY <1>4, <1>9, <2>2
    <3>3. ~half => Working(n, tp.abort - 1, "rows")'
      BY <3>1, <3>2 DEF Working
    <3> QED
      BY <3>1, <3>2, <3>3 DEF AbortOK
  <2> QED
    BY <1>7, <2>1, <2>2
<1>18. ChunksOK(half)'
  BY <1>2, <1>3, <1>4, <1>7, <1>10, <1>12, ChunksStep DEF PartOK
<1>19. WorkOK(n, half)'
  <2>1. \A k \in 0 .. Len(tp.graph) - 1 :
          /\ PastRows(r, k) <=> PastRows(Eff[i], k)
          /\ PastConvert(r, k) <=> PastConvert(Eff[i], k)
    <3>1. \A k : /\ PastRows(r, k) <=> k < m + 1
                 /\ PastConvert(r, k) <=> k < m + 1
      BY <1>6, <1>10 DEF PastRows, PastConvert
    <3>2. \A k : /\ PastRows(Eff[i], k) <=> k < m \/ k = m
                 /\ PastConvert(Eff[i], k) <=> k < m \/ k = m
      BY <1>a, <1>1, <1>2 DEF PastRows, PastConvert, Inside
    <3>3. \A k \in 0 .. Len(tp.graph) - 1 : k < m + 1 <=> k < m \/ k = m
      BY <1>5
    <3> QED
      BY <3>1, <3>2, <3>3
  <2>2. \A c : r.pc = "chunk" /\ r.chunk = c <=> Holds(i, c)
    BY <1>1, <1>2, <1>10 DEF Holds
  <2> QED
    BY <1>1, <1>2, <1>3, <1>7, <1>12, <2>1, <2>2, WorkStep DEF PartOK
<1>20. GraphOK'
  BY <1>3, <1>8, <1>16, <1>17, <1>18, <1>19 DEF GraphOK, PartOK
<1>21. work' \in [AllPieces(job.stages) -> 0 .. 1]
  BY <1>1, <1>2 DEF TypeOK
<1> QED
  BY <1>1, <1>6, <1>7, <1>8, <1>10, <1>13, <1>20, <1>21, PartSteps


-----------------------------------------------------------------------------
(* The barrier.                                                            *)

LEMMA InTheBarrier ==
  ASSUME IInv, NEW i \in Threads, th[i].pc \in {"enter", "reset", "pass"}
  PROVE  /\ ~Late(i) /\ th[i].pc \in Inside \cup {"start"}
         /\ Running /\ i \in Members /\ 0 \in Members /\ Members \subseteq Threads
         /\ Eff[i] = th[i] /\ th[i] \in States /\ th[i].passed = tp.passed
         /\ th[i].after \in {"node", "chunk", Leaves(i)}
         /\ tp.threads \in 1 .. PoolSize /\ tp.threads # 1
<1>1. ~Late(i) /\ th[i].pc \in Inside \cup {"start"} /\ th[i].pc \in InBarrier
  BY DEF Late, At, Inside, InBarrier
<1>2. /\ Running /\ i \in Members /\ 0 \in Members /\ Members \subseteq Threads
      /\ Eff[i] = th[i] /\ th[i] \in States /\ tp.threads \in 1 .. PoolSize
      /\ tp.threads \in Nat
  BY <1>1, Insider
<1>3. th[i].passed = tp.passed /\ th[i].after \in {"node", "chunk", Leaves(i)}
  BY <1>1 DEF IInv, WaitOK
<1>4. tp.threads # 1
  <2> SUFFICES ASSUME tp.threads = 1 PROVE FALSE
    OBVIOUS
  <2>1. i = 0
    BY <1>2 DEF Members
  <2> QED
    BY <1>1, <1>2, <2>1 DEF IInv, BarrierOK
<1> QED
  BY <1>1, <1>2, <1>3, <1>4

(* Within the barrier a thread stays at the end of its part.               *)
LEMMA BarrierMoves ==
  ASSUME IInv, NEW i \in Threads, th[i].pc \in {"enter", "reset"},
         NEW r, SameBut(r, th[i]), r.pc \in InBarrier, r.after = th[i].after,
         r.passed = tp.passed, Moves(i, r),
         tp' \in Pools, SameGraph, tp'.count = tp.count, tp'.passed = tp.passed,
         tp'.chunk = tp.chunk, tp'.ec = tp.ec,
         locked' = locked, job' = job, work' = work,
         Only(i, r) => BarrierOK'
  PROVE  IInv'
<1>1. /\ ~Late(i) /\ th[i].pc \in Inside \cup {"start"}
      /\ Running /\ i \in Members /\ 0 \in Members /\ Members \subseteq Threads
      /\ Eff[i] = th[i] /\ th[i] \in States
      /\ th[i].after \in {"node", "chunk", Leaves(i)}
  BY InTheBarrier
<1>2. /\ r \in States /\ r.node = th[i].node /\ r.nth = th[i].nth /\ r.chunk = th[i].chunk
      /\ r.pending = th[i].pending /\ r.last = th[i].last
  BY DEF SameBut
<1>3. /\ tp'.threads = tp.threads /\ tp'.graph = tp.graph /\ tp'.abort = tp.abort
      /\ 0 \in Threads /\ TypeOK /\ CallOK
  BY SomeThreads DEF SameGraph, SameNodes, IInv
<1>4. /\ r.pc \in Inside /\ r.pc \notin {"setChunk", "node", "rows", "convert", "abort",
                                        "chunk", "nextChunk"}
      /\ th[i].pc \in InBarrier
  BY DEF Inside, InBarrier
<1>5. Only(i, r)
  BY <1>1, <1>2, <1>3, <1>4, InsideSteps
<1>6. PICK n \in 0 .. Len(tp.graph), half \in BOOLEAN : PartOK(n, half)
  BY <1>1 DEF IInv, GraphOK
<1>7. (Done(r) <=> Done(th[i])) /\ th[i].nth = tp.threads
      /\ IF half THEN InSecond(th[i], n) ELSE InFirst(th[i], n)
  <2>1. ~Unstarted(i)
    BY <1>1, <1>4 DEF Unstarted, Inside
  <2> QED
    BY <1>1, <1>2, <1>4, <1>6, <2>1 DEF Done, PartOK, Together
<1>8. IF half THEN InSecond(r, n) ELSE InFirst(r, n)
  BY <1>2, <1>4, <1>7 DEF InFirst, InSecond, InBarrier
<1>9. Together(n, half)'
  BY <1>1, <1>2, <1>4, <1>5, <1>6, <1>7, <1>8, TogetherStep DEF PartOK
<1>10. AbortOK(n, half)'
  BY <1>1, <1>2, <1>3, <1>5, <1>6, <1>7, AbortStep DEF PartOK
<1>11. ChunksOK(half)'
  <2>1. half => tp.chunk >= ChunksFor(tp.threads)
    BY <1>1, <1>6 DEF PartOK, ChunksOK
  <2>2. r.after = "chunk" => r.chunk = i /\ (i = 0 => tp.chunk = tp.threads)
    BY <1>1, <1>2, <1>4, <1>6 DEF PartOK, ChunksOK
  <2> QED
    BY <1>1, <1>4, <1>5, <1>6, <2>1, <2>2, ChunksStep DEF PartOK, SameGraph
<1>12. \A k : /\ PastRows(r, k) <=> PastRows(Eff[i], k)
              /\ PastConvert(r, k) <=> PastConvert(Eff[i], k)
  BY <1>1, <1>2, <1>4 DEF PastRows, PastConvert, Inside, InBarrier
<1>13. WorkOK(n, half)'
  <2>1. \A c : r.pc = "chunk" /\ r.chunk = c <=> Holds(i, c)
    BY <1>1, <1>4 DEF Holds, InBarrier
  <2> QED
    BY <1>1, <1>5, <1>6, <1>12, <2>1, WorkStep DEF PartOK, SameGraph
<1>14. GraphOK'
  BY <1>3, <1>6, <1>9, <1>10, <1>11, <1>13 DEF GraphOK, PartOK
<1>15. work' \in [AllPieces(job.stages) -> 0 .. 1] /\ (tp'.ec = "aborted" <=> tp'.abort # -1)
  BY <1>3 DEF TypeOK, CallOK
<1> QED
  BY <1>1, <1>2, <1>3, <1>4, <1>5, <1>14, <1>15, PartSteps

(* Who is the last one to enter finds all others waiting.                  *)
LEMMA EnterBarrierStep ==
  ASSUME IInv, NEW i \in Threads, EnterBarrier(i)
  PROVE  IInv'
<1>a. PICK r : r = [th[i] EXCEPT !.pc = IF tp.barrier = tp.threads - 1 THEN "reset" ELSE "wait"]
  OBVIOUS
<1>1. /\ th[i].pc = "enter" /\ Moves(i, r)
      /\ tp' = [tp EXCEPT !.barrier = @ + 1]
      /\ locked' = locked /\ job' = job /\ work' = work
  BY <1>a DEF EnterBarrier, At, Goes, Moves
<1>2. /\ Running /\ i \in Members /\ 0 \in Members /\ Members \subseteq Threads
      /\ Eff[i] = th[i] /\ th[i] \in States /\ th[i].passed = tp.passed
      /\ tp.threads \in 1 .. PoolSize /\ tp.threads # 1 /\ TypeOK /\ BarrierOK
  BY <1>1, InTheBarrier DEF IInv
<1>3. SameBut(r, th[i]) /\ r.after = th[i].after /\ r.passed = tp.passed
      /\ r.pc = IF tp.barrier = tp.threads - 1 THEN "reset" ELSE "wait"
  <2>1. "reset" \in Counters /\ "wait" \in Counters
    BY DEF Counters
  <2> QED
    BY <1>a, <1>2, <2>1, WithPc
<1> DEFINE W == {j \in Members : Eff[j].pc = "wait"}
<1>4. \A j \in Members : Eff[j].pc \notin {"reset", "pass"}
  BY <1>1, <1>2 DEF BarrierOK
<1>5. tp.barrier = Cardinality(W) /\ tp.barrier \in Nat
  BY <1>2, <1>4, CountTyped DEF BarrierOK
<1>6. /\ IsFiniteSet(Members) /\ Cardinality(Members) = tp.threads /\ tp.threads \in Nat
  BY <1>2, SomeMembers
<1>7. /\ IsFiniteSet(Members \ {i}) /\ Cardinality(Members \ {i}) = tp.threads - 1
  BY <1>2, <1>6, FS_RemoveElement
<1>8. W \subseteq Members \ {i}
  BY <1>1, <1>2
<1> HIDE DEF W
<1>9. /\ IsFiniteSet(W) /\ Cardinality(W) <= tp.threads - 1
      /\ Cardinality(W) = tp.threads - 1 => W = Members \ {i}
  BY <1>7, <1>8, FS_Subset
<1>10. tp.barrier + 1 \in 0 .. PoolSize
  BY <1>2, <1>5, <1>6, <1>9, PoolAssumption
<1>11. /\ tp' \in Pools /\ SameGraph /\ tp'.barrier = tp.barrier + 1
       /\ tp'.threads = tp.threads
       /\ tp'.count = tp.count /\ tp'.passed = tp.passed
       /\ tp'.chunk = tp.chunk /\ tp'.ec = tp.ec
  BY <1>1, <1>2, <1>10, CountTyped DEF Pools, SameGraph, SameNodes
<1>12. ASSUME Only(i, r) PROVE BarrierOK'
  <2>1. Members' = Members /\ Eff'[i] = r /\ \A j \in Members \ {i} : Eff'[j] = Eff[j]
    BY <1>2, <1>11, <1>12 DEF Members, Only
  <2>2. tp'.threads # 1
    BY <1>2, <1>11
  <2>3. CASE tp.barrier = tp.threads - 1
    <3>1. \A j \in Members \ {i} : Eff'[j].pc = "wait"
      BY <1>5, <1>9, <2>1, <2>3 DEF W
    <3>2. Eff'[i].pc = "reset" /\ tp'.barrier = tp'.threads
      BY <1>3, <1>6, <1>11, <2>1, <2>3
    <3> QED
      BY <1>2, <2>1, <2>2, <3>1, <3>2 DEF BarrierOK
  <2>4. CASE tp.barrier # tp.threads - 1
    <3>1. Eff'[i].pc = "wait"
      BY <1>3, <2>1, <2>4
    <3>2. \A j \in Members : Eff'[j].pc \notin {"reset", "pass"}
      BY <1>4, <2>1, <3>1
    <3>3. {j \in Members : Eff'[j].pc = "wait"} = W \cup {i}
      BY <1>1, <1>2, <2>1, <3>1 DEF W
    <3>4. i \notin W
      BY <1>8
    <3>5. Cardinality(W \cup {i}) = Cardinality(W) + 1
      BY <1>9, <3>4, FS_AddElement
    <3>6. tp'.barrier = Cardinality({j \in Members : Eff'[j].pc = "wait"})
      BY <1>5, <1>11, <3>3, <3>5
    <3> QED
      BY <2>1, <2>2, <3>2, <3>6 DEF BarrierOK
  <2> QED
    BY <2>3, <2>4
<1>13. r.pc \in InBarrier
  BY <1>3 DEF InBarrier
<1> QED
  BY <1>1, <1>3, <1>11, <1>12, <1>13, BarrierMoves

LEMMA ResetBarrierStep ==
  ASSUME IInv, NEW i \in Threads, ResetBarrier(i)
  PROVE  IInv'
<1>a. PICK r : r = [th[i] EXCEPT !.pc = "pass"]
  OBVIOUS
<1>1. /\ th[i].pc = "reset" /\ Moves(i, r)
      /\ tp' = [tp EXCEPT !.barrier = 0]
      /\ locked' = locked /\ job' = job /\ work' = work
  BY <1>a DEF ResetBarrier, At, Goes, Moves
<1>2. /\ Running /\ i \in Members /\ 0 \in Members /\ Members \subseteq Threads
      /\ Eff[i] = th[i] /\ th[i] \in States /\ th[i].passed = tp.passed
      /\ tp.threads \in 1 .. PoolSize /\ tp.threads # 1 /\ TypeOK /\ BarrierOK
  BY <1>1, InTheBarrier DEF IInv
<1>3. SameBut(r, th[i]) /\ r.after = th[i].after /\ r.passed = tp.passed /\ r.pc = "pass"
  <2>1. "pass" \in Counters
    BY DEF Counters
  <2> QED
    BY <1>a, <1>2, <2>1, WithPc
<1>4. \A j \in Members \ {i} : Eff[j].pc = "wait"
  BY <1>1, <1>2 DEF BarrierOK
<1>5. /\ tp' \in Pools /\ SameGraph /\ tp'.barrier = 0 /\ tp'.threads = tp.threads
      /\ tp'.count = tp.count /\ tp'.passed = tp.passed
      /\ tp'.chunk = tp.chunk /\ tp'.ec = tp.ec
  <2>1. tp \in Pools /\ 0 \in 0 .. PoolSize
    BY <1>2, CountTyped, PoolAssumption
  <2>2. tp' \in Pools
    BY <1>1, <2>1 DEF Pools
  <2> QED
    BY <1>1, <2>1, <2>2 DEF Pools, SameGraph, SameNodes
<1>6. ASSUME Only(i, r) PROVE BarrierOK'
  <2>1. Members' = Members /\ Eff'[i] = r /\ \A j \in Members \ {i} : Eff'[j] = Eff[j]
    BY <1>2, <1>5, <1>6 DEF Members, Only
  <2> QED
    BY <1>2, <1>3, <1>4, <1>5, <2>1 DEF BarrierOK
<1>7. r.pc \in InBarrier
  BY <1>3 DEF InBarrier
<1> QED
  BY <1>1, <1>3, <1>5, <1>6, <1>7, BarrierMoves

(* A thread that leaves the barrier late does not change Eff.              *)
LEMMA LeaveBarrierStep ==
  ASSUME IInv, NEW i \in Threads, LeaveBarrier(i)
  PROVE  IInv'
<1>1. /\ TypeOK /\ WaitOK /\ WorkersOK /\ CallOK /\ BarrierOK /\ GraphOK /\ EndsOK
  BY DEF IInv
<1>2. /\ th[i].pc = "wait" /\ th' = [th EXCEPT ![i] = Past(i)]
      /\ tp' = tp /\ locked' = locked /\ job' = job /\ work' = work
      /\ th \in [Threads -> States]
  BY <1>1 DEF LeaveBarrier, At, Moves, Silently, TypeOK
<1>3. Eff' = Eff
  BY <1>1, EffLeaves
<1>4. (Running' <=> Running) /\ Members' = Members /\ \A j : Busy(j)' <=> Busy(j)
  BY <1>2, <1>3 DEF Running, Members, Busy
<1>5. Past(i) \in States
  BY <1>1, PastTyped
<1>6. TypeOK'
  BY <1>1, <1>2, <1>5 DEF TypeOK
<1>7. WaitOK'
  <2>1. th[i].after \in {"node", "chunk", Leaves(i)} /\ th[i] \in States
    BY <1>1, <1>2 DEF WaitOK, InBarrier
  <2>2. Past(i).pc = th[i].after
    BY <2>1 DEF Past, States, NewThread
  <2>3. Past(i).pc \notin InBarrier
    BY <2>1, <2>2 DEF Leaves, InBarrier
  <2>4. th'[i] = Past(i) /\ \A j \in Threads \ {i} : th'[j] = th[j]
    BY <1>2
  <2> QED
    BY <1>1, <1>2, <2>3, <2>4 DEF WaitOK, Leaves, InBarrier
<1>8. WorkersOK'
  BY <1>1, <1>2, <1>3, <1>4 DEF WorkersOK
<1>9. CallOK' /\ EndsOK'
  BY <1>1, <1>2, <1>3, <1>4 DEF CallOK, EndsOK, StopsAt, Once
<1>10. GraphOK' /\ BarrierOK'
  BY <1>1, <1>2, <1>3, <1>4, GraphUndisturbed DEF SameGraph, SameNodes, Undisturbed
<1> QED
  BY <1>6, <1>7, <1>8, <1>9, <1>10 DEF IInv


-----------------------------------------------------------------------------
(* From one part of the graph to the next, or out of it.                   *)

WorkUpTo(m, half) ==
  \A k \in 0 .. Len(tp.graph) - 1 :
    /\ tp.graph[k + 1] = "rows" => \A i \in Members : Once(Piece(k, "rows", i), k < m)
    /\ tp.graph[k + 1] = "matmul" =>
         /\ \A i \in Members : Once(Piece(k, "convert", i), k < m \/ (half /\ k = m))
         /\ \A c \in 0 .. ChunksFor(tp.threads) - 1 : Once(Piece(k, "chunk", c), k < m)

(* The threads begin the part at the first or second half of node m.       *)
StartsPart(m, half) ==
  \A i \in Members :
    /\ Eff[i].pc \in Inside
    /\ Eff'[i].pc = (IF half THEN "chunk" ELSE "node")
    /\ Eff'[i].node = m /\ Eff'[i].nth = tp.threads
    /\ half => Eff'[i].chunk = i
    /\ Eff'[i].pending = Eff[i].pending /\ Eff'[i].last = Eff[i].last

(* What else may happen to the pool at the end of a part.                  *)
Between ==
  /\ SameNodes /\ tp'.count = tp.count /\ tp'.barrier = 0
  /\ tp'.ec = "aborted" <=> tp'.abort # -1
  /\ job' = job /\ work' = work
  /\ \A i \in Threads \ Members : Eff'[i] = Eff[i]

(* All that was computed is the nodes before m, and its first half.        *)
LEMMA WorkReaches ==
  ASSUME NEW n, NEW half \in BOOLEAN, WorkOK(n, half), NEW m, NEW first \in BOOLEAN,
         half => tp.chunk >= ChunksFor(tp.threads) /\ \A i \in Members : Eff[i].pc # "chunk",
         tp.chunk \in Nat, ChunksFor(tp.threads) \in Nat,
         \A k \in 0 .. Len(tp.graph) - 1 :
           /\ tp.graph[k + 1] = "matmul" => (k < n \/ (k = n /\ half) <=> k < m)
           /\ \A i \in Members :
                /\ tp.graph[k + 1] = "rows" => (PastRows(Eff[i], k) <=> k < m)
                /\ tp.graph[k + 1] = "matmul" =>
                     (PastConvert(Eff[i], k) <=> k < m \/ (first /\ k = m))
  PROVE  WorkUpTo(m, first)
<1> SUFFICES ASSUME NEW k \in 0 .. Len(tp.graph) - 1
             PROVE  /\ tp.graph[k + 1] = "rows" =>
                         \A i \in Members : Once(Piece(k, "rows", i), k < m)
                    /\ tp.graph[k + 1] = "matmul" =>
                         /\ \A i \in Members :
                              Once(Piece(k, "convert", i), k < m \/ (first /\ k = m))
                         /\ \A c \in 0 .. ChunksFor(tp.threads) - 1 :
                              Once(Piece(k, "chunk", c), k < m)
  BY DEF WorkUpTo
<1>1. ASSUME tp.graph[k + 1] = "rows", NEW i \in Members
      PROVE  Once(Piece(k, "rows", i), k < m)
  BY <1>1 DEF WorkOK, Once
<1>2. ASSUME tp.graph[k + 1] = "matmul", NEW i \in Members
      PROVE  Once(Piece(k, "convert", i), k < m \/ (first /\ k = m))
  BY <1>2 DEF WorkOK, Once
<1>3. ASSUME tp.graph[k + 1] = "matmul", NEW c \in 0 .. ChunksFor(tp.threads) - 1
      PROVE  Once(Piece(k, "chunk", c), k < m)
  <2>1. half => c < tp.chunk /\ \A i \in Members : ~Holds(i, c)
    BY DEF Holds
  <2>2. PastChunk(n, half, k, c) <=> k < m
    BY <1>3, <2>1 DEF PastChunk
  <2> QED
    BY <1>3, <2>2 DEF WorkOK, Once
<1> QED
  BY <1>1, <1>2, <1>3

LEMMA PartBegins ==
  ASSUME SameNodes, work' = work, tp.threads \in Nat, Len(tp.graph) \in Nat, 0 \in Members,
         NEW m \in 0 .. Len(tp.graph), NEW half \in BOOLEAN, StartsPart(m, half), WorkUpTo(m, half),
         half => /\ m < Len(tp.graph) /\ tp.graph[m + 1] = "matmul"
                 /\ tp'.chunk = tp.threads /\ tp'.abort = -1,
         ~half => tp'.abort = -1 \/ (m > 0 /\ tp'.abort = m)
  PROVE  PartOK(m, half)'
<1>1. /\ Members' = Members /\ tp'.graph = tp.graph /\ tp'.threads = tp.threads /\ m \in Nat
  BY DEF SameNodes, Members
<1>2. \A i \in Members :
        /\ Eff'[i].pc \in Inside \ {"abort", "setChunk", "nextChunk"} /\ Eff'[i].pc \notin InBarrier
        /\ Eff'[i].pc = (IF half THEN "chunk" ELSE "node")
        /\ Eff'[i].node = m /\ Eff'[i].nth = tp.threads
        /\ half => Eff'[i].chunk = i
  BY DEF StartsPart, Inside, InBarrier
<1>3. Together(m, half)'
  <2> SUFFICES ASSUME NEW i \in Members
               PROVE  (/\ Eff[i].pc \in Inside /\ Eff[i].nth = tp.threads
                       /\ IF half THEN InSecond(Eff[i], m) ELSE InFirst(Eff[i], m))'
    BY <1>1 DEF Together
  <2>1. half => InSecond(Eff[i], m)'
    BY <1>1, <1>2 DEF InSecond
  <2>2. Toward(m, m)'
    BY <1>1 DEF Toward
  <2>3. ~half => InFirst(Eff[i], m)'
    <3>1. Toward(m, Eff[i].node)'
      BY <1>2, <2>2
    <3> QED
      BY <1>2, <3>1 DEF InFirst
  <2> QED
    BY <1>1, <1>2, <2>1, <2>3
<1>4. AbortOK(m, half)'
  BY DEF AbortOK
<1>5. ChunksOK(half)'
  BY <1>1, <1>2 DEF ChunksOK, Members, Holds
<1>6. WorkOK(m, half)'
  <2>1. \A k : \A i \in Members :
          /\ PastRows(Eff[i], k)' <=> k < m
          /\ PastConvert(Eff[i], k)' <=> k < m \/ (half /\ k = m)
    BY <1>2 DEF PastRows, PastConvert
  <2>2. ASSUME NEW k, NEW c \in 0 .. ChunksFor(tp.threads) - 1
        PROVE  PastChunk(m, half, k, c)' <=> k < m
    <3>1. ASSUME half, c < tp'.chunk PROVE Holds(c, c)' /\ c \in Members
      <4>1. c \in Members
        BY <3>1 DEF Members
      <4> QED
        BY <1>2, <3>1, <4>1 DEF Holds
    <3> QED
      BY <1>1, <3>1 DEF PastChunk
  <2> SUFFICES ASSUME NEW k \in 0 .. Len(tp.graph) - 1
               PROVE  (/\ tp.graph[k + 1] = "rows" =>
                            \A j \in Members : Once(Piece(k, "rows", j), PastRows(Eff[j], k))
                       /\ tp.graph[k + 1] = "matmul" =>
                            /\ \A j \in Members : Once(Piece(k, "convert", j), PastConvert(Eff[j], k))
                            /\ \A c \in 0 .. ChunksFor(tp.threads) - 1 :
                                 Once(Piece(k, "chunk", c), PastChunk(m, half, k, c)))'
    BY <1>1 DEF WorkOK
  <2>3. ASSUME tp.graph[k + 1] = "rows", NEW j \in Members
        PROVE  Once(Piece(k, "rows", j), PastRows(Eff[j], k))'
    BY <2>1, <2>3 DEF WorkUpTo, Once
  <2>4. ASSUME tp.graph[k + 1] = "matmul", NEW j \in Members
        PROVE  Once(Piece(k, "convert", j), PastConvert(Eff[j], k))'
    BY <2>1, <2>4 DEF WorkUpTo, Once
  <2>5. ASSUME tp.graph[k + 1] = "matmul", NEW c \in 0 .. ChunksFor(tp.threads) - 1
        PROVE  Once(Piece(k, "chunk", c), PastChunk(m, half, k, c))'
    BY <2>2, <2>5 DEF WorkUpTo, Once
  <2> QED
    BY <1>1, <2>3, <2>4, <2>5
<1> QED
  BY <1>3, <1>4, <1>5, <1>6 DEF PartOK

LEMMA GoesOn ==
  ASSUME IInv, Running, TypeOK', WaitOK', Between,
         NEW m \in 0 .. Len(tp.graph), NEW half \in BOOLEAN, StartsPart(m, half), WorkUpTo(m, half),
         half => /\ m < Len(tp.graph) /\ tp.graph[m + 1] = "matmul"
                 /\ tp'.chunk = tp.threads /\ tp'.abort = -1,
         ~half => tp'.abort = -1 \/ (m > 0 /\ tp'.abort = m)
  PROVE  IInv'
<1>1. /\ TypeOK /\ WorkersOK /\ CallOK
      /\ tp'.graph = tp.graph /\ tp'.threads = tp.threads /\ Members' = Members
      /\ tp'.count = tp.count /\ tp'.barrier = 0 /\ job' = job /\ work' = work
      /\ tp'.ec = "aborted" <=> tp'.abort # -1
  BY DEF IInv, Between, SameNodes, Members
<1>2. /\ tp.threads = job.threads /\ tp.threads \in 1 .. PoolSize /\ tp.graph \in Graphs
  BY <1>1 DEF CallOK
<1>3. /\ tp.threads \in Nat /\ Len(tp.graph) \in Nat /\ 0 \in Members /\ Members \subseteq Threads
  BY <1>2, PoolAssumption DEF Members, Threads
<1>4. PartOK(m, half)'
  BY <1>1, <1>3, PartBegins DEF Between
<1>5. \A i \in Members :
        /\ Eff[i].pc \in Inside /\ Eff'[i].pc \in Inside \ {"setChunk"}
        /\ Eff'[i].pc \notin InBarrier
        /\ Eff'[i].pending = Eff[i].pending /\ Eff'[i].last = Eff[i].last
  BY DEF StartsPart, Inside, InBarrier
<1>6. Running'
  BY <1>3, <1>5 DEF Running
<1>7. WorkersOK'
  <2> SUFFICES ASSUME NEW j \in Workers
               PROVE  (/\ Eff[j].pc \in Asleep \cup {"start"} \cup (Inside \ {"setChunk"})
                       /\ Eff[j].pending => Eff[j].pc = "pending"
                       /\ Eff[j].last <= tp.count
                       /\ Busy(j) => Running /\ j \in Members
                       /\ j \in Members => (Eff[j].last = tp.count <=> Busy(j) \/ ~Running))'
    BY DEF WorkersOK
  <2>1. CASE j \in Members
    <3>1. Busy(j) /\ Busy(j)' /\ ~Eff[j].pending
      BY <1>1, <1>5, <2>1 DEF WorkersOK, Busy, Inside, InBarrier
    <3> QED
      BY <1>1, <1>5, <1>6, <2>1, <3>1 DEF WorkersOK
  <2>2. CASE j \notin Members
    <3>1. Eff'[j] = Eff[j]
      BY <2>2, SomeThreads DEF Between
    <3> QED
      BY <1>1, <1>6, <2>2, <3>1 DEF WorkersOK, Busy
  <2> QED
    BY <2>1, <2>2
<1>8. CallOK'
  <2>1. Eff'[0].pc \in Inside /\ Eff'[0].pc # "kick" /\ ~Eff'[0].pending
    BY <1>1, <1>3, <1>5 DEF CallOK, Inside, InBarrier
  <2> QED
    BY <1>1, <1>2, <1>6, <2>1 DEF CallOK
<1>9. BarrierOK'
  <2>1. \A i \in Members : Eff'[i].pc \notin {"reset", "pass", "wait"}
    BY <1>5 DEF InBarrier
  <2>2. {i \in Members : Eff'[i].pc = "wait"} = {}
    BY <2>1
  <2>3. Cardinality({i \in Members : Eff'[i].pc = "wait"}) = 0
    BY <2>2, FS_EmptySet
  <2> QED
    BY <1>1, <1>3, <1>5, <2>1, <2>3 DEF BarrierOK
<1>10. EndsOK'
  BY <1>3, <1>5 DEF EndsOK, Inside, InBarrier
<1>11. GraphOK'
  BY <1>1, <1>4 DEF GraphOK
<1> QED
  BY <1>7, <1>8, <1>9, <1>10, <1>11 DEF IInv

LEMMA GraphEnds ==
  ASSUME IInv, Running, TypeOK', WaitOK', Between, tp'.abort = tp.abort,
         \A i \in Members :
           /\ Eff[i].pc \in Inside /\ Eff'[i].pc = Leaves(i)
           /\ ~Eff'[i].pending /\ Eff'[i].last = Eff[i].last,
         WorkUpTo(StopsAt, FALSE),
         tp.abort = -1 \/ tp.abort \in 1 .. Len(tp.graph)
  PROVE  IInv'
<1>1. /\ TypeOK /\ WorkersOK /\ CallOK
      /\ tp'.graph = tp.graph /\ tp'.threads = tp.threads /\ Members' = Members
      /\ tp'.count = tp.count /\ tp'.barrier = 0 /\ job' = job /\ work' = work
      /\ tp'.ec = "aborted" <=> tp'.abort # -1
  BY DEF IInv, Between, SameNodes, Members
<1>2. /\ tp.threads = job.threads /\ tp.threads \in 1 .. PoolSize /\ tp.graph \in Graphs
      /\ job.stages = GraphStages(tp.graph, job.threads)
  BY <1>1 DEF CallOK
<1>3. 0 \in Members
  BY <1>2, PoolAssumption DEF Members
<1>4. Eff'[0].pc = "return" /\ ~Eff'[0].pending
  BY <1>3 DEF Leaves
<1>5. ~Running'
  BY <1>4 DEF Running, Inside, InBarrier
<1>6. WorkersOK'
  <2> SUFFICES ASSUME NEW j \in Workers
               PROVE  (/\ Eff[j].pc \in Asleep \cup {"start"} \cup (Inside \ {"setChunk"})
                       /\ Eff[j].pending => Eff[j].pc = "pending"
                       /\ Eff[j].last <= tp.count
                       /\ Busy(j) => Running /\ j \in Members
                       /\ j \in Members => (Eff[j].last = tp.count <=> Busy(j) \/ ~Running))'
    BY DEF WorkersOK
  <2>1. CASE j \in Members
    <3>1. Eff'[j].pc = "loop" /\ ~Eff'[j].pending /\ Eff'[j].last = Eff[j].last
      BY <2>1, SomeThreads DEF Leaves
    <3>2. Eff[j].last = tp.count
      BY <1>1, <2>1 DEF WorkersOK, Busy
    <3>3. Eff[j].last <= tp.count
      BY <1>1 DEF WorkersOK
    <3>4. ~Busy(j)'
      BY <3>1 DEF Busy, Inside, InBarrier
    <3> QED
      BY <1>1, <1>5, <2>1, <3>1, <3>2, <3>3, <3>4 DEF Asleep
  <2>2. CASE j \notin Members
    <3>1. Eff'[j] = Eff[j]
      BY <2>2, SomeThreads DEF Between
    <3> QED
      BY <1>1, <2>2, <3>1 DEF WorkersOK, Busy
  <2> QED
    BY <2>1, <2>2
<1>7. CallOK'
  BY <1>1, <1>2, <1>4, <1>5 DEF CallOK, Resting
<1>8. GraphOK' /\ BarrierOK'
  BY <1>5 DEF GraphOK, BarrierOK
<1>9. EndsOK'
  <2>1. StopsAt' = StopsAt
    BY <1>1 DEF StopsAt
  <2>2. ASSUME NEW p \in AllPieces(job.stages) PROVE Once(p, p[1] < StopsAt)
    <3>1. PICK k \in 0 .. Len(tp.graph) - 1 :
            \/ /\ tp.graph[k + 1] = "rows"
               /\ \E i \in 0 .. tp.threads - 1 : p = Piece(k, "rows", i)
            \/ /\ tp.graph[k + 1] = "matmul"
               /\ \E i \in 0 .. tp.threads - 1 : p = Piece(k, "convert", i)
            \/ /\ tp.graph[k + 1] = "matmul"
               /\ \E c \in 0 .. ChunksFor(tp.threads) - 1 : p = Piece(k, "chunk", c)
      BY <1>1, <1>2, PiecesAre
    <3>2. p[1] = k
      BY <3>1, PieceFields
    <3>3. Once(p, k < StopsAt)
      BY <3>1 DEF WorkUpTo, Once, Members
    <3> QED
      BY <3>2, <3>3
  <2> QED
    BY <1>1, <1>4, <2>1, <2>2 DEF EndsOK, Once
<1> QED
  BY <1>6, <1>7, <1>8, <1>9 DEF IInv


(* Between the beginning of a part and its end only nops are passed over.  *)
LEMMA OverNops ==
  ASSUME NEW n \in Nat, NEW m \in Nat, Toward(n, m), Len(tp.graph) \in Nat,
         NEW k \in 0 .. Len(tp.graph) - 1, tp.graph[k + 1] # "nop"
  PROVE  k < n <=> k < m
<1> SUFFICES ASSUME n <= k, k < m PROVE FALSE
  BY DEF Toward
<1>1. k + 1 \in n + 1 .. m
  OBVIOUS
<1> QED
  BY <1>1 DEF Toward

LEMMA OverRows ==
  ASSUME NEW n \in Nat, NEW m \in Nat, m > 0, Working(n, m - 1, "rows"), Len(tp.graph) \in Nat,
         NEW k \in 0 .. Len(tp.graph) - 1, tp.graph[k + 1] = "matmul"
  PROVE  k < n <=> k < m
<1>1. m - 1 \in Nat /\ Toward(n, m - 1)
  BY DEF Working
<1>2. k < n <=> k < m - 1
  BY <1>1, OverNops
<1>3. tp.graph[(m - 1) + 1] = "rows"
  BY DEF Working
<1>4. k # m - 1
  BY <1>3
<1> QED
  BY <1>2, <1>4

(* The place of a thread in a barrier tells where its part has ended.      *)
AtChunks(r, n, half) == ~half /\ r.after = "chunk" /\ Working(n, r.node, "matmul")
AtRows(r, n, half)   == ~half /\ Done(r) /\ r.node > 0 /\ Working(n, r.node - 1, "rows")
AtMatmul(r, n, half) == half /\ Done(r) /\ r.node = n + 1
AtStop(r, n, half)   ==
  /\ ~half /\ r.after \in {"loop", "return"}
  /\ Toward(n, r.node) /\ r.node \in {Len(tp.graph), tp.abort}

LEMMA BarrierPlace ==
  ASSUME TypeOK, 0 \in Members, NEW i \in Members, Members \subseteq Threads, Eff[i].pc \in InBarrier,
         NEW n \in 0 .. Len(tp.graph), NEW half \in BOOLEAN, PartOK(n, half)
  PROVE  /\ Eff[i].node \in Nat /\ Eff[i].nth = tp.threads
         /\ \/ AtChunks(Eff[i], n, half) \/ AtRows(Eff[i], n, half)
            \/ AtMatmul(Eff[i], n, half) \/ AtStop(Eff[i], n, half)
         /\ Done(Eff[i]) <=> \/ Eff[i].after = "node" /\ Eff[i].node < Len(tp.graph)
                             \/ Eff[i].after \in {"loop", "return"} /\ Eff[i].node = Len(tp.graph)
         /\ \A k : PastRows(Eff[i], k) <=> k < Eff[i].node
         /\ \A k : PastConvert(Eff[i], k) <=>
                     k < Eff[i].node \/ (k = Eff[i].node /\ Eff[i].after = "chunk")
<1> DEFINE r == Eff[i]
<1>1. r \in States
  BY EffTyped
<1> HIDE DEF r
<1>2. r.node \in Nat
  BY <1>1 DEF States
<1>3. /\ r.pc \in Inside /\ r.pc \in InBarrier
      /\ r.pc \notin {"node", "rows", "convert", "abort", "setChunk", "chunk", "nextChunk"}
  BY DEF Inside, InBarrier, r
<1>4. IF half THEN InSecond(r, n) ELSE InFirst(r, n)
  BY <1>3 DEF PartOK, Together, Unstarted, r
<1>5. r.nth = tp.threads
  BY <1>3 DEF PartOK, Together, Unstarted, r
<1>6. \/ AtChunks(r, n, half) \/ AtRows(r, n, half)
      \/ AtMatmul(r, n, half) \/ AtStop(r, n, half)
  BY <1>3, <1>4 DEF InFirst, InSecond, AtChunks, AtRows, AtMatmul, AtStop
<1>7. Done(r) <=> \/ r.after = "node" /\ r.node < Len(tp.graph)
                  \/ r.after \in {"loop", "return"} /\ r.node = Len(tp.graph)
  BY <1>3 DEF Done
<1>8. \A k : /\ PastRows(r, k) <=> k < r.node
             /\ PastConvert(r, k) <=> k < r.node \/ (k = r.node /\ r.after = "chunk")
  BY <1>3 DEF PastRows, PastConvert
<1> QED
  BY <1>2, <1>5, <1>6, <1>7, <1>8 DEF r

(* All threads in a barrier are at the same place.                         *)
LEMMA AbortPlace ==
  ASSUME NEW n \in Nat, NEW half \in BOOLEAN, ~half, AbortOK(n, half), tp.abort \in Int
  PROVE  \/ tp.abort = -1
         \/ tp.abort = n
         \/ tp.abort > 0 /\ tp.abort - 1 \in Nat /\ Working(n, tp.abort - 1, "rows")
BY DEF AbortOK

LEMMA PlacesAgree ==
  ASSUME Len(tp.graph) \in Nat, NEW n \in Nat, NEW half \in BOOLEAN,
         AbortOK(n, half), tp.abort \in Int,
         NEW r, NEW s, r.node \in Nat, s.node \in Nat
  PROVE  /\ AtChunks(r, n, half) /\ AtChunks(s, n, half) => r.node = s.node
         /\ AtRows(r, n, half) /\ AtRows(s, n, half) => r.node = s.node
         /\ AtStop(r, n, half) /\ AtStop(s, n, half) => r.node = s.node
         /\ ~(AtChunks(r, n, half) /\ AtRows(s, n, half))
         /\ ~(AtChunks(r, n, half) /\ AtStop(s, n, half))
         /\ ~(AtRows(r, n, half) /\ AtStop(s, n, half))
<1>1. ASSUME AtChunks(r, n, half), AtChunks(s, n, half) PROVE r.node = s.node
  BY <1>1, SameWork DEF AtChunks
<1>2. ASSUME AtRows(r, n, half), AtRows(s, n, half) PROVE r.node = s.node
  <2>1. r.node - 1 \in Nat /\ s.node - 1 \in Nat
    BY <1>2 DEF AtRows
  <2>2. r.node - 1 = s.node - 1
    BY <1>2, <2>1, SameWork DEF AtRows
  <2> QED
    BY <2>2
<1>3. ASSUME AtChunks(r, n, half), AtRows(s, n, half) PROVE FALSE
  <2>1. s.node - 1 \in Nat
    BY <1>3 DEF AtRows
  <2> QED
    BY <1>3, <2>1, SameWork DEF AtChunks, AtRows
<1>4. ASSUME AtStop(s, n, half) PROVE ~half /\ Toward(n, s.node) /\ s.node <= Len(tp.graph)
  BY <1>4 DEF AtStop, Toward
<1>5. ASSUME AtChunks(r, n, half), AtStop(s, n, half) PROVE FALSE
  <2>1. Working(n, r.node, "matmul") /\ ~half /\ tp.abort # n /\ r.node < Len(tp.graph)
    BY <1>5 DEF AtChunks, Working
  <2>2. s.node <= r.node
    BY <1>4, <1>5, <2>1, WayEnds
  <2>3. s.node = tp.abort
    BY <1>5, <2>1, <2>2 DEF AtStop
  <2>4. tp.abort - 1 \in Nat /\ Working(n, tp.abort - 1, "rows")
    BY <2>1, <2>3, AbortPlace
  <2> QED
    BY <2>1, <2>4, SameWork
<1>6. ASSUME AtRows(r, n, half), AtStop(s, n, half) PROVE FALSE
  <2> DEFINE w == r.node - 1
  <2>1. Working(n, w, "rows") /\ ~half /\ tp.abort # n /\ w < Len(tp.graph) /\ w \in Nat
    BY <1>6 DEF AtRows, Working
  <2> HIDE DEF w
  <2>2. s.node <= w
    BY <1>4, <1>6, <2>1, WayEnds
  <2>3. s.node = tp.abort
    BY <1>6, <2>1, <2>2 DEF AtStop
  <2>4. tp.abort - 1 \in Nat /\ Working(n, tp.abort - 1, "rows")
    BY <2>1, <2>3, AbortPlace
  <2>5. w = tp.abort - 1
    BY <2>1, <2>4, SameWork
  <2> QED
    BY <2>1, <2>2, <2>3, <2>5
<1>7. ASSUME AtStop(r, n, half), AtStop(s, n, half), r.node = Len(tp.graph), s.node # Len(tp.graph)
      PROVE  FALSE
  <2>1. s.node = tp.abort /\ ~half /\ Toward(n, s.node) /\ Toward(n, r.node)
    BY <1>7 DEF AtStop
  <2>2. tp.abort # n
    BY <1>7, <2>1 DEF Toward
  <2>3. tp.abort - 1 \in Nat /\ Working(n, tp.abort - 1, "rows")
    BY <2>1, <2>2, AbortPlace
  <2>4. r.node <= tp.abort - 1 /\ tp.abort - 1 < Len(tp.graph)
    BY <2>1, <2>3, WayEnds DEF Working
  <2> QED
    BY <1>7, <2>3, <2>4
<1>8. ASSUME AtStop(r, n, half), AtStop(s, n, half), s.node = Len(tp.graph), r.node # Len(tp.graph)
      PROVE  FALSE
  <2>1. r.node = tp.abort /\ ~half /\ Toward(n, s.node) /\ Toward(n, r.node)
    BY <1>8 DEF AtStop
  <2>2. tp.abort # n
    BY <1>8, <2>1 DEF Toward
  <2>3. tp.abort - 1 \in Nat /\ Working(n, tp.abort - 1, "rows")
    BY <2>1, <2>2, AbortPlace
  <2>4. s.node <= tp.abort - 1 /\ tp.abort - 1 < Len(tp.graph)
    BY <2>1, <2>3, WayEnds DEF Working
  <2> QED
    BY <1>8, <2>3, <2>4
<1>9. ASSUME AtStop(r, n, half), AtStop(s, n, half) PROVE r.node = s.node
  BY <1>7, <1>8, <1>9 DEF AtStop
<1> QED
  BY <1>1, <1>2, <1>3, <1>5, <1>6, <1>9

(* If thread 0 is at the end, so is what an abort was for.                 *)
LEMMA StopPlace ==
  ASSUME Len(tp.graph) \in Nat, NEW n \in Nat, n <= Len(tp.graph), NEW half \in BOOLEAN,
         AbortOK(n, half), tp.abort \in Int, NEW m \in Nat, Eff[0].node = m,
         \/ half /\ m = n + 1 /\ m = Len(tp.graph)
         \/ ~half /\ m > 0 /\ m = Len(tp.graph) /\ Working(n, m - 1, "rows")
         \/ ~half /\ Toward(n, m) /\ m \in {Len(tp.graph), tp.abort}
  PROVE  StopsAt = m /\ (tp.abort = -1 \/ tp.abort \in 1 .. Len(tp.graph))
<1>1. CASE tp.abort = -1
  BY <1>1 DEF StopsAt
<1>2. CASE ~half /\ n > 0 /\ tp.abort = n
  BY <1>2 DEF StopsAt, Working, Toward
<1>3. CASE /\ Done(Eff[0]) /\ Eff[0].node = tp.abort /\ tp.abort > 0
           /\ IF half THEN tp.abort = n + 1 ELSE Working(n, tp.abort - 1, "rows")
  <2>1. m = tp.abort /\ m <= Len(tp.graph)
    BY <1>3 DEF Toward
  <2> QED
    BY <1>3, <2>1 DEF StopsAt
<1> QED
  BY <1>1, <1>2, <1>3 DEF AbortOK


(* What all threads have reached that are in the barrier: the second half  *)
(* of node m, the next node or the end.                                    *)
ReachedHalf(m) ==
  /\ m < Len(tp.graph) /\ tp.graph[m + 1] = "matmul" /\ WorkUpTo(m, TRUE)
  /\ tp.chunk = tp.threads /\ tp.abort = -1
  /\ \A i \in Members : /\ Eff[i].after = "chunk" /\ Eff[i].node = m
                        /\ Eff[i].nth = tp.threads /\ Eff[i].chunk = i

ReachedNode(m) ==
  /\ WorkUpTo(m, FALSE) /\ (tp.abort = -1 \/ (m > 0 /\ tp.abort = m))
  /\ \A i \in Members : /\ Eff[i].after = "node" /\ Eff[i].node = m
                        /\ Eff[i].nth = tp.threads

ReachedEnd ==
  /\ WorkUpTo(StopsAt, FALSE)
  /\ tp.abort = -1 \/ tp.abort \in 1 .. Len(tp.graph)
  /\ \A i \in Members : Eff[i].after \in {"loop", "return"}

LEMMA PartEnded ==
  ASSUME IInv, Running, \A i \in Members : Eff[i].pc \in InBarrier
  PROVE  \/ \E m \in 0 .. Len(tp.graph) : ReachedHalf(m)
         \/ \E m \in 0 .. Len(tp.graph) : ReachedNode(m)
         \/ ReachedEnd
<1>1. /\ TypeOK /\ CallOK /\ tp.threads = job.threads /\ tp.threads \in 1 .. PoolSize
      /\ tp.graph \in Graphs /\ tp.chunk \in Nat /\ tp.abort \in Int
  BY CountTyped DEF IInv, CallOK
<1>2. /\ 0 \in Members /\ Members \subseteq Threads /\ Len(tp.graph) \in Nat
      /\ tp.threads \in Nat \ {0}
  BY <1>1, PoolAssumption DEF Members, Threads
<1>3. ChunksFor(tp.threads) \in Nat
  BY <1>2, SomeChunks
<1>4. PICK n \in 0 .. Len(tp.graph), half \in BOOLEAN : PartOK(n, half)
  BY DEF IInv, GraphOK
<1>5. n \in Nat /\ n <= Len(tp.graph) /\ AbortOK(n, half) /\ WorkOK(n, half) /\ ChunksOK(half)
  BY <1>4 DEF PartOK
<1>6. \A i \in Members :
         /\ Eff[i].node \in Nat /\ Eff[i].nth = tp.threads
         /\ \/ AtChunks(Eff[i], n, half) \/ AtRows(Eff[i], n, half)
            \/ AtMatmul(Eff[i], n, half) \/ AtStop(Eff[i], n, half)
         /\ Done(Eff[i]) <=> \/ Eff[i].after = "node" /\ Eff[i].node < Len(tp.graph)
                             \/ Eff[i].after \in {"loop", "return"} /\ Eff[i].node = Len(tp.graph)
         /\ \A k : PastRows(Eff[i], k) <=> k < Eff[i].node
         /\ \A k : PastConvert(Eff[i], k) <=>
                     k < Eff[i].node \/ (k = Eff[i].node /\ Eff[i].after = "chunk")
  BY <1>1, <1>2, <1>4, BarrierPlace
<1>7. PICK m : m = Eff[0].node
  OBVIOUS
<1>8. m \in Nat
  BY <1>2, <1>6, <1>7
<1>9. half => tp.chunk >= ChunksFor(tp.threads) /\ \A i \in Members : Eff[i].pc # "chunk"
  <2>1. \A i \in Members : Eff[i].pc \notin {"chunk", "nextChunk"}
    BY DEF InBarrier
  <2> QED
    BY <1>2, <1>5, <2>1 DEF ChunksOK
<1>10. ASSUME NEW i \in Members
       PROVE  /\ AtChunks(Eff[0], n, half) => AtChunks(Eff[i], n, half) /\ Eff[i].node = m
              /\ AtRows(Eff[0], n, half) => AtRows(Eff[i], n, half) /\ Eff[i].node = m
              /\ AtMatmul(Eff[0], n, half) => AtMatmul(Eff[i], n, half) /\ Eff[i].node = m
              /\ AtStop(Eff[0], n, half) => AtStop(Eff[i], n, half) /\ Eff[i].node = m
  <2> DEFINE r == Eff[0]
             s == Eff[i]
  <2>1. r.node \in Nat /\ s.node \in Nat /\ r.node = m
    BY <1>2, <1>6, <1>7
  <2>2. AtChunks(s, n, half) \/ AtRows(s, n, half) \/ AtMatmul(s, n, half) \/ AtStop(s, n, half)
    BY <1>6
  <2> HIDE DEF r, s
  <2>3. /\ AtChunks(r, n, half) /\ AtChunks(s, n, half) => r.node = s.node
        /\ AtRows(r, n, half) /\ AtRows(s, n, half) => r.node = s.node
        /\ AtStop(r, n, half) /\ AtStop(s, n, half) => r.node = s.node
        /\ ~(AtChunks(r, n, half) /\ AtRows(s, n, half))
        /\ ~(AtChunks(r, n, half) /\ AtStop(s, n, half))
        /\ ~(AtRows(r, n, half) /\ AtStop(s, n, half))
    BY <1>1, <1>2, <1>5, <2>1, PlacesAgree
  <2>4. /\ ~(AtChunks(s, n, half) /\ AtRows(r, n, half))
        /\ ~(AtChunks(s, n, half) /\ AtStop(r, n, half))
        /\ ~(AtRows(s, n, half) /\ AtStop(r, n, half))
    BY <1>1, <1>2, <1>5, <2>1, PlacesAgree
  <2>5. \A q : /\ AtMatmul(q, n, half) => half /\ q.node = n + 1
               /\ AtChunks(q, n, half) \/ AtRows(q, n, half) \/ AtStop(q, n, half) => ~half
    BY DEF AtMatmul, AtChunks, AtRows, AtStop
  <2>6. /\ AtChunks(r, n, half) => AtChunks(s, n, half) /\ s.node = m
        /\ AtRows(r, n, half) => AtRows(s, n, half) /\ s.node = m
        /\ AtMatmul(r, n, half) => AtMatmul(s, n, half) /\ s.node = m
        /\ AtStop(r, n, half) => AtStop(s, n, half) /\ s.node = m
    BY <2>1, <2>2, <2>3, <2>4, <2>5
  <2> QED
    BY <2>6 DEF r, s
<1>11. CASE AtChunks(Eff[0], n, half)
  <2>a. PICK first \in BOOLEAN : first = TRUE
    OBVIOUS
  <2>1. \A i \in Members : AtChunks(Eff[i], n, half) /\ Eff[i].node = m /\ Eff[i].after = "chunk"
    BY <1>10, <1>11 DEF AtChunks
  <2>2. ~half /\ Working(n, m, "matmul")
    BY <1>2, <2>1 DEF AtChunks
  <2>3. Toward(n, m) /\ m < Len(tp.graph) /\ tp.graph[m + 1] = "matmul" /\ tp.abort # n
    BY <2>2 DEF Working
  <2>4. ~Done(Eff[0])
    BY <1>2, <1>6, <2>1
  <2>5. tp.abort = -1
    BY <1>5, <2>2, <2>3, <2>4 DEF AbortOK
  <2>6. /\ tp.chunk = tp.threads
        /\ \A i \in Members : Eff[i].chunk = i
    BY <1>2, <1>5, <2>1 DEF ChunksOK
  <2>7. \A k \in 0 .. Len(tp.graph) - 1 : tp.graph[k + 1] = "matmul" => (k < n <=> k < m)
    BY <1>2, <1>5, <1>8, <2>3, OverNops
  <2>8. \A k \in 0 .. Len(tp.graph) - 1 :
          /\ tp.graph[k + 1] = "matmul" => (k < n \/ (k = n /\ half) <=> k < m)
          /\ \A i \in Members :
               /\ tp.graph[k + 1] = "rows" => (PastRows(Eff[i], k) <=> k < m)
               /\ tp.graph[k + 1] = "matmul" =>
                    (PastConvert(Eff[i], k) <=> k < m \/ (first /\ k = m))
    BY <1>6, <2>a, <2>1, <2>2, <2>7
  <2>9. WorkUpTo(m, TRUE)
    <3>1. WorkUpTo(m, first)
      BY <1>1, <1>3, <1>5, <1>9, <2>8, WorkReaches
    <3> QED
      BY <3>1, <2>a
  <2>10. m \in 0 .. Len(tp.graph)
    BY <1>8, <2>3
  <2>11. ReachedHalf(m)
    BY <1>6, <2>1, <2>3, <2>5, <2>6, <2>9 DEF ReachedHalf
  <2> QED
    BY <2>10, <2>11
<1>12. CASE AtRows(Eff[0], n, half) \/ AtMatmul(Eff[0], n, half)
  <2>a. PICK first \in BOOLEAN : first = FALSE
    OBVIOUS
  <2>1. /\ \A i \in Members : Done(Eff[i]) /\ Eff[i].node = m
        /\ \/ ~half /\ m > 0 /\ Working(n, m - 1, "rows")
           \/ half /\ m = n + 1
    BY <1>2, <1>7, <1>10, <1>12 DEF AtRows, AtMatmul
  <2>2. \A i \in Members : Eff[i].after # "chunk" /\ Done(Eff[0])
    BY <1>2, <1>6, <2>1
  <2>3. m <= Len(tp.graph)
    BY <1>2, <1>6, <1>8, <2>1
  <2>4. \A k \in 0 .. Len(tp.graph) - 1 :
          tp.graph[k + 1] = "matmul" => (k < n \/ (k = n /\ half) <=> k < m)
    <3>1. CASE ~half /\ m > 0 /\ Working(n, m - 1, "rows")
      BY <1>2, <1>5, <1>8, <3>1, OverRows
    <3>2. CASE half /\ m = n + 1
      BY <1>5, <3>2
    <3> QED
      BY <2>1, <3>1, <3>2
  <2>5. \A k \in 0 .. Len(tp.graph) - 1 :
          /\ tp.graph[k + 1] = "matmul" => (k < n \/ (k = n /\ half) <=> k < m)
          /\ \A i \in Members :
               /\ tp.graph[k + 1] = "rows" => (PastRows(Eff[i], k) <=> k < m)
               /\ tp.graph[k + 1] = "matmul" =>
                    (PastConvert(Eff[i], k) <=> k < m \/ (first /\ k = m))
    BY <1>6, <2>a, <2>1, <2>2, <2>4
  <2>6. WorkUpTo(m, FALSE)
    <3>1. WorkUpTo(m, first)
      BY <1>1, <1>3, <1>5, <1>9, <2>5, WorkReaches
    <3> QED
      BY <3>1, <2>a
  <2>7. CASE m < Len(tp.graph)
    <3>1. \A i \in Members : Eff[i].after = "node" /\ Eff[i].nth = tp.threads
      BY <1>6, <1>8, <2>1, <2>7
    <3>2. tp.abort = -1 \/ (m > 0 /\ tp.abort = m)
      <4>1. ~half => tp.abort # n
        BY <2>1 DEF Working
      <4> QED
        BY <1>5, <1>7, <4>1 DEF AbortOK
    <3>3. m \in 0 .. Len(tp.graph)
      BY <1>8, <2>7
    <3>4. ReachedNode(m)
      BY <2>1, <2>6, <3>1, <3>2 DEF ReachedNode
    <3> QED
      BY <3>3, <3>4
  <2>8. CASE m = Len(tp.graph)
    <3>1. \A i \in Members : Eff[i].after \in {"loop", "return"}
      BY <1>6, <1>8, <2>1, <2>8
    <3>2. StopsAt = m /\ (tp.abort = -1 \/ tp.abort \in 1 .. Len(tp.graph))
      BY <1>1, <1>2, <1>5, <1>7, <1>8, <2>1, <2>8, StopPlace
    <3> QED
      BY <2>6, <3>1, <3>2 DEF ReachedEnd
  <2> QED
    BY <1>2, <1>8, <2>3, <2>7, <2>8
<1>13. CASE AtStop(Eff[0], n, half)
  <2>a. PICK first \in BOOLEAN : first = FALSE
    OBVIOUS
  <2>1. /\ \A i \in Members : Eff[i].after \in {"loop", "return"} /\ Eff[i].node = m
        /\ ~half /\ Toward(n, m) /\ m \in {Len(tp.graph), tp.abort}
    BY <1>2, <1>7, <1>10, <1>13 DEF AtStop
  <2>2. \A k \in 0 .. Len(tp.graph) - 1 : tp.graph[k + 1] = "matmul" => (k < n <=> k < m)
    BY <1>2, <1>5, <1>8, <2>1, OverNops
  <2>3. \A k \in 0 .. Len(tp.graph) - 1 :
          /\ tp.graph[k + 1] = "matmul" => (k < n \/ (k = n /\ half) <=> k < m)
          /\ \A i \in Members :
               /\ tp.graph[k + 1] = "rows" => (PastRows(Eff[i], k) <=> k < m)
               /\ tp.graph[k + 1] = "matmul" =>
                    (PastConvert(Eff[i], k) <=> k < m \/ (first /\ k = m))
    BY <1>6, <2>a, <2>1, <2>2
  <2>4. WorkUpTo(m, FALSE)
    <3>1. WorkUpTo(m, first)
      BY <1>1, <1>3, <1>5, <1>9, <2>3, WorkReaches
    <3> QED
      BY <3>1, <2>a
  <2>5. StopsAt = m /\ (tp.abort = -1 \/ tp.abort \in 1 .. Len(tp.graph))
    BY <1>1, <1>2, <1>5, <1>7, <1>8, <2>1, StopPlace
  <2> QED
    BY <2>1, <2>4, <2>5 DEF ReachedEnd
<1> QED
  BY <1>2, <1>6, <1>11, <1>12, <1>13

(* When a thread passes the barrier, all are past it.                      *)
LEMMA EffPasses ==
  ASSUME IInv, NEW i \in Threads, PassBarrier(i)
  PROVE  /\ Running /\ 0 \in Members /\ Members \subseteq Threads
         /\ TypeOK' /\ WaitOK' /\ Between /\ tp'.abort = tp.abort /\ tp'.chunk = tp.chunk
         /\ \A j \in Members :
              /\ Eff[j].pc \in InBarrier /\ Eff[j] \in States /\ Eff[j] = th[j]
              /\ Eff[j].after \in {"node", "chunk", Leaves(j)}
              /\ Eff'[j] = Past(j)
<1>1. /\ th[i].pc = "pass" /\ th' = [th EXCEPT ![i] = Past(i)]
      /\ tp' = [tp EXCEPT !.passed = @ + 1]
      /\ locked' = locked /\ job' = job /\ work' = work
  BY DEF PassBarrier, At, Moves
<1>2. /\ TypeOK /\ WaitOK /\ WorkersOK /\ BarrierOK /\ CallOK
      /\ th \in [Threads -> States] /\ Past(i) \in States
  BY PastTyped DEF IInv, TypeOK
<1>3. /\ Running /\ i \in Members /\ 0 \in Members /\ Members \subseteq Threads
      /\ Eff[i] = th[i] /\ th[i].after \in {"node", "chunk", Leaves(i)} /\ ~Late(i)
  BY <1>1, InTheBarrier
<1>4. /\ tp' \in Pools /\ tp'.passed = tp.passed + 1 /\ tp.passed \in Nat
      /\ tp'.graph = tp.graph /\ tp'.threads = tp.threads /\ tp'.count = tp.count
      /\ tp'.barrier = tp.barrier /\ tp'.abort = tp.abort /\ tp'.ec = tp.ec
      /\ tp'.chunk = tp.chunk
  BY <1>1, <1>2, CountTyped DEF Pools
<1>5. tp.barrier = 0 /\ \A j \in Members \ {i} : Eff[j].pc = "wait"
  BY <1>1, <1>2, <1>3 DEF BarrierOK
<1>6. TypeOK'
  BY <1>1, <1>2, <1>4 DEF TypeOK
<1>7. th'[i] = Past(i) /\ \A j \in Threads \ {i} : th'[j] = th[j]
  BY <1>1, <1>2
<1>8. \A j \in Threads : /\ th[j] \in States
                         /\ th[j].pc \in InBarrier => th[j].after \in {"node", "chunk", Leaves(j)}
                         /\ th[j].pc = "wait" => th[j].passed \in Nat /\ th[j].passed <= tp.passed
  BY <1>2 DEF WaitOK, States
<1>9. \A j \in Threads :
        th[j].pc \in InBarrier => Past(j).pc = th[j].after /\ th[j].after \notin InBarrier
  BY <1>8 DEF Past, NewThread, States, Leaves, InBarrier
<1>10. ASSUME NEW j \in Members \ {i} PROVE th[j].pc = "wait" /\ ~Late(j)
  <2>1. j \in Threads /\ Eff[j].pc = "wait"
    BY <1>3, <1>5
  <2>2. CASE Late(j)
    <3>1. Eff[j] = Past(j) /\ th[j].pc \in InBarrier
      BY <1>2, <2>1, <2>2, PastTyped DEF Late, At, InBarrier
    <3> QED
      BY <1>9, <2>1, <3>1 DEF InBarrier
  <2>3. CASE ~Late(j)
    BY <1>2, <2>1, <2>3, PastTyped
  <2> QED
    BY <2>2, <2>3
<1>11. ASSUME NEW j \in Members
       PROVE  /\ ~Late(j) /\ Eff[j] = th[j] /\ th[j] \in States /\ th[j].pc \in InBarrier
              /\ th[j].after \in {"node", "chunk", Leaves(j)}
  BY <1>1, <1>2, <1>3, <1>8, <1>10, PastTyped DEF InBarrier
<1>12. Eff' = [j \in Threads |-> IF Late(j)' THEN Past(j)' ELSE th'[j]]
  BY DEF Eff
<1>13. ASSUME NEW j \in Members PROVE Eff'[j] = Past(j)
  <2>1. CASE j = i
    <3>1. ~Late(i)'
      BY <1>1, <1>3, <1>7, <1>9 DEF Late, At, InBarrier
    <3> QED
      BY <1>3, <1>7, <1>12, <2>1, <3>1
  <2>2. CASE j # i
    <3>1. j \in Threads /\ th[j].pc = "wait" /\ th[j].passed = tp.passed
      BY <1>3, <1>10, <2>2 DEF Late, At
    <3>2. Late(j)' /\ Past(j)' = Past(j)
      BY <1>4, <1>7, <2>2, <3>1 DEF Late, At, Past
    <3> QED
      BY <1>12, <3>1, <3>2
  <2> QED
    BY <2>1, <2>2
<1>14. ASSUME NEW j \in Threads \ Members
       PROVE  Eff'[j] = Eff[j] /\ th[j].pc \notin {"enter", "reset", "pass"}
  <2>1. th'[j] = th[j] /\ j \in Workers
    BY <1>3, <1>7, SomeThreads
  <2>2. Eff[j].pc \notin Inside
    BY <1>2, <2>1 DEF WorkersOK, Busy
  <2>3. Eff[j] = IF Late(j) THEN Past(j) ELSE th[j]
    BY DEF Eff
  <2>4. Late(j)' <=> Late(j)
    <3>1. CASE th[j].pc = "wait"
      <4>1. Late(j)
        BY <2>2, <2>3, <3>1 DEF Inside, InBarrier
      <4>2. th[j].passed # tp'.passed
        BY <1>4, <1>8, <3>1
      <4> QED
        BY <2>1, <3>1, <4>1, <4>2 DEF Late, At
    <3>2. CASE th[j].pc # "wait"
      BY <2>1, <3>2 DEF Late, At
    <3> QED
      BY <3>1, <3>2
  <2>5. Past(j)' = Past(j)
    BY <2>1 DEF Past
  <2>6. th[j].pc \notin {"enter", "reset", "pass"}
    BY <2>2, <2>3 DEF Late, At, Inside, InBarrier
  <2> QED
    BY <1>12, <2>1, <2>3, <2>4, <2>5, <2>6
<1>15. WaitOK'
  <2> SUFFICES ASSUME NEW j \in Threads
               PROVE  (/\ th[j].pc \in InBarrier => th[j].after \in {"node", "chunk", Leaves(j)}
                       /\ th[j].pc \in {"enter", "reset", "pass"} => th[j].passed = tp.passed
                       /\ th[j].pc = "wait" => th[j].passed <= tp.passed)'
    BY DEF WaitOK
  <2>1. CASE j = i
    BY <1>1, <1>7, <1>9, <2>1 DEF InBarrier
  <2>2. CASE j # i
    <3>1. th'[j] = th[j]
      BY <1>7, <2>2
    <3>2. th[j].pc \notin {"enter", "reset", "pass"}
      BY <1>10, <1>14, <2>2
    <3>3. th[j].pc = "wait" => th[j].passed <= tp'.passed
      BY <1>4, <1>8
    <3> QED
      BY <1>8, <3>1, <3>2, <3>3 DEF Leaves
  <2> QED
    BY <2>1, <2>2
<1>16. Between
  <2>1. tp'.ec = "aborted" <=> tp'.abort # -1
    BY <1>2, <1>4 DEF CallOK
  <2> QED
    BY <1>1, <1>4, <1>5, <1>14, <2>1 DEF Between, SameNodes
<1> QED
  BY <1>3, <1>4, <1>6, <1>11, <1>13, <1>15, <1>16

LEMMA PassBarrierStep ==
  ASSUME IInv, NEW i \in Threads, PassBarrier(i)
  PROVE  IInv'
<1>1. /\ Running /\ 0 \in Members /\ Members \subseteq Threads
      /\ TypeOK' /\ WaitOK' /\ Between /\ tp'.abort = tp.abort /\ tp'.chunk = tp.chunk
      /\ \A j \in Members :
           /\ Eff[j].pc \in InBarrier /\ Eff[j] \in States /\ Eff[j] = th[j]
           /\ Eff[j].after \in {"node", "chunk", Leaves(j)}
           /\ Eff'[j] = Past(j)
  BY EffPasses
<1>2. \A j \in Members : Eff[j].pc \in Inside
  BY <1>1 DEF Inside
<1>3. ASSUME NEW j \in Members, Eff[j].after \in {"node", "chunk"}
      PROVE  /\ Eff'[j].pc = Eff[j].after /\ Eff'[j].node = Eff[j].node
             /\ Eff'[j].nth = Eff[j].nth /\ Eff'[j].chunk = Eff[j].chunk
             /\ Eff'[j].pending = Eff[j].pending /\ Eff'[j].last = Eff[j].last
  <2>1. th[j] \in States /\ Past(j) = [th[j] EXCEPT !.pc = th[j].after] /\ Eff[j] = th[j]
    BY <1>1, <1>3 DEF Past
  <2> QED
    BY <1>1, <2>1 DEF States
<1>4. ASSUME NEW j \in Members, Eff[j].after \in {"loop", "return"}
      PROVE  /\ Eff'[j].pc = Leaves(j) /\ ~Eff'[j].pending /\ Eff'[j].last = Eff[j].last
  <2>1. th[j].after = Leaves(j)
    BY <1>1, <1>4
  <2>2. Past(j) = [NewThread(Leaves(j)) EXCEPT !.last = th[j].last]
    BY <1>1, <1>4, <2>1 DEF Past
  <2> QED
    BY <1>1, <2>2 DEF NewThread
<1>5. ASSUME NEW m \in 0 .. Len(tp.graph), ReachedHalf(m) PROVE IInv'
  <2>1. StartsPart(m, TRUE)
    BY <1>2, <1>3, <1>5 DEF StartsPart, ReachedHalf
  <2> QED
    BY <1>1, <1>5, <2>1, GoesOn DEF ReachedHalf
<1>6. ASSUME NEW m \in 0 .. Len(tp.graph), ReachedNode(m) PROVE IInv'
  <2>1. StartsPart(m, FALSE)
    BY <1>2, <1>3, <1>6 DEF StartsPart, ReachedNode
  <2> QED
    BY <1>1, <1>6, <2>1, GoesOn DEF ReachedNode
<1>7. CASE ReachedEnd
  BY <1>1, <1>2, <1>4, <1>7, GraphEnds DEF ReachedEnd
<1> QED
  BY <1>1, <1>5, <1>6, <1>7, PartEnded


(* A graph with one thread has no barriers: it ends its parts alone.       *)
LEMMA AloneGoes ==
  ASSUME IInv, tp.threads = 1,
         th[0].pc \in Inside \ InBarrier, NEW r \in States, Moves(0, r), r.pc \notin InBarrier,
         tp' \in Pools, SameNodes, tp'.count = tp.count, tp'.passed = tp.passed,
         tp'.barrier = tp.barrier, tp'.ec = "aborted" <=> tp'.abort # -1,
         locked' = locked, job' = job, work' = work
  PROVE  /\ TypeOK' /\ WaitOK' /\ Between /\ Eff'[0] = r
<1>1. /\ TypeOK /\ WaitOK /\ BarrierOK /\ 0 \in Threads
      /\ ~Late(0) /\ th[0].pc \in Inside \cup {"start"}
  BY SomeThreads DEF IInv, Late, At, InBarrier
<1>2. Running /\ 0 \in Members
  BY <1>1, Insider
<1>3. th' = [th EXCEPT ![0] = r] /\ th \in [Threads -> States]
  BY <1>1 DEF Moves, TypeOK
<1>4. Eff' = [Eff EXCEPT ![0] = r] /\ Eff \in [Threads -> States]
  BY <1>1, EffMoves, EffTyped DEF InBarrier
<1>5. Eff'[0] = r /\ \A j \in Threads \ {0} : Eff'[j] = Eff[j]
  BY <1>1, <1>4
<1>6. TypeOK'
  BY <1>1, <1>3 DEF TypeOK
<1>7. WaitOK'
  <2>1. th'[0] = r /\ \A j \in Threads \ {0} : th'[j] = th[j]
    BY <1>1, <1>3
  <2> QED
    BY <1>1, <2>1 DEF WaitOK, Leaves, InBarrier
<1>8. tp.barrier = 0
  BY <1>1, <1>2 DEF BarrierOK
<1>9. Between
  BY <1>2, <1>5, <1>8 DEF Between
<1> QED
  BY <1>5, <1>6, <1>7, <1>9

LEMMA AloneAt ==
  ASSUME IInv, NEW i \in Threads, tp.threads = 1, th[i].pc \in Inside \ InBarrier
  PROVE  /\ i = 0 /\ Running /\ Members = {0} /\ Eff[0] = th[0] /\ th[0] \in States
         /\ tp.threads = 1 /\ Len(tp.graph) \in Nat /\ TypeOK /\ tp \in Pools
         /\ tp.chunk \in Nat /\ tp.abort \in Int /\ ChunksFor(tp.threads) \in Nat
         /\ ~th[0].pending /\ th[0].node \in Nat
<1>1. ~Late(i) /\ th[i].pc \in Inside \cup {"start"} /\ TypeOK /\ CallOK
  BY DEF Late, At, InBarrier, IInv
<1>2. Running /\ i \in Members /\ Eff[i] = th[i] /\ th[i] \in States /\ Len(tp.graph) \in Nat
  BY <1>1, Insider
<1>3. Members = {0}
  BY DEF Members
<1>4. i = 0
  BY <1>2, <1>3
<1>5. tp.chunk \in Nat /\ tp.abort \in Int /\ tp \in Pools
  BY <1>1, CountTyped
<1>6. 1 \in Nat \ {0}
  OBVIOUS
<1>7. ChunksFor(tp.threads) \in Nat
  BY <1>6, SomeChunks
<1>8. th[0].node \in Nat
  BY <1>2, <1>4 DEF States
<1> QED
  BY <1>1, <1>2, <1>3, <1>4, <1>5, <1>7, <1>8 DEF CallOK

LEMMA SetChunkStep ==
  ASSUME IInv, SetChunk
  PROVE  IInv'
<1>1. CASE tp.threads # 1
  BY <1>1, SetChunkGoes
<1>2. CASE tp.threads = 1
  <2>a. PICK m : m = th[0].node
    OBVIOUS
  <2>b. PICK r : r = ToBarrier([th[0] EXCEPT !.chunk = 0], "chunk")
    OBVIOUS
  <2>c. PICK first \in BOOLEAN : first = TRUE
    OBVIOUS
  <2>1. /\ th[0].pc = "setChunk" /\ Moves(0, r) /\ th[0].pc \in Inside \ InBarrier
        /\ tp' = [tp EXCEPT !.chunk = th[0].nth] /\ locked' = locked /\ job' = job
        /\ work' = work /\ 0 \in Threads
    BY <2>b, SomeThreads DEF SetChunk, At, Moves, Inside, InBarrier
  <2>2. /\ Running /\ Members = {0} /\ Eff[0] = th[0] /\ th[0] \in States
        /\ Len(tp.graph) \in Nat /\ TypeOK /\ tp \in Pools
        /\ tp.chunk \in Nat /\ tp.abort \in Int /\ ChunksFor(tp.threads) \in Nat
        /\ ~th[0].pending /\ m \in Nat
    BY <1>2, <2>a, <2>1, AloneAt
  <2>3. /\ r \in States /\ r.pc = "chunk" /\ r.chunk = 0 /\ r.node = m
        /\ r.nth = th[0].nth /\ r.pending = th[0].pending /\ r.last = th[0].last
    <3> DEFINE q == [th[0] EXCEPT !.chunk = 0]
    <3>1. /\ q \in States /\ q.chunk = 0 /\ q.node = m /\ q.nth = th[0].nth
          /\ q.pending = th[0].pending /\ q.last = th[0].last
      BY <2>a, <2>2 DEF States
    <3>2. "chunk" \in Counters
      BY DEF Counters
    <3>3. r = ToBarrier(q, "chunk")
      BY <2>b
    <3> HIDE DEF q
    <3> QED
      BY <1>2, <2>2, <3>1, <3>2, <3>3, AtBarrier DEF SameBut
  <2>4. PICK n \in 0 .. Len(tp.graph), half \in BOOLEAN : PartOK(n, half)
    BY <2>2 DEF IInv, GraphOK
  <2>5. ~half /\ Working(n, m, "matmul") /\ th[0].nth = tp.threads
    BY <2>a, <2>1, <2>2, <2>4 DEF PartOK, Together, Unstarted, InFirst, InSecond, Done, Inside, InBarrier
  <2>6. Toward(n, m) /\ m < Len(tp.graph) /\ tp.graph[m + 1] = "matmul" /\ tp.abort # n
    BY <2>5 DEF Working
  <2>7. tp.abort = -1
    BY <2>1, <2>2, <2>4, <2>5, <2>6 DEF PartOK, AbortOK, Done, InBarrier
  <2>8. /\ tp' \in Pools /\ tp'.chunk = tp.threads /\ tp'.graph = tp.graph
        /\ tp'.count = tp.count /\ tp'.threads = tp.threads
        /\ tp'.passed = tp.passed /\ tp'.ec = tp.ec /\ tp'.abort = tp.abort
        /\ tp'.barrier = tp.barrier
    BY <1>2, <2>1, <2>2, <2>5 DEF Pools
  <2>9. \A k \in 0 .. Len(tp.graph) - 1 :
          /\ tp.graph[k + 1] = "matmul" => (k < n \/ (k = n /\ half) <=> k < m)
          /\ \A i \in Members :
               /\ tp.graph[k + 1] = "rows" => (PastRows(Eff[i], k) <=> k < m)
               /\ tp.graph[k + 1] = "matmul" =>
                    (PastConvert(Eff[i], k) <=> k < m \/ (first /\ k = m))
    <3>1. \A k : /\ PastRows(Eff[0], k) <=> k < m
                 /\ PastConvert(Eff[0], k) <=> k < m \/ k = m
      BY <2>a, <2>1, <2>2 DEF PastRows, PastConvert, Inside
    <3>2. \A k \in 0 .. Len(tp.graph) - 1 : tp.graph[k + 1] = "matmul" => (k < n <=> k < m)
      BY <2>2, <2>6, OverNops
    <3> QED
      BY <2>2, <2>5, <2>c, <3>1, <3>2
  <2>10. WorkUpTo(m, first)
    BY <2>2, <2>4, <2>5, <2>9, WorkReaches DEF PartOK
  <2>11. SameNodes /\ (tp'.ec = "aborted" <=> tp'.abort # -1) /\ r.pc \notin InBarrier
    BY <2>3, <2>8 DEF SameNodes, IInv, CallOK, InBarrier
  <2>12. TypeOK' /\ WaitOK' /\ Between /\ Eff'[0] = r
    BY <1>2, <2>1, <2>3, <2>8, <2>11, AloneGoes
  <2>13. StartsPart(m, first)
    BY <1>2, <2>c, <2>1, <2>2, <2>3, <2>5, <2>12 DEF StartsPart
  <2>14. m \in 0 .. Len(tp.graph)
    BY <2>2, <2>6
  <2> QED
    BY <2>c, <2>2, <2>6, <2>7, <2>8, <2>10, <2>12, <2>13, <2>14, GoesOn
<1> QED
  BY <1>1, <1>2

LEMMA AbortCheckStep ==
  ASSUME IInv, NEW i \in Threads, AbortCheck(i)
  PROVE  IInv'
<1>1. CASE tp.threads # 1 \/ th[i].node + 1 >= Len(tp.graph)
  BY <1>1, AbortCheckGoes
<1>2. CASE ~(tp.threads # 1 \/ th[i].node + 1 >= Len(tp.graph))
  <2>a. PICK m : m = th[0].node + 1
    OBVIOUS
  <2>b. PICK r : r = AfterNode(i)
    OBVIOUS
  <2>c. PICK first \in BOOLEAN : first = FALSE
    OBVIOUS
  <2>1. /\ th[i].pc = "abort" /\ Moves(i, r) /\ th[i].pc \in Inside \ InBarrier
        /\ locked' = locked /\ job' = job /\ work' = work
    BY <2>b DEF AbortCheck, Asked, At, Inside, InBarrier
  <2>2. /\ i = 0 /\ Running /\ Members = {0} /\ Eff[0] = th[0] /\ th[0] \in States
        /\ tp.threads = 1 /\ Len(tp.graph) \in Nat /\ TypeOK /\ tp \in Pools
        /\ tp.chunk \in Nat /\ tp.abort \in Int /\ ChunksFor(tp.threads) \in Nat
        /\ ~th[0].pending /\ th[0].node \in Nat
    BY <1>2, <2>1, AloneAt
  <2>3. m \in Nat /\ m > 0 /\ m < Len(tp.graph) /\ m - 1 = th[0].node
    BY <1>2, <2>a, <2>2
  <2>4. /\ r \in States /\ r.pc = "node" /\ r.node = m
        /\ r.nth = th[0].nth /\ r.pending = th[0].pending /\ r.last = th[0].last
    <3> DEFINE q == [th[0] EXCEPT !.node = m]
    <3>1. /\ q \in States /\ q.node = m /\ q.nth = th[0].nth
          /\ q.pending = th[0].pending /\ q.last = th[0].last
      BY <2>2, <2>3 DEF States
    <3>2. "node" \in Counters
      BY DEF Counters
    <3>3. r = ToBarrier(q, "node")
      <4>1. r = IF q.node < Len(tp.graph) THEN ToBarrier(q, "node") ELSE [q EXCEPT !.pc = "node"]
        BY <2>a, <2>b, <2>2 DEF AfterNode
      <4> QED
        BY <2>3, <3>1, <4>1
    <3> HIDE DEF q
    <3> QED
      BY <2>2, <3>1, <3>2, <3>3, AtBarrier DEF SameBut
  <2>5. PICK n \in 0 .. Len(tp.graph), half \in BOOLEAN : PartOK(n, half)
    BY <2>2 DEF IInv, GraphOK
  <2>6. /\ th[0].nth = tp.threads /\ tp.abort = -1
        /\ half => /\ th[0].node = n /\ tp.chunk >= ChunksFor(tp.threads)
        /\ ~half => Working(n, th[0].node, "rows")
    BY <2>1, <2>2, <2>5, AtAbort
  <2>7. \A k \in 0 .. Len(tp.graph) - 1 :
          /\ tp.graph[k + 1] = "matmul" => (k < n \/ (k = n /\ half) <=> k < m)
          /\ \A j \in Members :
               /\ tp.graph[k + 1] = "rows" => (PastRows(Eff[j], k) <=> k < m)
               /\ tp.graph[k + 1] = "matmul" =>
                    (PastConvert(Eff[j], k) <=> k < m \/ (first /\ k = m))
    <3>1. \A k \in 0 .. Len(tp.graph) - 1 : PastRows(Eff[0], k) /\ PastConvert(Eff[0], k) <=> k < m
      BY <2>a, <2>1, <2>2 DEF PastRows, PastConvert, Inside
    <3>2. \A k \in 0 .. Len(tp.graph) - 1 : PastRows(Eff[0], k) <=> PastConvert(Eff[0], k)
      BY <2>1, <2>2 DEF PastRows, PastConvert, Inside
    <3>3. \A k \in 0 .. Len(tp.graph) - 1 :
            tp.graph[k + 1] = "matmul" => (k < n \/ (k = n /\ half) <=> k < m)
      <4>1. CASE half
        BY <2>a, <2>2, <2>6, <4>1
      <4>2. CASE ~half
        <5>1. Working(n, m - 1, "rows")
          BY <2>3, <2>6, <4>2
        <5> QED
          BY <2>2, <2>3, <4>2, <5>1, OverRows
      <4> QED
        BY <4>1, <4>2
    <3> QED
      BY <2>2, <2>c, <3>1, <3>2, <3>3
  <2>8. WorkUpTo(m, first)
    BY <2>1, <2>2, <2>5, <2>6, <2>7, WorkReaches DEF PartOK
  <2>9. /\ tp' \in Pools /\ SameNodes
        /\ tp'.count = tp.count /\ tp'.passed = tp.passed
        /\ tp'.chunk = tp.chunk /\ tp'.barrier = tp.barrier
        /\ tp'.ec = "aborted" <=> tp'.abort # -1
        /\ tp'.abort = -1 \/ tp'.abort = m
    BY <2>a, <2>2, <2>6, AskedTyped
  <2>10. r.pc \notin InBarrier
    BY <2>4 DEF InBarrier
  <2>11. TypeOK' /\ WaitOK' /\ Between /\ Eff'[0] = r
    BY <2>1, <2>2, <2>4, <2>9, <2>10, AloneGoes
  <2>12. StartsPart(m, first)
    BY <2>c, <2>1, <2>2, <2>4, <2>6, <2>11 DEF StartsPart
  <2>13. m \in 0 .. Len(tp.graph)
    BY <2>2, <2>3
  <2> QED
    BY <2>c, <2>2, <2>3, <2>8, <2>9, <2>11, <2>12, <2>13, GoesOn
<1> QED
  BY <1>1, <1>2

LEMMA NodeStep ==
  ASSUME IInv, NEW i \in Threads, Node(i)
  PROVE  IInv'
<1>1. CASE tp.threads # 1 \/ ~Stopped(i)
  BY <1>1, NodeGoes
<1>2. CASE tp.threads = 1 /\ Stopped(i)
  <2>a. PICK m : m = th[0].node
    OBVIOUS
  <2>b. PICK r : r = ToBarrier(th[i], Leaves(i))
    OBVIOUS
  <2>c. PICK first \in BOOLEAN : first = FALSE
    OBVIOUS
  <2>1. /\ th[i].pc = "node" /\ Moves(i, r) /\ th[i].pc \in Inside \ InBarrier
        /\ tp' = tp /\ locked' = locked /\ job' = job /\ work' = work
    BY <1>2, <2>b DEF Node, At, Inside, InBarrier, Silently
  <2>2. /\ i = 0 /\ Running /\ Members = {0} /\ Eff[0] = th[0] /\ th[0] \in States
        /\ tp.threads = 1 /\ Len(tp.graph) \in Nat /\ TypeOK /\ tp \in Pools
        /\ tp.chunk \in Nat /\ tp.abort \in Int /\ ChunksFor(tp.threads) \in Nat
        /\ ~th[0].pending /\ m \in Nat
    BY <1>2, <2>a, <2>1, AloneAt
  <2>3. /\ r \in States /\ r.pc = Leaves(0) /\ r.pc = "return"
        /\ r.pending = th[0].pending /\ r.last = th[0].last
    <3>1. "return" \in Counters /\ Leaves(0) = "return"
      BY DEF Counters, Leaves
    <3> QED
      BY <2>b, <2>2, <3>1, AtBarrier DEF SameBut
  <2>4. PICK n \in 0 .. Len(tp.graph), half \in BOOLEAN : PartOK(n, half)
    BY <2>2 DEF IInv, GraphOK
  <2>5. /\ half => Done(th[0]) /\ m = n + 1
        /\ ~half => \/ Toward(n, m)
                    \/ Done(th[0]) /\ m > 0 /\ Working(n, m - 1, "rows")
        /\ Done(th[0]) <=> m = Len(tp.graph)
    BY <2>a, <2>1, <2>2, <2>4, AtNode
  <2>6. m \in {Len(tp.graph), tp.abort}
    BY <1>2, <2>a, <2>2 DEF Stopped
  <2>7. \/ half /\ m = n + 1 /\ m = Len(tp.graph)
        \/ ~half /\ m > 0 /\ m = Len(tp.graph) /\ Working(n, m - 1, "rows")
        \/ ~half /\ Toward(n, m) /\ m \in {Len(tp.graph), tp.abort}
    BY <2>5, <2>6
  <2>8. AbortOK(n, half) /\ WorkOK(n, half) /\ ChunksOK(half)
    BY <2>4 DEF PartOK
  <2>9. StopsAt = m /\ (tp.abort = -1 \/ tp.abort \in 1 .. Len(tp.graph))
    BY <2>a, <2>2, <2>7, <2>8, StopPlace
  <2>10. half => tp.chunk >= ChunksFor(tp.threads) /\ \A j \in Members : Eff[j].pc # "chunk"
    BY <2>1, <2>2, <2>8 DEF ChunksOK
  <2>11. \A k \in 0 .. Len(tp.graph) - 1 :
           /\ tp.graph[k + 1] = "matmul" => (k < n \/ (k = n /\ half) <=> k < m)
           /\ \A j \in Members :
                /\ tp.graph[k + 1] = "rows" => (PastRows(Eff[j], k) <=> k < m)
                /\ tp.graph[k + 1] = "matmul" =>
                     (PastConvert(Eff[j], k) <=> k < m \/ (first /\ k = m))
    <3>1. \A k : /\ PastRows(Eff[0], k) <=> k < m
                 /\ PastConvert(Eff[0], k) <=> k < m
      BY <2>a, <2>1, <2>2 DEF PastRows, PastConvert, Inside, InBarrier
    <3>2. \A k \in 0 .. Len(tp.graph) - 1 :
            tp.graph[k + 1] = "matmul" => (k < n \/ (k = n /\ half) <=> k < m)
      <4>1. CASE half /\ m = n + 1
        BY <2>2, <4>1
      <4>2. CASE ~half /\ m > 0 /\ Working(n, m - 1, "rows")
        BY <2>2, <4>2, OverRows
      <4>3. CASE ~half /\ Toward(n, m)
        BY <2>2, <4>3, OverNops
      <4> QED
        BY <2>7, <4>1, <4>2, <4>3
    <3> QED
      BY <2>2, <2>c, <3>1, <3>2
  <2>12. WorkUpTo(m, first)
    BY <2>2, <2>8, <2>10, <2>11, WorkReaches
  <2>13. WorkUpTo(StopsAt, FALSE)
    BY <2>c, <2>9, <2>12
  <2>14. SameNodes /\ (tp'.ec = "aborted" <=> tp'.abort # -1) /\ r.pc \notin InBarrier
    BY <2>1, <2>3 DEF SameNodes, IInv, CallOK, InBarrier
  <2>15. TypeOK' /\ WaitOK' /\ Between /\ Eff'[0] = r
    BY <2>1, <2>2, <2>3, <2>14, AloneGoes
  <2> QED
    BY <2>1, <2>2, <2>3, <2>9, <2>13, <2>15, GraphEnds
<1> QED
  BY <1>1, <1>2

-----------------------------------------------------------------------------
(* The invariant holds.                                                    *)

LEMMA InitIInv == Init => IInv
<1> SUFFICES ASSUME Init PROVE IInv
  OBVIOUS
<1>1. /\ tp = NewPool(FALSE) /\ locked = FALSE /\ work = <<>>
      /\ th = [i \in Threads |-> NewThread(IF i = 0 THEN "out" ELSE "unborn")]
      /\ job = [stages |-> <<>>, threads |-> 0, made |-> 0, disposable |-> FALSE,
                status |-> "success"]
  BY DEF Init
<1>2. PoolSize \in Nat /\ MaxGraphs \in Nat /\ "out" \in Counters /\ "unborn" \in Counters
  BY PoolAssumption DEF Counters
<1>3. TypeOK
  <2>1. tp \in Pools /\ th \in [Threads -> States] /\ locked \in BOOLEAN
    BY <1>1, <1>2, NewTyped
  <2>2. <<>> \in Plans /\ AllPieces(<<>>) = {}
    BY DEF Plans, AllPieces
  <2>3. job \in [stages: Plans, threads: 0 .. PoolSize, made: 0 .. MaxGraphs,
                 disposable: BOOLEAN, status: {"success", "aborted"}]
    BY <1>1, <1>2, <2>2
  <2>4. work \in [AllPieces(job.stages) -> 0 .. 1]
    BY <1>1, <2>2
  <2> QED
    BY <2>1, <2>3, <2>4 DEF TypeOK
<1>4. \A i \in Threads : /\ th[i].pc = (IF i = 0 THEN "out" ELSE "unborn")
                         /\ th[i].last = 0 /\ ~th[i].pending
  BY <1>1 DEF NewThread
<1>5. \A i \in Threads : Eff[i] = th[i]
  BY <1>4 DEF Eff, Late, At
<1>6. /\ tp.count = 0 /\ tp.threads = 0 /\ tp.barrier = 0 /\ tp.ec = "success" /\ tp.abort = -1
      /\ job.made = 0
  BY <1>1 DEF NewPool
<1>7. Eff[0].pc = "out" /\ ~Eff[0].pending
  BY <1>4, <1>5, SomeThreads
<1>8. ~Running
  BY <1>7 DEF Running, Inside, InBarrier
<1>9. WaitOK
  BY <1>4 DEF WaitOK, InBarrier
<1>10. WorkersOK
  <2>1. \A i \in Workers : /\ Eff[i].pc = "unborn" /\ Eff[i].last = 0 /\ ~Eff[i].pending
                           /\ ~Busy(i)
    BY <1>4, <1>5, SomeThreads DEF Busy, Inside, InBarrier
  <2>2. "unborn" \in Asleep
    BY DEF Asleep
  <2> QED
    BY <1>6, <1>8, <2>1, <2>2 DEF WorkersOK
<1>11. CallOK
  BY <1>6, <1>7, <1>8 DEF CallOK, Resting
<1>12. BarrierOK /\ GraphOK /\ EndsOK
  BY <1>7, <1>8 DEF BarrierOK, GraphOK, EndsOK
<1> QED
  BY <1>3, <1>9, <1>10, <1>11, <1>12 DEF IInv


LEMMA ComputeStep ==
  ASSUME IInv, NEW i \in Threads, Compute(i)
  PROVE  IInv'
<1>1. CASE Start(i)
  BY <1>1, StartStep
<1>2. CASE Node(i)
  BY <1>2, NodeStep
<1>3. CASE Rows(i)
  BY <1>3, RowsStep
<1>4. CASE Convert(i)
  BY <1>4, ConvertStep
<1>5. CASE Chunk(i)
  BY <1>5, ChunkStep
<1>6. CASE NextChunk(i)
  BY <1>6, NextChunkStep
<1>7. CASE AbortCheck(i)
  BY <1>7, AbortCheckStep
<1>8. CASE EnterBarrier(i)
  BY <1>8, EnterBarrierStep
<1>9. CASE ResetBarrier(i)
  BY <1>9, ResetBarrierStep
<1>10. CASE PassBarrier(i)
  BY <1>10, PassBarrierStep
<1>11. CASE LeaveBarrier(i)
  BY <1>11, LeaveBarrierStep
<1> QED
  BY <1>1, <1>2, <1>3, <1>4, <1>5, <1>6, <1>7, <1>8, <1>9, <1>10, <1>11 DEF Compute

LEMMA StutterIInv ==
  ASSUME IInv, UNCHANGED vars
  PROVE  IInv'
<1>1. tp' = tp /\ th' = th /\ locked' = locked /\ job' = job /\ work' = work
  BY DEF vars
<1>2. Eff' = Eff
  BY <1>1 DEF Eff, Late, Past, At
<1>3. (Running' <=> Running) /\ Members' = Members /\ \A j : Busy(j)' <=> Busy(j)
  BY <1>1, <1>2 DEF Running, Members, Busy
<1>4. TypeOK' /\ WaitOK'
  BY <1>1 DEF IInv, TypeOK, WaitOK, Leaves
<1>5. WorkersOK' /\ CallOK' /\ EndsOK'
  BY <1>1, <1>2, <1>3 DEF IInv, WorkersOK, CallOK, EndsOK, StopsAt, Once
<1>6. GraphOK' /\ BarrierOK'
  BY <1>1, <1>2, <1>3, GraphUndisturbed DEF IInv, SameGraph, SameNodes, Undisturbed
<1> QED
  BY <1>4, <1>5, <1>6 DEF IInv

LEMMA NextIInv ==
  ASSUME IInv, [Next]_vars
  PROVE  IInv'
<1>1. CASE UNCHANGED vars
  BY <1>1, StutterIInv
<1>2. ASSUME NEW paused \in BOOLEAN, CreatePool(paused) PROVE IInv'
  BY <1>2, CreatePoolStep
<1>3. ASSUME NEW g \in Graphs, ComputeDisposable(g) PROVE IInv'
  BY <1>3, ComputeDisposableStep
<1>4. ASSUME NEW g \in Graphs, NEW n \in 1 .. PoolSize + 1, ComputeInPool(g, n) PROVE IInv'
  BY <1>4, ComputeInPoolStep
<1>5. CASE PausePool \/ ResumePool
  BY <1>5, PauseResumeStep
<1>6. CASE FreePool \/ Return \/ Free \/ FreeWake
  BY <1>6, RestStep
<1>7. CASE Kick
  BY <1>7, KickStep
<1>8. CASE Wake
  BY <1>8, WakeStep
<1>9. CASE Join
  BY <1>9, JoinStep
<1>10. CASE SetChunk
  BY <1>10, SetChunkStep
<1>11. ASSUME NEW i \in Threads, Compute(i) PROVE IInv'
  BY <1>11, ComputeStep
<1>12. ASSUME NEW i \in Workers, Worker(i) \/ SpuriousWakeup(i) PROVE IInv'
  <2>1. CASE Compute(i)
    BY <2>1, <1>11, SomeThreads
  <2>2. CASE ~Compute(i)
    BY <1>12, <2>2, SleeperStep DEF Worker
  <2> QED
    BY <2>1, <2>2
<1>13. CASE Caller
  BY <1>2, <1>3, <1>4, <1>5, <1>6, <1>13 DEF Caller
<1>14. CASE Main
  BY <1>6, <1>7, <1>8, <1>9, <1>10, <1>11, <1>14, SomeThreads DEF Main
<1>15. CASE Finished
  BY <1>1, <1>15 DEF Finished
<1> QED
  BY <1>1, <1>12, <1>13, <1>14, <1>15 DEF Next

(* For any number of threads, graphs, chunks and calls.                    *)
THEOREM PoolInvariance == Spec => []IInv
<1>1. IInv /\ [Next]_vars => IInv'
  BY NextIInv
<1> QED
  BY InitIInv, <1>1, PTL DEF Spec

(* The state of the pool and of its threads keeps its types: the barrier   *)
(* never counts more threads than there are, and no piece of a graph is    *)
(* computed twice (ggml_barrier, ggml_compute_forward_mul_mat).            *)
THEOREM PoolTypeCorrect == Spec => []TypeOK
<1>1. IInv => TypeOK
  BY DEF IInv
<1> QED
  BY PoolInvariance, <1>1, PTL

(* When the main thread may reset the fields of a pool for the next graph, *)
(* which it does without the mutex, no worker is in the graph before, but  *)
(* for leaving its last barrier (ggml_graph_compute).                      *)
THEOREM PoolIsResetAlone == Spec => []ResetAlone
<1>1. ASSUME IInv, At(0, "idle")
      PROVE  /\ tp.barrier = 0
             /\ \A i \in Workers :
                  /\ ~InGraph(i)
                  /\ At(i, "wait") => th[i].after = "loop" /\ th[i].passed # tp.passed
  <2>1. TypeOK /\ CallOK /\ WorkersOK /\ WaitOK /\ 0 \in Threads
    BY <1>1, SomeThreads DEF IInv
  <2>2. Eff[0].pc = "idle"
    BY <1>1, <2>1, PastTyped DEF At, Late
  <2>3. ~Running /\ tp.barrier = 0
    BY <2>1, <2>2 DEF Running, Inside, InBarrier, CallOK
  <2> SUFFICES ASSUME NEW i \in Workers
               PROVE  /\ ~InGraph(i)
                      /\ At(i, "wait") => th[i].after = "loop" /\ th[i].passed # tp.passed
    BY <2>3
  <2>4. i \in Threads /\ i # 0 /\ Eff[i].pc \notin Inside \cup {"start"}
    BY <2>1, <2>3, SomeThreads DEF WorkersOK, Busy
  <2>5. Eff[i] = IF Late(i) THEN Past(i) ELSE th[i]
    BY <2>4 DEF Eff
  <2>6. ~InGraph(i)
    BY <2>4, <2>5 DEF InGraph, Late, At, Inside, InBarrier
  <2>7. ASSUME At(i, "wait") PROVE th[i].after = "loop" /\ th[i].passed # tp.passed
    <3>1. Late(i)
      BY <2>4, <2>5, <2>7 DEF At, Inside, InBarrier
    <3>2. th[i].after \in {"node", "chunk", "loop"}
      BY <2>1, <2>4, <2>7 DEF WaitOK, At, InBarrier, Leaves
    <3>3. th[i].after \in {"node", "chunk"} => Past(i).pc \in {"node", "chunk"}
      BY <2>1, <2>4, PastTyped DEF Past, States
    <3> QED
      BY <2>4, <2>5, <3>1, <3>2, <3>3 DEF Late, Inside
  <2> QED
    BY <2>6, <2>7
<1>2. IInv => ResetAlone
  BY <1>1 DEF ResetAlone
<1> QED
  BY PoolInvariance, <1>2, PTL

-----------------------------------------------------------------------------
(* The pool does what GraphCompute promises.                               *)

InCall == th[0].pc \notin {"out", "idle", "free", "freeWake", "join"}

LEMMA RunningIsCall ==
  ASSUME IInv, Running
  PROVE  InCall
<1>1. TypeOK /\ 0 \in Threads
  BY SomeThreads DEF IInv
<1>2. CASE Late(0)
  BY <1>2 DEF InCall, Late, At
<1>3. CASE ~Late(0)
  <2>1. Eff[0] = th[0]
    BY <1>1, <1>3, PastTyped
  <2> QED
    BY <2>1 DEF InCall, Running, Inside, InBarrier
<1> QED
  BY <1>2, <1>3

(* A piece tells its node, and the node which pieces it has.               *)
LEMMA PieceAt ==
  ASSUME IInv, Eff[0].pc \in {"kick", "return"} \/ Running, NEW q \in AllPieces(job.stages)
  PROVE  /\ q[1] \in 0 .. Len(tp.graph) - 1 /\ Len(tp.graph) \in Nat
         /\ tp.graph[q[1] + 1] # "nop"
         /\ tp.graph[q[1] + 1] = "matmul" /\ q[2] # "chunk" => q[2] = "convert"
         /\ StageOf(q) = IF q[2] = "chunk" THEN 2 * q[1] + 2 ELSE 2 * q[1] + 1
<1>1. TypeOK /\ CallOK
  BY DEF IInv
<1>2. PICK k \in 0 .. Len(tp.graph) - 1 :
        \/ tp.graph[k + 1] = "rows" /\ \E i \in 0 .. job.threads - 1 : q = Piece(k, "rows", i)
        \/ tp.graph[k + 1] = "matmul" /\ \E i \in 0 .. job.threads - 1 : q = Piece(k, "convert", i)
        \/ /\ tp.graph[k + 1] = "matmul"
           /\ \E c \in 0 .. ChunksFor(job.threads) - 1 : q = Piece(k, "chunk", c)
  BY <1>1, PiecesAre
<1>3. /\ q[1] = k /\ tp.graph[k + 1] \in {"rows", "matmul"}
      /\ tp.graph[k + 1] = "matmul" => q[2] \in {"convert", "chunk"}
  BY <1>2, PieceFields
<1>4. Len(tp.graph) \in Nat
  BY <1>1, PiecesAre
<1>5. StageOf(q) = IF q[2] = "chunk" THEN 2 * q[1] + 2 ELSE 2 * q[1] + 1
  BY DEF StageOf
<1> QED
  BY <1>3, <1>4, <1>5

(* Whoever is in a part of the graph has all of its nodes before behind,   *)
(* and in the second half of a matrix product, its conversion.             *)
LEMMA EarlierWhole ==
  ASSUME IInv, Running, NEW n \in 0 .. Len(tp.graph), NEW half \in BOOLEAN, PartOK(n, half),
         NEW q \in AllPieces(job.stages),
         q[1] < n \/ (half /\ q[1] = n /\ q[2] = "convert")
  PROVE  work[q] = 1
<1>1. TypeOK /\ CallOK /\ WorkOK(n, half) /\ Members \subseteq Threads
  BY SomeMembers DEF IInv, PartOK
<1>2. Members = 0 .. job.threads - 1 /\ tp.threads = job.threads
  BY <1>1 DEF CallOK, Members
<1>3. PICK k \in 0 .. Len(tp.graph) - 1 :
        \/ tp.graph[k + 1] = "rows" /\ \E i \in Members : q = Piece(k, "rows", i)
        \/ tp.graph[k + 1] = "matmul" /\ \E i \in Members : q = Piece(k, "convert", i)
        \/ /\ tp.graph[k + 1] = "matmul"
           /\ \E c \in 0 .. ChunksFor(tp.threads) - 1 : q = Piece(k, "chunk", c)
  BY <1>1, <1>2, PiecesAre
<1>4. q[1] = k
  BY <1>3, PieceFields
<1>5. Len(tp.graph) \in Nat
  BY <1>1, PiecesAre
<1>6. ASSUME NEW i \in Members
      PROVE  /\ k < n => Eff[i].pc \in Inside /\ k < Eff[i].node
             /\ half /\ k = n => PastConvert(Eff[i], k)
  <2>1. Eff[i] \in States
    BY <1>1, PastTyped
  <2>2. Eff[i].node \in Nat
    BY <2>1 DEF States
  <2>3. CASE Unstarted(i) /\ n = 0 /\ ~half
    BY <1>5, <2>3
  <2>4. CASE Eff[i].pc \in Inside /\ half /\ InSecond(Eff[i], n)
    <3>1. \/ Eff[i].pc \in {"chunk", "nextChunk", "abort"} /\ Eff[i].node = n
          \/ Eff[i].node = n + 1
      BY <2>4 DEF InSecond
    <3> QED
      BY <1>5, <2>2, <2>4, <3>1 DEF PastConvert
  <2>5. CASE Eff[i].pc \in Inside /\ ~half /\ InFirst(Eff[i], n)
    <3>1. n <= Eff[i].node
      BY <2>2, <2>5, <1>5 DEF InFirst, Working, Toward
    <3> QED
      BY <2>2, <2>5, <3>1, <1>5
  <2> QED
    BY <2>3, <2>4, <2>5 DEF PartOK, Together
<1>7. ASSUME tp.graph[k + 1] = "rows", NEW i \in Members, q = Piece(k, "rows", i)
      PROVE  work[q] = 1
  <2>1. q[2] = "rows"
    BY <1>7, PieceFields
  <2>2. PastRows(Eff[i], k)
    BY <1>4, <1>6, <1>7, <2>1 DEF PastRows
  <2> QED
    BY <1>1, <1>7, <2>2 DEF WorkOK, Once
<1>8. ASSUME tp.graph[k + 1] = "matmul", NEW i \in Members, q = Piece(k, "convert", i)
      PROVE  work[q] = 1
  <2>1. PastConvert(Eff[i], k)
    BY <1>4, <1>6, <1>8 DEF PastConvert
  <2> QED
    BY <1>1, <1>8, <2>1 DEF WorkOK, Once
<1>9. ASSUME tp.graph[k + 1] = "matmul", NEW c \in 0 .. ChunksFor(tp.threads) - 1,
             q = Piece(k, "chunk", c)
      PROVE  work[q] = 1
  <2>1. q[2] = "chunk"
    BY <1>9, PieceFields
  <2>2. PastChunk(n, half, k, c)
    BY <1>4, <2>1 DEF PastChunk
  <2> QED
    BY <1>1, <1>9, <2>2 DEF WorkOK, Once
<1> QED
  BY <1>3, <1>7, <1>8, <1>9

(* A piece is computed when the stages before its own are whole.           *)
LEMMA ComputesPiece ==
  ASSUME IInv, Running, InCall, InCall', job' = job,
         NEW p \in AllPieces(job.stages), work[p] = 0, work' = [work EXCEPT ![p] = @ + 1],
         \A q \in AllPieces(job.stages) : StageOf(q) < StageOf(p) => work[q] = 1
  PROVE  Promised!Piece
<1> DEFINE S == job.stages
<1>1. TypeOK /\ CallOK
  BY DEF IInv
<1>2. S = GraphStages(tp.graph, job.threads)
  BY <1>1 DEF CallOK
<1>3. /\ DOMAIN S = 1 .. 2 * Len(tp.graph)
      /\ \A s \in DOMAIN S : S[s] = {q \in GraphPieces(tp.graph, job.threads) : StageOf(q) = s}
  BY <1>2 DEF GraphStages
<1>4. PICK k \in DOMAIN S : p \in S[k]
  BY DEF AllPieces
<1>5. StageOf(p) = k
  BY <1>3, <1>4
<1>6. Len(tp.graph) \in Nat
  BY <1>1, PiecesAre
<1>7. k \in Nat
  BY <1>3, <1>4, <1>6
<1>8. ASSUME NEW j \in 1 .. k - 1 PROVE Promised!Whole(j)
  <2>1. j \in DOMAIN S /\ j < k
    BY <1>3, <1>4, <1>6
  <2>2. \A q \in S[j] : q \in AllPieces(S) /\ StageOf(q) = j
    BY <1>3, <2>1 DEF AllPieces
  <2> QED
    BY <1>5, <2>1, <2>2 DEF Promised!Whole
<1>9. work' = [work EXCEPT ![p] = 1]
  OBVIOUS
<1> QED
  BY <1>4, <1>8, <1>9 DEF Promised!Piece, InCall

LEMMA MainStays ==
  ASSUME TypeOK, NEW i \in Threads, NEW r, Moves(i, r),
         i = 0 => InCall /\ r.pc \notin {"out", "idle", "free", "freeWake", "join"}
  PROVE  InCall' <=> InCall
<1>1. th' = [th EXCEPT ![i] = r] /\ th \in [Threads -> States] /\ 0 \in Threads
  BY SomeThreads DEF Moves, TypeOK
<1>2. CASE i = 0
  BY <1>1, <1>2 DEF InCall
<1>3. CASE i # 0
  BY <1>1, <1>3 DEF InCall
<1> QED
  BY <1>2, <1>3

LEMMA BarrierPc ==
  ASSUME TypeOK, NEW r \in States, NEW after
  PROVE  ToBarrier(r, after).pc \in {"enter", after}
BY DEF ToBarrier, States

LEMMA PastPc ==
  ASSUME TypeOK, WaitOK, NEW i \in Threads, th[i].pc \in InBarrier
  PROVE  Past(i).pc \in {"node", "chunk", Leaves(i)}
<1>1. th[i] \in States /\ th[i].after \in {"node", "chunk", Leaves(i)}
  BY DEF TypeOK, WaitOK
<1> QED
  BY <1>1 DEF Past, NewThread, States

(* A thread in a graph: the main thread is in its call, and stays there.   *)
LEMMA ComputeInCall ==
  ASSUME IInv, NEW i \in Threads, Compute(i)
  PROVE  job' = job /\ (InCall' <=> InCall)
<1>1. TypeOK /\ WaitOK /\ th[i] \in States
  BY PastTyped DEF IInv
<1>2. i = 0 => InCall
  BY DEF Compute, Start, Node, Rows, Convert, Chunk, NextChunk, AbortCheck, EnterBarrier,
         ResetBarrier, PassBarrier, LeaveBarrier, At, InCall
<1> DEFINE Stays(r) == i = 0 => r.pc \notin {"out", "idle", "free", "freeWake", "join"}
<1>3. ASSUME NEW pc, Goes(i, pc), pc \in {"abort", "nextChunk", "reset", "wait", "pass"}
      PROVE  \E r : Moves(i, r) /\ Stays(r)
  <2>1. [th[i] EXCEPT !.pc = pc].pc = pc
    BY <1>1 DEF States
  <2>2. Moves(i, [th[i] EXCEPT !.pc = pc])
    BY <1>3 DEF Goes, Moves
  <2> QED
    BY <1>3, <2>1, <2>2
<1>4. CASE Start(i)
  <2> DEFINE r == [th[i] EXCEPT !.pc = "node", !.node = 0, !.nth = tp.threads]
  <2>1. Moves(i, r) /\ job' = job
    BY <1>4 DEF Start, Silently
  <2>2. r.pc = "node"
    BY <1>1 DEF States
  <2> QED
    BY <1>1, <1>2, <2>1, <2>2, MainStays
<1>5. CASE Node(i)
  <2> DEFINE op == tp.graph[th[i].node + 1]
             r == IF Stopped(i) THEN ToBarrier(th[i], Leaves(i))
                  ELSE IF op = "nop" THEN [th[i] EXCEPT !.node = @ + 1]
                  ELSE IF op = "rows" THEN [th[i] EXCEPT !.pc = "rows"]
                  ELSE [th[i] EXCEPT !.pc = "convert"]
  <2>1. Moves(i, r) /\ job' = job /\ th[i].pc = "node"
    BY <1>5 DEF Node, Silently, At
  <2>2. r.pc \in {"enter", Leaves(i), "node", "rows", "convert"}
    <3>1. CASE Stopped(i)
      BY <3>1, <1>1, BarrierPc
    <3>2. CASE ~Stopped(i)
      BY <3>2, <1>1, <2>1 DEF States
    <3> QED
      BY <3>1, <3>2
  <2> HIDE DEF r, op
  <2> QED
    BY <1>1, <1>2, <2>1, <2>2, MainStays DEF Leaves
<1>6. CASE Rows(i)
  BY <1>1, <1>2, <1>3, <1>6, MainStays DEF Rows
<1>7. CASE Convert(i)
  <2> DEFINE q == [th[i] EXCEPT !.chunk = i]
             r == IF i = 0 THEN [th[i] EXCEPT !.pc = "setChunk"] ELSE ToBarrier(q, "chunk")
  <2>1. Moves(i, r) /\ job' = job
    BY <1>7 DEF Convert
  <2>2. i = 0 => r.pc = "setChunk"
    BY <1>1 DEF States
  <2> QED
    BY <1>1, <1>2, <2>1, <2>2, MainStays
<1>8. CASE Chunk(i)
  <2>1. job' = job /\ \E pc : Goes(i, pc) /\ pc \in {"abort", "nextChunk"}
    BY <1>8 DEF Chunk
  <2> QED
    BY <1>1, <1>2, <1>3, <2>1, MainStays
<1>9. CASE NextChunk(i)
  <2> DEFINE r == [th[i] EXCEPT !.pc = "chunk", !.chunk = tp.chunk]
  <2>1. Moves(i, r) /\ job' = job
    BY <1>9 DEF NextChunk
  <2>2. r.pc = "chunk"
    BY <1>1 DEF States
  <2> QED
    BY <1>1, <1>2, <2>1, <2>2, MainStays
<1>10. CASE AbortCheck(i)
  <2> DEFINE q == [th[i] EXCEPT !.node = @ + 1]
  <2>1. Moves(i, AfterNode(i)) /\ job' = job
    BY <1>10 DEF AbortCheck, Asked
  <2>2. th[i].node + 1 \in Nat
    BY <1>1 DEF States
  <2>3. q \in States
    BY <1>1, <2>2 DEF States
  <2>4. AfterNode(i) = IF q.node < Len(tp.graph) THEN ToBarrier(q, "node")
                       ELSE [q EXCEPT !.pc = "node"]
    BY DEF AfterNode
  <2> HIDE DEF q
  <2>5. ToBarrier(q, "node").pc \in {"enter", "node"}
    BY <1>1, <2>3, BarrierPc
  <2>6. [q EXCEPT !.pc = "node"].pc = "node"
    BY <2>3 DEF States
  <2>7. AfterNode(i).pc \in {"enter", "node"}
    BY <2>4, <2>5, <2>6
  <2> QED
    BY <1>1, <1>2, <2>1, <2>7, MainStays
<1>11. CASE EnterBarrier(i)
  <2>1. job' = job /\ \E pc : Goes(i, pc) /\ pc \in {"reset", "wait"}
    BY <1>11 DEF EnterBarrier
  <2> QED
    BY <1>1, <1>2, <1>3, <2>1, MainStays
<1>12. CASE ResetBarrier(i)
  BY <1>1, <1>2, <1>3, <1>12, MainStays DEF ResetBarrier
<1>13. CASE PassBarrier(i) \/ LeaveBarrier(i)
  <2>1. Moves(i, Past(i)) /\ job' = job /\ th[i].pc \in InBarrier
    BY <1>13 DEF PassBarrier, LeaveBarrier, Silently, At, InBarrier
  <2>2. Past(i).pc \in {"node", "chunk", Leaves(i)}
    BY <1>1, <2>1, PastPc
  <2> QED
    BY <1>1, <1>2, <2>1, <2>2, MainStays DEF Leaves
<1> QED
  BY <1>4, <1>5, <1>6, <1>7, <1>8, <1>9, <1>10, <1>11, <1>12, <1>13 DEF Compute

(* The three kinds of pieces, and what their stages read from.             *)
LEMMA RowsPiece ==
  ASSUME IInv, NEW i \in Threads, Rows(i)
  PROVE  Promised!Piece
<1> DEFINE m == th[i].node
           p == Piece(m, "rows", i)
<1>1. /\ th[i].pc = "rows" /\ ~Late(i) /\ th[i].pc \in Inside \cup {"start"}
      /\ work' = [work EXCEPT ![p] = @ + 1]
  BY DEF Rows, At, Late, Inside, Computes
<1>2. /\ Running /\ i \in Members /\ Eff[i] = th[i] /\ th[i] \in States
      /\ Len(tp.graph) \in Nat
  BY <1>1, Insider
<1>3. m \in Nat /\ StageOf(p) = 2 * m + 1
  BY <1>2, PieceFields DEF States, StageOf
<1>4. PICK n \in 0 .. Len(tp.graph), half \in BOOLEAN : PartOK(n, half)
  BY <1>2 DEF IInv, GraphOK
<1> HIDE DEF p
<1>5. ~half /\ Working(n, m, "rows")
  BY <1>1, <1>2, <1>4 DEF PartOK, Together, Unstarted, InFirst, InSecond, Done, Inside, InBarrier
<1>6. m \in 0 .. Len(tp.graph) - 1 /\ tp.graph[m + 1] = "rows" /\ Toward(n, m)
  BY <1>2, <1>3, <1>5 DEF Working
<1>7. p \in AllPieces(job.stages) /\ work[p] = 0
  <2>1. Once(p, PastRows(Eff[i], m))
    BY <1>2, <1>4, <1>6 DEF PartOK, WorkOK, p
  <2>2. ~PastRows(Eff[i], m)
    BY <1>1, <1>2, <1>3 DEF PastRows
  <2> QED
    BY <1>2, <1>6, <2>1, <2>2, PiecesIn DEF p, Once
<1>8. ASSUME NEW q \in AllPieces(job.stages), StageOf(q) < StageOf(p) PROVE work[q] = 1
  <2>1. /\ q[1] \in 0 .. Len(tp.graph) - 1 /\ tp.graph[q[1] + 1] # "nop"
        /\ StageOf(q) = IF q[2] = "chunk" THEN 2 * q[1] + 2 ELSE 2 * q[1] + 1
    BY <1>2, PieceAt
  <2>2. q[1] < m
    BY <1>3, <1>8, <2>1
  <2>3. q[1] < n
    <3>1. /\ n \in Nat /\ m \in Nat /\ Toward(n, m) /\ Len(tp.graph) \in Nat
          /\ q[1] \in 0 .. Len(tp.graph) - 1 /\ tp.graph[q[1] + 1] # "nop"
      BY <1>2, <1>3, <1>6, <2>1
    <3>2. q[1] < n <=> q[1] < m
      BY <3>1, OverNops
    <3> QED
      BY <2>2, <3>2
  <2> QED
    BY <1>2, <1>4, <2>3, EarlierWhole
<1>9. job' = job /\ InCall /\ InCall'
  BY <1>2, ComputeInCall, RunningIsCall DEF Compute
<1> QED
  BY <1>1, <1>2, <1>7, <1>8, <1>9, ComputesPiece

LEMMA ConvertPiece ==
  ASSUME IInv, NEW i \in Threads, Convert(i)
  PROVE  Promised!Piece
<1> DEFINE m == th[i].node
           p == Piece(m, "convert", i)
<1>1. /\ th[i].pc = "convert" /\ ~Late(i) /\ th[i].pc \in Inside \cup {"start"}
      /\ work' = [work EXCEPT ![p] = @ + 1]
  BY DEF Convert, At, Late, Inside, Computes
<1>2. /\ Running /\ i \in Members /\ Eff[i] = th[i] /\ th[i] \in States
      /\ Len(tp.graph) \in Nat
  BY <1>1, Insider
<1>3. m \in Nat /\ StageOf(p) = 2 * m + 1
  BY <1>2, PieceFields DEF States, StageOf
<1>4. PICK n \in 0 .. Len(tp.graph), half \in BOOLEAN : PartOK(n, half)
  BY <1>2 DEF IInv, GraphOK
<1> HIDE DEF p
<1>5. ~half /\ Working(n, m, "matmul")
  BY <1>1, <1>2, <1>4 DEF PartOK, Together, Unstarted, InFirst, InSecond, Done, Inside, InBarrier
<1>6. m \in 0 .. Len(tp.graph) - 1 /\ tp.graph[m + 1] = "matmul" /\ Toward(n, m)
  BY <1>2, <1>3, <1>5 DEF Working
<1>7. p \in AllPieces(job.stages) /\ work[p] = 0
  <2>1. Once(p, PastConvert(Eff[i], m))
    BY <1>2, <1>4, <1>6 DEF PartOK, WorkOK, p
  <2>2. ~PastConvert(Eff[i], m)
    BY <1>1, <1>2, <1>3 DEF PastConvert, InBarrier
  <2> QED
    BY <1>2, <1>6, <2>1, <2>2, PiecesIn DEF p, Once
<1>8. ASSUME NEW q \in AllPieces(job.stages), StageOf(q) < StageOf(p) PROVE work[q] = 1
  <2>1. /\ q[1] \in 0 .. Len(tp.graph) - 1 /\ tp.graph[q[1] + 1] # "nop"
        /\ StageOf(q) = IF q[2] = "chunk" THEN 2 * q[1] + 2 ELSE 2 * q[1] + 1
    BY <1>2, PieceAt
  <2>2. q[1] < m
    BY <1>3, <1>8, <2>1
  <2>3. q[1] < n
    <3>1. /\ n \in Nat /\ m \in Nat /\ Toward(n, m) /\ Len(tp.graph) \in Nat
          /\ q[1] \in 0 .. Len(tp.graph) - 1 /\ tp.graph[q[1] + 1] # "nop"
      BY <1>2, <1>3, <1>6, <2>1
    <3>2. q[1] < n <=> q[1] < m
      BY <3>1, OverNops
    <3> QED
      BY <2>2, <3>2
  <2> QED
    BY <1>2, <1>4, <2>3, EarlierWhole
<1>9. job' = job /\ InCall /\ InCall'
  BY <1>2, ComputeInCall, RunningIsCall DEF Compute
<1> QED
  BY <1>1, <1>2, <1>7, <1>8, <1>9, ComputesPiece

LEMMA ChunkPiece ==
  ASSUME IInv, NEW i \in Threads, Chunk(i)
  PROVE  Promised!Piece \/ (work' = work /\ job' = job /\ (InCall' <=> InCall))
<1> DEFINE N == ChunksFor(th[i].nth)
           d == th[i].chunk
           m == th[i].node
           p == Piece(m, "chunk", d)
<1>1. CASE ~(d < N)
  <2>1. work' = work
    BY <1>1 DEF Chunk
  <2> QED
    BY <2>1, ComputeInCall DEF Compute
<1>2. CASE d < N
  <2>1. /\ th[i].pc = "chunk" /\ ~Late(i) /\ th[i].pc \in Inside \cup {"start"}
        /\ work' = [work EXCEPT ![p] = @ + 1]
    BY <1>2 DEF Chunk, At, Late, Inside, Computes
  <2>2. /\ Running /\ i \in Members /\ Eff[i] = th[i] /\ th[i] \in States
        /\ Len(tp.graph) \in Nat /\ tp.threads \in Nat \ {0}
    BY <2>1, Insider
  <2>3. m \in Nat /\ d \in Nat /\ StageOf(p) = 2 * m + 2
    BY <2>2, PieceFields DEF States, StageOf
  <2>4. PICK n \in 0 .. Len(tp.graph), half \in BOOLEAN : PartOK(n, half)
    BY <2>2 DEF IInv, GraphOK
  <2>5. /\ half /\ m = n /\ th[i].nth = tp.threads /\ n \in 0 .. Len(tp.graph) - 1
        /\ tp.graph[n + 1] = "matmul"
    BY <2>1, <2>4, AtChunk
  <2> HIDE DEF p
  <2>6. p \in AllPieces(job.stages) /\ work[p] = 0
    <3>1. d \in 0 .. ChunksFor(tp.threads) - 1
      <4>1. N = ChunksFor(tp.threads) /\ N \in Nat
        BY <2>2, <2>5, SomeChunks
      <4> HIDE DEF N, d
      <4> QED
        BY <1>2, <2>3, <4>1
    <3>2. Once(p, PastChunk(n, half, n, d))
      BY <3>1, <2>4, <2>5 DEF PartOK, WorkOK, p
    <3>3. ~PastChunk(n, half, n, d)
      BY <2>1, <2>2, <2>5 DEF PastChunk, Holds
    <3> QED
      BY <2>2, <2>5, <3>1, <3>2, <3>3, PiecesIn DEF p, Once
  <2>7. ASSUME NEW q \in AllPieces(job.stages), StageOf(q) < StageOf(p) PROVE work[q] = 1
    <3>1. /\ q[1] \in 0 .. Len(tp.graph) - 1
          /\ tp.graph[q[1] + 1] = "matmul" /\ q[2] # "chunk" => q[2] = "convert"
          /\ StageOf(q) = IF q[2] = "chunk" THEN 2 * q[1] + 2 ELSE 2 * q[1] + 1
      BY <2>2, PieceAt
    <3>2. q[1] < n \/ (q[1] = n /\ q[2] # "chunk")
      BY <2>3, <2>5, <2>7, <3>1
    <3>3. q[1] < n \/ (half /\ q[1] = n /\ q[2] = "convert")
      BY <2>5, <3>1, <3>2
    <3> QED
      BY <2>2, <2>4, <3>3, EarlierWhole
  <2>8. job' = job /\ InCall /\ InCall'
    BY <2>2, ComputeInCall, RunningIsCall DEF Compute
  <2> QED
    BY <2>1, <2>2, <2>6, <2>7, <2>8, ComputesPiece
<1> QED
  BY <1>1, <1>2

(* A call begins with nothing computed.                                    *)
LEMMA BeginsCall ==
  ASSUME IInv, NEW g, NEW n, Begins(g, n), ~InCall, InCall'
  PROVE  Promised!Call
<1>1. job \in [stages: Plans, threads: 0 .. PoolSize, made: 0 .. MaxGraphs,
               disposable: BOOLEAN, status: {"success", "aborted"}]
  BY DEF IInv, TypeOK
<1>2. job'.status = job.status
  BY <1>1 DEF Begins
<1>3. work' = [p \in AllPieces(job'.stages) |-> 0]
  BY DEF Begins
<1> QED
  BY <1>2, <1>3 DEF Promised!Call, Promised!Pieces, AllPieces, InCall

LEMMA ComputeCalls ==
  ASSUME IInv, NEW g, NEW n, ComputeDisposable(g) \/ ComputeInPool(g, n)
  PROVE  Promised!Call
<1>1. th \in [Threads -> States] /\ 0 \in Threads
  BY SomeThreads DEF IInv, TypeOK
<1>2. ~InCall
  BY DEF ComputeDisposable, ComputeInPool, At, InCall
<1>3. th'[0].pc = "kick"
  <2>1. CASE ComputeDisposable(g)
    BY <1>1, <2>1 DEF ComputeDisposable, Created, NewThread
  <2>2. CASE ComputeInPool(g, n)
    <3>1. th' = [th EXCEPT ![0].pc = "kick"]
      BY <2>2 DEF ComputeInPool, Goes
    <3>2. th[0] \in States
      BY <1>1
    <3> QED
      BY <1>1, <3>1, <3>2 DEF States
  <2> QED
    BY <2>1, <2>2
<1>4. InCall'
  BY <1>3 DEF InCall
<1>5. Begins(g, PoolSize) \/ Begins(g, IF n > PoolSize THEN PoolSize ELSE n)
  BY DEF ComputeDisposable, ComputeInPool
<1> QED
  BY <1>2, <1>4, <1>5, BeginsCall

(* A call returns success with all of the graph computed, and otherwise    *)
(* with the nodes before the one that it was aborted at.                   *)
LEMMA ReturnsAsPromised ==
  ASSUME IInv, Return
  PROVE  Promised!Return
<1> DEFINE S == job.stages
           N == Len(tp.graph)
<1>1. TypeOK /\ CallOK /\ EndsOK /\ 0 \in Threads /\ th[0].pc = "return"
  BY SomeThreads DEF IInv, Return, At
<1>2. Eff[0].pc = "return"
  BY <1>1, PastTyped DEF Late, At
<1>3. S = GraphStages(tp.graph, job.threads) /\ N \in Nat
  BY <1>1, <1>2, PiecesAre DEF CallOK
<1>4. /\ DOMAIN S = 1 .. 2 * N
      /\ \A s \in DOMAIN S : S[s] = {q \in GraphPieces(tp.graph, job.threads) : StageOf(q) = s}
  BY <1>3 DEF GraphStages
<1>5. Len(S) = 2 * N
  <2>1. 2 * N \in Nat /\ S = [s \in 1 .. 2 * N |-> S[s]]
    BY <1>3 DEF GraphStages
  <2> QED
    BY <1>4, <2>1
<1>6. ASSUME NEW s \in DOMAIN S, NEW q \in S[s]
      PROVE  /\ q \in AllPieces(S) /\ q[1] \in 0 .. N - 1
             /\ s = IF q[2] = "chunk" THEN 2 * q[1] + 2 ELSE 2 * q[1] + 1
  <2>1. q \in AllPieces(S) /\ StageOf(q) = s
    BY <1>4, <1>6 DEF AllPieces
  <2> QED
    BY <1>2, <2>1, PieceAt
<1>7. /\ tp.abort = -1 \/ tp.abort \in 1 .. N
      /\ \A p \in AllPieces(S) : work[p] = IF p[1] < StopsAt THEN 1 ELSE 0
  BY <1>1, <1>2 DEF EndsOK, Once
<1>8. /\ job'.stages = job.stages /\ work' = work /\ job'.status = tp.ec
      /\ InCall /\ ~InCall'
  <2>1. /\ job \in [stages: Plans, threads: 0 .. PoolSize, made: 0 .. MaxGraphs,
                    disposable: BOOLEAN, status: {"success", "aborted"}]
        /\ job' = [job EXCEPT !.status = tp.ec] /\ work' = work
    BY <1>1 DEF TypeOK, Return
  <2>2. th' = [th EXCEPT ![0].pc = IF job.disposable THEN "free" ELSE "idle"]
    BY DEF Return, Goes
  <2>3. th \in [Threads -> States] /\ th[0] \in States
    BY <1>1 DEF TypeOK
  <2>4. th'[0].pc = IF job.disposable THEN "free" ELSE "idle"
    BY <1>1, <2>2, <2>3 DEF States
  <2> QED
    BY <1>1, <2>1, <2>4 DEF InCall
<1> HIDE DEF S, N
<1>9. CASE tp.abort = -1
  <2>1. tp.ec = "success"
    BY <1>1, <1>9 DEF CallOK, TypeOK, Pools
  <2>2. StopsAt = N
    BY <1>9 DEF StopsAt, N
  <2>3. ASSUME NEW k \in DOMAIN S PROVE Promised!Whole(k)
    <3>1. \A q \in S[k] : work[q] = 1
      BY <1>3, <1>6, <1>7, <2>2
    <3> QED
      BY <3>1 DEF Promised!Whole, S
  <2> QED
    BY <1>8, <2>1, <2>3 DEF Promised!Return, InCall, S
<1>10. CASE tp.abort # -1
  <2> DEFINE a == tp.abort
  <2>1. tp.ec = "aborted" /\ StopsAt = a /\ a \in 1 .. N /\ a \in Nat
    BY <1>1, <1>3, <1>7, <1>10 DEF CallOK, StopsAt
  <2>2. 2 * a \in DOMAIN S
    BY <1>3, <1>4, <2>1
  <2> HIDE DEF a
  <2>3. ASSUME NEW k \in 1 .. 2 * a PROVE Promised!Whole(k)
    <3>1. k \in DOMAIN S
      BY <1>3, <1>4, <2>1
    <3>2. \A q \in S[k] : work[q] = 1
      <4> SUFFICES ASSUME NEW q \in S[k] PROVE work[q] = 1
        OBVIOUS
      <4>1. q \in AllPieces(S) /\ q[1] \in 0 .. N - 1
            /\ k = IF q[2] = "chunk" THEN 2 * q[1] + 2 ELSE 2 * q[1] + 1
        BY <1>6, <3>1
      <4>2. q[1] < a
        BY <1>3, <2>1, <4>1
      <4> QED
        BY <1>7, <2>1, <4>1, <4>2
    <3> QED
      BY <3>2 DEF Promised!Whole, S
  <2>4. ASSUME NEW k \in 2 * a + 1 .. Len(S) PROVE Promised!Untouched(k)
    <3>1. k \in DOMAIN S
      BY <1>3, <1>4, <1>5, <2>1
    <3>2. \A q \in S[k] : work[q] = 0
      <4> SUFFICES ASSUME NEW q \in S[k] PROVE work[q] = 0
        OBVIOUS
      <4>1. q \in AllPieces(S) /\ q[1] \in 0 .. N - 1
            /\ k = IF q[2] = "chunk" THEN 2 * q[1] + 2 ELSE 2 * q[1] + 1
        BY <1>6, <3>1
      <4>2. ~(q[1] < a)
        BY <1>3, <1>5, <2>1, <4>1
      <4> QED
        BY <1>7, <2>1, <4>1, <4>2
    <3> QED
      BY <3>2 DEF Promised!Untouched, S
  <2>5. \E n \in DOMAIN S : /\ \A k \in 1 .. n : Promised!Whole(k)
                            /\ \A k \in n + 1 .. Len(S) : Promised!Untouched(k)
    BY <2>2, <2>3, <2>4
  <2> QED
    BY <1>8, <2>1, <2>5 DEF Promised!Return, InCall, S
<1> QED
  BY <1>9, <1>10

(* What else the main thread does is before, within or after a call.       *)
Stutters == job'.stages = job.stages /\ job'.status = job.status /\ work' = work
            /\ (InCall' <=> InCall)

LEMMA StutterPromised ==
  ASSUME Stutters
  PROVE  UNCHANGED Promised!vars
BY DEF Stutters, Promised!vars, InCall

LEMMA MainStutters ==
  ASSUME IInv, \/ \E paused \in BOOLEAN : CreatePool(paused)
               \/ PausePool \/ ResumePool \/ FreePool \/ Kick \/ Wake \/ Free \/ FreeWake
               \/ Join \/ SetChunk
  PROVE  Stutters
<1>1. TypeOK /\ th \in [Threads -> States] /\ 0 \in Threads /\ th[0] \in States
  BY SomeThreads DEF IInv, TypeOK
<1>2. job \in [stages: Plans, threads: 0 .. PoolSize, made: 0 .. MaxGraphs,
               disposable: BOOLEAN, status: {"success", "aborted"}]
  BY <1>1 DEF TypeOK
<1>3. job'.stages = job.stages /\ job'.status = job.status /\ work' = work
  BY <1>2 DEF CreatePool, PausePool, ResumePool, FreePool, Kick, Wake, Free, FreeWake, Join, SetChunk
<1>4. ASSUME NEW pc, Goes(0, pc) PROVE th'[0].pc = pc
  <2>1. th' = [th EXCEPT ![0] = [th[0] EXCEPT !.pc = pc]]
    BY <1>4 DEF Goes
  <2> QED
    BY <1>1, <2>1 DEF States
<1>5. Awake(th) \in [Threads -> States] /\ Woken(th[0], Awake(th)[0])
  BY <1>1, AwakeTyped
<1>6. ASSUME NEW pc, th' = MainGoes(Awake(th), pc) PROVE th'[0].pc = pc
  <2>1. th' = [Awake(th) EXCEPT ![0] = [Awake(th)[0] EXCEPT !.pc = pc]]
    BY <1>6 DEF MainGoes
  <2>2. Awake(th)[0] \in States
    BY <1>1, <1>5
  <2> QED
    BY <1>1, <1>5, <2>1, <2>2 DEF States
<1>7. CASE \E paused \in BOOLEAN : CreatePool(paused)
  <2>1. th[0].pc = "out" /\ th'[0].pc = "idle"
    BY <1>1, <1>7 DEF CreatePool, Created, NewThread, At
  <2> QED
    BY <1>3, <2>1 DEF Stutters, InCall
<1>8. CASE PausePool \/ ResumePool
  <2>1. th[0].pc = "idle" /\ th' = Awake(th)
    BY <1>8 DEF PausePool, ResumePool, At
  <2>2. th'[0].pc = "idle"
    BY <1>5, <2>1 DEF Woken
  <2> QED
    BY <1>3, <2>1, <2>2 DEF Stutters, InCall
<1>9. CASE FreePool \/ Free
  <2>1. th[0].pc \in {"idle", "free"} /\ th'[0].pc \in {"free", "freeWake"}
    BY <1>4, <1>9 DEF FreePool, Free, At
  <2> QED
    BY <1>3, <2>1 DEF Stutters, InCall
<1>10. CASE Kick
  <2>1. th[0].pc = "kick" /\ th'[0].pc = "wake"
    BY <1>4, <1>10 DEF Kick, At
  <2> QED
    BY <1>3, <2>1 DEF Stutters, InCall
<1>11. CASE Wake
  <2>1. th[0].pc = "wake" /\ th'[0].pc = "start"
    BY <1>6, <1>11 DEF Wake, At
  <2> QED
    BY <1>3, <2>1 DEF Stutters, InCall
<1>12. CASE FreeWake
  <2>1. th[0].pc = "freeWake" /\ th'[0].pc = "join"
    BY <1>6, <1>12 DEF FreeWake, At
  <2> QED
    BY <1>3, <2>1 DEF Stutters, InCall
<1>13. CASE Join
  <2>1. th[0].pc = "join" /\ th'[0].pc = "out"
    BY <1>1, <1>13 DEF Join, At, NewThread
  <2> QED
    BY <1>3, <2>1 DEF Stutters, InCall
<1>14. CASE SetChunk
  <2> DEFINE q == [th[0] EXCEPT !.chunk = 0]
  <2>1. th[0].pc = "setChunk" /\ Moves(0, ToBarrier(q, "chunk"))
    BY <1>14 DEF SetChunk, At
  <2>2. q \in States
    BY <1>1 DEF States
  <2> HIDE DEF q
  <2>3. ToBarrier(q, "chunk").pc \in {"enter", "chunk"}
    BY <1>1, <2>2, BarrierPc
  <2>4. InCall /\ (InCall' <=> InCall)
    BY <1>1, <2>1, <2>3, MainStays DEF InCall
  <2> QED
    BY <1>3, <2>4 DEF Stutters
<1> QED
  BY <1>7, <1>8, <1>9, <1>10, <1>11, <1>12, <1>13, <1>14

LEMMA SleeperStutters ==
  ASSUME IInv, NEW i \in Workers,
         \/ PauseCheck(i) \/ PauseLock(i) \/ StopCheck(i) \/ Poll(i) \/ CheckForWork(i)
         \/ TakeWork(i) \/ SpuriousWakeup(i)
  PROVE  Stutters
<1>1. TypeOK /\ i \in Threads /\ i # 0
  BY SomeThreads DEF IInv
<1>2. job' = job /\ work' = work
  BY DEF PauseCheck, PauseLock, StopCheck, Poll, CheckForWork, TakeWork, SpuriousWakeup, Silently
<1>3. ASSUME NEW pc, Goes(i, pc) PROVE \E r : Moves(i, r)
  BY <1>3 DEF Goes, Moves
<1>4. \E r : Moves(i, r)
  BY <1>3 DEF PauseCheck, PauseLock, StopCheck, Poll, CheckForWork, TakeWork, SpuriousWakeup
<1>5. InCall' <=> InCall
  BY <1>1, <1>4, MainStays
<1> QED
  BY <1>2, <1>5 DEF Stutters

LEMMA ComputePromised ==
  ASSUME IInv, NEW i \in Threads, Compute(i)
  PROVE  Promised!Piece \/ Stutters
<1>1. CASE Rows(i)
  BY <1>1, RowsPiece
<1>2. CASE Convert(i)
  BY <1>2, ConvertPiece
<1>3. CASE Chunk(i)
  BY <1>3, ChunkPiece DEF Stutters
<1>4. CASE ~(Rows(i) \/ Convert(i) \/ Chunk(i))
  <2>1. work' = work
    BY <1>4 DEF Compute, Start, Node, NextChunk, AbortCheck, Asked, EnterBarrier, ResetBarrier,
                PassBarrier, LeaveBarrier, Silently
  <2> QED
    BY <2>1, ComputeInCall DEF Stutters
<1> QED
  BY <1>1, <1>2, <1>3, <1>4

LEMMA NextPromised ==
  ASSUME IInv, [Next]_vars
  PROVE  Promised!Next \/ UNCHANGED Promised!vars
<1>1. CASE UNCHANGED vars
  BY <1>1 DEF vars, Promised!vars
<1>2. ASSUME NEW i \in Threads, Compute(i) PROVE Promised!Next \/ UNCHANGED Promised!vars
  BY <1>2, ComputePromised, StutterPromised DEF Promised!Next
<1>3. CASE Caller
  <2>1. ASSUME NEW g, NEW n, ComputeDisposable(g) \/ ComputeInPool(g, n) PROVE Promised!Next
    BY <2>1, ComputeCalls DEF Promised!Next
  <2>2. \/ \E g \in Graphs : ComputeDisposable(g) \/ \E n \in 1 .. PoolSize + 1 : ComputeInPool(g, n)
        \/ (\E paused \in BOOLEAN : CreatePool(paused)) \/ PausePool \/ ResumePool \/ FreePool
    BY <1>3 DEF Caller
  <2>3. CASE (\E paused \in BOOLEAN : CreatePool(paused)) \/ PausePool \/ ResumePool \/ FreePool
    BY <2>3, MainStutters, StutterPromised
  <2> QED
    BY <2>1, <2>2, <2>3
<1>4. CASE Main
  <2>1. CASE Kick \/ Wake \/ Free \/ FreeWake \/ Join \/ SetChunk
    BY <2>1, MainStutters, StutterPromised
  <2>2. CASE Return
    BY <2>2, ReturnsAsPromised DEF Promised!Next
  <2>3. CASE Compute(0)
    BY <1>2, <2>3, SomeThreads
  <2> QED
    BY <1>4, <2>1, <2>2, <2>3 DEF Main
<1>5. ASSUME NEW i \in Workers, Worker(i) \/ SpuriousWakeup(i)
      PROVE  Promised!Next \/ UNCHANGED Promised!vars
  <2>1. CASE Compute(i)
    BY <1>2, <2>1, SomeThreads
  <2>2. CASE ~Compute(i)
    BY <1>5, <2>2, SleeperStutters, StutterPromised DEF Worker
  <2> QED
    BY <2>1, <2>2
<1> QED
  BY <1>1, <1>3, <1>4, <1>5 DEF Next, Finished

LEMMA InitPromised == Init => Promised!Init
<1> SUFFICES ASSUME Init PROVE Promised!Init
  OBVIOUS
<1>1. th[0].pc = "out"
  BY SomeThreads DEF Init, NewThread
<1>2. job.stages = <<>> /\ job.status = "success" /\ work = <<>>
  BY DEF Init
<1> QED
  BY <1>1, <1>2 DEF Promised!Init

(* Whatever the threads do, and in whatever order, the caller sees each    *)
(* piece of its graph computed once, none before what it reads from is     *)
(* whole, and a status that is true of what was computed: the pool         *)
(* implements GraphCompute (ggml_graph_compute, ggml_barrier,              *)
(* ggml_compute_forward_mul_mat, ggml_graph_compute_thread).               *)
THEOREM PoolKeepsPromise == Spec => KeepsPromise
<1>1. IInv /\ [Next]_vars => [Promised!Next]_Promised!vars
  BY NextPromised
<1> QED
  BY PoolInvariance, InitPromised, <1>1, PTL DEF Spec, KeepsPromise, Promised!Spec
=============================================================================
