----------------------------- MODULE GraphCompute -----------------------------
(***************************************************************************)
(* What ggml_graph_compute promises its caller, whatever threads do it:    *)
(* the pieces of a graph are each computed once, no piece before all of    *)
(* the stages it reads from are whole, and the status returned says what   *)
(* was computed.                                                           *)
(***************************************************************************)
EXTENDS Naturals, Sequences

VARIABLES
  running,  \* whether a call is in progress
  stages,   \* the call's graph: a sequence of sets of pieces
  work,     \* work[p]: how often the piece p of these stages was computed
  status    \* the status returned last

vars == <<running, stages, work, status>>

Pieces(s) == UNION {s[k] : k \in DOMAIN s}

Whole(k) == \A p \in stages[k] : work[p] = 1
Untouched(k) == \A p \in stages[k] : work[p] = 0

Init == running = FALSE /\ stages = <<>> /\ work = <<>> /\ status = "success"

Call ==
  /\ ~running /\ running'
  /\ work' = [p \in Pieces(stages') |-> 0]
  /\ UNCHANGED status

Piece ==
  /\ running
  /\ \E k \in DOMAIN stages : \E p \in stages[k] :
       /\ \A j \in 1 .. k - 1 : Whole(j)
       /\ work[p] = 0
       /\ work' = [work EXCEPT ![p] = 1]
  /\ UNCHANGED <<running, stages, status>>

(* Aborted: everything up to some stage, and nothing of the next.          *)
Return ==
  /\ running /\ ~running'
  /\ \/ status' = "success" /\ \A k \in DOMAIN stages : Whole(k)
     \/ /\ status' = "aborted"
        /\ \E n \in DOMAIN stages :
             /\ \A k \in 1 .. n : Whole(k)
             /\ \A k \in n + 1 .. Len(stages) : Untouched(k)
  /\ UNCHANGED <<stages, work>>

Next == Call \/ Piece \/ Return

Spec == Init /\ [][Next]_vars
=============================================================================
