-------------------------- MODULE ActivityGraph ----------------------------
(***************************************************************************)
(* The graph of one process (GraphEngine, EventStream, Graph): a node for  *)
(* every event of the trace that has a meaning to the analysis, an edge    *)
(* between the nodes that follow each other on a stream, and the edges,    *)
(* waiting times and blame that the rules add.                             *)
(*                                                                         *)
(* The reader delivers the events of all streams in the order of their     *)
(* time; a node is named by its place in that order, which is also its     *)
(* time.  No two events of the model have the same time.                   *)
(***************************************************************************)
EXTENDS Integers, Sequences, FiniteSets, SequencesExt

CONSTANTS
  Hosts,        \* the host streams (threads) of the process
  Devices,      \* the streams of its device
  MpiStream,    \* the host stream whose thread is the MPI process
  TimeSpan      \* how many values a time and a counter have, 2^64 in the code

ASSUME GraphAssumption ==
  /\ MpiStream \in Hosts
  /\ Hosts \cap Devices = {}
  /\ TimeSpan \in Nat \ {0}

VARIABLES
  options,    \* --link-kernels, the idle rule, and what the trace announces
  node,       \* every node ever created, by name
  list,       \* EventStream::nodes of every stream
  stack,      \* GraphEngine::pendingGraphNodeStackMap: the open regions
  edges,      \* the edges, in the order of their creation
  left,       \* GraphNode::linkLeft, where it is set
  right,      \* GraphNode::linkRight, where it is set
  link,       \* GraphNode::link, where it is set
  data,       \* GraphNode::data, where it is set
  unlinked,   \* EventStream::unlinkedMPINodes of every stream
  filtering,  \* EventStream::isFiltering of every stream
  wait,       \* the counter WAITING_TIME, where it is set
  blame,      \* what was added to the blame of the edges
  deleted,    \* the nodes whose objects have been deleted
  first,      \* the first node of Graph::nodes
  fault       \* an exception, a failed assertion, or the use of a node that is not there

graphVars == <<options, node, list, stack, edges, left, right, link, data, unlinked,
               filtering, wait, blame, deleted, first, fault>>
-----------------------------------------------------------------------------
NULL == 0
LinkKernels == options.linkKernels
Streams == Hosts \cup Devices
Nodes == 1 .. Len(node)

Mpi == {"start", "init", "collective", "finalize"}
Omp == {"forkjoin", "parallel", "task", "barrier", "target"}

IsMpi(k) == k \in Mpi
IsOmp(k) == k = "start" \/ k \in Omp
IsOfld(k) == ~ IsMpi(k) /\ ~ IsOmp(k)

Enter(n) == node[n].rec = "enter"
Leave(n) == node[n].rec = "leave"

\* GraphNode::getGraphPair: first is the enter, second the leave of an activity.
PairFirst(n) == IF Leave(n) THEN node[n].partner ELSE n
PairSecond(n) == IF Leave(n) THEN n ELSE node[n].partner

\* The value of a pointer kept in a partial function.
At(f, n) == IF n \in DOMAIN f THEN f[n] ELSE NULL
With(f, S, v) == [n \in DOMAIN f \cup S |-> IF n \in S THEN v ELSE f[n]]
Without(f, S) == [n \in DOMAIN f \ S |-> f[n]]

\* What a step may not refer to: no node, or one that has been deleted.
Gone(S) == S \cap (deleted \cup {NULL}) # {}
-----------------------------------------------------------------------------
(* Edges. *)

Edge(a, b) == [from |-> a, to |-> b, blocking |-> FALSE]

IsReverse(e) == e.from > e.to
Intra(e) == node[e.from].stream = node[e.to].stream
Duration(e) == IF IsReverse(e) THEN 0 ELSE e.to - e.from

\* The difference of two times, which are unsigned.
Elapsed(a, b) == (b - a) % TimeSpan

InEdges(es, n) == SelectSeq(es, LAMBDA e : e.to = n)
HasEdge(es, a, b) == \E i \in DOMAIN es : es[i].from = a /\ es[i].to = b

\* makeBlocking on the first edge from a to b (GraphEngine::getEdge).
Blocked(es, a, b) ==
  LET S == {i \in DOMAIN es : es[i].from = a /\ es[i].to = b}
  IN IF S = {} THEN es
     ELSE [es EXCEPT ![CHOOSE i \in S : \A j \in S : i <= j].blocking = TRUE]

\* Edge::addBlame, of a share num / den.
Blame(a, b, why, num, den, for) ==
  [from |-> a, to |-> b, why |-> why, num |-> num, den |-> den, for |-> for]
-----------------------------------------------------------------------------
(* Adding a node (GraphEngine::addNewGraphNodeInternal). *)

NewName == Len(node) + 1

\* The direct predecessor: the last node of the stream, of whatever paradigm.
Predecessor(s) == IF list[s] = <<>> THEN NULL ELSE Last(list[s])

\* The last node of the stream that has the paradigm MPI.
MpiPredecessor(s) ==
  LET S == {i \in DOMAIN list[s] : IsMpi(node[list[s][i]].kind)}
  IN IF S = {} THEN NULL ELSE list[s][CHOOSE i \in S : \A j \in S : j <= i]

\* An MPI node is joined with its predecessor in MPI, and any node with its
\* direct predecessor.
StreamEdges(s, kind) ==
  LET mp == IF IsMpi(kind) THEN MpiPredecessor(s) ELSE NULL
      dp == Predecessor(s)
  IN (IF mp = NULL THEN <<>> ELSE <<Edge(mp, NewName)>>)
       \o (IF dp \in {NULL, mp} THEN <<>> ELSE <<Edge(dp, NewName)>>)

\* The kernel that ended last before a kernel that begins now on stream s.
PrecedingKernel(s) ==
  LET dp == Predecessor(s)
      own == IF dp # NULL /\ Leave(dp) THEN {dp} ELSE {}
      others == {PairSecond(Predecessor(d)) : d \in {d \in Devices \ {s} : list[d] # <<>>}}
      S == own \cup (others \ {NULL})
  IN IF S = {} THEN NULL ELSE CHOOSE n \in S : \A m \in S : m <= n

\* EventStream::addGraphNode makes the new node the last one of its stream
\* before it links an MPI node to "the last local node".
LeftOf(s, kind, rec) ==
  IF IsMpi(kind) THEN NewName
  ELSE IF LinkKernels > 0 /\ rec = "enter" /\ kind = "kernel" THEN PrecedingKernel(s)
  ELSE NULL

\* A leave belongs to the region on top of the stack; without one it throws.
Unbalanced(s, rec) == rec = "leave" /\ stack[s] = <<>>

\* The node and its place in the stream, but not its edges.
AddNode(s, ev) ==
  LET n == NewName
      leave == ev.rec = "leave"
      partner == IF leave /\ stack[s] # <<>> THEN Last(stack[s]) ELSE NULL
      open == IF partner # NULL THEN Front(stack[s]) ELSE stack[s]
      new == [stream |-> s, kind |-> ev.kind, rec |-> ev.rec, ref |-> ev.ref,
              event |-> ev.event, ok |-> ev.ok, partner |-> partner,
              caller |-> IF open = <<>> THEN NULL ELSE Last(open)]
      waiting == unlinked[s] \cup (IF IsMpi(ev.kind) THEN {n} ELSE {})
      l == LeftOf(s, ev.kind, ev.rec)
  IN /\ node' = [i \in 1 .. n |->
                   IF i = n THEN new
                   ELSE IF i = partner THEN [node[i] EXCEPT !.partner = n]
                   ELSE node[i]]
     /\ list' = [list EXCEPT ![s] = Append(@, n)]
     /\ stack' = [stack EXCEPT ![s] = IF leave THEN open ELSE Append(@, n)]
     /\ left' = IF l = NULL THEN left ELSE With(left, {n}, l)
     /\ right' = IF leave THEN right ELSE With(right, waiting, n)
     /\ unlinked' = [unlinked EXCEPT ![s] = IF leave THEN waiting ELSE {}]
-----------------------------------------------------------------------------
(* Walking and searching. *)

\* EventStream::walkBackward: the nodes of the stream from n back to the first
\* one that is in ends, latest first; none if n is not in the list.
WalkBackward(n, ends) ==
  LET s == node[n].stream
      back == SelectSeq(list[s], LAMBDA m : m <= n)
      S == {i \in DOMAIN back : back[i] \in ends}
      end == IF S = {} THEN 1 ELSE CHOOSE i \in S : \A j \in S : j <= i
  IN IF n \notin Range(list[s]) THEN <<>> ELSE Reverse(SubSeq(back, end, Len(back)))

\* GraphNode::findLastNodeBefore: the last node of a stream at or before a
\* time; the first node if there is none.
FindLastNodeBefore(t, s) ==
  LET S == {i \in DOMAIN list[s] : list[s][i] <= t}
  IN IF list[s] = <<>> THEN NULL
     ELSE IF S = {} THEN list[s][1]
     ELSE list[s][CHOOSE i \in S : \A j \in S : j <= i]

\* distributeBlame: blame that is spread over the nodes of a walk, to every
\* edge by its duration.  A walk of less than two nodes fails an assertion.
Distributed(walk, total, why, for) ==
  IF total = 0 THEN <<>>
  ELSE [i \in 1 .. Len(walk) - 1 |->
          Blame(walk[i + 1], walk[i], why, total * (walk[i] - walk[i + 1]),
                walk[1] - Last(walk), for)]

\* The assertions of distributeBlame: two nodes, and an edge between any two.
WalkFails(walk, total) ==
  /\ total > 0
  /\ \/ Len(walk) < 2
     \/ \E i \in 1 .. Len(walk) - 1 : ~ HasEdge(edges, walk[i + 1], walk[i])
-----------------------------------------------------------------------------
(* The source of the graph and the start of the process                    *)
(* (GraphEngine::GraphEngine, newEventStream).  Only the stream of an MPI  *)
(* process has a node before its first event.                              *)

Atomic(s) == [stream |-> s, kind |-> "start", rec |-> "atomic", ref |-> NULL,
              event |-> 0, ok |-> FALSE, partner |-> NULL, caller |-> NULL]

GraphInit ==
  /\ node = <<Atomic(0), Atomic(MpiStream)>>
  /\ list = [s \in Streams |-> IF s = MpiStream THEN <<2>> ELSE <<>>]
  /\ stack = [s \in Streams |-> <<>>]
  /\ edges = <<Edge(1, 2)>>
  /\ left = <<>> /\ right = <<>> /\ link = <<>> /\ data = <<>>
  /\ unlinked = [s \in Streams |-> {}]
  /\ filtering = [s \in Streams |-> FALSE]
  /\ wait = <<>>
  /\ blame = <<>>
  /\ deleted = {}
  /\ first = 1
  /\ fault = FALSE
=============================================================================
