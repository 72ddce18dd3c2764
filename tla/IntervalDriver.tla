---------------------------- MODULE IntervalDriver ----------------------------
(***************************************************************************)
(* The analysis of a trace in intervals: Runner::processTrace and the      *)
(* collective operations of what it calls.  Every rank reads its own       *)
(* events; at a collective of all processes of the trace the reader is     *)
(* interrupted (CallbackHandler::handleLeave).  With enough graph nodes on *)
(* some rank, and no rank inside a parallel region or with a kernel under  *)
(* way, the part of the trace read so far is analysed, written and removed *)
(* from the graph.                                                         *)
(*                                                                         *)
(* The trace of every rank consists of segments, each ended by a           *)
(* collective of all processes, the last one by the end of the trace.      *)
(* Events are counted in segments.  A rank is in a collective operation of *)
(* the analyser from its call until all ranks have called as many of them. *)
(***************************************************************************)
EXTENDS Integers, Sequences, FiniteSets, FiniteSetsExt

CONSTANTS
  Rank,             \* the processes of the analysis
  Segments,         \* segments of the trace
  analysisInterval, \* graph nodes on some rank that suffice for an analysis
  NodeCount,        \* numbers of graph nodes a segment may have
  UINT64_MAX,       \* what a rank contributes that must not be interrupted
  WriterMayFail     \* may the writer find fewer events than were read

ASSUME IntervalRanks == IsFiniteSet(Rank) /\ Cardinality(Rank) > 1
ASSUME IntervalSegments == Segments \in Nat \ {0}
ASSUME IntervalNodes ==
  /\ analysisInterval \in Nat \ {0}
  /\ NodeCount \subseteq Nat
  /\ UINT64_MAX \in Nat
\* The IDs of all nodes of a rank, 64 bits wide (GraphNode), are in range.
ASSUME IntervalIds == \A n \in NodeCount : Segments * n <= UINT64_MAX
ASSUME IntervalWriter == WriterMayFail \in BOOLEAN

VARIABLES
  pc,               \* "read", "finished", or the collective a rank is in
  segment,          \* segments read
  open,             \* inside an OpenMP region, or a kernel is pending
  lastNode,         \* ID of the last node of the graph
  beginNode,        \* ID of the node the graph begins with
  intervalNode,     \* interval_node_id
  intervals,        \* analysis_intervals
  available,        \* events_available
  toWrite,          \* events_to_read
  written,          \* events the trace writer has gone through
  calls             \* collective operations called so far

vars == <<pc, segment, open, lastNode, beginNode, intervalNode, intervals,
          available, toWrite, written, calls>>
reading == <<segment, open, lastNode>>

Collective == {"agree", "replay", "findEnd", "detect", "findStart", "write", "summary"}
Call == [kind : Collective, segment : Nat, intervals : Nat, value : Nat]

Init ==
  /\ pc = [r \in Rank |-> "read"]
  /\ segment = [r \in Rank |-> 0]
  /\ open = [r \in Rank |-> FALSE]
  /\ lastNode = [r \in Rank |-> 0]
  /\ beginNode = [r \in Rank |-> 0]
  /\ intervalNode = [r \in Rank |-> 0]
  /\ intervals = [r \in Rank |-> 0]
  /\ available = [r \in Rank |-> TRUE]
  /\ toWrite = [r \in Rank |-> 0]
  /\ written = [r \in Rank |-> 0]
  /\ calls = [r \in Rank |-> <<>>]

-----------------------------------------------------------------------------
(***************************************************************************)
(* Collective operations of the analyser.                                  *)
(***************************************************************************)

\* Rank r calls one, at segment s and in interval n, and contributes v.
CallAt(r, kind, s, n, v) ==
  /\ pc' = [pc EXCEPT ![r] = kind]
  /\ calls' = [calls EXCEPT ![r] =
                 Append(@, [kind |-> kind, segment |-> s, intervals |-> n, value |-> v])]
Enter(r, kind) == CallAt(r, kind, segment[r], intervals[r], 0)

\* All ranks have called the operation that rank r is in.
Complete(r, kind) ==
  /\ pc[r] = kind
  /\ \A q \in Rank : /\ Len(calls[r]) <= Len(calls[q])
                     /\ calls[q][Len(calls[r])].kind = kind

\* Mutants: the minimum; what the rank has contributed itself.
ResultMin(r) == Min({calls[q][Len(calls[r])].value : q \in Rank})
ResultOwn(r) == calls[r][Len(calls[r])].value

\* The maximum of what the ranks have contributed to the one rank r is in.
Result(r) == Max({calls[q][Len(calls[r])].value : q \in Rank})

-----------------------------------------------------------------------------
(***************************************************************************)
(* Reading up to the next collective of the trace, and what follows.       *)
(***************************************************************************)

\* Mutant: an open region counts as nothing to do.
PendingNodesClosed(r, o, last) == IF o THEN 0 ELSE last - intervalNode[r]

PendingNodes(r, o, last) == IF o THEN UINT64_MAX ELSE last - intervalNode[r]

ReadToCollective(r) ==
  /\ pc[r] = "read"
  /\ segment[r] + 1 < Segments
  /\ \E n \in NodeCount, o \in BOOLEAN :
       /\ lastNode' = [lastNode EXCEPT ![r] = @ + n]
       /\ open' = [open EXCEPT ![r] = o]
       /\ CallAt(r, "agree", segment[r] + 1, intervals[r],
                 PendingNodes(r, o, lastNode[r] + n))
  /\ segment' = [segment EXCEPT ![r] = @ + 1]
  /\ toWrite' = [toWrite EXCEPT ![r] = @ + 1]
  /\ UNCHANGED <<beginNode, intervalNode, intervals, available, written>>

ReadToEnd(r) ==
  /\ pc[r] = "read"
  /\ segment[r] + 1 = Segments
  /\ \E n \in NodeCount : lastNode' = [lastNode EXCEPT ![r] = @ + n]
  /\ open' = [open EXCEPT ![r] = FALSE]
  /\ segment' = [segment EXCEPT ![r] = @ + 1]
  /\ toWrite' = [toWrite EXCEPT ![r] = @ + 1]
  /\ available' = [available EXCEPT ![r] = FALSE]
  /\ CallAt(r, "replay", segment[r] + 1, intervals[r], 0)
  /\ UNCHANGED <<beginNode, intervalNode, intervals, written>>

Enough(m) == analysisInterval < m /\ UINT64_MAX # m

KeepReading(r) ==
  /\ Complete(r, "agree")
  /\ ~Enough(Result(r))
  /\ pc' = [pc EXCEPT ![r] = "read"]
  /\ UNCHANGED <<reading, beginNode, intervalNode, intervals, available, toWrite,
                 written, calls>>

StartAnalysis(r) ==
  /\ Complete(r, "agree")
  /\ Enough(Result(r))
  /\ intervalNode' = [intervalNode EXCEPT ![r] = IF open[r] THEN 0 ELSE lastNode[r]]
  /\ intervals' = [intervals EXCEPT ![r] = @ + 1]
  /\ CallAt(r, "replay", segment[r], intervals[r] + 1, 0)
  /\ UNCHANGED <<reading, beginNode, available, toWrite, written>>

(***************************************************************************)
(* The analysis of an interval.  The replay ends in the exchange about the *)
(* collective that ends the interval, the detection in a barrier.          *)
(***************************************************************************)
Analysing(r, kind, next) ==
  /\ Complete(r, kind)
  /\ Enter(r, next)
  /\ UNCHANGED <<reading, beginNode, intervalNode, intervals, available, toWrite,
                 written>>

lastInterval(r) == ~available[r]
firstInterval(r) == intervals[r] <= 1

Replayed(r) == Analysing(r, "replay", IF lastInterval(r) THEN "findEnd" ELSE "detect")
EndFound(r) == Analysing(r, "findEnd", "detect")
Detected(r) == Analysing(r, "detect", IF firstInterval(r) THEN "findStart" ELSE "write")
StartFound(r) == Analysing(r, "findStart", "write")

(***************************************************************************)
(* Writing, behind a barrier.  The graph is cut and reading goes on, or    *)
(* the loop is left for the summary.                                       *)
(***************************************************************************)

\* What the writer may go through of the events it is told to.
Writable(r) == IF WriterMayFail THEN 0 .. toWrite[r] ELSE {toWrite[r]}

\* Mutant: the number of events to write is not reset.
WriteKeeping(r, n) ==
  /\ written' = [written EXCEPT ![r] = @ + n]
  /\ UNCHANGED toWrite

Write(r, n) ==
  /\ written' = [written EXCEPT ![r] = @ + n]
  /\ toWrite' = [toWrite EXCEPT ![r] = 0]

createIntermediateBegin(r) ==
  /\ Complete(r, "write")
  /\ available[r]
  /\ Write(r, toWrite[r])
  /\ beginNode' = [beginNode EXCEPT ![r] = lastNode[r]]
  /\ pc' = [pc EXCEPT ![r] = "read"]
  /\ UNCHANGED <<reading, intervalNode, intervals, available, calls>>

\* The end of the trace, or "Reader and writer are not synchronous!".
LeaveLoop(r) ==
  /\ Complete(r, "write")
  /\ \E n \in Writable(r) :
       /\ available[r] => n # toWrite[r]
       /\ Write(r, n)
  /\ available' = [available EXCEPT ![r] = FALSE]
  /\ Enter(r, "summary")
  /\ UNCHANGED <<reading, beginNode, intervalNode, intervals>>

\* Statistics are reduced to one rank; only that one has to wait for all.
Root == CHOOSE r \in Rank : TRUE
Summarise(r) ==
  /\ pc[r] = "summary"
  /\ r = Root => Complete(r, "summary")
  /\ pc' = [pc EXCEPT ![r] = "finished"]
  /\ UNCHANGED <<reading, beginNode, intervalNode, intervals, available, toWrite,
                 written, calls>>

-----------------------------------------------------------------------------

Step(r) ==
  \/ ReadToCollective(r) \/ ReadToEnd(r) \/ KeepReading(r) \/ StartAnalysis(r)
  \/ Replayed(r) \/ EndFound(r) \/ Detected(r) \/ StartFound(r)
  \/ createIntermediateBegin(r) \/ LeaveLoop(r) \/ Summarise(r)

Ended == \A r \in Rank : pc[r] = "finished"

\* Stuttering of the ended program, so that any other halt is a deadlock.
Terminated == Ended /\ UNCHANGED vars

Next == (\E r \in Rank : Step(r)) \/ Terminated

Spec == Init /\ [][Next]_vars
FairSpec == Spec /\ \A r \in Rank : WF_vars(Step(r))

-----------------------------------------------------------------------------

(* Every variable has the type its counterpart has in the code.            *)
TypeOK ==
  /\ pc \in [Rank -> Collective \cup {"read", "finished"}]
  /\ segment \in [Rank -> Nat]
  /\ open \in [Rank -> BOOLEAN]
  /\ lastNode \in [Rank -> Nat]
  /\ beginNode \in [Rank -> Nat]
  /\ intervalNode \in [Rank -> Nat]
  /\ intervals \in [Rank -> Nat]
  /\ available \in [Rank -> BOOLEAN]
  /\ toWrite \in [Rank -> Nat]
  /\ written \in [Rank -> Nat]
  /\ calls \in [Rank -> Seq(Call)]

(* The ranks decide alone what to do next, but always the same: the k-th    *)
(* collective operation of any two ranks is the same one, called at the    *)
(* same place of the trace and in the same interval.  Otherwise they wait  *)
(* for each other forever, or add up what does not belong together.        *)
CollectivesMatch ==
  \A r, q \in Rank : \A k \in DOMAIN calls[r] \cap DOMAIN calls[q] :
    /\ calls[r][k].kind = calls[q][k].kind
    /\ calls[r][k].segment = calls[q][k].segment
    /\ calls[r][k].intervals = calls[q][k].intervals

(* An interval never ends inside a parallel region of any rank or while a  *)
(* kernel is pending (Runner.cpp:288): cutting the graph there would       *)
(* delete nodes that are needed to end the region.                         *)
OutsideRegions ==
  \A r, q \in Rank :
    /\ available[r] /\ pc[r] \in {"replay", "detect", "findStart", "write"}
    /\ segment[q] = segment[r]
    => ~open[q]

(* A rank reads on with more nodes in its graph than suffice for an         *)
(* analysis only if some rank had an open region at the last collective:   *)
(* interval_node_id stays in step with what is deleted from the graph.     *)
NoBacklog ==
  \A r \in Rank :
    pc[r] = "read" /\ lastNode[r] - beginNode[r] > analysisInterval
      => \E q \in Rank : calls[q][Len(calls[r])].value = UINT64_MAX

(* Every event that was read is written, once and in the interval it was   *)
(* read in.                                                                *)
EventsWritten ==
  \A r \in Rank :
    /\ written[r] + toWrite[r] = segment[r]
    /\ pc[r] \in {"summary", "finished"} => written[r] = Segments

(* The analysis of the whole trace ends on every rank.                     *)
DriverEnds == <>Ended

(* The start of the critical path is determined once, after the analysis   *)
(* of the first interval (comment at Runner.cpp:1135).                     *)
StartFoundOnce ==
  \A r \in Rank : Cardinality({k \in DOMAIN calls[r] : calls[r][k].kind = "findStart"}) <= 1
=============================================================================
