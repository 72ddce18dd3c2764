-------------------------- MODULE AnalysisEngine ---------------------------
(***************************************************************************)
(* One process of the analysis (Runner::processTrace, CallbackHandler,     *)
(* AnalysisEngine): it reads events until a global collective, decides     *)
(* whether the interval is analysed now, applies the rules to the nodes in *)
(* the order of their time, follows the critical path between the first    *)
(* and the last MPI activity of the interval, and forgets the interval.    *)
(*                                                                         *)
(* The program is what the trace contains: the events of every stream, and *)
(* which of them cannot happen before which other.  The reader delivers    *)
(* them in any order that respects this.                                   *)
(***************************************************************************)
EXTENDS OffloadAnalysis, OpenMPAnalysis

CONSTANT Programs

VARIABLES
  program,   \* the trace that is analysed
  pos,       \* how many events of a stream have been read
  phase,     \* reading, applying rules, at the critical path, cleaning up
  todo,      \* the nodes the rules have not seen in this interval
  sections   \* the sections of the path that have been followed

engineVars == <<program, pos, phase, todo, sections>>
vars == <<graphVars, criticalNodes, offloadVars, ompVars, engineVars>>

EventKinds == {"record", "eventSync", "query", "streamWait"}
-----------------------------------------------------------------------------
(* Reading (CallbackHandler::handleEnter, handleLeave).                    *)

Event(s) == program.events[s][pos[s] + 1]

Ready(s) ==
  /\ pos[s] < Len(program.events[s])
  /\ \A o \in program.order : (o.later = s /\ o.laterPos = pos[s] + 1) => pos[o.earlier] >= o.earlierPos

\* A region that is filtered turns the filter on and off, however it is nested.
FilterAfter(s, ev) == IF ev.filtered THEN ev.rec = "enter" ELSE filtering[s]

\* Events without a node: filtered ones, regions of the program, and the leave
\* of an event function of CUDA without the identifier of the event.
Dropped(s, ev) ==
  \/ IF ev.rec = "enter" THEN filtering[s] ELSE FilterAfter(s, ev)
  \/ ev.kind = "region"
  \/ ev.rec = "leave" /\ ev.kind \in EventKinds /\ ev.event = 0

\* handlePostEnter, handlePostLeave and the attributes of an event.
Post(n, s, ev) ==
  IF IsOmp(ev.kind)
  THEN /\ IF ev.rec = "enter" THEN PostOmpEnter(n, s, ev) ELSE PostOmpLeave(n, s, ev)
       /\ UNCHANGED offloadVars
  ELSE /\ edges' = edges \o StreamEdges(s, ev.kind)
       /\ IF IsOfld(ev.kind) THEN PostOffload(n, ev) ELSE UNCHANGED offloadVars
       /\ UNCHANGED <<link, data, wait, blame, fault, ompVars>>

\* An intermediate analysis does not start while a kernel is pending or inside
\* of a parallel region; otherwise the number of nodes of all processes decides.
MayStart(ev) == ev.kind = "collective" /\ ev.rec = "leave"
                  /\ pendingKernels = 0 /\ nesting = 0

Read(s) ==
  LET ev == Event(s)
  IN /\ phase = "read" /\ ~ fault /\ Ready(s)
     /\ pos' = [pos EXCEPT ![s] = @ + 1]
     /\ filtering' = [filtering EXCEPT ![s] = FilterAfter(s, ev)]
     /\ IF Dropped(s, ev)
        THEN UNCHANGED <<node, list, stack, edges, left, right, link, data, unlinked, wait, blame,
                         fault, offloadVars, ompVars, phase, todo>>
        ELSE IF Unbalanced(s, ev.rec) \/ (ev.rec = "leave" /\ Last(stack[s]) \in deleted)
        THEN /\ fault' = TRUE
             /\ UNCHANGED <<node, list, stack, edges, left, right, link, data, unlinked, wait, blame,
                            offloadVars, ompVars, phase, todo>>
        ELSE /\ AddNode(s, ev)
             /\ Post(NewName, s, ev)
             /\ phase' \in IF MayStart(ev) THEN {"read", "rules"} ELSE {"read"}
             /\ todo' = IF phase' = "rules" THEN UNION {Range(list'[t]) : t \in Streams} ELSE todo
     /\ UNCHANGED <<deleted, first, criticalNodes, options, program, sections>>

EndOfTrace ==
  /\ phase = "read" /\ ~ fault
  /\ \A s \in Streams : pos[s] = Len(program.events[s])
  /\ phase' = "rules"
  /\ todo' = UNION {Range(list[t]) : t \in Streams}
  /\ UNCHANGED <<graphVars, criticalNodes, offloadVars, ompVars, program, pos, sections>>
-----------------------------------------------------------------------------
(* Analysing (AnalysisEngine::runAnalysis, applyRules).                    *)

ApplyRules ==
  LET n == CHOOSE n \in todo : \A m \in todo : n <= m
  IN /\ phase = "rules" /\ ~ fault /\ todo # {}
     /\ todo' = todo \ {n}
     /\ IF node[n].rec = "atomic" \/ IsMpi(node[n].kind)
        THEN UNCHANGED <<edges, link, data, left, wait, blame, fault, offloadVars, ompVars>>
        ELSE IF IsOmp(node[n].kind)
        THEN OmpRules(n) /\ UNCHANGED <<left, offloadVars>>
        ELSE OffloadRules(n) /\ UNCHANGED ompVars
     /\ UNCHANGED <<node, list, stack, right, unlinked, filtering, deleted, first,
                    criticalNodes, options, program, pos, phase, sections>>

AllRead == \A s \in Streams : pos[s] = Len(program.events[s])

\* The first MPI activity after the start of the process.
SectionStart ==
  LET L == SelectSeq(list[MpiStream], LAMBDA n : node[n].kind \in Mpi \ {"start"})
  IN L[1]

FollowPath ==
  /\ phase = "rules" /\ ~ fault /\ todo = {}
  /\ ProcessSection(SectionStart, Last(list[MpiStream]))
  /\ sections' = sections + 1
  /\ phase' = IF AllRead THEN "done" ELSE "begin"
  /\ UNCHANGED <<node, list, stack, edges, left, right, link, data, unlinked, filtering, wait,
                 blame, deleted, first, offloadVars, ompVars, options, program, pos, todo>>
-----------------------------------------------------------------------------
(* AnalysisEngine::createIntermediateBegin.                                *)

\* The node at the end of a device stream, if it is a kernel that has begun.
Incomplete(d) == IF list[d] # <<>> /\ Enter(Last(list[d])) THEN {Last(list[d])} ELSE {}

\* Kernels nobody waited for, on a stream that has any.
Unsynchronised(d) ==
  IF pending[d] = <<>> THEN {}
  ELSE {k \in Range(list[d]) \ Incomplete(d) : Is(k, "kernel") /\ IsKernelPending(k)}

\* The nodes of a host that are not deleted.
KeptOnHost(h) ==
  {n \in Range(list[h]) : \/ Is(n, "launch") \/ IsWait(n)
                          \/ Is(n, "record") /\ Leave(n) /\ At(data, n) = NULL}
    \cup (IF h = MpiStream THEN {list[h][1], Last(list[h])} ELSE {})

Kept(s) == IF s \in Hosts THEN KeptOnHost(s) ELSE Incomplete(s) \cup Unsynchronised(s)

\* A bug for comparison: launches stay.
LaunchesLeftAll(d) == launches[d]

\* removeKernelLaunch, for the kernels that are deleted.
LaunchesLeft(d) ==
  LET gone == {k \in Range(list[d]) \ Kept(d) : Enter(k) /\ Is(k, "kernel") /\ At(link, k) # NULL}
      leaves == {PairSecond(link[k]) : k \in gone}
  IN IF list[d] = <<>> THEN launches[d]
     ELSE IF pending[d] = <<>> THEN <<>>
     ELSE SelectSeq(launches[d], LAMBDA n : n \notin leaves)

IntermediateBegin ==
  LET start == Last(list[MpiStream])
      kernels == UNION {Incomplete(d) \cup Unsynchronised(d) : d \in Devices}
  IN /\ phase = "begin" /\ ~ fault
     /\ deleted' = deleted \cup UNION {Range(list[s]) \ Kept(s) : s \in Streams}
     /\ list' = [s \in Streams |-> IF s = MpiStream THEN <<start>> ELSE <<>>]
     /\ node' = [node EXCEPT ![start].rec = "atomic"]
     /\ edges' = <<Edge(1, start)>>
     /\ blame' = <<>>
     /\ first' = start
     /\ left' = With(Without(left, kernels), {start}, start)
     /\ unlinked' = [s \in Streams |-> IF s = MpiStream THEN {start}
                                       ELSE IF Cardinality(unlinked[s]) > 1 THEN {} ELSE unlinked[s]]
     /\ launches' = [d \in Devices |-> LaunchesLeft(d)]
     /\ eventLaunch' = <<>>
     /\ phase' = "read"
     /\ UNCHANGED <<stack, right, link, data, filtering, wait, fault, criticalNodes, pendingKernels,
                    pending, running, eventStream, eventQuery, streamWaits, active, idleStart,
                    delay, overlapping, ompVars, options, program, pos, todo, sections>>
-----------------------------------------------------------------------------
Finished ==
  /\ phase = "done" \/ fault
  /\ UNCHANGED vars

Init ==
  /\ program \in Programs
  /\ options = program.options
  /\ GraphInit /\ OffloadInit /\ OmpInit
  /\ pos = [s \in Streams |-> 0]
  /\ phase = "read"
  /\ todo = {}
  /\ sections = 0
  /\ criticalNodes = <<>>

Next ==
  \/ \E s \in Streams : Read(s)
  \/ EndOfTrace \/ ApplyRules \/ FollowPath \/ IntermediateBegin \/ Finished

Spec == Init /\ [][Next]_vars /\ WF_vars(Next)
-----------------------------------------------------------------------------
(* Properties. *)

(* The analysis of a trace, however its streams interleave and wherever its *)
(* intervals end, neither throws nor fails an assertion, and follows no     *)
(* pointer to a node that is missing or was deleted with an interval        *)
(* (createIntermediateBegin, reset).                                        *)
NoFault == ~ fault

(* Analysed nodes of a team: the begin of a worker's region depends on the  *)
(* fork of its own team, its end leads to the join, and no other fork or    *)
(* join is mixed in (OMPForkJoinRule, OMPComputeRule).                      *)
TeamIsJoined ==
  LET joins == {j \in Nodes \ todo : Leave(j) /\ node[j].kind = "forkjoin" /\ j \notin deleted}
      ends == {l \in Nodes : Leave(l) /\ node[l].kind = "parallel"}
  IN phase \in {"rules", "done"} =>
       \A j \in joins :
         /\ \A l \in ends : (node[l].event = node[j].event /\ node[l].stream # node[j].stream) =>
              HasEdge(edges, PairFirst(j), PairFirst(l)) /\ HasEdge(edges, l, j)
         /\ \A e \in Range(edges) :
              /\ e.to = j /\ ~ Intra(e) => node[e.from].event = node[j].event
              /\ e.from = PairFirst(j) /\ ~ Intra(e) => node[e.to].event = node[j].event

(* The query of an event that is remembered has not been deleted with its   *)
(* interval: AnalysisParadigmOffload::reset "clear event record/launch map  *)
(* and event query map".                                                    *)
QueriesCleared == \A e \in DOMAIN eventQuery : eventQuery[e] \notin deleted
=============================================================================
