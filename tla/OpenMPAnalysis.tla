------------------------- MODULE OpenMPAnalysis ----------------------------
(***************************************************************************)
(* The analysis of OpenMP (AnalysisParadigmOMP and its rules).  Traces of  *)
(* OPARI2 are analysed with rules, after the reading; traces of OMPT while *)
(* they are read, with the identifiers of the parallel regions.  A target  *)
(* region of the host offloads work to the streams of a device.            *)
(*                                                                         *)
(* The field ref of a fork is its number of threads, that of a target      *)
(* region the identifier of its device; the field event of a parallel      *)
(* region or of an implicit task is the identifier of the region.          *)
(***************************************************************************)
EXTENDS LocalCriticalPath

VARIABLES
  nesting,       \* nestingLevel
  regions,       \* ompParallelIdNodeMap: the open parallel regions
  openWorkers,   \* ompOpenWorkerNodesMap: threads whose region is not open
  counts,        \* ompParallelBarriersMap: per stream, the region and its barrier
  groups,        \* ompBarrierNodesMap: the leaves of the barriers of a region
  ignored,       \* the nodes with the counter OMP_IGNORE_BARRIER
  forks,         \* forkJoinStack
  compute,       \* ompComputeTrackMap
  barriers,      \* ompBarrierListHost
  targetEnter,   \* ompTargetRegionBeginMap
  firstOffload,  \* ompTargetDeviceFirstEventMap
  firstMarks     \* the nodes with the counter OMP_FIRST_OFFLOAD_EVT

ompVars == <<nesting, regions, openWorkers, counts, groups, ignored,
             forks, compute, barriers, targetEnter, firstOffload, firstMarks>>
ruleVars == <<forks, compute, barriers, targetEnter, firstOffload, firstMarks>>
readVars == <<nesting, regions, openWorkers, counts, groups, ignored>>
-----------------------------------------------------------------------------
Ompt == "OMPT" \in options.paradigms
TargetRegions == "OMP_TARGET" \in options.paradigms

Latest(S) == CHOOSE n \in S : \A m \in S : m <= n
Earliest(S) == CHOOSE n \in S : \A m \in S : n <= m

\* ompHostStreamWalkCallback, for a walk that starts at n.
HostWalkEnds(n, m) ==
  \/ m # n /\ node[m].caller = NULL
  \/ Leave(m) /\ node[m].kind = "barrier" /\ m \notin ignored
  \/ node[m].rec = "atomic"

\* The blame for a barrier goes to the thread that came last.
BarrierBlame(late, total) ==
  Distributed(WalkBackward(late, {m \in Nodes : HostWalkEnds(late, m)}), total, "barrier", late)
BarrierFails(late, total) ==
  WalkFails(WalkBackward(late, {m \in Nodes : HostWalkEnds(late, m)}), total)

\* What the threads of a barrier waited for the last one.
Waited(E) == FoldLeft(LAMBDA sum, e : sum + Latest(Range(E)) - e, 0, E)
-----------------------------------------------------------------------------
(* While the trace is read (handleKeyValuesEnter, handlePostEnter).        *)

\* A parallel region or a task of a device works on the map of the host, after
\* it was overwritten with the map of the device, which is empty.
RegionMap(s) == IF s \in Devices THEN <<>> ELSE regions


\* Both streams are of the host, or both of a device.
OnSameSide(s, w) == (s \in Devices) = (node[w].stream \in Devices)

PostOmpEnter(n, s, ev) ==
  LET id == ev.event
      known == Ompt /\ id # 0
      opens == known /\ ev.kind = "parallel"
      starts == known /\ ev.kind # "parallel" /\ stack[s] = <<>>
      map == IF opens \/ starts THEN RegionMap(s) ELSE regions
      region == At(map, id)
      waiting == IF id \in DOMAIN openWorkers THEN openWorkers[id] ELSE <<>>
      late == IF opens THEN SelectSeq(waiting, LAMBDA w : OnSameSide(s, w)) ELSE <<>>
  IN /\ nesting' = IF ev.kind = "forkjoin" THEN nesting + 1 ELSE nesting
     /\ regions' = IF opens THEN With(map, {id}, n) ELSE map
     /\ openWorkers' = IF opens
                       THEN With(openWorkers, {id},
                                 SelectSeq(waiting, LAMBDA w : ~ OnSameSide(s, w)))
                       ELSE IF starts /\ region = NULL
                       THEN With(openWorkers, {id}, Append(waiting, n))
                       ELSE openWorkers
     /\ edges' = edges \o StreamEdges(s, ev.kind)
                   \o [i \in DOMAIN late |-> Edge(n, late[i])]
                   \o (IF starts /\ region # NULL THEN <<Edge(region, n)>> ELSE <<>>)
     /\ link' = IF opens THEN With(link, Range(late), n)
                ELSE IF starts /\ region # NULL THEN With(link, {n}, region) ELSE link
     /\ data' = IF Ompt /\ TargetRegions /\ ev.kind = "target" /\ ev.ref # NULL
                THEN With(data, {n}, 1) ELSE data
     /\ fault' = (fault \/ (starts /\ region \in deleted) \/ Range(late) \cap deleted # {})
     /\ UNCHANGED <<counts, groups, ignored, wait, blame>> /\ UNCHANGED ruleVars
-----------------------------------------------------------------------------
(* While the trace is read, for OMPT (omptBarrierRule, omptParallelRule).  *)

\* The region a barrier belongs to: the innermost parallel region around it,
\* on its own thread, or that of the first task of the thread.
RegionOf(n, open) ==
  LET P == {i \in DOMAIN open : node[open[i]].kind = "parallel"}
      outer == IF open = <<>> THEN n ELSE open[1]
  IN IF P # {} THEN open[Latest(P)]
     ELSE IF At(link, outer) # NULL THEN link[outer] ELSE outer

\* A bug for comparison: the barriers of a region are not counted.
CountOfFirst(s, region) ==
  IF counts[s] # <<>> /\ Last(counts[s]).region = region THEN counts[s]
  ELSE Append(counts[s], [region |-> region, count |-> 1])

\* The number of the barrier in its region, as counted on its stream.
CountOf(s, region) ==
  IF counts[s] # <<>> /\ Last(counts[s]).region = region
  THEN [counts[s] EXCEPT ![Len(counts[s])].count = @ + 1]
  ELSE Append(counts[s], [region |-> region, count |-> 1])

Groups(region) == IF region \in DOMAIN groups THEN groups[region] ELSE <<>>

OmptBarrier(n, s) ==
  LET open == Front(stack[s])
      nested == open # <<>> /\ node[Last(open)].kind = "barrier"
      region == RegionOf(n, open)
      num == Last(CountOf(s, region)).count
      G == Groups(region)
      in == StreamEdges(s, "barrier")
  IN /\ edges' = edges \o [i \in DOMAIN in |-> [in[i] EXCEPT !.blocking = ~ nested]]
     /\ ignored' = IF nested \/ Predecessor(s) # Last(stack[s])
                   THEN ignored \cup {n} ELSE ignored
     /\ data' = IF ~ nested /\ region \in Range(open) /\ node[region].kind = "parallel"
                THEN With(data, {region}, n) ELSE data
     /\ counts' = IF nested THEN counts ELSE [counts EXCEPT ![s] = CountOf(s, region)]
     /\ groups' = IF nested THEN groups
                  ELSE With(groups, {region},
                            IF num <= Len(G) THEN [G EXCEPT ![num] = Append(@, n)]
                            ELSE Append(G, <<n>>))
     /\ fault' = (fault \/ (~ nested /\ in = <<>>) \/ Range(open) \cap deleted # {})
     /\ UNCHANGED <<nesting, regions, openWorkers, link, wait, blame>>

\* The edges of a barrier of a region lead to the last barrier of the thread
\* that opened it, whatever barrier it is.
BarrierEdges(G, i, last) ==
  LET E == [j \in DOMAIN G[i] |-> node[G[i][j]].partner]
      late == Latest(Range(E))
  IN [j \in 1 .. (IF i = Len(G) THEN 1 ELSE Len(E) - 1) |-> Edge(late, last)]

OmptParallel(n, s) ==
  LET region == Last(stack[s])
      id == node[region].event
      G == Groups(region)
      Enters(i) == [j \in DOMAIN G[i] |-> node[G[i][j]].partner]
      Late(i) == Latest(Range(Enters(i)))
      new == FoldLeft(LAMBDA es, i : es \o BarrierEdges(G, i, At(data, region)),
                      <<>>, [i \in DOMAIN G |-> i])
      waited == [l \in UNION {Range(G[i]) : i \in DOMAIN G} |->
                   LET i == CHOOSE i \in DOMAIN G : l \in Range(G[i])
                   IN Late(i) - node[l].partner]
      lost == new # <<>> /\ Gone({At(data, region)})
  IN /\ edges' = edges \o StreamEdges(s, "parallel") \o (IF lost THEN <<>> ELSE new)
     /\ wait' = [l \in DOMAIN wait \cup {l \in DOMAIN waited : waited[l] > 0} |->
                   IF l \in DOMAIN waited /\ waited[l] > 0 THEN waited[l] ELSE wait[l]]
     /\ blame' = FoldLeft(LAMBDA b, i : b \o BarrierBlame(Late(i), Waited(Enters(i))),
                          blame, [i \in DOMAIN G |-> i])
     /\ groups' = Without(groups, {region})
     /\ counts' = [t \in Streams |->
                     IF region \in DOMAIN groups /\ counts[t] # <<>>
                        /\ Last(counts[t]).region = region
                     THEN Front(counts[t]) ELSE counts[t]]
     /\ regions' = IF id = 0 THEN regions ELSE Without(RegionMap(s), {id})
     /\ fault' = \/ fault \/ lost
                 \/ \E i \in DOMAIN G : BarrierFails(Late(i), Waited(Enters(i)))
     /\ UNCHANGED <<nesting, openWorkers, ignored, link, data>>

\* handlePostLeave
PostOmpLeave(n, s, ev) ==
  /\ \/ ev.kind = "barrier" /\ Ompt /\ OmptBarrier(n, s)
     \/ ev.kind = "parallel" /\ Ompt /\ OmptParallel(n, s)
     \/ /\ ev.kind \notin {"barrier", "parallel"} \/ ~ Ompt
        /\ nesting' = IF ev.kind = "forkjoin" THEN nesting - 1 ELSE nesting
        /\ ignored' = IF ev.kind = "barrier" /\ Predecessor(s) # Last(stack[s])
                      THEN ignored \cup {n} ELSE ignored
        /\ edges' = edges \o StreamEdges(s, ev.kind)
        /\ UNCHANGED <<regions, openWorkers, counts, groups, link, data, wait, blame, fault>>
  /\ UNCHANGED ruleVars
-----------------------------------------------------------------------------
(* The rules for OPARI2 (OMPForkJoinRule, OMPComputeRule, OMPBarrierRule). *)

InnerMostFork == IF forks = <<>> THEN NULL ELSE Last(forks)

Fork(n) ==
  /\ node[n].kind = "forkjoin" /\ Enter(n)
  /\ forks' = Append(forks, n)
  /\ UNCHANGED <<edges, wait, blame, fault, compute, barriers>>

\* A bug for comparison: what the threads did before the join is remembered.
ComputeKept == compute

\* A join sets what every host thread did last to NULL.
ComputeCleared == [s \in Streams |-> IF s \in Hosts THEN NULL ELSE compute[s]]

Join(n) ==
  LET joined == SelectSeq(SetToSeq(Hosts),
                          LAMBDA h : compute[h] # NULL /\ node[compute[h]].stream # node[n].stream)
  IN /\ node[n].kind = "forkjoin" /\ Leave(n)
     /\ edges' = edges \o [i \in DOMAIN joined |-> Edge(compute[joined[i]], n)]
     /\ compute' = ComputeCleared
     /\ forks' = IF forks = <<>> THEN forks ELSE Front(forks)
     /\ fault' = \/ fault
                 \/ forks = <<>> \/ (\E i \in DOMAIN joined : compute[joined[i]] \in deleted)
     /\ UNCHANGED <<wait, blame, barriers>>

Compute(n) ==
  LET s == node[n].stream
      fork == InnerMostFork
  IN /\ node[n].kind \in {"parallel", "task"}
     /\ edges' = IF compute[s] = NULL /\ fork # NULL /\ node[fork].stream # s
                 THEN Append(edges, Edge(fork, PairFirst(n))) ELSE edges
     /\ compute' = [compute EXCEPT ![s] = n]
     /\ UNCHANGED <<wait, blame, fault, forks, barriers>>

\* The wait of a thread that entered a barrier with e, and its way out.
Block(es, e) ==
  LET l == node[e].partner
  IN IF HasEdge(es, e, l) THEN Blocked(es, e, l)
     ELSE Append(es, [Edge(e, l) EXCEPT !.blocking = TRUE])

\* A bug for comparison: the way out is left out.
WaitsOnly(es, e, late) == Block(es, e)
WaitsFor(es, e, late) == Append(Block(es, e), Edge(late, node[e].partner))

\* All threads of the innermost fork have passed a barrier.
Barrier(n) ==
  LET s == node[n].stream
      mine == s \in Hosts /\ n \notin ignored
      passed == IF mine THEN Append(barriers, node[n].partner) ELSE barriers
      full == s \in Hosts /\ forks # <<>> /\ Len(passed) = node[InnerMostFork].ref
      late == Latest(Range(passed))
      early == SelectSeq(passed, LAMBDA e : e # late)
  IN /\ node[n].kind = "barrier" /\ Leave(n)
     /\ IF full
        THEN /\ barriers' = <<>>
             /\ edges' = FoldLeft(LAMBDA es, e : WaitsFor(es, e, late), edges, early)
             /\ wait' = [l \in DOMAIN wait \cup {node[e].partner : e \in Range(early)} |->
                           IF \E e \in Range(early) : node[e].partner = l
                           THEN late - node[l].partner ELSE wait[l]]
             /\ blame' = blame \o BarrierBlame(late, Waited(passed))
             /\ fault' = \/ fault \/ Range(passed) \cap deleted # {}
                         \/ BarrierFails(late, Waited(passed))
        ELSE barriers' = passed /\ UNCHANGED <<edges, wait, blame, fault>>
     /\ UNCHANGED <<forks, compute>>

Opari(n) ==
  IF node[n].kind = "target" \/ (node[n].kind = "barrier" /\ Enter(n))
  THEN UNCHANGED <<edges, wait, blame, fault, forks, compute, barriers>>
  ELSE Fork(n) \/ Join(n) \/ Compute(n) \/ Barrier(n)
-----------------------------------------------------------------------------
(* Target regions (OMPTTargetRule); all streams are of one device.         *)

\* getTargetEnter: the earliest open target region for the device.
TargetEnter ==
  LET T == {t \in Range(targetEnter) : At(data, t) # NULL}
  IN IF T = {} THEN NULL ELSE Earliest(T)

\* The first event of a device stream after a target region began.
FirstOffload(n) ==
  LET s == node[n].stream
  IN /\ Enter(n) /\ node[n].kind # "target"
     /\ IF s \in Devices /\ s \notin DOMAIN firstOffload /\ node[n].caller = NULL
        THEN /\ firstOffload' = With(firstOffload, {s}, n)
             /\ edges' = IF TargetEnter = NULL THEN edges ELSE Append(edges, Edge(TargetEnter, n))
             /\ fault' = (fault \/ TargetEnter \in deleted)
        ELSE UNCHANGED <<firstOffload, edges, fault>>
     /\ UNCHANGED <<targetEnter, firstMarks, wait, blame>>

EnterTarget(n) ==
  /\ Enter(n) /\ node[n].kind = "target"
  /\ targetEnter' = With(targetEnter, {node[n].stream}, n)
  /\ UNCHANGED <<firstOffload, firstMarks, edges, fault, wait, blame>>

\* A bug for comparison: the first event of a region is not looked for.
DeviceWalkEndsAtStart(marks, m) == node[m].rec = "atomic"

\* ompDeviceStreamWalkCallback
DeviceWalkEnds(marks, m) == node[m].caller = NULL /\ m \in marks

\* The host waits in the target region for the device; a stream of the device
\* that did nothing in the meantime makes it use a node that is not there.
LeaveTarget(n) ==
  LET streams == SetToSeq(Devices)
      ended == [d \in Devices |-> IF list[d] = <<>> THEN NULL
                                 ELSE PairSecond(FindLastNodeBefore(n, d))]
      begun == [d \in Devices |-> At(firstOffload, d)]
      lost == Gone(Range(ended) \cup Range(begun))
      end == Latest(Range(ended))
      start == Earliest(Range(begun))
      waited == Elapsed(IF node[n].partner < start THEN start ELSE node[n].partner,
                        IF end < n THEN end ELSE n)
      marks == firstMarks \cup Range(begun)
      walk == WalkBackward(end, {m \in Nodes : DeviceWalkEnds(marks, m)})
  IN /\ Leave(n) /\ node[n].kind = "target"
     /\ IF lost
        THEN fault' = TRUE /\ UNCHANGED <<edges, wait, blame, firstMarks, targetEnter, firstOffload>>
        ELSE /\ edges' = edges \o [i \in DOMAIN streams |-> Edge(ended[streams[i]], n)]
             /\ firstMarks' = marks
             /\ firstOffload' = Without(firstOffload, Devices)
             /\ targetEnter' = Without(targetEnter, {node[n].stream})
             /\ wait' = With(wait, {n}, waited)
             /\ blame' = blame \o Distributed(walk, waited, "device", n)
             /\ fault' = (fault \/ WalkFails(walk, waited))

Target(n) ==
  IF ~ TargetRegions \/ (Leave(n) /\ node[n].kind # "target")
  THEN UNCHANGED <<edges, wait, blame, fault, targetEnter, firstOffload, firstMarks>>
  ELSE FirstOffload(n) \/ EnterTarget(n) \/ LeaveTarget(n)

(* Target regions are known from the measurement with OMPT only.           *)
OmpRules(n) ==
  /\ IF Ompt THEN Target(n) /\ UNCHANGED <<forks, compute, barriers>>
     ELSE Opari(n) /\ UNCHANGED <<targetEnter, firstOffload, firstMarks>>
  /\ UNCHANGED <<readVars, link, data>>

OmpInit ==
  /\ nesting = 0
  /\ regions = <<>> /\ openWorkers = <<>> /\ groups = <<>>
  /\ counts = [s \in Streams |-> <<>>]
  /\ ignored = {}
  /\ forks = <<>>
  /\ compute = [s \in Streams |-> NULL]
  /\ barriers = <<>>
  /\ targetEnter = <<>> /\ firstOffload = <<>> /\ firstMarks = {}
-----------------------------------------------------------------------------
(* Properties.  The field event of a barrier numbers the barriers of the    *)
(* program, which the analysis does not read.                               *)

\* All nodes of the i-th barrier.
BarrierNodes(i) == {m \in Nodes : node[m].kind = "barrier" /\ node[m].event = i}
Live(l) == \E s \in Streams : l \in Range(list[s])

\* The blame of the activities that made others wait, as a whole.
Share(B) == FoldLeft(LAMBDA sum, b : sum + b.num, 0, B) \div (IF B = <<>> THEN 1 ELSE B[1].den)

(* What the threads of a barrier waited is what its last thread is blamed   *)
(* for, no more and no less, and no barrier mixes with another one: neither *)
(* with the next one of the region nor with that of the next region         *)
(* (OMPBarrierRule, omptBarrierRule, omptParallelRule).                     *)
BarrierBlameIsWaiting ==
  \A i \in {node[n].event : n \in {n \in Nodes : node[n].kind = "barrier" /\ Live(n)}} :
    Share(SelectSeq(blame, LAMBDA b : b.why = "barrier" /\ b.for \in BarrierNodes(i)))
      = FoldLeft(LAMBDA sum, l : sum + At(wait, l), 0, SetToSeq(BarrierNodes(i)))

\* A thread that waited at a barrier is reached from the thread that came last.
WaitingIsLinked ==
  \A l \in DOMAIN wait :
    (Live(l) /\ node[l].kind = "barrier" /\ wait[l] > 0) =>
      HasEdge(edges, Latest({e \in BarrierNodes(node[l].event) : Enter(e)}), l)

(* OMPBarrierRule: "set edges from latest enter to all other leaves".       *)
OpariWaitingIsLinked == ~ Ompt => WaitingIsLinked

(* omptParallelRule: "set edges from latest enter to all other leaves".     *)
OmptWaitingIsLinked == Ompt => WaitingIsLinked

(* The first task of a thread is linked to its parallel region and depends  *)
(* on it: "store parallel region ID to associate other threads with this    *)
(* region".  It does not matter whether the thread or the region began      *)
(* first (ompOpenWorkerNodesMap), or which threads have opened other        *)
(* regions in between, until a device opens or closes a region with an      *)
(* identifier.                                                              *)
TasksKnowTheirRegion ==
  LET tasks == {t \in Nodes : Enter(t) /\ node[t].kind = "task" /\ node[t].caller = NULL /\ Live(t)}
      parallel == {r \in Nodes : Enter(r) /\ node[r].kind = "parallel"}
  IN Ompt => \A t \in tasks, r \in parallel :
       node[r].event = node[t].event => At(link, t) = r /\ HasEdge(edges, r, t)

(* A device is blamed for what it did in the target region the host waits   *)
(* in, not for the regions before, and for as long as the host waited       *)
(* (OMPTTargetRule, the first event of a region on a stream).               *)
DeviceBlamedInRegion ==
  \A n \in Nodes :
    LET B == SelectSeq(blame, LAMBDA b : b.why = "device" /\ b.for = n)
    IN B # <<>> => /\ \A i \in DOMAIN B : node[n].partner < B[i].from /\ B[i].to < n
                   /\ Share(B) = wait[n]
=============================================================================
