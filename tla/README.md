# CASITA: specifications, model checking and proofs

CASITA reads an OTF2 trace of a parallel program (MPI, OpenMP, CUDA/OpenCL),
finds wait states and their causes, computes the critical path and writes the
trace again with counters for waiting time, blame and time on the critical
path. The analyser is itself an MPI program: rank *r* analyses process *r* of
the trace. This directory holds TLA+ modules of the parts of it that
are hard to test, the configurations that model-check them with TLC, and proofs
checked by TLAPS. Paths below are relative to `src/src/` unless they begin with
`src/`.

## 1. The system

### 1.1 Components

| component | state | operations | correct when |
|---|---|---|---|
| interval driver, `Runner::processTrace` (`frontend/Runner.cpp:213`) | events available, number of pending MPI nodes, last node, the node the interval began with, events to write | read up to a global collective, agree on an analysis, analyse, write, begin the next interval | all ranks take the same decision; every event is written once; no open region is cut |
| trace reader (`backend/otf/OTF2TraceReader.cpp`) | position in the trace | hands events to callbacks; interrupted at a global collective | stops at the same collective on every rank |
| callbacks (`analysis/CallbackHandler.cpp`) | filter per stream, last pending API event | event to graph node, skipping filtered regions | enter and leave stay paired |
| graph (`backend/GraphEngine.cpp`, `EventStream.cpp`, `Graph.cpp`, `graph/`) | nodes per stream, edges per paradigm, enter stack | insert a node, connect it, cut the graph at the end of an interval | nodes sorted, one incoming edge of a chain, path unbroken |
| MPI streams (`backend/MpiStream.cpp`) | records of non-blocking requests, by request and by id | keep the peer data read, hand it to the node, complete requests | a record lives as long as a node or a request refers to it |
| MPI rules (`analysis/include/mpi/`) | blocking edges, map of remote nodes, waiting time, blame | replay the communication in both directions | the replay gets through; two processes agree on who waited |
| critical path detection (`Runner::detectCriticalPathMPIP2P`) | master or slave, current node, section list | walk back, hand over at wait states | one walker, everyone stops, no section lost |
| ends of the path (`Runner.cpp:1017`, `:1138`) | global first and last event | all-reduce of times | one rank holds each end |
| local critical path (`Runner::getCriticalLocalNodes`, `Graph::getCriticalPath`) | per-section longest path | computed section by section | connects the two ends of a section |
| OpenMP analysis (`AnalysisParadigmOMP.cpp`, `omp/`) | fork/join stack, barrier events per region | wait states at barriers and joins | each barrier evaluated once with all threads |
| offload analysis (`AnalysisParadigmOffload.cpp`, `offload/`, `DeviceStream.cpp`) | pending kernels per device stream | kernel launch, execution, synchronisation | every kernel is attached to its launch |
| blame distribution (`BlameDistribution.hpp`) | blame per edge | walk back from a wait state | what is distributed adds up to the blame |
| trace writer (`OTF2ParallelTraceWriter.cpp`) | current graph node per stream, counters | second pass through the events | counters belong to the region on top of the stack |
| summary (`Runner.cpp:500-940`, `Statistics.cpp`) | activity groups, statistics | merge on the root | sums over all ranks |
| tables, options, definitions | constant after start | | |

### 1.2 How they interact

One analysis interval is: `processTrace` reads events; the callbacks insert
nodes into the graph and, for MPI, into the `MpiStream`; at a collective of all
processes the reader is interrupted and the driver may begin an analysis. Then
`AnalysisEngine` applies the rules of every paradigm to the nodes of the rank in
order of time. The MPI rules talk to the partner's rule *by the very
communication they analyse*, in the forward and in the reverse direction; what
they find (blocking edges, remote nodes, waiting time, blame) is the input of
the critical path detection, a token protocol between the ranks; its result, a
list of sections of every rank, is the input of the local analysis. At the end
the events of the interval are written and the graph is cut.

### 1.3 What is hard

* The replay blocks in MPI calls whose partner is another rule in another
  process. A rule that returns early, or a record deleted too early, does not
  give a wrong number but a process that waits forever.
* Messages, answers and requests are completed in an order the program being
  analysed chose (`MPI_Wait`, `MPI_Waitall`, `MPI_Test`, `MPI_Testall`).
* Two processes decide independently, from the same four times, who was late.
  At equal times they must not both wait.
* The detection receives from any source with one tag, in every interval.
  A message too many ends or diverts the search of the next interval.
* A wait state of `MPI_Wait` may refer to a node *later* in time; the walk
  must end all the same.
* Sections are computed by slaves while others walk.
* The streams of a process are analysed together, in the order of their events,
  and that order is whatever the program made of it: a worker of OpenMP may
  begin before its region is opened and leave it after it is closed, a kernel is
  attached to its launch by nothing but its place in a queue.
* At the end of an interval most nodes are deleted, while a dozen maps, queues
  and links of the analysis refer to nodes. What is not cleared dangles; what is
  cleared too early is missing in the next interval.
* The writer goes through the events a second time and pairs them with the
  nodes by counting. A single event that one of the two passes treats
  differently shifts everything after it.

`PROJECT.json` lists the hazards with their lines.

## 2. The modules

| module | models | uses |
|---|---|---|
| CriticalPathReplay | detection of the critical path over MPI, `frontend/Runner.cpp:1488-1915` | |
| CriticalPathWalk | what the detection promises: a single walker | |
| CriticalPathRefinement | the detection implements the walk | both |
| CriticalPathProofs | proofs: one walker, no message left; the path found is complete and goes back in time | CriticalPathReplay |
| CriticalPathRefinementProofs | proof that the detection implements the walk | CriticalPathRefinement, CriticalPathProofs |
| MpiTrace | MPI programs and the times an MPI library can give them | |
| MpiReplay | the MPI rules, `analysis/include/mpi/`, and the requests, `backend/MpiStream.cpp` | MpiTrace |
| FiniteSums | lemmas: least and greatest numbers, sums of a function over a finite set | |
| MpiReplayProofs | proofs: messages and answers are paired, records outlive requests | MpiReplay, FiniteSums |
| MpiWaitProofs | proofs: wait states are real, form no circle, and are blamed on who was late | MpiReplayProofs |
| MpiAnalysis | replay and detection of all ranks, composed | MpiReplay, CriticalPathReplay |
| MpiAnalysisProofs | proofs: the replay hands over what the detection needs, which keeps its promises without a barrier | MpiAnalysis, MpiWaitProofs, CriticalPathProofs |
| IntervalDriver, IntervalDriverProofs | `Runner::processTrace`, `Runner.cpp:213-412`, and the collective operations of an analysis | |
| ActivityGraph | the graph of one process, `GraphEngine.cpp`, `EventStream.cpp`, `graph/`, `BlameDistribution.hpp` | |
| LocalCriticalPath | `Graph::getCriticalPath`, `Runner::getCriticalLocalNodes` | ActivityGraph |
| OffloadAnalysis | `AnalysisParadigmOffload.cpp`, `offload/`, `DeviceStream.cpp` | LocalCriticalPath |
| OpenMPAnalysis | `AnalysisParadigmOMP.cpp`, `omp/` | LocalCriticalPath |
| AnalysisEngine | one process: reading, rules, path, next interval; `CallbackHandler.cpp`, `AnalysisEngine.cpp` | the two above |
| TraceWriter | the second pass, `OTF2ParallelTraceWriter.cpp`, and the order of nodes it relies on | |
| TraceWriterProofs | proofs: the second pass meets the node of every event, the idle times it counts are right | TraceWriter, FiniteSums |
| MC... | small instances of the above for TLC | |

There are two compositions. `MpiAnalysis` has all ranks, but only their MPI activities;
`AnalysisEngine` has one rank with its threads and its device. The two halves share
the graph, but no rule of one reads what a rule of the other writes;
`IntervalDriver` has what the ranks agree on between intervals.

What is left of the plan: the theorems named at the end of section 6 and the parts in section 7.

## 3. State and actions

### 3.1 CriticalPathReplay

`Runner::detectCriticalPathMPIP2P` and the local processing of what it collects.
Activities of a rank are numbered; activity 0 is `MPI_Init`, or the atomic node
that an intermediate interval begins with (`atomicStart`, chosen from
`AtomicStarts`). `blocking` and
`remoteNode` stand for the activity edges and `MPIAnalysis::remoteNodeMap`. Any
graph a replay could leave behind is an initial state: any set of wait states,
referring to any activity of another rank, earlier or later. The one condition
is that exactly one rank did not wait in its last activity: that is what the
rule of the last collective guarantees (module MpiAnalysis checks it).

| state | code |
|---|---|
| `pc` | `isMaster`, and where the rank is in the function |
| `cur`, `sectionEnd`, `sectionList` | `currentNode`, `sectionEndNode`, `sectionsList` |
| `onPath` | nodes whose counter `CRITICAL_PATH` is 1 |
| `localPath` | gaps between MPI activities whose local critical path was computed |
| `chan`, `sendTo`, `toNotify` | messages with tag `PATH_FOUND_MSG`/node id, the `MPI_Send` a rank is in, the rest of the loop that tells the others |

Every action is one pass through the master or slave loop, split where MPI may
block. `HandOver` starts the send and `HandOverReturns` is its return: only then
does the rank forget the remote node and become a slave, so that for a while
the new master and the old one are both active.

`CriticalPathWalk` is what the protocol promises: one walker that jumps from a
wait state to the activity it refers to. `CriticalPathRefinement` maps the state
of the protocol to the walker: it is where a master is or where the message on
its way points to.

### 3.2 MpiTrace and MpiReplay

`MpiTrace` has the trace: a program of MPI operations per rank and their times.
`ValidTiming` says which times an MPI library can produce (a receive is not left
before the send is entered; nobody leaves a collective before all have entered);
only such traces are initial states. `MpiReplay` applies a rule to each
activity. A rule with several blocking MPI calls is several actions (`StartSend`,
`SendReturns`, `FinishSend`). `sent` and `posted` implement MPI's matching: the
*k*-th message from *s* to *d* with a tag meets the *k*-th receive. An
`MPI_Send` may return at once or only when its receive has been posted.

Programs are a parameter; `LegalProgram` says what the analyser may rely on in any of them,
as the standard demands it of an MPI program whose requests are complete at the end of the
interval: as many sends as receives between two ranks with a tag, the same sequence of
collectives on every rank, requests completed after they were started. A rank has at least two
activities, as the first is `MPI_Init` and the last `MPI_Finalize`, both collectives in the eyes of
the rules (`ActivityNumbers`, `{0, LastActivity[r]}` in `LegalProgram`). `PutNode` is the
assignment to `remoteNodeMap`, which replaces the entry of an activity.

`SendOutcome`, `RecvOutcome`, `SendrecvOutcome`, `WaitOutcome`, `WaitallOutcome`,
`CollectiveOutcome` are the decisions of the rules: who waited for whom, how
long, and whose blame it is. `records`, `openRecv` and `openSend` stand for
`mpiIcommRecords` and for the requests a record holds.

Two values in the code are unspecified and are choices here: whether `MPI_Test`
reports a send complete (`TestAllPendingRequests` chooses any subset), and what
the rule of an `MPI_Wait` reads from a record that has been freed
(`WaitOnDeletedRecord`).

### 3.3 MpiAnalysis

The replay, then the detection on the graph the replay produced: the two modules
composed over the shared variables `blocking` and `remoteNode`. There is no
barrier in between: a rank begins the detection when its own replay is done,
while others still replay. Their messages cannot meet, as the replay uses the
communicators of the trace and the detection `MPI_COMM_WORLD`.

### 3.4 IntervalDriver

`Runner::processTrace`: reading and analysing in turns. The trace of a rank is a
sequence of segments, each ended by a collective of all processes; events are
counted in segments. A segment adds any of `NodeCount` nodes to the graph and ends
with or without an open OpenMP region or a pending kernel (`open`), which the
ranks do not know of each other. What the analysis and the writer do is
left to the other modules; here they are the collective operations of the
analyser they consist of, so that the question is whether all ranks call the
same ones.

| state | code |
|---|---|
| `pc` | reading, finished, or the collective operation a rank is in |
| `lastNode`, `beginNode`, `intervalNode` | id of the last and of the first node of the graph, `interval_node_id` |
| `intervals`, `available`, `toWrite` | `analysis_intervals`, `events_available`, `events_to_read` |
| `segment`, `open`, `written` | what was read, whether a region is open, what the writer went through |
| `calls` | the collective operations called, with what was contributed to the reduction |

A rank leaves a collective operation when all ranks have called as many of them
(`Complete`). `"replay"` stands for the exchange about the collective that ends
the interval, `"detect"` for the barrier at the end of the detection, `"write"`
for that of the writer. In the summary only the root has to wait. The
maximum of the contributions is what `MPI_Allreduce` returns; `UINT64_MAX` is
a number larger than any count of nodes.

### 3.5 ActivityGraph and LocalCriticalPath

A node is named by its place in the order in which the reader delivers the events,
which is also its time; a pointer is a name, `NULL` is 0, and a pointer kept in a map
is a partial function (`At`). Deleted nodes keep their name in `deleted`: what follows
a pointer asks `Gone` and sets `fault` instead of reading what is not there. Times are
`uint64_t` in the code: the difference of two times is `Elapsed`, modulo `TimeSpan`, so that a time
subtracted from an earlier one gives a huge number as it does in the code, and not a negative one. `TimeSpan` stands for
2^64; it is 65536 in the configurations, far above any sum of times of a trace of some twenty events. `fault`
stands for everything that ends the process: an exception, a failed assertion, a node
that is missing.

| state | code |
|---|---|
| `node`, `list`, `stack` | `GraphNode`, `EventStream::nodes`, `pendingGraphNodeStackMap` |
| `edges`, `blame` | the edges in the order of their creation, and `Edge::addBlame` as a share *num/den* of the waiting time of the node `for` |
| `left`, `right`, `unlinked` | `linkLeft`, `linkRight`, `unlinkedMPINodes` |
| `link`, `data` | the pointers the rules keep in a node |
| `wait` | the counter `WAITING_TIME` |
| `first` | first node of `Graph::nodes`, the source excluded |
| `filtering` | `EventStream::isFiltering` |

`AddNode` with `StreamEdges` is `addNewGraphNodeInternal`; `WalkBackward`,
`FindLastNodeBefore` and `Distributed` are the walks of the rules, with the two
assertions of `distributeBlame` in `WalkFails`. `LocalCriticalPath` is the loop of
`getCriticalPath` as a recursive function (`Step` is one round), its check
for loops and the search for a node before included.

### 3.6 OffloadAnalysis

One operator per registered rule, each the whole rule: `KernelEnter`, `KernelLeave`,
`Sync` (synchronisation with a stream or with all of them, and blocking transfers, which the
code treats alike), `EventRecord`, `EventSync`, `EventQuery`, `StreamWait`.
`PostOffload` is what happens while reading: `launches` is a queue per device
stream, and a kernel belongs to the launch at its head (`FirstLaunch`).

| state | code |
|---|---|
| `launches`, `pendingKernels` | `pendingKernelLaunchMap`, the count of kernels that keeps an interval from ending |
| `pending`, `running` | `DeviceStream::pendingKernels`, `runningKernelEnter` |
| `eventLaunch`, `eventStream`, `eventQuery`, `streamWaits` | maps of CUDA events |
| `active`, `idleStart`, `delay`, `overlapping` | members of the idle rule and of `--link-kernels` |

`idle_start_time` and `delay500us` are set by no constructor; their first values are
those of `Uninitialised`, or the right ones; where the options are such that no rule reads one of them, its first value is 0.

A synchronisation with an event whose kernel has not begun when it ends is deferred: its leave is kept at the launch, and
`KernelEnter` charges it when the kernel begins. With one clock for host and device this cannot be; the
traces `Displaced` are those of a device whose clock is ahead. The waiting time is then the difference of two times in the wrong order
(finding *deferred*). `IsDeferred` names these synchronisations.

### 3.7 OpenMPAnalysis

Traces of OPARI2 are analysed by rules (`Fork`, `Join`, `Compute`, `Barrier`), traces of
OMPT while they are read (`PostOmpEnter`, `PostOmpLeave`, `OmptBarrier`, `OmptParallel`),
with target regions by `EnterTarget`, `FirstOffload`, `LeaveTarget`.

| state | code |
|---|---|
| `regions`, `openWorkers` | `ompParallelIdNodeMap`, `ompOpenWorkerNodesMap` |
| `counts`, `groups`, `ignored` | `ompParallelBarriersMap`, `ompBarrierNodesMap`, counter `OMP_IGNORE_BARRIER` |
| `forks`, `compute`, `barriers` | `forkJoinStack`, `ompComputeTrackMap`, `ompBarrierListHost` |
| `targetEnter`, `firstOffload`, `firstMarks` | `ompTargetRegionBeginMap`, `ompTargetDeviceFirstEventMap`, counter `OMP_FIRST_OFFLOAD_EVT` |

`RegionMap` is empty for a stream of a device: `parallelMap = ompDeviceParallelIdNodeMap`
assigns through a reference and so overwrites the map of the host (finding *regions*).
`TasksKnowTheirRegion` is checked in `rules` with regions that other threads open between a region and its tasks, before or after
these begin, and in `regions` with one that a device opens.

### 3.8 AnalysisEngine

A process in the phases `read`, `rules`, `begin`, `done`. A program gives the
events of every stream and the pairs of events that can happen in one order only;
`Read(s)` takes the next event of any stream that is `Ready`, so that the
interleavings are those a trace can have. `MayStart` is where an interval may end; whether
it does depends on other ranks and is a choice. `ApplyRules` handles the earliest node left,
`FollowPath` computes the local path of the section between the first and the last MPI
activity, `IntermediateBegin` is `createIntermediateBegin` with the `reset` of the analyses:
which nodes stay (`Kept`), which launches stay (`LaunchesLeft`), and what goes on
referring to a deleted one.

### 3.9 TraceWriter

The trace is one sequence of events, with times that may coincide. `Read` decides which events
have a node and where it goes in the list of its stream (`Inserted`, by `Less`); `Mark` puts
the outcome of an analysis into the graph: any path from MPI activity to MPI activity, through the nodes
of the worker threads and of the device as well (`IsPath`), and blame on any `MaxBlamed` edges; `WriteLocations` prepares the streams;
`Write` is `processNextEvent` and its callbacks for one event of the trace;
`IntermediateBegin` and `FinalizeStreams` end an interval and the trace.

| state | code |
|---|---|
| `writer` | `StreamStatus`: current node, stack, open edges, time of the last event |
| `profile` | `ActivityGroup` of a region: count, duration, duration on the path, blame |
| `device`, `stats` | use of the device, and idle, computing and transfer times |
| `pathPieces`, `blamedPieces` | edges on the path or with blame, of all intervals |
| `strayed` | `processNextEvent` met the node of another region, or none |

Blame is counted in units of the duration of its edge, so that shares are whole numbers.
`TraceAssumption` is what the model takes for granted of a trace.

## 4. Runs

| run | question | bounds |
|---|---|---|
| walk | one walker at a time; the others are told exactly when the path is complete; no message is left; the stretches the walk crosses are exactly those computed; the ranks together do what one walker does; the detection ends | two ranks, two activities, every graph, a first and a later interval; 197,490 states |
| pairs | wait states name the right partner; no waiting time longer than the activity; no request outlives its record; no message is left over; waiting time of one side is blame of the other; what the replay finds satisfies the assumption of the detection; no wait state is on the path; replay and detection end | two ranks, eleven programs (three of blocking calls, eight with requests), all valid times up to 6; 99,915 states |
| ring | whoever is waited for is blamed, for `MPI_Sendrecv` with two partners; waits of three ranks form no cycle; the walk goes back in time | three ranks, four programs of blocking calls, all valid times up to 5; 133,407 states |
| driver | the ranks call the same collective operations at the same places; the graph is not cut inside a region; nothing piles up; every event is written once; the analysis ends | two ranks, four segments of one or three nodes, threshold 2, any open regions; `UINT64_MAX` is 1000; 165,612 states |
| rules | nothing missing or deleted is used; kernels know their launch; a wait is blamed once, on the kernels of its time; a blocking edge has a cause; idle time is blamed on nobody while the device works; the path avoids waits; blame for a barrier is the waiting time at it; who waited is linked to who came last; a task knows its region; the device is blamed within target regions only; teams are joined with their own fork | offloading: one host thread and two device streams with twelve programs, two threads with one; `Delay` 2, `Uninitialised` {1}; four combinations of options; threads: seven programs of OPARI2 and OMPT on two threads, two with target regions on two device streams; every interleaving; 1,050,619 states |
| output | events meet their nodes; profiles add up to durations, path and blame of the trace; idle time is idle | five programs; every path, any edge with blame; events one after another, in pairs or in threes at the same time; every place for an interval to end; 2,068,934 states |
| testall, query, ompt, deferred, regions, filter | see *Findings* | one or two programs each |

The bounds are small but reach what matters. Two ranks and two activities let the walk return to
a rank it came from and let the old and the new master be active together; what a third rank
adds (being told while the second is master) is covered by the proofs, for any number of ranks.
Times up to
5 or 6 give every order, and every coincidence, of the enter and leave times of
the two activities of a message. Two kernels on two streams give every overlap; a second
interval gives everything that can be left over from the first. A region of another thread between a region and its task needs
two identifiers. Programs are chosen, not
enumerated: one per
pair of rules that talk to each other. In `output` the times are three patterns and not all: an event alone,
together with its predecessor, and pairs shifted against each other, so that every two
neighbours coincide in one of them. `AtomicStarts` is {FALSE} in `MpiAnalysis`: it has
first intervals only. `WalkGoesBack`, `LateIsBlamed` and `Acyclic` are checked in `ring`, whose programs have blocking calls only: with requests
an `MPI_Wait` may refer to a later activity (`WaitRule.hpp:115`), and `WalkGoesBack` and `Acyclic` fail (see *Circular waiting*);
what holds of them then, and is checked in `pairs`, is `NoWaitingOnPath`.

Deadlock is checked in all passing runs: the only state without a real step is the end.
Only `testall` switches it off, as its replay stops.

`NoFault` in `rules` holds for the options it lists. Two threads run without the idle
rule: with it `findFirstLaunchInIdle` throws at the first node of a second thread that was created
after the idle time began, which is in the list of hazards.

### Fairness

`Work(r)` (or `Rule(r)` together with `CallTaken(r)`): an MPI process that can
continue does continue, weak fairness per process. A send is guaranteed to return only once
its message is received (`Received(r)`, `CallTaken(r)`): MPI guarantees nothing
earlier. It may return before. Messages arrive in the order they
were sent for the same pair and tag, as MPI demands; in particular there is no
loss and no duplication. `AnalysisEngine` and `TraceWriter` are one sequential process
each: `WF_vars(Next)`, that it runs.

## 5. Disagreements

### Findings

* **testall**: `MPI_Testall` removes the record while reading; the rule of the
  `MPI_Isend` then sends nothing and the partner's replay waits forever.
* **query**: `reset` forgets the records of CUDA events but not the queries, against its own
  comment (`AnalysisParadigmOffload.cpp:119`). The next query of the event follows a pointer to a deleted node.
* **ompt**: with more than one barrier in an OMPT region, the edge to a thread that waited is
  missing, against the comment at `AnalysisParadigmOMP.cpp:105`; the edges all go to the
  last barrier of the thread that opened the region.
* **deferred**: a synchronisation is charged with its waiting time when its kernel begins, which is
  after it has ended (it would not have been deferred otherwise): `KernelExecutionRule.hpp:131` subtracts the later time from the
  earlier one, and about 2^64 is added to the waiting time of the synchronisation and to the blame of the kernel. The comment above
  (`:95`) wants "waiting time", which a counter describes as "Time in a wait state"; `DeferredFits` says that it is no longer than the
  activity. `WaitIsBlamedOnce`, which holds, says so of all other waits, and of the deferred ones that blame and waiting time agree.
* **regions**: a device that enters or leaves a parallel region with an identifier, or begins a task, overwrites the map of the regions of the host with
  the one of the devices, which is empty (`AnalysisParadigmOMP.cpp:189`, `:450`, `:505`). A worker of the host that begins
  its task after that is not linked to its region, against the comment at `:462`.
* **filter**: a filtered region of a paradigm has a node that the writer passes over, and a fork
  in a filtered region has an event that the reader passed over. Either way the writer is
  out of step from then on.

### No run of its own

The definitions for these are in the modules; a configuration with the named programs and
property shows them.

* *Circular waiting.* Two processes that exchange messages by requests and await
  their sends first are found waiting for each other: `WaitRule.hpp:94` compares
  with the *end* of the partner's `MPI_Wait`. The graph is then not a DAG (`src/README:10`). As `ring`,
  with `TwoRanks`, `Last5`, `ExchangePrograms`, `Times4`: `Acyclic` fails. Three processes with
  blocking calls can form a circle as well, one that is closed through the order of the activities
  of a rank: an `MPI_Sendrecv` waits for whoever of its two partners is the later, by a time
  that partner may have waited itself. As `ring` with `CircularPrograms`, `Times2Long`:
  `NoCircle` of `MCMpiReplay` fails. `Acyclic` is what holds of blocking calls: in any set of activities one
  depends on no other, unless one of the set waits for another that itself waited, *and* one is
  preceded by another. The detection copes, as
  a remote node is used once (`walk` has all graphs, with cycles).
* *`MPI_Sendrecv` with a single partner* leaves the
  reverse direction out, although the partner may have used `MPI_Recv` and
  `MPI_Send`, whose rule waits for it (`SendRecvRule.hpp:98`). As `testall` with
  `MixedPrograms`: `ReplayEnds` fails.
* *Crossed exchanges.* An `MPI_Sendrecv` with a single partner looks at the message it received only
  (`SendRecvRule.hpp:78-96`). When the tags make it receive from one `MPI_Sendrecv` of the partner and send to another
  one, who waits for it is told so by a message, and it never hears of it: the waiting time is blamed on nobody.
  As `ring` with `TwoRanks`, `AllTags`, `CrossedPrograms`: `LateIsBlamed` fails.
* *A deleted record.* A collective between `MPI_Isend` and `MPI_Wait` may delete
  the record whose pointer the node of the `MPI_Wait` holds (`MpiStream.cpp:753`). As `pairs` with
  `CollectivePrograms`: `WaitFindsRecord` fails.
* *The start of the path is determined twice.* With exactly one intermediate analysis, the last pass of the
  loop counts as the first interval too (`Runner.cpp:365`, comment at `:1135`). As `driver` with two
  segments: `StartFoundOnce` fails. All ranks agree on it, so nobody waits.
* *A stale iterator.* A stream without nodes in an interval is passed over when the streams are prepared
  (`OTF2ParallelTraceWriter.cpp:800-804`) and keeps the iterator into a vector that has been cleared. At its next
  event without node the writer compares this iterator with the end of the vector and follows it (`:1718`, `:1972`). As `output`
  with `IdleWorkerPrograms`: `WriterMeetsNodes` fails.

### Met while modelling

What the modules do as the code does, and a reader of the code may not expect:

* A failed query of an event is made blocking although no other edge leads to its leave. `PathAvoidsWaits` and `BlockedHasCause`
  say which blocking edges have a way around them.
* An MPI node is made the last of its stream before it is linked to "the last local node", so it is linked to itself
  (`EventStream.cpp:306-318`, `LeftOf`); a section whose link leads nowhere has its two ends only.
* `SyncRule`, entered after the kernel has ended, takes the last kernel off the list without linking it.
* `consumePendingKernels` takes everything if the kernel is not in the list (`Consumed`).
* Launches in a filtered region are not in the queue; the queue is then a launch behind its kernels for good.
* `streamWaitMap` and `ompBarrierListHost` are never cleared; `AnalysisParadigmOMP` has no `reset`.
* The barrier rule of OPARI2 counts up to the number of *requested* threads.
* A worker of OMPT whose leave comes after the region is closed opens a group of barriers that nobody evaluates.
* The constructor of `Edge` assigns to its parameter `blocking` where it means the member: reverse edges are not blocking.
* `Node::compareLess` exchanges the leave of one paradigm and the enter of another at the same time (`Swapped`), and is no strict weak order then.
* `handleLeave` of an event function without event makes no node; the writer still expects one.
* In a region of OpenMP around MPI calls, the time on the path before its own leave is not counted in the profile; `IsPath` leaves such paths out.
* The same goes for a path that enters a thread in the middle of its parallel region, say at the leave of a barrier: the enter of the region
  is not on the path, and until the leave of the region is reached nothing of it is counted.
* The thread that comes last to a barrier of OMPT has two edges from its enter to its leave, the one that was made blocking and an additional one that is not;
  `PathAvoidsWaits` leaves it out (`CameLast`).
* Idle time of a device is counted again when events of the device follow `RmaWinDestroy`; a device task before the first API
  call leaves the reference count off by one.
* `computeBlameMap` erases an element of the open edges and then increments the iterator: with two open edges that end
  together the outcome is undefined. `MaxBlamed` is 1 for this reason.
* Tags that differ by 10000 (`ReverseTag`) would mix a message up with an answer.
* "Reader and writer are not synchronous! Aborting ..." ends the loop of one rank
  only, the others wait for it in the next collective operation (`LeaveLoop`, under
  `WriterMayFail`).

## 6. Proofs

Every theorem holds for any values of the constants that satisfy the named assumptions of the
modules: any finite set of ranks, any number of activities, any programs that are
legal, any times that are valid. TLC checks the same properties on the runs of section 4, and
the inductive invariants were checked on them before they were proved.

### 6.1 The detection: CriticalPathProofs

For any graph of wait states and either kind of start:

* `TypeCorrect`, `ProtocolInvariant`: `Spec => []TypeOK`, `Spec => []ProtocolInv`, and from it
  `AtMostOneMaster`: `[]OneMaster`, `EndIsSound`: `[]FoundWhenLost`, `NothingLeftBehind`:
  `[]NoStaleMessage`;
* `GapInvariant`: `Spec => []GapInv`, and from it `NoGapIsLost`: `[]NoGapLost`,
  `NothingElseComputed`: `[]OnlyCrossedGaps`, `PathIsComplete`: `[]PathComplete`;
* `PathAvoidsWaitStates`: with times in which every wait state refers to an activity entered
  before it was left, the walk never crosses a wait state.

`OneMaster` alone is not inductive: a slave that receives a "found" message
leaves, and a rank at the end may still be telling others, while nothing says that
no handover is on its way. `ProtocolInv` adds: somebody holds the path or has
reached the end (`PathSomewhere`); once a rank is at the end the path is nowhere
(`EndMeansLost`); a found message has exactly one addressee that has not left
and is the only message to it (`ToldOnce`); who is still to be told has no
message under way (`TellsUntold`); nothing is sent to a rank that has left
(`NoStaleMessage`). The proof has one lemma per kind of step: steps that leave
the path where it is, handing over, receiving, reaching the start,
telling. It relies on `HandOver` sending to *another* rank, part of the
type of `remoteNode`.

`GapInv` relates the section list to the walk: what has been crossed is computed, in the list,
or in the open section (`OpenCrossed`, `Collected`, `OnlyCrossed`), the open section
ends where the rank is (`Place`), and a remote node is an activity that exists (`TargetsExist`).
The difficult case is a rank that becomes master a second time while its list is not empty.

`BackInv`, for the last theorem, needs more than that each hop goes back in time:
a walk can go forward within the activity it arrives in, as `MPI_Wait` may name a later
one. `PastUsed` says that once the walk has changed ranks at a wait state, every place at
which it can be continued, here or in a message, is earlier than the end of that wait
state. The walk would have to go past this end to meet the wait state again.

### 6.2 The detection implements the walk: CriticalPathRefinementProofs

`WalksAsOne`: `Spec => WalkSafety`, the safety part of `CriticalPathWalk` under the mapping of
`CriticalPathRefinement`: initial states map to initial states, and every step of the
protocol is one step of the single walker or none. Sending, waiting for
`MPI_Send` to return, and telling the others are invisible; receiving is the jump. The invariant adds to
`ProtocolInv` that a rank hands over only at the leave of an activity (`WaitsAtLeave`), that
one rank finds the start (`OneFinder`), and `FirstOrInside`.

### 6.3 The replay: MpiReplayProofs, MpiWaitProofs

* `BuffersOutliveRequests`: `Spec => []BuffersAlive`;
* `ReplayLeavesNothing`: `Spec => []NothingLeft`;
* `WaitsAreForPartners`: `Spec => []WaitsForPartner`; `WaitingFitsTheActivity`: `Spec => []WaitingIsSpent`;
* `WaitsAreAcyclic`: `Spec => []Acyclic`;
* `TheLateIsBlamed`: `Spec => []LateIsBlamed`; `NoWaitingIsLost`: `Spec => []WaitingIsBlamed`.

The first holds for all legal programs. The others have hypotheses, each of which stands for a
disagreement of section 5 or its neighbours:

| hypothesis | without it |
|---|---|
| `NoTestall`: no `MPI_Testall` in the program | finding *testall*: the partner gets no answer |
| `TagsApart`: no tag of the program is another one plus 10000 | an answer is taken for a message |
| `PartnersAnswer`: an `MPI_Sendrecv` with a single partner talks to another such one | the partner's rule waits for an answer for ever |
| `BlockingOnly`: no requests (`WaitsAreAcyclic` only) | *circular waiting* |
| `SinglesPair`: of two `MPI_Sendrecv` with a single partner each, one receives what the other sends (the last two only) | *crossed exchanges* |

The programs of `pairs` (but for the one in which both sides use `MPI_Testall`) and of `ring`
satisfy the first three, `BlockingPrograms` and those of `ring` the fourth, all of them the
fifth. `TagsApart` is a condition on the constants that any program with tags below 10000 satisfies.

The invariant `Booked` is a balance: for two ranks and a tag, in either direction, the messages
sent and the receives posted are as many as the operations whose rule has come that far (`Ledger`,
with `ForwardMail`, `ReverseMail`, `ForwardPosts`, `ReversePosts`), and the indices a rule keeps
are places in this order (`Indexed`). It says which message is which without a
word about the order of the steps of different ranks. At the end the balance, with `LegalProgram`,
leaves nothing over. `Understood` adds the content: a message under way is the one of
the activity at its place in the order (`Letter`), hence the
partner a rule concludes it waited for is the one `Matches` names (`Findings`, `Cause`).
`BuffersAlive` needs no balance but the handles: a request in `openRecv` or
`openSend` belongs to a record not yet closed.

For the blame, `Judgements` says what every rule has concluded, or will have: the `Verdict` on an activity is a
function of the trace alone, of its times and those of the activities it matches, and the results of an activity
are its verdict from the moment its rule is through (`Past`) and nothing before. So the results of two partners can be compared at the
end although neither rule has seen the other's: `VerdictOfSender` and `VerdictOfReceiver` give
the two sides of one message, and `LateReceiver`, `LateSender` and `PairAgrees` compare them. The verdict on a collective is the same
function on all ranks (`CollectiveAlike`), which makes the last one the same for all. The sum over the ranks is
the fold of the rule; `FiniteSums` proves of this fold what one expects of a sum, without induction over the data: a least set for which it fails
would have a part that can be taken out.

For `WaitsAreAcyclic`: in a set in which no activity precedes another, the last to be entered, or
the one it waits for, depends on no other (who waits has entered before, or at the same time as the last of a
collective, which does not wait); in a set in which nobody who is waited for waits, it is the first to be left, or
the one it waits for. With both chains in one set neither argument holds, and there is the circle of section 5.

### 6.4 Replay and detection together: MpiAnalysisProofs

* `AnalysisInvariant`: `AnalysisSpec => []AnalysisInv`;
* `ReplayHandsOver`: `[]DetectionInput`, what `CriticalPathReplay` assumes of its initial graph;
* `DetectionNeedsNoBarrier`: from the moment the first rank has replayed `MPI_Finalize`, every step of
  the analysis is a step of the detection or none;
* `DetectionKeepsItsPromises`: `NoGapLost`, `OnlyCrossedGaps`, `PathComplete`, `NoStaleMessage` in the
  composition;
* `PathGoesBack`: `[]WalkGoesBack`, and `PathAvoidsWaiting`: `NoWaitingOnPath`.

The first four under `NoTestall`, `TagsApart`, `PartnersAnswer`, the last ones
under `BlockingOnly` instead of `NoTestall`, as `MPI_Wait` may refer to something later.

The code has no barrier between the replay and the detection, so that the theorems of 6.1 do not
apply as they stand: their graph is constant, while here other ranks still write to theirs.
But a rank is through with `MPI_Finalize` only when all ranks are in it (`Joined`, which rests on
`Counted`: as many collectives begun as `MPI_Allgather` called), and what the others will conclude
there is already determined: all ranks but the one that entered last (`LateRank`) get a wait state that
refers to it. `Edges` and `Nodes` are the graph with this foreseen. From then on it is constant but for what the
detection itself removes: the steps of the replay leave it alone, and those of the detection are
steps of `CriticalPathReplay` on it. So the instance `D` of the proofs in 6.1 applies, with its constants
and assumptions proved (`DetectionConstants`). The times that `PathAvoidsWaitStates` asks for
come from `Understood`.

### 6.5 The interval driver: IntervalDriverProofs

For any finite set of at least two ranks, any number of
segments, any threshold and any numbers of nodes (the assumptions of
`IntervalDriver`):

* `RanksStayInStep`: `Spec => []CollectivesMatch`;
* `EverythingIsWritten`: `Spec => []EventsWritten`;
* `IntervalsEndOutside`: `Spec => []OutsideRegions`;
* `NoBacklogIsKept`: `Spec => []NoBacklog`;
* `DriverTypeCorrect`: `Spec => []TypeOK`.

All but the last assume `~WriterMayFail`: a rank whose writer is out of step leaves the
loop alone.
The invariant is `DriverInv`: types, and `intervalNode <= lastNode` (`Typed`); no rank is
two calls ahead (`Lockstep`); every call of a rank is a function of the call
before it and of the value all ranks got from it (`History`, with `Follows`);
the variables of a rank are those of its last call (`Place`); and
`CollectivesMatch`. From `Lockstep` a rank that returns from an operation has
the same contributions before it as any other rank, hence the same
maximum, and by `History` it makes the same next call. `CollectivesMatch` alone says
nothing of the variables the next call is computed from.

`GraphInv`, for `OutsideRegions` and `NoBacklog`, adds what was contributed: `UINT64_MAX` where a region
was open, the number of nodes otherwise (`Contributed`), so that the common maximum tells of the regions of *all*
ranks. It needs `IntervalIds`: the number of nodes stays below `UINT64_MAX`, the value that means "open".

### 6.6 The trace writer: TraceWriterProofs

`WriterMeetsItsNodes`: `Spec => []WriterMeetsNodes`, for any programs and times that satisfy
`TraceAssumption` (times do not decrease, one thread calls the collectives), over any number of intervals and whatever
the analysis has put into the graph. The property itself excepts a writer that went astray because two nodes of one time
were exchanged (`Swapped`). There are two more hypotheses on the program:

| hypothesis | without it |
|---|---|
| `FiltersFit`: a region with a node is not filtered, and no team begins or ends in a filtered region | finding *filter* |
| `StreamsStayBusy`: a thread that has had nodes and has an event without node in an interval, has a node in it too | *a stale iterator* |

The programs of `output` satisfy both. Reader and writer share no state but the lists of nodes, and nothing but the order
of a list says which node belongs to which event. The invariant `WriterInv`: both passes are in and out of filtered
regions at the same events, although at different times (`FiltersAgree`); the list of a stream has each node once
(`ListFits`), all that are still to be met and no other (`Complete`), in the order of the events (`Sorted`); of an earlier
interval it has at most the atomic node of the last collective, at its head (`Begins`); the iterator divides the list into
what was met and what was not (`Pointed`); and on a stream without nodes it has not moved, or the stream has had nodes (`Moved`,
which is where `StreamsStayBusy` is needed). `Sorted` is kept because `Less` puts an event read later behind the others of its
stream unless the two are `Swapped` (`ReadSorted`).

`IdleIsCounted`: `Spec => []IdleTimeIsIdle`: the idle, computing-idle and transfer times in the statistics are those of
the trace, with any number of kernels and transfers at the same time, over any number of intervals. `DeviceTrace` says for
which traces, in five parts:

| hypothesis | without it |
|---|---|
| `TasksOnDevices`: regions on the stream of a device are kernels, and only these are; transfers are on such streams | a region on the device before the first call hides that call |
| `CallsAreSeen`: no call of the device is in a filtered region | the idle time begins with a later call |
| `CallsComeFirst`: a call comes before the first transfer | the count of tasks is off by one for good |
| `TasksEnd`: a task ends after it has begun and before the last use of the device | the last period is counted as idle, or a transfer not at all |
| `WindowsStay`: no window of a device is destroyed between its first and its last use | the time before it is counted as idle twice |

The programs of `output` satisfy all five; for each, TLC has a small trace that fails that one and violates the property. The code keeps two
counters of tasks and the time of the last start of each kind of period; a period is added when it is over. The invariant `DeviceInv`
therefore has a `Clock` for each of the three times: while the period lasts, what has been added and what has passed
since its start make up the time of the trace so far, and between two periods what has been added is all of it
(`Counted`); the counters are the tasks that are running (`Refers`). Before the first use nothing is counted (`Unused`), after the last
one the times are complete as soon as the last event has been added, which happens once (`Concluded`), although both
`RmaWinDestroy` and the end of the streams do it. An event is one of seven kinds (`Effect`), and what each does to a clock is
`Ticks`. The writer sees the events that use the device because it knows when a stream is inside a filtered region (`WriterFilters`).

### 6.7 Only model-checked

* Liveness (`Termination`, `ReplayEnds`, `AnalysisEnds`, `DriverEnds`): out of reach of the prover.
* `ProfileAddsUp` of `TraceWriter`: sums over pairs of events found by searching the trace for the next one of a stream.
* The invariants of `AnalysisEngine` (offload, OpenMP, local path): the walks over the graph,
  the local critical path and the searches for nodes are recursive or folds, and the invariants are
  about what these compute.

Worth proving next: `BlockedHasCause` of the offload rules; the duration in `ProfileAddsUp`.

## 7. What is not modelled

* The abort branches of the detection for a missing node or edge: they need a
  graph the construction does not produce.
* Requests open at the end of an interval and completed in the next one, `MPI_Waitany`,
  `MPI_Waitsome` and tests with several completed requests: `MpiReplay` has one interval.
* Communicators other than world and self in the replay; `MPI_Ibarrier` and other
  non-blocking collectives, for which the code has no rule.
* Which time `findCriticalPathStart` and `findCriticalPathEnd` choose: it is what `MPI_Allreduce`
  computes. They are in `IntervalDriver` as collective operations.
* The NULL stream (`--nullstream`), OpenCL (the same rules under other names), several devices, the rules
  `OMPTargetRule` and `OMPTargetBarrierRule`, which nothing registers.
* The summary: one reduction per table and a sum on the root; a model would restate the sums. What the ranks call
  for it is `Summarise` of `IntervalDriver`.
* OTF2 records and metrics in the output, statistics about consecutive and blocking communication,
  blame by type.
* Reading OTF2, definitions, options, tables of function names, output: I/O and tables.

`PROJECT.json` has the lines of the code behind every definition. Together they are a third of
the implementation; the rest is what this section lists, and logging, printing and accessors.
