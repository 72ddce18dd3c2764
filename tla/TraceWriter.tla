---------------------------- MODULE TraceWriter ----------------------------
(***************************************************************************)
(* The second pass over the events of one process (OTF2ParallelTraceWriter)*)
(* together with what it depends on: the reader decides which events get a *)
(* node, and sorts the nodes of a stream; the analysis marks the critical  *)
(* path and puts blame on edges; the writer then reads the events of the   *)
(* interval again, pairs them with the nodes, and sums up the profile and  *)
(* the times the device was idle.                                          *)
(*                                                                         *)
(* A program is the sequence of all events of the process in the order in  *)
(* which both passes read them; an event is named by its place in it, and  *)
(* so is its node.  Blame is counted in units of the duration of its edge. *)
(***************************************************************************)
EXTENDS Integers, Sequences, FiniteSets, SequencesExt, FiniteSetsExt

CONSTANTS
  Hosts, Devices, MpiStream,
  Programs,   \* sequences of [stream, rec, kind, region]
  Times(_),   \* for a program, the times its events may have
  Filtered,   \* the regions of the option --filter
  MaxBlamed   \* bound: how many edges have blame

\* A trace is not empty, its times do not decrease in the order in which it is
\* read, and one thread of the process calls the collectives.
ASSUME TraceAssumption ==
  /\ MpiStream \in Hosts
  /\ \A p \in Programs :
       /\ p \in Seq([stream : Hosts \cup Devices, rec : STRING, kind : STRING, region : STRING])
       /\ p # <<>>
       /\ \A i \in DOMAIN p : p[i].kind = "collective" => p[i].stream = MpiStream
       /\ \A t \in Times(p) : /\ t \in [DOMAIN p -> Nat]
                             /\ \A i, j \in DOMAIN p : i <= j => t[i] <= t[j]

VARIABLES
  program, time,
  pos, written,      \* events read by the reader, and by the writer
  phase,
  nodes,             \* the sorted nodes of a stream in this interval
  made,              \* all nodes there have been
  enterOf,           \* the enter node of a leave node
  atomic,            \* collectives that became the begin of an interval
  filtering,         \* streams inside a filtered region, for the reader
  critical,          \* nodes on the critical path
  lastGlobal,        \* whether the last event of all processes is here
  pathPieces, blamedPieces,  \* edges on the path, edges with blame; of all intervals
  firstCall,
  writer,            \* StreamStatus of a stream
  profile,           \* ActivityGroup of a region
  device, stats,     \* use of the device, and the statistics about it
  strayed            \* the writer has paired an event with another node

readerVars == <<pos, nodes, made, enterOf, atomic, filtering>>
markVars == <<critical, lastGlobal, pathPieces, blamedPieces>>
writerVars == <<written, firstCall, writer, profile, device, stats, strayed>>
vars == <<program, time, phase, readerVars, markVars, writerVars>>

Streams == Hosts \cup Devices
Events == DOMAIN program
Regions == {program[i].region : i \in Events}

Opens(i) == program[i].rec \in {"enter", "fork"}
Closes(i) == program[i].rec \in {"leave", "join"}
IsNode(i) == (Opens(i) \/ Closes(i)) /\ program[i].kind # "cpu"
-----------------------------------------------------------------------------
(* Reading (CallbackHandler, GraphEngine::addNewGraphNodeInternal).        *)

IsFiltered(i) == program[i].rec \in {"enter", "leave"} /\ program[i].region \in Filtered

\* Events inside a filtered region get no node; the region itself does, if it
\* belongs to a paradigm.  ThreadFork and ThreadJoin are delivered as enter and
\* leave.
ReaderSees(i) ==
  IF Opens(i) THEN program[i].stream \notin filtering
  ELSE IsFiltered(i) \/ program[i].stream \notin filtering

FilterAfter(on, i) ==
  IF ~ IsFiltered(i) THEN on
  ELSE IF Opens(i) THEN on \cup {program[i].stream} ELSE on \ {program[i].stream}

ParadigmOf(i) ==
  CASE program[i].kind \in {"launch", "sync", "kernel"} -> 1
    [] program[i].kind \in {"init", "mpi", "collective", "finalize"} -> 4
    [] OTHER -> 8

\* Node::compareLess, for two nodes of a stream.
Less(i, j) ==
  \/ time[i] < time[j]
  \/ /\ time[i] = time[j]
     /\ IF (i \in atomic) # (j \in atomic) THEN i \in atomic
        ELSE IF ParadigmOf(i) # ParadigmOf(j) THEN ParadigmOf(i) < ParadigmOf(j)
        ELSE i < j

\* addGraphNode or insertGraphNode, which never inserts before the first node.
Inserted(L, i) ==
  LET larger == {p \in DOMAIN L \ {1} : Less(i, L[p])}
  IN IF L = <<>> \/ Less(Last(L), i) \/ larger = {} THEN Append(L, i)
     ELSE InsertAt(L, Min(larger), i)

\* No parallel region is open and no kernel is pending after the i-th event.
Quiet(i) ==
  LET Count(rec) == Cardinality({j \in 1..i : program[j].rec = rec})
      synced == {0} \cup {j \in 1..i : program[j].rec = "leave" /\ program[j].kind = "sync"}
  IN /\ Count("fork") = Count("join")
     /\ \A j \in Max(synced)..i : j > 0 => program[j].kind # "launch"

\* The node on top of the stack of a stream: the last one that has no leave yet.
Top(s) ==
  Max({m \in made : /\ program[m].stream = s /\ Opens(m)
                   /\ \A n \in DOMAIN enterOf : enterOf[n] # m})

Read ==
  LET i == pos + 1
      s == program[i].stream
  IN /\ phase = "read"
     /\ pos' = i
     /\ filtering' = FilterAfter(filtering, i)
     /\ IF IsNode(i) /\ ReaderSees(i)
        THEN /\ nodes' = [nodes EXCEPT ![s] = Inserted(@, i)]
             /\ made' = made \cup {i}
             /\ enterOf' = IF Closes(i) THEN enterOf @@ (i :> Top(s)) ELSE enterOf
        ELSE UNCHANGED <<nodes, made, enterOf>>
     /\ phase' \in IF i = Len(program) THEN {"mark"}
                   ELSE IF program[i].kind = "collective" /\ Closes(i) /\ i \in made' /\ Quiet(i)
                   THEN {"read", "mark"} ELSE {"read"}
     /\ UNCHANGED <<program, time, atomic, markVars, writerVars>>
-----------------------------------------------------------------------------
(* What the analysis leaves behind.                                        *)

MissedEnter(n, C) == Closes(n) /\ n \notin atomic /\ enterOf[n] \notin C

\* The edges between the nodes of a stream.
Pieces(s) == {<<nodes[s][p], nodes[s][p + 1]>> : p \in 1..(Len(nodes[s]) - 1)}

\* A path comes back to the stream of MPI at a leave, whose enter it has missed,
\* and begins at the first node; it comes to a team at the fork, if no thread of
\* the team calls MPI; it uses all of a kernel or nothing of it; it comes to
\* another thread at the first node and leaves it after the last one, or where
\* that thread waits.
IsPath(C) ==
  /\ \A piece \in Pieces(MpiStream) :
       (piece[1] \notin C /\ piece[2] \in C) => MissedEnter(piece[2], C)
  /\ \A n \in ToSet(nodes[MpiStream]) :
       program[n].rec = "join" => (enterOf[n] \in C \/ enterOf[n]..n \cap C = {})
  /\ \A d \in Devices : \A n \in ToSet(nodes[d]) :
       Closes(n) => (n \in C <=> enterOf[n] \in C)
  /\ \A h \in Hosts \ {MpiStream} : \A piece \in Pieces(h) :
       /\ piece[2] \in C => piece[1] \in C
       /\ (piece[1] \in C /\ piece[2] \notin C) => Closes(piece[2]) /\ enterOf[piece[2]] = piece[1]

Mark ==
  LET here == UNION {ToSet(nodes[s]) : s \in Streams}
      pieces == UNION {Pieces(s) : s \in Streams}
  IN /\ phase = "mark"
     /\ \E C \in SUBSET here :
          /\ IsPath(C)
          /\ critical' = critical \cup C
          /\ pathPieces' = pathPieces \cup {piece \in pieces : {piece[1], piece[2]} \subseteq C}
     /\ \E B \in SUBSET {piece \in UNION {Pieces(s) : s \in Hosts} : time[piece[1]] < time[piece[2]]} :
          /\ Cardinality(blamedPieces \cup B) <= MaxBlamed
          /\ blamedPieces' = blamedPieces \cup B
     /\ lastGlobal' \in IF pos = Len(program) THEN BOOLEAN ELSE {FALSE}
     /\ phase' = "locations"
     /\ UNCHANGED <<program, time, readerVars, writerVars>>
-----------------------------------------------------------------------------
(* Starting to write an interval (writeLocations).                         *)

\* A bug for comparison: the begin of an interval is written again.
SkipNothing(s) == 1

\* The place of the first node that is not atomic, on the stream of MPI.
Skip(s) ==
  IF s = MpiStream THEN Min({p \in 1..(Len(nodes[s]) + 1) : p \in DOMAIN nodes[s] => nodes[s][p] \notin atomic})
  ELSE 1

\* Edges with blame that begin at a node.
BlamedEdges(n) == {piece \in blamedPieces : piece[1] = n}

\* The path leaves the process at the begin of the interval.
PathLeft(s) ==
  \E p \in 1..(Skip(s) - 1) : /\ p < Len(nodes[s])
                              /\ nodes[s][p] \in critical /\ nodes[s][p + 1] \notin critical

\* A stream without nodes keeps the iterator it had.
WriteLocations ==
  /\ phase = "locations"
  /\ writer' = [s \in Streams |->
       IF nodes[s] = <<>> THEN [writer[s] EXCEPT !.open = {}]
       ELSE [writer[s] EXCEPT
               !.open = UNION {BlamedEdges(nodes[s][p]) : p \in 1..(Skip(s) - 1)},
               !.curr = Skip(s),
               !.onPath = IF firstCall THEN nodes[s][1] \in critical ELSE @ /\ ~ PathLeft(s)]]
  /\ firstCall' = FALSE
  /\ phase' = "write"
  /\ UNCHANGED <<program, time, readerVars, markVars, written, profile, device, stats, strayed>>
-----------------------------------------------------------------------------
(* The use of the device (handleDeviceTaskEnter, handleDeviceTaskLeave,    *)
(* handleFinalDeviceIdleLeave).                                            *)

\* The first node of an offloading paradigm begins the idle time.
ApiEvent(D, i) ==
  LET begun == IF D.refs < 0
               THEN [D EXCEPT !.refs = 0, !.computeRefs = 0, !.idleStart = time[i],
                              !.computeIdleStart = time[i], !.first = time[i]]
               ELSE D
  IN IF program[i].kind = "kernel" THEN begun ELSE [begun EXCEPT !.last = time[i]]

\* A bug for comparison: a transfer always begins a new period.
TaskEnterRestarting(D, i, isCompute) ==
  [D EXCEPT !.refs = @ + 1, !.computeRefs = IF isCompute THEN @ + 1 ELSE @,
            !.transferStart = IF isCompute THEN @ ELSE time[i], !.last = time[i]]

TaskEnter(D, i, isCompute) ==
  LET transfers == D.refs + 1 - D.computeRefs
  IN [D EXCEPT !.refs = @ + 1, !.computeRefs = IF isCompute THEN @ + 1 ELSE @,
               !.transferStart = IF ~ isCompute /\ transfers = 1 THEN time[i] ELSE @,
               !.last = time[i]]

TaskLeave(D, i, isCompute) ==
  [D EXCEPT !.refs = @ - 1, !.computeRefs = IF isCompute THEN @ - 1 ELSE @,
            !.computeIdleStart = IF isCompute /\ D.computeRefs = 1 THEN time[i] ELSE @,
            !.idleStart = IF D.refs = 1 THEN time[i] ELSE @,
            !.last = time[i]]

EnterStats(S, D, i, isCompute) ==
  [S EXCEPT !.idle = IF D.refs = 0 THEN @ + time[i] - D.idleStart ELSE @,
            !.computeIdle = IF isCompute /\ D.computeRefs = 0
                            THEN @ + time[i] - D.computeIdleStart ELSE @]

LeaveStats(S, D, i, isCompute) ==
  [S EXCEPT !.transfer = IF ~ isCompute /\ D.refs - D.computeRefs = 1
                         THEN @ + time[i] - D.transferStart ELSE @]

\* Idle until the last event; this is done once.
FinalStats(S, D) ==
  IF D.last = 0 THEN S
  ELSE [S EXCEPT !.idle = @ + D.last - D.idleStart,
                 !.computeIdle = @ + D.last - D.computeIdleStart]
FinalDevice(D) == [D EXCEPT !.last = 0]
-----------------------------------------------------------------------------
(* The next event (processNextEvent, updateActivityGroupMap).              *)

\* The blame of the time since the last event, of the edges that are open.
IsOpen(edge, i) == time[edge[1]] <= time[i] /\ time[i] <= time[edge[2]]
Live(W, i) == {edge \in W.open : IsOpen(edge, i)}
BlameOf(W, i) == Cardinality(Live(W, i)) * (time[i] - W.last)

\* A bug for comparison: the enter of a leave is not considered.
CountsNodeOnly(n) == n \in critical

\* Whether the time before a node is on the path.
Counts(n) == n \in critical /\ ~ MissedEnter(n, critical)

\* The path after a node goes on if the next node is on it, after a kernel even
\* if the kernel is not; after MPI_Finalize it is with the process that has the
\* last event of all.
OnPathAfter(n, W, L) ==
  IF program[n].kind = "finalize" /\ Closes(n) THEN lastGlobal
  ELSE IF W.curr = Len(L) THEN n \in critical
  ELSE L[W.curr + 1] \in critical /\ (n \in critical \/ program[n].kind = "kernel")

\* What an event adds to the region on top of the stack, and its own region.
ProfileAfter(P, W, i, onPath) ==
  LET e == program[i]
      begun == IF e.rec = "enter" THEN [P EXCEPT ![e.region].instances = @ + 1] ELSE P
      duration == time[i] - W.last
      blame == BlameOf(W, i)
  IN IF W.stack = <<>> THEN begun
     ELSE [begun EXCEPT ![Last(W.stack)] =
             [@ EXCEPT !.duration = @ + duration, !.blame = @ + blame,
                       !.onPath = IF onPath THEN @ + duration ELSE @,
                       !.blameOnPath = IF onPath THEN @ + blame ELSE @]]

StackAfter(W, i) ==
  CASE program[i].rec = "enter" -> Append(W.stack, program[i].region)
    [] program[i].rec = "leave" -> Front(W.stack)
    [] OTHER -> W.stack

\* What a node, or an event of the program, makes of the state of its stream.
NodeEvent(W, L, i) ==
  [W EXCEPT !.curr = @ + 1, !.onPath = OnPathAfter(L[W.curr], W, L), !.last = time[i],
            !.stack = StackAfter(W, i),
            !.open = {edge \in Live(W, i) : time[edge[2]] # time[i]} \cup BlamedEdges(L[W.curr])]

OtherEvent(W, i, onPath) ==
  [W EXCEPT !.onPath = @ \/ onPath, !.last = time[i], !.stack = StackAfter(W, i),
            !.open = {edge \in Live(W, i) : time[edge[2]] # time[i]}]

\* Enter and leave of a device stream are tasks, too.
DeviceEvent(i) ==
  LET isDevice == program[i].stream \in Devices
      begun == IF IsNode(i) /\ ParadigmOf(i) = 1 THEN ApiEvent(device, i) ELSE device
  IN CASE isDevice /\ program[i].rec = "enter" ->
            device' = TaskEnter(begun, i, TRUE) /\ stats' = EnterStats(stats, begun, i, TRUE)
       [] isDevice /\ program[i].rec = "leave" ->
            device' = TaskLeave(begun, i, TRUE) /\ stats' = LeaveStats(stats, begun, i, TRUE)
       [] OTHER -> device' = begun /\ UNCHANGED stats

\* The iterator of a stream is past its nodes, or behind the end of them.
ProcessNextEvent(i) ==
  LET s == program[i].stream
      W == writer[s]
      L == nodes[s]
      past == W.curr = Len(L) + 1
      n == L[W.curr]
  IN \/ /\ past
        /\ writer' = [writer EXCEPT ![s] = OtherEvent(W, i, FALSE)]
        /\ profile' = ProfileAfter(profile, W, i, W.onPath)
        /\ strayed' = (strayed \/ IsNode(i))
        /\ DeviceEvent(i)
     \/ /\ W.curr \in DOMAIN L
        /\ IsNode(i) => program[n].region = program[i].region
        /\ writer' = [writer EXCEPT ![s] = IF IsNode(i) THEN NodeEvent(W, L, i)
                                           ELSE OtherEvent(W, i, Counts(n))]
        /\ profile' = ProfileAfter(profile, W, i, Counts(n))
        /\ strayed' = (strayed \/ (IsNode(i) /\ n # i))
        /\ DeviceEvent(i)
     \/ /\ W.curr > Len(L) + 1 \/ (W.curr \in DOMAIN L /\ IsNode(i) /\ program[n].region # program[i].region)
        /\ strayed' = TRUE
        /\ UNCHANGED <<writer, profile, device, stats>>
-----------------------------------------------------------------------------
(* The callbacks of the writer.                                            *)

\* The writer leaves out a filtered region as well as what is inside of it, but
\* processes ThreadFork and ThreadJoin wherever they are.
WriterSees(i) ==
  \/ program[i].rec \in {"fork", "join"}
  \/ ~ IsFiltered(i) /\ ~ writer[program[i].stream].filtering

Region(i) ==
  /\ program[i].rec \in {"enter", "leave", "fork", "join"}
  /\ IF WriterSees(i) THEN ProcessNextEvent(i)
     ELSE /\ writer' = [writer EXCEPT ![program[i].stream].filtering =
                            IF IsFiltered(i) THEN Opens(i) ELSE @]
          /\ UNCHANGED <<profile, device, stats, strayed>>

\* ThreadTeamEnd moves the time of the last event.
TeamEnd(i) ==
  /\ program[i].rec = "teamEnd"
  /\ writer' = [writer EXCEPT ![program[i].stream].last = time[i]]
  /\ UNCHANGED <<profile, device, stats, strayed>>

\* RmaGet, RmaPut and RmaOpCompleteBlocking of a device stream.
Transfer(i) ==
  /\ \/ /\ program[i].rec = "get"
        /\ device' = TaskEnter(device, i, FALSE) /\ stats' = EnterStats(stats, device, i, FALSE)
     \/ /\ program[i].rec = "complete"
        /\ device' = TaskLeave(device, i, FALSE) /\ stats' = LeaveStats(stats, device, i, FALSE)
  /\ UNCHANGED <<writer, profile, strayed>>

WinDestroy(i) ==
  /\ program[i].rec = "winDestroy"
  /\ device' = IF program[i].stream \in Devices THEN FinalDevice(device) ELSE device
  /\ stats' = IF program[i].stream \in Devices THEN FinalStats(stats, device) ELSE stats
  /\ writer' = [writer EXCEPT ![program[i].stream].last = time[i]]
  /\ UNCHANGED <<profile, strayed>>

Write ==
  LET i == written + 1
  IN /\ phase = "write" /\ ~ strayed /\ written < pos
     /\ written' = i
     /\ Region(i) \/ TeamEnd(i) \/ Transfer(i) \/ WinDestroy(i)
     /\ UNCHANGED <<program, time, phase, readerVars, markVars, firstCall>>

\* The leave of the collective becomes the begin of the next interval
\* (AnalysisEngine::createIntermediateBegin).
IntermediateBegin ==
  LET begin == Last(nodes[MpiStream])
  IN /\ phase = "write" /\ ~ strayed /\ written = pos /\ pos < Len(program)
     /\ nodes' = [s \in Streams |-> IF s = MpiStream THEN <<begin>> ELSE <<>>]
     /\ atomic' = atomic \cup {begin}
     /\ phase' = "read"
     /\ UNCHANGED <<program, time, pos, made, enterOf, filtering, markVars, writerVars>>

FinalizeStreams ==
  /\ phase = "write" /\ ~ strayed /\ written = Len(program)
  /\ stats' = FinalStats(stats, device)
  /\ device' = FinalDevice(device)
  /\ phase' = "done"
  /\ UNCHANGED <<program, time, readerVars, markVars, written, firstCall, writer, profile, strayed>>

Finished == (phase = "done" \/ strayed) /\ UNCHANGED vars

Init ==
  /\ program \in Programs /\ time \in Times(program)
  /\ pos = 0 /\ written = 0 /\ phase = "read"
  /\ nodes = [s \in Streams |-> <<>>] /\ made = {} /\ enterOf = <<>> /\ atomic = {} /\ filtering = {}
  /\ critical = {} /\ lastGlobal = FALSE /\ pathPieces = {} /\ blamedPieces = {}
  /\ firstCall = TRUE /\ strayed = FALSE
  /\ writer = [s \in Streams |-> [curr |-> 1, onPath |-> FALSE, stack |-> <<>>, last |-> 0,
                                  open |-> {}, filtering |-> FALSE]]
  /\ profile = [r \in Regions |-> [instances |-> 0, duration |-> 0, onPath |-> 0,
                                   blame |-> 0, blameOnPath |-> 0]]
  /\ device = [refs |-> -1, computeRefs |-> -1, idleStart |-> 0, computeIdleStart |-> 0,
               first |-> 0, last |-> 0, transferStart |-> 0]
  /\ stats = [idle |-> 0, computeIdle |-> 0, transfer |-> 0]

Next == Read \/ Mark \/ WriteLocations \/ Write \/ IntermediateBegin \/ FinalizeStreams \/ Finished

Spec == Init /\ [][Next]_vars /\ WF_vars(Next)
-----------------------------------------------------------------------------
(* Properties.  What the profile should say is taken from the trace alone. *)

\* The regions around the time after an event, without the filtered ones.
Around(i) ==
  {m \in 1..i : /\ program[m].stream = program[i].stream
                /\ program[m].rec = "enter" /\ ~ IsFiltered(m)
                /\ LET inner == {k \in m..i : program[k].stream = program[m].stream}
                   IN \A k \in inner : Cardinality({j \in inner : j <= k /\ program[j].rec = "enter"})
                                         > Cardinality({j \in inner : j <= k /\ program[j].rec = "leave"})}

Hidden(i) ==
  \/ IsFiltered(i)
  \/ program[i].rec \in {"enter", "leave"}
       /\ \E m \in 1..i : /\ program[m].stream = program[i].stream /\ IsFiltered(m) /\ Opens(m)
                          /\ \A k \in m..i : ~ (program[k].region = program[m].region /\ Closes(k))

\* Times between two events of a stream inside of a region; the time before the
\* end of a team of threads is lost.
Spans ==
  LET timed == {i \in Events : program[i].rec \in {"enter", "leave", "fork", "join", "teamEnd"} /\ ~ Hidden(i)}
      After(i) == {j \in timed : j > i /\ program[j].stream = program[i].stream}
  IN {[from |-> i, to |-> Min(After(i)), region |-> program[Max(Around(i))].region] :
        i \in {i \in timed : After(i) # {} /\ program[Min(After(i))].rec # "teamEnd" /\ Around(i) # {}}}
Sum(S) == MapThenSumSet(LAMBDA span : time[span.to] - time[span.from], S)

Within(span, pieces) ==
  \E piece \in pieces : /\ program[piece[1]].stream = program[span.from].stream
                        /\ piece[1] <= span.from /\ span.to <= piece[2]

\* The path also has what is before MPI_Init, and after MPI_Finalize.
SpanOnPath(span) ==
  \/ Within(span, pathPieces)
  \/ /\ program[span.from].stream = MpiStream
     /\ \/ \E m \in critical : program[m].kind = "init" /\ Opens(m) /\ span.to <= m
        \/ \E m \in made : lastGlobal /\ program[m].kind = "finalize" /\ Closes(m) /\ m <= span.from

(* The profile has all of the time of every region, the time of it the path *)
(* runs through, and the blame of the edges over it, no more and no less,   *)
(* wherever the intervals end and regions are filtered                      *)
(* (processNextEvent, computeBlameMap, updateActivityGroupMap).             *)
ProfileAddsUp ==
  phase = "done" =>
    LET spans == Spans
        onPath == {span \in spans : SpanOnPath(span)}
        blamed == {span \in spans : Within(span, blamedPieces)}
        Of(r, S) == Sum({span \in S : span.region = r})
    IN \A r \in Regions :
         /\ profile[r].duration = Of(r, spans)
         /\ profile[r].onPath = Of(r, onPath)
         /\ profile[r].blame = Of(r, blamed)
         /\ profile[r].blameOnPath = Of(r, onPath \cap blamed)

(* Events the sort of Node::compareLess puts out of order.                  *)
Swapped ==
  \E i, j \in made : /\ i < j /\ program[i].stream = program[j].stream
                     /\ time[i] = time[j] /\ ParadigmOf(i) > ParadigmOf(j)

(* The writer meets the node of every event at this event, over all         *)
(* intervals, and has met all of them when an interval is over; an event of *)
(* two paradigms at the same time may stand in the way (the assertion of    *)
(* processNextEvent, "RegionRef doesn't fit for event").                    *)
WriterMeetsNodes ==
  /\ strayed => Swapped
  /\ (phase = "write" /\ written = pos /\ ~ strayed) =>
       \A s \in Streams : nodes[s] # <<>> => writer[s].curr = Len(nodes[s]) + 1

(* The first and the last event of the use of the device.                   *)
DeviceEvents == {i \in Events : /\ \/ IsNode(i) /\ ParadigmOf(i) = 1
                                  \/ program[i].rec \in {"get", "complete"}}

(* The statistics about the device are the times between its first and last *)
(* event without any task, without a kernel, and with a transfer.           *)
IdleTimeIsIdle ==
  LET Busy(i, begin, end) == Cardinality({j \in 1..i : program[j].stream \in Devices /\ program[j].rec \in begin})
                               > Cardinality({j \in 1..i : program[j].stream \in Devices /\ program[j].rec \in end})
      steps == {i \in Events : DeviceEvents # {} /\ Min(DeviceEvents) <= i /\ i < Max(DeviceEvents)}
      Total(S) == MapThenSumSet(LAMBDA i : time[i + 1] - time[i], S)
      kernel(i) == Busy(i, {"enter"}, {"leave"})
      transfer(i) == Busy(i, {"get"}, {"complete"})
  IN phase = "done" =>
       /\ stats.computeIdle = Total({i \in steps : ~ kernel(i)})
       /\ stats.transfer = Total({i \in steps : transfer(i)})
       /\ stats.idle = Total({i \in steps : ~ kernel(i) /\ ~ transfer(i)})

(* Regions are filtered, "ignored in analysis and output trace": no filter  *)
(* brings the writer out of step with the nodes.                            *)
FilteredMeetsNodes == strayed => Swapped
=============================================================================
