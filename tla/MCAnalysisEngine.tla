------------------------ MODULE MCAnalysisEngine ---------------------------
(* Small traces for AnalysisEngine: one process with one or two threads    *)
(* and a device with two streams.                                          *)
EXTENDS AnalysisEngine

CONSTANTS h1, h2, d1, d2

MCHosts == {h1}
MCThreads == {h1, h2}
MCDevices == {d1, d2}

Event1(rec, kind, ref, event, ok) ==
  [rec |-> rec, kind |-> kind, ref |-> ref, event |-> event, ok |-> ok, filtered |-> FALSE]
Activity(kind, ref, event, ok) ==
  <<Event1("enter", kind, ref, event, ok), Event1("leave", kind, ref, event, ok)>>
Around(kind, ref, event, inner) ==
  <<Event1("enter", kind, ref, event, FALSE)>> \o inner
    \o <<Event1("leave", kind, ref, event, FALSE)>>

StartUp == Activity("init", NULL, 0, FALSE)
Collective == Activity("collective", NULL, 0, FALSE)
Finalize == Activity("finalize", NULL, 0, FALSE)

Launch(d) == Activity("launch", d, 0, FALSE)
SyncOn(d) == Activity("sync", d, 0, FALSE)
SyncAll == Activity("syncAll", NULL, 0, FALSE)
Transfer == Activity("transfer", NULL, 0, FALSE)
Kernel == Activity("kernel", NULL, 0, FALSE)
Record(d) == Activity("record", d, 1, FALSE)
AwaitEvent == Activity("eventSync", NULL, 1, FALSE)
Query(ok) == Activity("query", NULL, 1, ok)
AwaitOnStream(d) == Activity("streamWait", d, 1, FALSE)
-----------------------------------------------------------------------------
(* The order of a trace of a device.  The i-th kernel of a stream begins    *)
(* after the i-th launch for it, and ends before a wait for it; a query of  *)
(* an event that fails begins before its kernel ends.                       *)

Precedes(s, p, t, q) == [earlier |-> s, earlierPos |-> p, later |-> t, laterPos |-> q]

Places(seq, P(_)) == SelectSeq([i \in DOMAIN seq |-> i], LAMBDA i : P(seq[i]))
LaunchesIn(seq, d) == Places(seq, LAMBDA e : e.rec = "enter" /\ e.kind = "launch" /\ e.ref = d)
RecordsIn(seq) == Places(seq, LAMBDA e : e.rec = "leave" /\ e.kind = "record")

\* The kernels the i-th event of a thread is about, if it is a wait or a query.
Recorded(seq, i) ==
  LET R == RecordsIn(SubSeq(seq, 1, i))
  IN IF R = <<>> THEN [stream |-> NULL, count |-> 0]
     ELSE [stream |-> seq[Last(R)].ref, count |-> Len(LaunchesIn(SubSeq(seq, 1, Last(R)), seq[Last(R)].ref))]
Awaited(seq, i, d) ==
  CASE seq[i].kind \in {"syncAll", "transfer"} \/ (seq[i].kind = "sync" /\ seq[i].ref = d) ->
         Len(LaunchesIn(SubSeq(seq, 1, i), d))
    [] seq[i].kind \in {"eventSync", "query"} /\ Recorded(seq, i).stream = d -> Recorded(seq, i).count
    [] OTHER -> 0

DeviceOrder(h, seq, d) ==
  {Precedes(h, LaunchesIn(seq, d)[i], d, 2 * i - 1) : i \in DOMAIN LaunchesIn(seq, d)}
    \cup {Precedes(d, 2 * Awaited(seq, i, d), h, i) :
            i \in {i \in DOMAIN seq : seq[i].rec = "leave" /\ (seq[i].kind = "query" => seq[i].ok)}}
    \cup {Precedes(h, i, d, 2 * Awaited(seq, i, d)) :
            i \in {i \in DOMAIN seq : seq[i].rec = "enter" /\ seq[i].kind = "query" /\ ~ seq[i].ok}}

\* A kernel launched after a stream was told to wait for an event begins after
\* the kernel of the event.
StreamOrder(seq, d) ==
  UNION {{Precedes(Recorded(seq, w).stream, 2 * Recorded(seq, w).count, d, 2 * i - 1) :
            i \in {i \in DOMAIN LaunchesIn(seq, d) : LaunchesIn(seq, d)[i] > w}} :
           w \in {w \in DOMAIN seq : seq[w].kind = "streamWait" /\ seq[w].rec = "leave" /\ seq[w].ref = d}}

KernelsOf(n) == FlattenSeq([i \in 1 .. n |-> Kernel])

\* A trace of one host thread and the kernels it launches.
Offloading(host, o) ==
  [events |-> [s \in Streams |-> IF s = h1 THEN host
                                 ELSE IF s \in Devices THEN KernelsOf(Len(LaunchesIn(host, s))) ELSE <<>>],
   order |-> UNION {DeviceOrder(h1, host, d) \cup StreamOrder(host, d) : d \in Devices},
   options |-> o]

\* The clock of the device is ahead of or behind that of the host: waits do not
\* agree with the end of the kernels.
Displaced(host, o) ==
  [Offloading(host, o) EXCEPT !.order = {p \in @ : p.earlier = h1}]

\* Two threads that launch a kernel and await it, each on a stream of its own;
\* the second one within the time between the launch and the end of the first.
OnTwoThreads(host, other, o) ==
  LET kernels == [d \in Devices |-> Len(LaunchesIn(host, d)) + Len(LaunchesIn(other, d))]
  IN [events |-> [s \in Streams |-> IF s = h1 THEN host ELSE IF s = h2 THEN other
                                    ELSE KernelsOf(kernels[s])],
      order |-> UNION {IF LaunchesIn(host, d) = <<>> THEN DeviceOrder(h2, other, d)
                       ELSE DeviceOrder(h1, host, d) : d \in Devices}
                 \cup {Precedes(h1, 4, h2, 1), Precedes(h2, 2, h1, 5), Precedes(h2, 4, h1, 6)},
      options |-> o]

\* Links between overlapping kernels need the idle rule.
OffloadOptions ==
  {[linkKernels |-> p[1], blameIdle |-> p[2], paradigms |-> {}] :
     p \in {<<0, FALSE>>, <<0, TRUE>>, <<1, FALSE>>, <<2, TRUE>>}}

\* Filtered regions of the program: what is called in them has no node.
Filtered(inner) ==
  LET f(rec) == <<[Event1(rec, "region", NULL, 0, FALSE) EXCEPT !.filtered = TRUE]>>
  IN f("enter") \o inner \o f("leave")

MCOffload ==
  {Offloading(StartUp \o body \o Finalize, o) :
     o \in OffloadOptions, body \in {
       Launch(d1) \o Launch(d1) \o SyncOn(d1),
       Launch(d1) \o Launch(d2) \o SyncAll,
       Launch(d1) \o SyncOn(d1) \o Collective \o Launch(d1) \o Transfer,
       Launch(d1) \o Filtered(SyncOn(d1)) \o Collective \o Launch(d1) \o SyncOn(d1),
       Launch(d1) \o Record(d1) \o Launch(d1) \o AwaitEvent \o SyncOn(d1),
       Launch(d1) \o SyncOn(d1) \o Launch(d1) \o Launch(d2) \o SyncAll,
       Launch(d1) \o SyncOn(d1) \o Collective \o Record(d1) \o AwaitEvent,
       Query(TRUE) \o AwaitEvent \o Record(d1) \o AwaitEvent \o Query(TRUE),
       Launch(d1) \o Record(d1) \o Query(FALSE) \o Query(FALSE) \o Query(TRUE),
       Launch(d1) \o Record(d1) \o AwaitOnStream(d2) \o Launch(d2) \o SyncAll}}
  \cup {Displaced(StartUp \o body \o Finalize, o) :
     o \in OffloadOptions, body \in {
       Launch(d1) \o SyncOn(d1),
       Launch(d1) \o Record(d1) \o AwaitEvent}}
  \cup {OnTwoThreads(StartUp \o Launch(d1) \o SyncOn(d1) \o Finalize, Launch(d2) \o SyncOn(d2), o) :
     o \in {o \in OffloadOptions : ~ o.blameIdle}}

\* The wait for an event, and its kernel on a device whose clock may be ahead.
MCDeferred ==
  {Displaced(StartUp \o Launch(d1) \o Record(d1) \o AwaitEvent \o Finalize, o) :
     o \in {o \in OffloadOptions : ~ o.blameIdle}}
-----------------------------------------------------------------------------
(* Parallel regions.  The field event numbers the regions, and the          *)
(* barriers, of a trace; the analysis reads it of regions of OMPT only.     *)

Barrier1(b) == Activity("barrier", NULL, b, FALSE)
Region(id, inner) == Around("parallel", NULL, id, inner)
Task(id, inner) == Around("task", NULL, id, inner)
ForkJoin(threads, id, inner) == Around("forkjoin", threads, id, inner)
TargetRegion(device, inner) == Around("target", device, 0, inner)

PlacesOf(seq, rec, kind, id) ==
  Places(seq, LAMBDA e : e.rec = rec /\ e.kind = kind /\ e.event = id)

\* The enters of a barrier precede its leaves; with OMPT the leave of a worker
\* from the last barrier of a region may be late.
BarrierOrder(a, seq, b, other, ids) ==
  UNION {{Precedes(b, j, a, i) : i \in Range(PlacesOf(seq, "leave", "barrier", id)),
                                 j \in Range(PlacesOf(other, "enter", "barrier", id))} : id \in ids}

\* A worker begins after the region was opened, and ends before it is closed.
OpenOrder(h, seq, w, worker, outer, inner, ids) ==
  UNION {{Precedes(h, i, w, j) : i \in Range(PlacesOf(seq, "enter", outer, id)),
                                 j \in Range(PlacesOf(worker, "enter", inner, id))} : id \in ids}
CloseOrder(h, seq, w, worker, outer, inner, ids) ==
  UNION {{Precedes(w, j, h, i) : i \in Range(PlacesOf(seq, "leave", outer, id)),
                                 j \in Range(PlacesOf(worker, "leave", inner, id))} : id \in ids}

Ids == 1 .. 4
OmpOptions(P) == [linkKernels |-> 0, blameIdle |-> FALSE, paradigms |-> P]

\* The worker is created by the first thread after MPI_Init.
NoWork == [d \in Devices |-> <<>>]
OnThreads(host, worker, device, order, P) ==
  [events |-> [s \in Streams |-> IF s = h1 THEN host ELSE IF s = h2 THEN worker ELSE device[s]],
   order |-> order \cup BarrierOrder(h1, host, h2, worker, Ids) \cup BarrierOrder(h2, worker, h1, host, Ids)
               \cup {Precedes(h1, 2, h2, 1)},
   options |-> OmpOptions(P)]

\* OPARI2: a fork and a join around the regions of the threads.
WithOpari(host, worker) ==
  LET seq == StartUp \o host \o Finalize
  IN OnThreads(seq, worker, NoWork,
               OpenOrder(h1, seq, h2, worker, "forkjoin", "parallel", Ids)
                 \cup CloseOrder(h1, seq, h2, worker, "forkjoin", "parallel", Ids), {})

\* OMPT: the regions of the master, and the implicit tasks of the threads.  The
\* worker may begin its task before the region is opened, and leave the last
\* barrier after it is closed, but takes the regions one after the other.
WithOmpt(host, worker) ==
  LET seq == StartUp \o host \o Finalize
  IN OnThreads(seq, worker, NoWork,
               UNION {{Precedes(h1, i, h2, j) : i \in Range(PlacesOf(seq, "leave", "parallel", id)),
                                                j \in Range(PlacesOf(worker, "enter", "task", id + 1))}
                        : id \in Ids},
               {"OMPT"})

\* Target regions, and what the streams of the device do for each of them.
WithTarget(host, worker, work1, work2) ==
  LET seq == StartUp \o host \o Finalize
      E == Places(seq, LAMBDA e : e.rec = "enter" /\ e.kind = "target")
      L == Places(seq, LAMBDA e : e.rec = "leave" /\ e.kind = "target")
      device == (d1 :> work1) @@ (d2 :> work2)
      Part(d) == Len(device[d]) \div Len(E)
  IN OnThreads(seq, worker, device,
               {Precedes(h1, E[i], d, Part(d) * (i - 1) + 1) : i \in DOMAIN E, d \in Devices}
                 \cup {Precedes(d, Part(d) * i, h1, L[i]) : i \in DOMAIN L, d \in Devices},
               {"OMPT", "OMP_TARGET"})

MCThreadPrograms ==
  {WithOpari(ForkJoin(2, 1, Region(1, Barrier1(1) \o Barrier1(2))) , Region(1, Barrier1(1) \o Barrier1(2))),
   WithOpari(ForkJoin(2, 1, Region(1, Barrier1(1))) \o ForkJoin(2, 2, Region(2, Barrier1(2))),
             Region(1, Barrier1(1)) \o Region(2, Barrier1(2))),
   WithOpari(ForkJoin(2, 1, Region(1, Collective)) \o Collective \o ForkJoin(2, 2, Region(2, Barrier1(1))),
             Region(1, Task(1, <<>>)) \o Region(2, Barrier1(1))),
   WithOmpt(Region(1, Task(1, Barrier1(1) \o Barrier1(2))), Task(1, Barrier1(1) \o Barrier1(2))),
   WithOmpt(Region(1, Barrier1(1)) \o Region(2, Barrier1(2)),
            Task(1, Barrier1(1)) \o Task(2, Barrier1(2))),
   WithOmpt(Region(1, Region(2, <<>>) \o Barrier1(1)), Task(1, Barrier1(1))),
   WithOmpt(Region(1, Barrier1(1)), Task(1, Region(2, <<>>) \o Barrier1(1))),
   WithTarget(TargetRegion(1, <<>>) \o TargetRegion(1, Task(0, <<>>)), <<>>,
              Region(0, Task(0, <<>>)) \o Region(0, <<>>) \o Region(0, <<>>),
              Region(0, <<>>) \o Region(0, <<>>)),
   WithTarget(TargetRegion(NULL, Task(0, <<>>)) \o Collective \o TargetRegion(NULL, <<>>), <<>>,
              Region(0, <<>>) \o Region(0, <<>>), Region(0, <<>>) \o Region(0, <<>>))}

MCPrograms == MCOffload \cup MCThreadPrograms

\* A region of a device is opened within one of the host, whose worker begins
\* its task.
MCDeviceRegion ==
  {WithTarget(Region(1, TargetRegion(1, <<>>)), Task(1, <<>>), Region(2, <<>>), Region(0, <<>>))}

\* An event is queried, recorded again in the next interval and queried there.
MCEventQuery ==
  {Offloading(StartUp \o Launch(d1) \o Record(d1) \o Query(FALSE) \o Collective
                \o Launch(d1) \o Record(d1) \o Query(TRUE) \o Finalize, o) : o \in OffloadOptions}

\* A parallel region of OMPT with two barriers.
MCTwoBarriers ==
  {WithOmpt(Region(1, Task(1, Barrier1(1) \o Barrier1(2))), Task(1, Barrier1(1) \o Barrier1(2)))}
=============================================================================
