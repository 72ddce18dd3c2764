------------------------- MODULE OffloadAnalysis ---------------------------
(***************************************************************************)
(* The analysis of kernels on a device (AnalysisParadigmOffload, its       *)
(* rules, DeviceStream).  A host thread launches kernels on the streams of *)
(* a device and waits for them; the rules find the launch of every kernel, *)
(* who waited for which kernel, and who left the device without work.      *)
(*                                                                         *)
(* The idle rule is an option.  CUDA events are analysed, no stream is the *)
(* NULL stream.                                                            *)
(***************************************************************************)
EXTENDS LocalCriticalPath

CONSTANTS
  Delay,         \* 500 us in ticks
  Uninitialised  \* values a member may hold that the constructor does not set

ASSUME OffloadAssumption == Delay \in Nat /\ Uninitialised \subseteq Nat

VARIABLES
  pendingKernels,  \* kernels that are launched and have not ended
  launches,        \* pendingKernelLaunchMap: launch enters and leaves of a device stream
  pending,         \* DeviceStream::pendingKernels: kernel leaves nobody waited for yet
  running,         \* DeviceStream::runningKernelEnter
  eventLaunch,     \* the last record of an event
  eventStream,     \* the device stream an event was recorded on
  eventQuery,      \* the last query of an event
  streamWaits,     \* streamWaitMap
  active,          \* active_compute_tasks, one byte wide
  idleStart,       \* idle_start_time, which no constructor sets
  delay,           \* delay500us, set with the idle rule only
  overlapping      \* oKernelEnter

offloadVars == <<pendingKernels, launches, pending, running, eventLaunch,
                 eventStream, eventQuery, streamWaits, active, idleStart,
                 delay, overlapping>>
-----------------------------------------------------------------------------
BlameIdle == options.blameIdle

Is(n, k) == node[n].kind = k

MaxOf(a, b) == IF a > b THEN a ELSE b
MinOf(a, b) == IF a < b THEN a ELSE b

IsWaitAll(n) == node[n].kind \in {"syncAll", "transfer"}
IsWait(n) == Is(n, "sync") \/ IsWaitAll(n)

\* handlePostEnter and handlePostLeave, while the trace is read.
PostOffload(n, ev) ==
  /\ launches' = IF ev.kind = "launch" THEN [launches EXCEPT ![ev.ref] = Append(@, n)]
                 ELSE launches
  /\ pendingKernels' =
       CASE ev.kind = "launch" /\ ev.rec = "enter" -> pendingKernels + 1
         [] ev.kind = "kernel" /\ ev.rec = "leave" -> pendingKernels - 1
         [] OTHER -> pendingKernels
  /\ UNCHANGED <<pending, running, eventLaunch, eventStream, eventQuery,
                 streamWaits, active, idleStart, delay, overlapping>>
-----------------------------------------------------------------------------
(* Launches and pending kernels. *)

\* A bug for comparison: the last launch.
LastLaunch(d) ==
  LET S == {i \in DOMAIN launches[d] : Enter(launches[d][i])}
  IN IF S = {} THEN NULL ELSE launches[d][CHOOSE i \in S : \A j \in S : j <= i]

\* consumeFirstPendingKernelLaunchEnter
FirstLaunch(d) ==
  LET S == {i \in DOMAIN launches[d] : Enter(launches[d][i])}
  IN IF S = {} THEN NULL ELSE launches[d][CHOOSE i \in S : \A j \in S : i <= j]

\* getLastKernelLaunchLeave
LastLaunchLeave(t, d) ==
  LET S == {i \in DOMAIN launches[d] : Leave(launches[d][i]) /\ launches[d][i] <= t}
  IN IF S = {} THEN NULL ELSE launches[d][CHOOSE i \in S : \A j \in S : j <= i]

\* consumePendingKernels: everything before the kernel, everything if it is the
\* last one, and everything as well if it is not there.
Consumed(P, k) ==
  LET S == {i \in DOMAIN P : P[i] = k}
  IN IF S = {} \/ Last(P) = k THEN <<>>
     ELSE SubSeq(P, CHOOSE i \in S : TRUE, Len(P))

\* isKernelPending
IsKernelPending(n) ==
  IF node[n].partner # NULL THEN At(link, PairSecond(n)) = NULL ELSE Enter(n)
-----------------------------------------------------------------------------
(* Dependencies between kernels (--link-kernels).                          *)

\* The kernel before e has to end before e can start.
Depends(e) ==
  LET prev == At(left, e)
      launch == At(link, e)
  IN \/ PairFirst(prev) > launch
     \/ e < prev /\ e - launch > delay /\ e - PairFirst(prev) > delay

\* createKernelDependencies: back from a kernel through those it depends on.
\* A kernel without a launch makes it use a node that is not there.
Chain[e \in Nat] ==
  IF At(left, e) = NULL THEN <<>>
  ELSE IF Gone({At(link, e), At(left, e)}) THEN <<Edge(NULL, NULL)>>
  ELSE IF Depends(e) THEN <<Edge(At(left, e), e)>> \o Chain[PairFirst(At(left, e))]
  ELSE <<Edge(At(link, e), e)>>

KernelDependencies(k) ==
  IF LinkKernels = 0 \/ k = NULL THEN <<>>
  ELSE SelectSeq(Chain[PairFirst(k)], LAMBDA d : ~ HasEdge(edges, d.from, d.to))

Broken(deps) == \E i \in DOMAIN deps : deps[i].from = NULL

\* blameShortestPath: the kernels from the last one back to a launch, each time
\* along the shortest edge into the kernel.
ShortestIn(es, n) ==
  LET in == InEdges(es, n)
      S == {i \in DOMAIN in : \A j \in DOMAIN in : Duration(in[i]) <= Duration(in[j])}
  IN IF in = <<>> THEN NULL ELSE in[CHOOSE i \in S : \A j \in S : i <= j].from

ShortestPath(es, last) ==
  LET path[l \in Nat] ==
        LET from == ShortestIn(es, PairFirst(l))
        IN IF from = NULL \/ ~ HasEdge(es, PairFirst(l), l) THEN <<NULL>>
           ELSE IF Is(from, "launch") THEN <<l>>
           ELSE <<l>> \o path[from]
  IN path[last]

PathBlame(path, total, sync) ==
  LET all == FoldLeft(LAMBDA sum, l : sum + l - PairFirst(l), 0, path)
  IN [i \in DOMAIN path |->
        Blame(PairFirst(path[i]), path[i], "kernel",
              total * (path[i] - PairFirst(path[i])), all, sync)]
-----------------------------------------------------------------------------
(* Kernels (KernelExecutionRule, DeviceIdleRule, KernelOverlapRule and     *)
(* StreamWaitRule, in the order of their priorities).                      *)

\* findFirstLaunchInIdle: back along the edges of the stream, as long as the
\* device was idle; it throws at a node without an edge into it.
FirstLaunchInIdle(from, lower) ==
  LET back[n \in Nat] ==
        LET prev == {edges[i].from : i \in {j \in DOMAIN edges : edges[j].to = n /\ Intra(edges[j])}}
            latest == CHOOSE p \in prev : \A q \in prev : q <= p
            here == IF Enter(n) /\ Is(n, "launch") THEN n ELSE NULL
            rest == IF prev # {} /\ latest < n THEN back[latest]
                    ELSE [launch |-> NULL, throws |-> FALSE]
        IN IF n <= lower THEN [launch |-> NULL, throws |-> FALSE]
           ELSE IF InEdges(edges, n) = <<>> THEN [launch |-> NULL, throws |-> TRUE]
           ELSE [launch |-> IF rest.launch # NULL THEN rest.launch ELSE here,
                 throws |-> rest.throws]
  IN back[from]

\* ofldStreamWalkCallback
IdleWalkEnds(n) ==
  node[n].rec = "atomic" \/ (Leave(n) /\ (IsWaitAll(n) \/ Is(n, "launch")))

\* What the idle rule blames host h for when kernel k ends an idle period:
\* the stretch of its stream before its first launch in that period.
IdleBlame(h, k, launch) ==
  LET mine == launch # NULL /\ node[launch].stream = h
      at == IF mine THEN launch
            ELSE FindLastNodeBefore(IF launch # NULL THEN launch ELSE k, h)
      found == FirstLaunchInIdle(at, idleStart)
      start == IF found.launch # NULL THEN found.launch ELSE at
      walk == WalkBackward(start, {m \in Nodes : IdleWalkEnds(m)})
      total == start - idleStart
      none == [blame |-> <<>>, fails |-> FALSE]
  IN IF ~ mine /\ (at = NULL \/ at = list[h][1]) THEN none
     ELSE IF found.throws THEN [none EXCEPT !.fails = TRUE]
     ELSE IF (Leave(start) /\ Is(start, "launch")) \/ total <= 0 THEN none
     ELSE [blame |-> Distributed(walk, total, "idle", k), fails |-> WalkFails(walk, total)]

\* A bug for comparison: a kernel ends an idle period while others run.
IdleEndsAlways == BlameIdle /\ idleStart # 0

\* A kernel begins when none is running.
IdleEnds == BlameIdle /\ idleStart # 0 /\ active = 0

KernelEnter(k) ==
  LET d == node[k].stream
      launch == FirstLaunch(d)
      deferred == IF launch = NULL THEN NULL ELSE At(data, launch)
      kernelLeave == node[k].partner
      late == deferred # NULL /\ node[deferred].partner < kernelLeave
      idle == [h \in Hosts |-> IdleBlame(h, k, launch)]
      hosts == SetToSeq(Hosts)
      joined == IF late THEN Blocked(edges, node[deferred].partner, deferred) ELSE edges
      waited == IF late THEN Elapsed(MaxOf(node[deferred].partner, k), deferred) ELSE 0
  IN /\ Enter(k) /\ Is(k, "kernel")
     /\ launches' = IF launch = NULL THEN launches
                    ELSE [launches EXCEPT ![d] = SelectSeq(@, LAMBDA n : n # launch)]
     /\ link' = IF launch = NULL THEN link
                ELSE With(With(link, {launch}, k), {k}, launch)
     /\ running' = IF launch = NULL THEN running ELSE [running EXCEPT ![d] = k]
     /\ edges' = joined \o (IF launch = NULL THEN <<>> ELSE <<Edge(launch, k)>>)
                        \o (IF NULL \in {deferred, kernelLeave} THEN <<>> ELSE <<Edge(kernelLeave, deferred)>>)
     /\ pending' = IF deferred = NULL \/ kernelLeave = NULL THEN pending
                   ELSE [pending EXCEPT ![d] = Consumed(@, kernelLeave)]
     /\ wait' = IF late THEN With(wait, {deferred}, (At(wait, deferred) + waited) % TimeSpan)
                ELSE wait
     /\ blame' = blame
          \o (IF late THEN <<Blame(k, kernelLeave, "kernel", waited, 1, deferred)>> ELSE <<>>)
          \o (IF IdleEnds THEN FoldLeft(LAMBDA b, h : b \o idle[h].blame, <<>>, hosts) ELSE <<>>)
     /\ fault' = (\/ fault
                  \/ launch \in deleted
                  \/ IdleEnds /\ (\E h \in Hosts : idle[h].fails)
                  \/ deferred # NULL /\ (deferred \in deleted \/ kernelLeave = NULL))
     /\ active' = IF BlameIdle THEN (active + 1) % 256 ELSE active
     /\ overlapping' = IF ~ BlameIdle \/ LinkKernels < 2 THEN overlapping
                       ELSE IF active' > 1 THEN k ELSE NULL
     /\ UNCHANGED <<data, left, pendingKernels, eventLaunch, eventStream, eventQuery,
                    streamWaits, idleStart, delay>>

\* KernelOverlapRule: kernel k, which ended during a later one, is what that
\* one had to wait for if they overlap little and it started long after its
\* launch; a link to a kernel that ends even later is replaced.
OverlapLink(k) ==
  LET o == overlapping
      e == node[k].partner
      oLeave == IF o = NULL THEN NULL ELSE PairSecond(o)
      launch == At(link, e)
      launched == IF launch = NULL THEN NULL ELSE PairSecond(launch)
      linked == IF At(left, o) = NULL THEN NULL ELSE PairSecond(At(left, o))
  IN /\ BlameIdle /\ LinkKernels = 2
     /\ NULL \notin {o, oLeave, launched}
     /\ e < o /\ o < k /\ k < oLeave
     /\ k - o < o - e
     /\ o > launched /\ o - launched > delay
     /\ linked = NULL \/ linked <= o \/ linked > k

KernelLeave(k) ==
  LET d == node[k].stream
      launch == At(link, node[k].partner)
      w == IF streamWaits[d] = <<>> THEN NULL ELSE Head(streamWaits[d])
      ended == (active + 255) % 256
      reached == w # NULL /\ launch # NULL
      due == reached /\ w \notin deleted /\ node[w].partner <= launch
  IN /\ Leave(k) /\ Is(k, "kernel")
     /\ pending' = IF At(link, k) = NULL THEN [pending EXCEPT ![d] = Append(@, k)] ELSE pending
     /\ running' = [running EXCEPT ![d] = NULL]
     /\ active' = IF BlameIdle THEN ended ELSE active
     /\ idleStart' = IF BlameIdle /\ ended = 0 THEN k ELSE idleStart
     /\ left' = IF OverlapLink(k) THEN With(left, {overlapping}, k) ELSE left
     /\ streamWaits' = IF due THEN [streamWaits EXCEPT ![d] = Tail(@)] ELSE streamWaits
     /\ fault' = (\/ fault
                  \/ reached /\ w \in deleted
                  \/ due /\ At(link, w) \in deleted)
     /\ UNCHANGED <<edges, link, data, wait, blame, pendingKernels, launches, eventLaunch,
                    eventStream, eventQuery, delay, overlapping>>
-----------------------------------------------------------------------------
(* The rules for the host (SyncRule, EventLaunchRule, EventSyncRule,       *)
(* EventQueryRule and StreamWaitRule).                                     *)

\* The kernels of stream d a synchronisation meets, latest first.  A kernel
\* that is still running, in a trace with displaced clocks, comes first.
Candidates(d) ==
  (IF running[d] # NULL /\ node[running[d]].partner # NULL
   THEN <<node[running[d]].partner>> ELSE <<>>) \o Reverse(pending[d])

\* A bug for comparison: whichever comes first.
EarlyFirstOnly(d, enter) == SubSeq(Candidates(d), 1, MinOf(1, Len(Candidates(d))))

\* Those it really waited for: they ended after it began.
Early(d, enter) ==
  LET c == Candidates(d)
      S == {i \in DOMAIN c : c[i] < enter}
  IN SubSeq(c, 1, IF S = {} THEN Len(c) ELSE (CHOOSE i \in S : \A j \in S : i <= j) - 1)

\* The first one that ended before is taken from the list as well.
Unmet(d, enter) ==
  LET taken == Len(Early(d, enter)) + 1 - (Len(Candidates(d)) - Len(pending[d]))
  IN SubSeq(pending[d], 1, Len(pending[d]) - taken)

\* A bug for comparison: the kernel alone.
CommonFromKernel(enter, leave, k) == Elapsed(PairFirst(k), MinOf(leave, k))

\* The time a synchronisation and a kernel have in common.
Common(enter, leave, k) == Elapsed(MaxOf(enter, PairFirst(k)), MinOf(leave, k))

\* The last pending kernel of a stream, or of all streams if that one has none
\* (createKernelDependencies).
LastPending(D) ==
  LET S == {Last(pending[d]) : d \in {d \in D : pending[d] # <<>>}}
  IN IF S = {} THEN NULL ELSE CHOOSE n \in S : \A m \in S : m <= n

Sync(n) ==
  LET enter == node[n].partner
      D == IF IsWaitAll(n) THEN Devices ELSE {node[enter].ref}
      deps == KernelDependencies(LastPending(IF \E d \in D : pending[d] # <<>> THEN D ELSE Devices))
      es == edges \o (IF Broken(deps) THEN <<>> ELSE deps)
      met == {d \in D : Early(d, enter) # <<>>}
      order == SetToSeq(met)
      path == [d \in met |-> IF LinkKernels > 0 THEN ShortestPath(es, Early(d, enter)[1])
                             ELSE <<>>]
      lost == {d \in met : \E i \in DOMAIN path[d] : path[d][i] = NULL}
      blamed == [d \in met |->
        IF d \in lost THEN <<>>
        ELSE IF LinkKernels > 0 THEN PathBlame(path[d], n - enter, n)
        ELSE LET here == SelectSeq(Early(d, enter), LAMBDA k : HasEdge(edges, PairFirst(k), k))
             IN [i \in DOMAIN here |->
                   Blame(PairFirst(here[i]), here[i], "kernel",
                         Common(enter, n, here[i]), 1, n)]]
      early == UNION {Range(Early(d, enter)) : d \in D}
      after == es \o [i \in DOMAIN order |-> Edge(Early(order[i], enter)[1], n)]
  IN /\ Leave(n) /\ IsWait(n)
     /\ fault' = (fault \/ Broken(deps) \/ lost # {})
     /\ IF met # {}
        THEN /\ edges' = IF HasEdge(edges, enter, n) THEN Blocked(after, enter, n)
                         ELSE Append(after, [Edge(enter, n) EXCEPT !.blocking = TRUE])
             /\ link' = With(link, early, n)
             /\ pending' = [d \in Devices |-> IF d \in D THEN Unmet(d, enter) ELSE pending[d]]
             /\ wait' = With(wait, {n}, At(wait, n) + n - enter)
             /\ blame' = blame \o FoldLeft(LAMBDA b, d : b \o blamed[d], <<>>, order)
        ELSE /\ edges' = es
             /\ link' = With(link, UNION {Range(Unmet(d, enter)) : d \in D}, n)
             /\ pending' = [d \in Devices |-> IF d \in D THEN <<>> ELSE pending[d]]
             /\ wait' = With(wait, {n}, n - enter)
             /\ blame' = IF Is(n, "transfer") /\ HasEdge(edges, enter, n)
                         THEN Append(blame, Blame(enter, n, "transfer", n - enter, 1, n))
                         ELSE blame
     /\ UNCHANGED <<left, data, launches, pendingKernels, running, eventLaunch, eventStream,
                    eventQuery, streamWaits, active, idleStart, delay, overlapping>>

\* EventLaunchRule: the last record of the event, and its stream.
EventRecord(n) ==
  /\ Leave(n) /\ Is(n, "record")
  /\ eventStream' = With(eventStream, {node[n].event}, node[n].ref)
  /\ eventLaunch' = With(eventLaunch, {node[n].event}, n)
  /\ UNCHANGED <<edges, link, data, left, wait, blame, fault, pendingKernels, launches, pending,
                 running, eventQuery, streamWaits, active, idleStart, delay, overlapping>>

\* The kernel an event waits for: that of the last launch before the record.
EventLaunchOf(e, d) ==
  LET r == At(eventLaunch, e)
      l == LastLaunchLeave(PairFirst(r), d)
  IN IF r = NULL \/ l = NULL THEN NULL ELSE PairFirst(l)

EventSync(n) ==
  LET enter == node[n].partner
      r == At(eventLaunch, node[n].event)
      d == node[r].ref
      launch == EventLaunchOf(node[n].event, d)
      k == At(link, launch)
      end == PairSecond(k)
      early == enter < end
      deps == KernelDependencies(k)
  IN /\ Leave(n) /\ Is(n, "eventSync")
     /\ UNCHANGED <<left, pendingKernels, launches, running, eventLaunch, eventStream,
                    eventQuery, streamWaits, active, idleStart, delay, overlapping>>
     /\ IF r = NULL
        THEN UNCHANGED <<edges, link, data, wait, blame, pending, fault>>
        ELSE IF launch = NULL
        THEN /\ link' = Without(link, {r})
             /\ wait' = With(wait, {n}, At(wait, n) + n - enter)
             /\ data' = With(data, {r}, n)
             /\ UNCHANGED <<edges, blame, pending, fault>>
        ELSE IF k = NULL
        THEN /\ link' = Without(link, {r})
             /\ data' = With(data, {launch}, n)
             /\ UNCHANGED <<edges, wait, blame, pending, fault>>
        ELSE /\ link' = Without(link, {r})
             /\ data' = With(data, {r}, n)
             /\ IF Gone({k, end})
                THEN fault' = TRUE /\ UNCHANGED <<edges, wait, blame, pending>>
                ELSE /\ fault' = (fault \/ Broken(deps))
                     /\ edges' = (IF early THEN Blocked(edges, enter, n) ELSE edges)
                                   \o <<Edge(end, n)>> \o (IF Broken(deps) THEN <<>> ELSE deps)
                     /\ wait' = IF early THEN With(wait, {n}, At(wait, n) + Common(enter, n, end))
                                ELSE wait
                     /\ blame' = IF early /\ HasEdge(edges, k, end)
                                 THEN Append(blame, Blame(k, end, "kernel", Common(enter, n, end), 1, n))
                                 ELSE blame
                     /\ pending' = [pending EXCEPT ![d] = Consumed(@, end)]

\* The queries of an event that failed before n, by their links.
Queries(n) ==
  LET before[q \in Nat] ==
        IF At(link, q) = NULL THEN {}
        ELSE {link[q]} \cup (IF link[q] \in deleted THEN {} ELSE before[link[q]])
  IN before[n]

EventQuery(n) ==
  LET e == node[n].event
      last == At(eventQuery, e)
      linked == IF last = NULL THEN Without(link, {n}) ELSE With(link, {n}, last)
      r == At(eventLaunch, e)
      d == At(eventStream, e)
      launch == EventLaunchOf(e, d)
      k == At(link, launch)
      end == PairSecond(k)
      failed == IF last = NULL THEN {}
                ELSE {last} \cup (IF last \in deleted THEN {} ELSE Queries(last))
      vain == {q \in failed : q \notin deleted /\ k <= node[q].partner}
  IN /\ Leave(n) /\ Is(n, "query")
     /\ link' = linked
     /\ UNCHANGED <<left, data, pendingKernels, launches, running, eventLaunch, eventStream,
                    streamWaits, active, idleStart, delay, overlapping>>
     /\ IF ~ node[n].ok
        THEN /\ eventQuery' = With(eventQuery, {e}, n)
             /\ UNCHANGED <<edges, wait, blame, pending, fault>>
        ELSE /\ eventQuery' = Without(eventQuery, {e})
             /\ IF NULL \in {r, d} \/ (launch # NULL /\ k = NULL)
                THEN UNCHANGED <<edges, wait, blame, pending, fault>>
                ELSE IF launch = NULL
                THEN /\ wait' = With(wait, {n}, At(wait, n) + n - node[n].partner)
                     /\ blame' = Append(blame, Blame(node[n].partner, n, "unclassified",
                                                     n - node[n].partner, 1, n))
                     /\ UNCHANGED <<edges, pending, fault>>
                ELSE /\ fault' = (fault \/ failed \cap deleted # {} \/ Gone({k, end}))
                     /\ edges' = FoldLeft(LAMBDA es, q : Blocked(es, node[q].partner, q),
                                          edges, SetToSeq(vain)) \o <<Edge(end, n)>>
                     /\ wait' = [q \in DOMAIN wait \cup vain |->
                                   At(wait, q) + (IF q \in vain THEN q - node[q].partner ELSE 0)]
                     /\ blame' = blame \o
                          (IF ~ HasEdge(edges, k, end) THEN <<>>
                           ELSE LET qs == SetToSeq(vain) IN
                                [i \in DOMAIN qs |->
                                   Blame(k, end, "kernel", qs[i] - node[qs[i]].partner, 1, qs[i])])
                     /\ pending' = [pending EXCEPT ![d] = Consumed(@, end)]

\* StreamWaitRule at the host: the event the stream waits for, unless it was
\* recorded on the same stream; an earlier wait for the event is replaced.
\* Without a record it throws.
StreamWait(n) ==
  LET e == node[n].event
      d == node[n].ref
      r == At(eventLaunch, e)
  IN /\ Leave(n) /\ Is(n, "streamWait")
     /\ fault' = (fault \/ At(eventStream, e) = NULL
                        \/ (\E i \in DOMAIN streamWaits[d] : streamWaits[d][i] \in deleted))
     /\ link' = IF r = NULL THEN Without(link, {n}) ELSE With(link, {n}, r)
     /\ streamWaits' = IF r = NULL \/ eventStream[e] = d THEN streamWaits
                       ELSE [streamWaits EXCEPT ![d] =
                               Append(SelectSeq(@, LAMBDA w : node[w].event # e), n)]
     /\ UNCHANGED <<edges, data, left, wait, blame, pendingKernels, launches, pending, running,
                    eventLaunch, eventStream, eventQuery, active, idleStart, delay, overlapping>>

\* A node no offload rule matches.
OtherOffload(n) ==
  /\ Enter(n) => ~ Is(n, "kernel")
  /\ Leave(n) => node[n].kind = "launch"
  /\ UNCHANGED <<edges, link, data, left, wait, blame, fault>>
  /\ UNCHANGED offloadVars

OffloadRules(n) ==
  \/ KernelEnter(n) \/ KernelLeave(n)
  \/ Sync(n) \/ EventRecord(n) \/ EventSync(n) \/ EventQuery(n) \/ StreamWait(n)
  \/ OtherOffload(n)

\* idle_start_time has no initial value, delay500us has none without the idle
\* rule; they are 0 where no rule reads them.
OffloadInit ==
  /\ pendingKernels = 0
  /\ launches = [d \in Devices |-> <<>>]
  /\ pending = [d \in Devices |-> <<>>]
  /\ running = [d \in Devices |-> NULL]
  /\ eventLaunch = <<>> /\ eventStream = <<>> /\ eventQuery = <<>>
  /\ streamWaits = [d \in Devices |-> <<>>]
  /\ active = 0
  /\ idleStart \in {0} \cup (IF BlameIdle THEN Uninitialised ELSE {})
  /\ delay \in IF BlameIdle THEN {Delay}
               ELSE {0} \cup (IF LinkKernels > 0 THEN Uninitialised ELSE {})
  /\ overlapping = NULL
-----------------------------------------------------------------------------
(* Properties. *)

Total(B) == FoldLeft(LAMBDA sum, b : sum + b.num \div b.den, 0, B)
BlameFor(n, why) == SelectSeq(blame, LAMBDA b : b.for = n /\ b.why = why)

Ordered(P(_)) == SelectSeq([n \in Nodes |-> n], P)
KernelsOn(d) == Ordered(LAMBDA n : node[n].stream = d /\ Is(n, "kernel") /\ Enter(n))
LaunchesFor(d) == Ordered(LAMBDA n : Is(n, "launch") /\ Enter(n) /\ node[n].ref = d)

\* A synchronisation whose end is kept at a launch until its kernel is known.
IsDeferred(n) == \E l \in DOMAIN data : data[l] = n /\ Is(l, "launch")
WaitFits(n) == wait[n] <= n - node[n].partner

(* A device stream executes its kernels in the order of their launches: the *)
(* i-th kernel is linked to the i-th launch for its stream and no other,    *)
(* whichever thread launched it, also if intervals end in between and       *)
(* launches are removed with the kernels (consumeFirstPendingKernelLaunch-  *)
(* Enter, removeKernelLaunch).                                              *)
KernelsKnowTheirLaunch ==
  \A d \in Devices : \A i \in DOMAIN KernelsOn(d) :
    /\ At(link, KernelsOn(d)[i]) \in {NULL, LaunchesFor(d)[i]}
    /\ At(link, LaunchesFor(d)[i]) \in {NULL, KernelsOn(d)[i]}

(* The time a host activity spends waiting is blamed on the kernels once    *)
(* for every stream it waits for: over all kernels, all rules that add to   *)
(* it (SyncRule, EventSyncRule, KernelExecutionRule, EventQueryRule) and    *)
(* both ways to distribute it, the blame never exceeds the waiting time, nor *)
(* the waiting time the activity itself, unless its kernel was not known    *)
(* when it ended (see DeferredFits).                                        *)
WaitIsBlamedOnce ==
  \A n \in Nodes :
    /\ Total(BlameFor(n, "kernel"))
         <= At(wait, n) * (IF IsWaitAll(n) THEN Cardinality(Devices) ELSE 1)
    /\ (n \in DOMAIN wait /\ IsOfld(node[n].kind) /\ ~ IsDeferred(n)) => WaitFits(n)

(* KernelExecutionRule: "add dependency edge, assign blame and waiting time" *)
(* to a synchronisation whose kernel was not known when it ended; its        *)
(* waiting time, "Time in a wait state", is part of its own duration.       *)
DeferredFits == \A n \in DOMAIN wait : IsDeferred(n) => WaitFits(n)

(* A host activity that was made a wait state (makeBlocking) can be left    *)
(* backwards: some kernel that ended after it began leads to it.  Failed    *)
(* queries of an event are the exception, see the README.                   *)
BlockedHasCause ==
  \A i \in DOMAIN edges :
    (edges[i].blocking /\ IsOfld(node[edges[i].to].kind) /\ ~ Is(edges[i].to, "query")) =>
      \E j \in DOMAIN edges : /\ edges[j].to = edges[i].to
                              /\ node[edges[j].from].stream \in Devices
                              /\ edges[j].from > edges[i].from

(* The host is blamed for an idle device only as long as no kernel ran on   *)
(* any of its streams: a thread gets no more than the time between the last *)
(* kernel and the one that ends the idle period (DeviceIdleRule,            *)
(* active_compute_tasks, idle_start_time).  Before the first kernel the     *)
(* time the device has been idle since is not initialised.                  *)
IdleIsIdle ==
  \A k \in Nodes : \A h \in Hosts :
    LET mine == SelectSeq(BlameFor(k, "idle"), LAMBDA b : node[b.from].stream = h)
        before == {l \in Nodes : Is(l, "kernel") /\ l < k}
    IN (mine # <<>> /\ before # {}) =>
         /\ \A l \in before : PairSecond(l) \in 1 .. k - 1
         /\ \E l \in before : (\A m \in before : m <= l) /\ Total(mine) <= k - l
=============================================================================
