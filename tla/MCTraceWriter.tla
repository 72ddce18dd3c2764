--------------------------- MODULE MCTraceWriter ---------------------------
(* Small traces of one process for TraceWriter.                            *)
EXTENDS TraceWriter

MCHosts == {"main", "worker"}
MCDevices == {"device"}

On(s, rec, kind, region) == [stream |-> s, rec |-> rec, kind |-> kind, region |-> region]
Enter(s, kind, region) == On(s, "enter", kind, region)
Leave(s, kind, region) == On(s, "leave", kind, region)
Call(s, kind, region) == <<Enter(s, kind, region), Leave(s, kind, region)>>
In(s, kind, region, inner) == <<Enter(s, kind, region)>> \o inner \o <<Leave(s, kind, region)>>

Main(inner) == In("main", "cpu", "main", inner)
StartUp == Call("main", "init", "MPI_Init")
Finalize == Call("main", "finalize", "MPI_Finalize")
Barrier == Call("main", "collective", "MPI_Barrier")
Receive == Call("main", "mpi", "MPI_Recv")
Fork(s) == On(s, "fork", "omp", "forkjoin")
Join(s) == On(s, "join", "omp", "forkjoin")
EndOf(s) == On(s, "teamEnd", "omp", "forkjoin")

\* Work around calls, and collectives at which an interval may end.
Message == Main(StartUp \o In("main", "cpu", "work", Receive) \o Barrier
                  \o In("main", "cpu", "work", Call("main", "cpu", "step")) \o Finalize)

\* The events of a team: the worker is through before the barrier is left.
Team ==
  Main(StartUp \o Barrier
         \o <<Fork("main"), Enter("worker", "omp", "omp parallel")>>
         \o Call("worker", "cpu", "work")
         \o <<Enter("worker", "omp", "omp barrier"),
              Enter("main", "omp", "omp barrier"), Leave("worker", "omp", "omp barrier"),
              Leave("main", "omp", "omp barrier"), Leave("worker", "omp", "omp parallel"),
              EndOf("worker"), EndOf("main"), Join("main")>>
         \o Call("main", "cpu", "step") \o Finalize)

\* Kernels and transfers, one after the other and at the same time.
Kernel(inner) == In("device", "kernel", "kernel", inner)
Copy(inner) == <<On("device", "get", "rma", "rma")>> \o inner \o <<On("device", "complete", "rma", "rma")>>
Launch == Call("main", "launch", "cuLaunchKernel")
Synchronize == Call("main", "sync", "cuStreamSynchronize")
Ended == <<On("device", "winDestroy", "rma", "rma")>>

Offload == Main(StartUp \o Launch \o Copy(Kernel(<<>>)) \o Synchronize \o Barrier \o Finalize \o Ended)
Overlap == Main(StartUp \o Launch \o Kernel(Copy(<<On("device", "get", "rma", "rma")>>))
                  \o <<On("device", "complete", "rma", "rma")>> \o Kernel(<<>>) \o Synchronize \o Finalize)

\* A region of the program that is filtered with what it calls.
Skipped == Main(StartUp \o In("main", "cpu", "skipped", Receive \o Call("main", "cpu", "step"))
                  \o In("main", "cpu", "work", Barrier) \o Finalize)

MCPrograms == {Message, Team, Offload, Overlap, Skipped}

\* Filtered regions that have a node, or a team of threads inside.
MCFilteredPrograms ==
  {Main(StartUp \o In("main", "mpi", "skipped", <<>>) \o Receive \o Finalize),
   Main(StartUp \o In("main", "cpu", "skipped", <<Fork("main"), Join("main")>>) \o Receive \o Finalize)}

\* A thread with nodes in the first interval and none in the second.
IdleWorkerPrograms ==
  {Main(StartUp \o Call("worker", "sync", "cuInit") \o Barrier \o Call("worker", "cpu", "step")
          \o Finalize)}

\* Bound: an event comes one unit after the one before it, or together with it.
MCTimes(p) ==
  LET step(together) == [i \in DOMAIN p |-> i - Cardinality({j \in 1..i : together[j]})]
  IN {step(together) : together \in {[i \in DOMAIN p |-> FALSE],
                                     [i \in DOMAIN p |-> i % 2 = 0],
                                     [i \in DOMAIN p |-> i % 3 = 1]}}
=============================================================================
