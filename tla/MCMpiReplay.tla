----------------------------- MODULE MCMpiReplay -----------------------------
(***************************************************************************)
(* Programs and timings for the replay of the MPI communication.  All      *)
(* ranks of a program have the same number of activities: MPI_Init, the    *)
(* given ones (filled up with collectives of MPI_COMM_SELF), MPI_Finalize. *)
(***************************************************************************)
EXTENDS MpiReplay, TLC

TwoRanks == {0, 1}
ThreeRanks == {0, 1, 2}
AllTags == {0, 1}
OneTag == {0}

\* Between MPI_Init and MPI_Finalize: two, three or four activities.
Last3 == [r \in Rank |-> 3]
Last4 == [r \in Rank |-> 4]
Last5 == [r \in Rank |-> 5]

Whole(s) == [i \in 0 .. Len(s) + 1 |->
               IF i \in DOMAIN s THEN s[i] ELSE Collective]
Pair(s, t) == (0 :> Whole(s)) @@ (1 :> Whole(t))

\* Two ranks, three activities, and nothing but blocking calls.
BlockingPrograms == {
  Pair(<<MpiSend(1, 0), MpiRecv(1, 1), OnSelf>>, <<MpiRecv(0, 0), MpiSend(0, 1), OnSelf>>),
  Pair(<<MpiSend(1, 0), Collective, MpiSend(1, 0)>>, <<MpiRecv(0, 0), Collective, MpiRecv(0, 0)>>),
  Pair(<<MpiSendrecv(1, 0, 1, 1), OnSelf, MpiSend(1, 0)>>,
       <<MpiSendrecv(0, 1, 0, 0), MpiRecv(0, 0), OnSelf>>)}

\* ... with requests, completed in different ways.
RequestPrograms == {
  Pair(<<MpiIsend(1, 0), MpiRecv(1, 1), MpiWait(1)>>, <<MpiIsend(0, 1), MpiRecv(0, 0), MpiWait(1)>>),
  Pair(<<MpiIrecv(1, 0), MpiSend(1, 0), MpiWait(1)>>, <<MpiIrecv(0, 0), MpiSend(0, 0), MpiWait(1)>>),
  Pair(<<MpiIrecv(1, 0), MpiIsend(1, 0), MpiWaitall(<<1, 2>>)>>,
       <<MpiIrecv(0, 0), MpiIsend(0, 0), MpiWaitall(<<1, 2>>)>>),
  Pair(<<MpiIsend(1, 0), OnSelf, MpiTest(1)>>, <<MpiIrecv(0, 0), OnSelf, MpiWait(1)>>),
  Pair(<<MpiIsend(1, 0), MpiSend(1, 0), MpiWait(1)>>, <<OnSelf, MpiRecv(0, 0), MpiRecv(0, 0)>>),
  Pair(<<MpiIsend(1, 0), MpiWait(1), OnSelf>>, <<OnSelf, OnSelf, MpiRecv(0, 0)>>),
  Pair(<<MpiIsend(1, 0), OnSelf, MpiTestall(<<1>>)>>, <<MpiIrecv(0, 0), OnSelf, MpiTestall(<<1>>)>>),
  Pair(<<MpiIsend(1, 0), Collective, MpiWait(1)>>, <<MpiRecv(0, 0), Collective, OnSelf>>)}

TwoRankPrograms == BlockingPrograms \cup RequestPrograms

\* Three ranks: a ring of MPI_Sendrecv, a relay, a fan-in, and a message before a
\* collective.
Triple(s, t, u) == (0 :> Whole(s)) @@ (1 :> Whole(t)) @@ (2 :> Whole(u))
RingPrograms == {
  Triple(<<MpiSendrecv(1, 0, 2, 0), OnSelf>>, <<MpiSendrecv(2, 0, 0, 0), OnSelf>>,
         <<OnSelf, MpiSendrecv(0, 0, 1, 0)>>),
  Triple(<<MpiSend(1, 0), OnSelf>>, <<MpiRecv(0, 0), MpiSend(2, 0)>>, <<OnSelf, MpiRecv(1, 0)>>),
  Triple(<<MpiRecv(2, 0), MpiRecv(1, 0)>>, <<MpiSend(0, 0), OnSelf>>, <<MpiSend(0, 0), OnSelf>>),
  Triple(<<MpiSend(1, 0), Collective>>, <<MpiRecv(0, 0), Collective>>, <<OnSelf, Collective>>)}

\* Three blocking calls that wait for each other in a circle, which closes
\* through the MPI_Recv before the MPI_Send of the last rank.
CircularPrograms == {
  Triple(<<OnSelf, MpiSendrecv(2, 0, 1, 0)>>, <<OnSelf, MpiSendrecv(0, 0, 2, 0)>>,
         <<MpiRecv(0, 0), MpiSend(1, 0)>>)}
NoCircle == ReplayFinished => \A S \in SUBSET Node :
              S # {} => \E n \in S : DependsOn(n) \cap S = {}

\* Programs the replay does not get right.  An exchange whose sends are
\* awaited first, two processes of which one uses MPI_Testall, an
\* MPI_Sendrecv that talks to an MPI_Recv and an MPI_Send.
ExchangePrograms == {
  Pair(<<MpiIrecv(1, 0), MpiIsend(1, 0), MpiWait(2), MpiWait(1)>>,
       <<MpiIrecv(0, 0), MpiIsend(0, 0), MpiWait(2), MpiWait(1)>>)}
TestallPrograms == {Pair(<<MpiIsend(1, 0), MpiTestall(<<1>>)>>, <<MpiRecv(0, 0), OnSelf>>)}
MixedPrograms == {
  Pair(<<MpiSendrecv(1, 0, 1, 0), OnSelf>>, <<MpiRecv(0, 0), MpiSend(0, 0)>>)}

\* Two exchanges with one partner each: with their tags, the first MPI_Sendrecv
\* of one rank receives what the second one of the other rank sends.
CrossedPrograms == {
  Pair(<<MpiSendrecv(1, 0, 1, 1), MpiSendrecv(1, 1, 1, 0)>>,
       <<MpiSendrecv(0, 0, 0, 0), MpiSendrecv(0, 1, 0, 1)>>)}

\* A collective between the start and the completion of a request.
CollectivePrograms == {
  Pair(<<MpiIsend(1, 0), Collective, MpiWait(1)>>, <<MpiRecv(0, 0), Collective, OnSelf>>)}

\* The times of n activities between MPI_Init and MPI_Finalize, up to time T.
Span(a, b) == [enter |-> a, leave |-> b]
Times(n, T) ==
  {[i \in 0 .. n + 1 |-> IF i = 0 THEN Span(1, 2)
                         ELSE IF i = n + 1 THEN Span(s[n].leave, T + 1) ELSE s[i]] :
     s \in {s \in [1 .. n -> {Span(a, b) : a \in 2 .. T, b \in 2 .. T}] :
              \A i \in 1 .. n : /\ s[i].enter < s[i].leave
                                /\ i > 1 => s[i - 1].leave <= s[i].enter}}
Times2 == Times(2, 5)
Times2Long == Times(2, 6)
Times3 == Times(3, 6)
Times4 == Times(4, 7)
=============================================================================
