-------------------------- MODULE CriticalPathProofs --------------------------
(***************************************************************************)
(* Theorems about CriticalPathReplay, for every set of ranks, every number *)
(* of MPI activities on them and every graph of wait states.               *)
(***************************************************************************)
EXTENDS CriticalPathReplay, SequenceTheorems, TLAPS

-----------------------------------------------------------------------------
(***************************************************************************)
(* Sequences of sections and messages.                                     *)
(***************************************************************************)

LEMMA FrontOfSeq ==
  ASSUME NEW S, NEW s \in Seq(S), s # <<>>
  PROVE  /\ Last(s) \in S
         /\ Front(s) \in Seq(S)
<1>1. Len(s) \in Nat \ {0}
  BY EmptySeq
<1>2. Last(s) \in S
  BY <1>1, LenProperties, ElementOfSeq DEF Last
<1>3. Front(s) \in Seq(S)
  BY <1>1, SubSeqProperties, ElementOfSeq DEF Front
<1> QED
  BY <1>2, <1>3

LEMMA RemoveAtOfSeq ==
  ASSUME NEW S, NEW s \in Seq(S), NEW i \in DOMAIN s
  PROVE  /\ s[i] \in S
         /\ RemoveAt(s, i) \in Seq(S)
<1>1. Len(s) \in Nat /\ DOMAIN s = 1 .. Len(s) /\ s[i] \in S
  BY LenProperties, ElementOfSeq
<1>2. SubSeq(s, 1, i - 1) \in Seq(S)
  BY <1>1, SubSeqProperties, ElementOfSeq
<1>3. SubSeq(s, i + 1, Len(s)) \in Seq(S)
  BY <1>1, SubSeqProperties, ElementOfSeq
<1> QED
  BY <1>1, <1>2, <1>3, ConcatProperties DEF RemoveAt

-----------------------------------------------------------------------------
(***************************************************************************)
(* Types.                                                                  *)
(***************************************************************************)

LEMMA ActivityIsNat ==
  ASSUME NEW r \in Rank
  PROVE  /\ LastActivity[r] \in Nat \ {0}
         /\ Activity(r) \subseteq Nat
         /\ Gap(r) \subseteq Activity(r)
         /\ Lasting(r) \subseteq Activity(r)
BY LastAssumption DEF Activity, Gap, Lasting

LEMMA InitTypeOK == Init => TypeOK
<1> SUFFICES ASSUME Init PROVE TypeOK
  OBVIOUS
<1>1. PICK g \in [Rank -> UNION {RankGraph(r) : r \in Rank}] :
        /\ \A r \in Rank : g[r] \in RankGraph(r)
        /\ blocking = [r \in Rank |-> g[r].blocking]
        /\ remoteNode = [r \in Rank |-> g[r].remoteNode]
  BY DEF Init
<1>2. ASSUME NEW r \in Rank
      PROVE  g[r].blocking \in SUBSET Nat /\ g[r].remoteNode \in RemoteNodeMap
  <2>1. PICK S \in SUBSET Lasting(r) :
          g[r] \in [blocking : {S}, remoteNode : RemoteMap(r, S)]
    BY <1>1 DEF RankGraph
  <2>2. g[r].blocking = S /\ g[r].remoteNode \in RemoteMap(r, S)
    BY <2>1
  <2>3. S \in SUBSET Nat /\ S \in SUBSET UNION {Activity(q) : q \in Rank}
    BY <2>1, ActivityIsNat
  <2>4. UNION {[rank : {q}, act : Lasting(q)] : q \in Rank \ {r}}
          \subseteq [rank : Rank, act : UNION {Activity(q) : q \in Rank}]
    BY ActivityIsNat
  <2>5. g[r].remoteNode \in [S -> [rank : Rank, act : UNION {Activity(q) : q \in Rank}]]
    BY <2>2, <2>4 DEF RemoteMap
  <2>6. \E Q \in SUBSET UNION {Activity(q) : q \in Rank} :
          g[r].remoteNode \in [Q -> [rank : Rank, act : UNION {Activity(q) : q \in Rank}]]
    BY <2>3, <2>5, Zenon
  <2>7. g[r].remoteNode \in RemoteNodeMap
    BY <2>6 DEF RemoteNodeMap
  <2> QED
    BY <2>2, <2>3, <2>7
<1>3. blocking \in [Rank -> SUBSET Nat] /\ remoteNode \in [Rank -> RemoteNodeMap]
  BY <1>1, <1>2
<1>4. <<>> \in Seq(Msg) /\ <<>> \in Seq([from : Nat, to : Nat])
  BY EmptySeq
<1> QED
  BY <1>3, <1>4, ActivityIsNat, AtomicStartAssumption
     DEF Init, InitProcedure, TypeOK, PC, NoActivity, Leave

LEMMA RemoteTarget ==
  ASSUME TypeOK, NEW r \in Rank, NEW a \in DOMAIN remoteNode[r]
  PROVE  remoteNode[r][a] \in [rank : Rank, act : Nat]
<1>1. PICK S : remoteNode[r] \in [S -> [rank : Rank, act : UNION {Activity(q) : q \in Rank}]]
  BY DEF TypeOK, RemoteNodeMap
<1> QED
  BY <1>1, ActivityIsNat

LEMMA RemoteRemoved ==
  ASSUME TypeOK, NEW r \in Rank, NEW k
  PROVE  [a \in DOMAIN remoteNode[r] \ {k} |-> remoteNode[r][a]] \in RemoteNodeMap
<1>1. PICK S \in SUBSET UNION {Activity(q) : q \in Rank} :
        remoteNode[r] \in [S -> [rank : Rank, act : UNION {Activity(q) : q \in Rank}]]
  BY DEF TypeOK, RemoteNodeMap
<1>2. [a \in S \ {k} |-> remoteNode[r][a]]
        \in [S \ {k} -> [rank : Rank, act : UNION {Activity(q) : q \in Rank}]]
  BY <1>1
<1>3. S \ {k} \in SUBSET UNION {Activity(q) : q \in Rank} /\ DOMAIN remoteNode[r] = S
  BY <1>1
<1> QED
  BY <1>2, <1>3 DEF RemoteNodeMap

LEMMA PushedSections ==
  ASSUME TypeOK, NEW r \in Rank
  PROVE  sectionList[r] \o NewSection(r) \in Seq([from : Nat, to : Nat])
<1>1. NewSection(r) \in Seq([from : Nat, to : Nat])
  <2>1. CASE sectionEnd[r] # NoActivity /\ cur[r] # Leave(sectionEnd[r])
    <3>1. [from |-> cur[r].act, to |-> sectionEnd[r]] \in [from : Nat, to : Nat]
      BY <2>1 DEF TypeOK
    <3> DEFINE T == [from : Nat, to : Nat]
    <3>2. NewSection(r) = <<[from |-> cur[r].act, to |-> sectionEnd[r]]>>
      BY <2>1 DEF NewSection
    <3>3. ASSUME NEW x \in T PROVE <<x>> \in Seq(T)
      BY <3>3
    <3> QED
      BY <3>1, <3>2, <3>3
  <2>2. CASE ~(sectionEnd[r] # NoActivity /\ cur[r] # Leave(sectionEnd[r]))
    BY <2>2, EmptySeq DEF NewSection
  <2> QED
    BY <2>1, <2>2
<1> QED
  BY <1>1, ConcatProperties DEF TypeOK

LEMMA MarkType ==
  ASSUME TypeOK, NEW r \in Rank, NEW n \in [act : Nat, side : {"enter", "leave"}],
         Mark(r, n)
  PROVE  onPath' \in [Rank -> SUBSET [act : Nat, side : {"enter", "leave"}]]
BY DEF TypeOK, Mark

LEMMA MasterStepType ==
  ASSUME TypeOK, NEW r \in Rank,
         \/ DecideRole(r) \/ WalkOverActivity(r) \/ WalkOverWaitState(r)
         \/ WalkBack(r) \/ ReachStart(r) \/ LeaveLoop(r) \/ HandOverReturns(r)
         \/ NotifyReturns(r)
  PROVE  TypeOK'
<1>1. cur[r] \in [act : Nat, side : {"enter", "leave"}] /\ LastActivity[r] \in Nat
  BY ActivityIsNat DEF TypeOK
<1>2. CASE DecideRole(r)
  BY <1>1, <1>2 DEF TypeOK, DecideRole, PC, graph
<1>3. CASE WalkOverActivity(r)
  BY <1>1, <1>3, MarkType DEF TypeOK, WalkOverActivity, graph, Enter
<1>4. CASE WalkOverWaitState(r)
  BY <1>1, <1>4, MarkType, PushedSections DEF TypeOK, WalkOverWaitState, PushSection, graph, Enter
<1>5. CASE WalkBack(r)
  BY <1>1, <1>5, MarkType DEF TypeOK, WalkBack, graph, Enter, Leave
<1>6. CASE ReachStart(r)
  BY <1>1, <1>6, MarkType, PushedSections DEF TypeOK, ReachStart, PushSection, graph, PC
<1>7. CASE LeaveLoop(r)
  BY <1>7 DEF TypeOK, LeaveLoop, graph, PC
<1>8. CASE HandOverReturns(r)
  BY <1>8, RemoteRemoved DEF TypeOK, HandOverReturns, PC
<1>9. CASE NotifyReturns(r)
  BY <1>9 DEF TypeOK, NotifyReturns, graph
<1> QED
  BY <1>2, <1>3, <1>4, <1>5, <1>6, <1>7, <1>8, <1>9

LEMMA MessageStepType ==
  ASSUME TypeOK, NEW r \in Rank,
         HandOver(r) \/ Notify(r) \/ ReceiveNext(r) \/ ReceiveFound(r)
  PROVE  TypeOK'
<1>1. ASSUME NEW s \in Rank, NEW d \in Rank, NEW m \in Msg
      PROVE  Append(chan[s][d], m) \in Seq(Msg)
  BY AppendProperties DEF TypeOK
<1>2. ASSUME NEW s \in Rank, NEW d \in Rank, chan[s][d] # <<>>
      PROVE  Tail(chan[s][d]) \in Seq(Msg) /\ Head(chan[s][d]) \in Msg
  BY <1>2, HeadTailProperties DEF TypeOK
<1>3. CASE HandOver(r)
  <2> DEFINE remote == remoteNode[r][cur[r].act]
  <2>1. remote.rank \in Rank /\ NextMsg(remote.act) \in Msg
    BY <1>3, RemoteTarget DEF HandOver, NextMsg, Msg
  <2>2. chan' \in [Rank -> [Rank -> Seq(Msg)]]
    BY <1>1, <1>3, <2>1 DEF HandOver, TypeOK
  <2>3. onPath' \in [Rank -> SUBSET [act : Nat, side : {"enter", "leave"}]]
    BY <1>3, MarkType DEF HandOver, TypeOK
  <2>4. sectionList' \in [Rank -> Seq([from : Nat, to : Nat])]
    BY <1>3, PushedSections DEF HandOver, TypeOK, PushSection
  <2>5. /\ sendTo' \in [Rank -> SUBSET Rank]
        /\ pc' \in [Rank -> PC]
        /\ UNCHANGED <<atomicStart, blocking, remoteNode, cur, sectionEnd, localPath, toNotify>>
    BY <1>3, <2>1 DEF HandOver, TypeOK, graph, PC
  <2> QED
    BY <2>2, <2>3, <2>4, <2>5 DEF TypeOK
<1>4. CASE Notify(r)
  <2>1. FoundMsg \in Msg
    BY DEF FoundMsg, Msg
  <2>2. PICK d \in toNotify[r] :
          /\ chan' = [chan EXCEPT ![r][d] = Append(@, FoundMsg)]
          /\ sendTo' = [sendTo EXCEPT ![r] = {d}]
          /\ toNotify' = [toNotify EXCEPT ![r] = @ \ {d}]
    BY <1>4 DEF Notify
  <2>3. d \in Rank
    BY <2>2 DEF TypeOK
  <2>4. chan' \in [Rank -> [Rank -> Seq(Msg)]]
    BY <1>1, <2>1, <2>2, <2>3 DEF TypeOK
  <2> QED
    BY <1>4, <2>2, <2>3, <2>4 DEF Notify, TypeOK, graph
<1>5. CASE ReceiveNext(r)
  <2>1. PICK s \in Rank :
          /\ chan[s][r] # <<>>
          /\ Mark(r, Leave(Head(chan[s][r]).act))
          /\ cur' = [cur EXCEPT ![r] = Enter(Head(chan[s][r]).act)]
          /\ sectionEnd' = [sectionEnd EXCEPT ![r] = Head(chan[s][r]).act]
          /\ pc' = [pc EXCEPT ![r] = "master"]
          /\ chan' = [chan EXCEPT ![s][r] = Tail(@)]
          /\ UNCHANGED <<graph, sectionList, localPath, sendTo, toNotify>>
    BY <1>5 DEF ReceiveNext
  <2>2. Head(chan[s][r]).act \in Nat
    BY <1>2, <2>1 DEF Msg
  <2>3. chan' \in [Rank -> [Rank -> Seq(Msg)]]
    BY <1>2, <2>1 DEF TypeOK
  <2>4. onPath' \in [Rank -> SUBSET [act : Nat, side : {"enter", "leave"}]]
    BY <2>1, <2>2, MarkType DEF Leave
  <2> QED
    BY <2>1, <2>2, <2>3, <2>4 DEF TypeOK, graph, PC, Enter
<1>6. CASE ReceiveFound(r)
  BY <1>2, <1>6 DEF ReceiveFound, TypeOK, graph, PC
<1> QED
  BY <1>3, <1>4, <1>5, <1>6

LEMMA SectionStepType ==
  ASSUME TypeOK, NEW r \in Rank,
         \/ ComputeSection(r) \/ LeaveBarrier(r) \/ ComputeRemainingSection(r)
         \/ Finish(r)
  PROVE  TypeOK'
<1>1. ASSUME NEW s \in [from : Nat, to : Nat]
      PROVE  Gaps(s) \subseteq Nat
  BY DEF Gaps
<1>2. CASE ComputeSection(r)
  BY <1>1, <1>2, FrontOfSeq DEF ComputeSection, TypeOK, graph
<1>3. CASE LeaveBarrier(r)
  BY <1>3 DEF LeaveBarrier, TypeOK, graph, PC
<1>4. CASE ComputeRemainingSection(r)
  <2>1. PICK i \in DOMAIN sectionList[r] :
          /\ localPath' = [localPath EXCEPT ![r] = @ \cup Gaps(sectionList[r][i])]
          /\ sectionList' = [sectionList EXCEPT ![r] = RemoveAt(@, i)]
    BY <1>4 DEF ComputeRemainingSection
  <2>2. sectionList[r] \in Seq([from : Nat, to : Nat])
    BY DEF TypeOK
  <2>3. /\ sectionList[r][i] \in [from : Nat, to : Nat]
        /\ RemoveAt(sectionList[r], i) \in Seq([from : Nat, to : Nat])
    BY <2>2, RemoveAtOfSeq
  <2> QED
    BY <1>1, <1>4, <2>1, <2>3 DEF ComputeRemainingSection, TypeOK, graph
<1>5. CASE Finish(r)
  BY <1>5 DEF Finish, TypeOK, graph, PC
<1> QED
  BY <1>2, <1>3, <1>4, <1>5

LEMMA StepTypeOK == TypeOK /\ [Next]_vars => TypeOK'
<1> SUFFICES ASSUME TypeOK, [Next]_vars PROVE TypeOK'
  OBVIOUS
<1>1. ASSUME NEW r \in Rank, Work(r) \/ SendReturns(r) PROVE TypeOK'
  BY <1>1, MasterStepType, MessageStepType, SectionStepType
     DEF Work, SendReturns
<1>2. CASE UNCHANGED vars
  BY <1>2 DEF vars, TypeOK
<1> QED
  BY <1>1, <1>2 DEF Next, Terminated

\* Every variable keeps its type: the map of remote nodes stays a map from
\* activities of the rank, the channels and section lists stay sequences.
THEOREM TypeCorrect == Spec => []TypeOK
BY InitTypeOK, StepTypeOK, PTL DEF Spec

-----------------------------------------------------------------------------
(***************************************************************************)
(* One master, and the end of the search.                                  *)
(***************************************************************************)

\* A channel with neither kind of message in it is empty.
LEMMA EmptyChannel ==
  ASSUME TypeOK, NEW s \in Rank, NEW d \in Rank,
         ~Carries(s, d), ~Tells(s, d)
  PROVE  chan[s][d] = <<>>
<1>1. SUFFICES ASSUME chan[s][d] # <<>> PROVE FALSE
  OBVIOUS
<1>2. chan[s][d] \in Seq(Msg)
  BY DEF TypeOK
<1>3. 1 \in DOMAIN chan[s][d] /\ chan[s][d][1] \in Msg
  BY <1>1, <1>2, EmptySeq, LenProperties, ElementOfSeq
<1> QED
  BY <1>3 DEF Carries, Tells, Msg

\* Receiving the only message of a channel empties it.
LEMMA OnlyMessage ==
  ASSUME NEW q \in Seq(Msg), Len(q) = 1
  PROVE  Tail(q) = <<>>
<1>1. q # <<>>
  OBVIOUS
<1>2. Tail(q) \in Seq(Msg) /\ Len(Tail(q)) = 0
  BY <1>1, HeadTailProperties
<1> QED
  BY <1>2, EmptySeq

\* Sending on an empty channel leaves one message in it.
LEMMA FirstMessage ==
  ASSUME NEW m \in Msg
  PROVE  Append(<<>>, m) = <<m>> /\ Len(<<m>>) = 1
  OBVIOUS

\* As long as some rank holds the path there is no message anywhere and no
\* rank has left the loop.
LEMMA HolderAlone ==
  ASSUME TypeOK, ProtocolInv, NEW r \in Rank, HoldsPath(r)
  PROVE  /\ \A s, d \in Rank : ~Carries(s, d) /\ ~Tells(s, d) /\ chan[s][d] = <<>>
         /\ \A q \in Rank : ~AtEnd(q) /\ toNotify[q] = {}
<1>1. \A q \in Rank : ~AtEnd(q)
  BY DEF ProtocolInv, EndMeansLost, PathLost
<1>2. \A s, d \in Rank : ~Carries(s, d) /\ ~Tells(s, d)
  BY <1>1 DEF ProtocolInv, OneMaster, ToldOnce
<1>3. \A q \in Rank : toNotify[q] = {}
  BY <1>1 DEF ProtocolInv, TellsUntold, AtEnd, TypeOK
<1> QED
  BY <1>1, <1>2, <1>3, EmptyChannel

LEMMA InitProtocolInv == Init => ProtocolInv
<1> SUFFICES ASSUME Init PROVE ProtocolInv
  OBVIOUS
<1>1. \A s, d \in Rank : chan[s][d] = <<>> /\ ~Carries(s, d) /\ ~Tells(s, d)
  BY DEF Init, InitProcedure, Carries, Tells
<1>2. \A r \in Rank : pc[r] = "decide" /\ ~AtEnd(r) /\ toNotify[r] = {}
  BY DEF Init, InitProcedure, AtEnd
<1>3. PICK r \in Rank : \A q \in Rank : EndOfPath(q) <=> q = r
  BY DEF Init, OneEndOfPath
<1>4. \A q \in Rank : HoldsPath(q) <=> q = r
  BY <1>2, <1>3 DEF HoldsPath
<1> QED
  BY <1>1, <1>2, <1>4
     DEF ProtocolInv, OneMaster, PathSomewhere, EndMeansLost, ToldOnce,
         TellsUntold, NoStaleMessage

\* Steps that neither move the path nor touch messages.
LEMMA LocalStepProtocol ==
  ASSUME TypeOK, ProtocolInv,
         UNCHANGED <<blocking, chan, toNotify>>,
         \A q \in Rank : /\ HoldsPath(q)' <=> HoldsPath(q)
                         /\ AtEnd(q)' <=> AtEnd(q)
                         /\ toNotify[q] # {} => pc'[q] = "sendFound"
  PROVE  ProtocolInv'
<1>1. \A s, d \in Rank : (Carries(s, d)' <=> Carries(s, d)) /\ (Tells(s, d)' <=> Tells(s, d))
  BY DEF Carries, Tells
<1>2. OneMaster' /\ PathSomewhere' /\ EndMeansLost'
  BY <1>1 DEF ProtocolInv, OneMaster, PathSomewhere, EndMeansLost, PathLost
<1>3. ToldOnce' /\ NoStaleMessage'
  BY <1>1 DEF ProtocolInv, ToldOnce, NoStaleMessage
<1>4. TellsUntold'
  <2> SUFFICES ASSUME NEW f \in Rank, NEW d \in toNotify[f]
               PROVE  /\ pc'[f] = "sendFound" /\ ~AtEnd(d)'
                      /\ \A s \in Rank : chan'[s][d] = <<>>
                      /\ \A g \in Rank \ {f} : d \notin toNotify'[g]
    BY DEF TellsUntold
  <2>1. d \in Rank
    BY DEF TypeOK
  <2> QED
    BY <2>1 DEF ProtocolInv, TellsUntold
<1> QED
  BY <1>2, <1>3, <1>4 DEF ProtocolInv

LEMMA LocalStep ==
  ASSUME TypeOK, ProtocolInv, NEW r \in Rank,
         \/ DecideRole(r) \/ WalkOverActivity(r) \/ WalkOverWaitState(r)
         \/ WalkBack(r) \/ NotifyReturns(r) \/ HandOverReturns(r)
         \/ LeaveLoop(r) \/ ComputeSection(r) \/ LeaveBarrier(r)
         \/ ComputeRemainingSection(r) \/ Finish(r)
  PROVE  ProtocolInv'
<1>1. UNCHANGED <<blocking, chan, toNotify>>
  BY DEF DecideRole, WalkOverActivity, WalkOverWaitState, WalkBack,
         NotifyReturns, HandOverReturns, LeaveLoop, ComputeSection,
         LeaveBarrier, ComputeRemainingSection, Finish, graph
<1>2. \A q \in Rank : EndOfPath(q)' <=> EndOfPath(q)
  BY <1>1 DEF EndOfPath
<1>3. pc \in [Rank -> PC] /\ \A q \in Rank : toNotify[q] # {} => pc[q] = "sendFound"
  BY DEF TypeOK, ProtocolInv, TellsUntold
<1>4. ASSUME NEW q \in Rank
      PROVE  /\ HoldsPath(q)' <=> HoldsPath(q)
             /\ AtEnd(q)' <=> AtEnd(q)
             /\ toNotify[q] # {} => pc'[q] = "sendFound"
  <2>1. CASE DecideRole(r)
    BY <2>1, <1>2, <1>3 DEF DecideRole, HoldsPath, AtEnd
  <2>2. CASE WalkOverActivity(r) \/ WalkOverWaitState(r) \/ WalkBack(r)
    BY <2>2, <1>2, <1>3 DEF WalkOverActivity, WalkOverWaitState, WalkBack, HoldsPath, AtEnd
  <2>3. CASE NotifyReturns(r) \/ HandOverReturns(r)
    BY <2>3, <1>2, <1>3 DEF NotifyReturns, HandOverReturns, HoldsPath, AtEnd
  <2>4. CASE LeaveLoop(r)
    BY <2>4, <1>2, <1>3 DEF LeaveLoop, HoldsPath, AtEnd
  <2>5. CASE ComputeSection(r) \/ ComputeRemainingSection(r)
    BY <2>5, <1>2, <1>3 DEF ComputeSection, ComputeRemainingSection, HoldsPath, AtEnd
  <2>6. CASE LeaveBarrier(r) \/ Finish(r)
    BY <2>6, <1>2, <1>3 DEF LeaveBarrier, Finish, HoldsPath, AtEnd
  <2> QED
    BY <2>1, <2>2, <2>3, <2>4, <2>5, <2>6
<1> QED
  BY <1>1, <1>4, LocalStepProtocol

LEMMA HandOverProtocol ==
  ASSUME TypeOK, ProtocolInv, NEW r \in Rank, HandOver(r)
  PROVE  ProtocolInv'
<1> PICK remote : remote = remoteNode[r][cur[r].act]
  OBVIOUS
<1>1. HoldsPath(r) /\ pc[r] = "master"
  BY DEF HandOver, MasterAt, HoldsPath
<1>2. /\ \A s, d \in Rank : chan[s][d] = <<>>
      /\ \A q \in Rank : ~AtEnd(q) /\ toNotify[q] = {}
  BY <1>1, HolderAlone
<1>3. remote.rank \in Rank /\ remote.act \in Nat
  <2>1. cur[r].act \in DOMAIN remoteNode[r]
    BY DEF HandOver
  <2>2. remoteNode[r] \in RemoteNodeMap
    BY DEF TypeOK
  <2>3. PICK S : remoteNode[r] \in [S -> [rank : Rank, act : UNION {Activity(q) : q \in Rank}]]
    BY <2>2 DEF RemoteNodeMap
  <2>5. remote \in [rank : Rank, act : UNION {Activity(q) : q \in Rank}]
    BY <2>1, <2>3
  <2>4. \A q \in Rank : Activity(q) \subseteq Nat
    BY LastAssumption DEF Activity
  <2> QED
    BY <2>4, <2>5
<1>4. /\ chan'[r][remote.rank] = <<NextMsg(remote.act)>>
      /\ \A s, d \in Rank : s # r \/ d # remote.rank => chan'[s][d] = <<>>
  <2>2. NextMsg(remote.act) \in Msg
    BY <1>3 DEF NextMsg, Msg
  <2>3. chan' = [chan EXCEPT ![r][remote.rank] = Append(@, NextMsg(remote.act))]
    BY DEF HandOver
  <2>4. chan \in [Rank -> [Rank -> Seq(Msg)]]
    BY DEF TypeOK
  <2>5. chan'[r][remote.rank] = Append(<<>>, NextMsg(remote.act))
    BY <1>2, <1>3, <2>3, <2>4
  <2>6. \A s, d \in Rank : s # r \/ d # remote.rank => chan'[s][d] = <<>>
    BY <1>2, <1>3, <2>3, <2>4
  <2> QED
    BY <2>2, <2>5, <2>6, FirstMessage
<1>5. ASSUME NEW s \in Rank, NEW d \in Rank
      PROVE  /\ Carries(s, d)' <=> s = r /\ d = remote.rank
             /\ ~Tells(s, d)'
  <2>1. PICK m : m = NextMsg(remote.act)
    OBVIOUS
  <2>2. m.type = "next"
    BY <2>1 DEF NextMsg
  <2>3. chan'[s][d] = IF s = r /\ d = remote.rank THEN <<m>> ELSE <<>>
    BY <1>4, <2>1
  <2> QED
    BY <2>2, <2>3 DEF Carries, Tells
<1>6. \A q \in Rank : HoldsPath(q) => q = r
  BY <1>1 DEF ProtocolInv, OneMaster
<1>7. /\ pc' = [pc EXCEPT ![r] = "sendNext"] /\ pc \in [Rank -> PC]
      /\ blocking' = blocking /\ toNotify' = toNotify
  BY DEF HandOver, graph, TypeOK
<1>8. \A q \in Rank : ~HoldsPath(q)' /\ ~AtEnd(q)' /\ toNotify'[q] = {}
  BY <1>2, <1>6, <1>7 DEF HoldsPath, AtEnd, EndOfPath
<1>9. OneMaster' /\ PathSomewhere'
  <2>1. Len(chan'[r][remote.rank]) = 1
    <3>1. PICK m : m = NextMsg(remote.act)
      OBVIOUS
    <3>2. chan'[r][remote.rank] = <<m>>
      BY <1>4, <3>1
    <3> QED
      BY <3>2
  <2> QED
    BY <2>1, <1>3, <1>5, <1>8 DEF OneMaster, PathSomewhere
<1>10. EndMeansLost' /\ ToldOnce' /\ TellsUntold' /\ NoStaleMessage'
  BY <1>5, <1>8 DEF EndMeansLost, ToldOnce, TellsUntold, NoStaleMessage
<1> QED
  BY <1>9, <1>10 DEF ProtocolInv

LEMMA ReachStartProtocol ==
  ASSUME TypeOK, ProtocolInv, NEW r \in Rank, ReachStart(r)
  PROVE  ProtocolInv'
<1>1. HoldsPath(r) /\ pc[r] = "master"
  BY DEF ReachStart, MasterAt, HoldsPath
<1>2. /\ \A s, d \in Rank : chan[s][d] = <<>> /\ ~Carries(s, d) /\ ~Tells(s, d)
      /\ \A q \in Rank : ~AtEnd(q) /\ toNotify[q] = {}
  BY <1>1, HolderAlone
<1>3. \A q \in Rank : HoldsPath(q) => q = r
  BY <1>1 DEF ProtocolInv, OneMaster
<1>4. /\ pc' = [pc EXCEPT ![r] = "sendFound"] /\ pc \in [Rank -> PC]
      /\ toNotify' = [toNotify EXCEPT ![r] = Rank \ {r}]
      /\ toNotify \in [Rank -> SUBSET Rank]
      /\ UNCHANGED <<blocking, chan>>
  BY DEF ReachStart, graph, TypeOK
<1>5. \A s, d \in Rank : chan'[s][d] = <<>> /\ ~Carries(s, d)' /\ ~Tells(s, d)'
  BY <1>2, <1>4 DEF Carries, Tells
<1>6. \A q \in Rank : ~HoldsPath(q)' /\ (AtEnd(q)' <=> q = r)
  BY <1>2, <1>3, <1>4 DEF HoldsPath, AtEnd, EndOfPath
<1>7. \A q \in Rank : toNotify'[q] = IF q = r THEN Rank \ {r} ELSE {}
  BY <1>2, <1>4
<1>8. OneMaster' /\ PathSomewhere' /\ EndMeansLost'
  BY <1>5, <1>6 DEF OneMaster, PathSomewhere, EndMeansLost, PathLost
<1>9. TellsUntold'
  BY <1>4, <1>5, <1>6, <1>7 DEF TellsUntold
<1>10. ToldOnce' /\ NoStaleMessage'
  BY <1>5 DEF ToldOnce, NoStaleMessage
<1> QED
  BY <1>8, <1>9, <1>10 DEF ProtocolInv

LEMMA NotifyProtocol ==
  ASSUME TypeOK, ProtocolInv, NEW r \in Rank, Notify(r)
  PROVE  ProtocolInv'
<1>1. PICK d \in toNotify[r] :
        /\ chan' = [chan EXCEPT ![r][d] = Append(@, FoundMsg)]
        /\ toNotify' = [toNotify EXCEPT ![r] = @ \ {d}]
  BY DEF Notify
<1>2. /\ d \in Rank /\ toNotify \in [Rank -> SUBSET Rank]
      /\ chan \in [Rank -> [Rank -> Seq(Msg)]]
  BY DEF TypeOK
<1>3. AtEnd(r) /\ UNCHANGED <<pc, blocking>>
  BY DEF Notify, AtEnd, graph
<1>4. /\ ~AtEnd(d)
      /\ \A s \in Rank : chan[s][d] = <<>>
      /\ \A g \in Rank \ {r} : d \notin toNotify[g]
  BY <1>2 DEF ProtocolInv, TellsUntold
<1>5. /\ \A q \in Rank : ~HoldsPath(q)
      /\ \A s, e \in Rank : ~Carries(s, e)
  BY <1>3 DEF ProtocolInv, EndMeansLost, PathLost
<1>6. /\ chan'[r][d] = <<FoundMsg>> /\ Len(chan'[r][d]) = 1
      /\ \A s, e \in Rank : s # r \/ e # d => chan'[s][e] = chan[s][e]
  <2>1. FoundMsg \in Msg
    BY DEF FoundMsg, Msg
  <2>2. chan'[r][d] = Append(<<>>, FoundMsg)
    BY <1>1, <1>2, <1>4
  <2>3. \A s, e \in Rank : s # r \/ e # d => chan'[s][e] = chan[s][e]
    BY <1>1, <1>2
  <2> QED
    BY <2>1, <2>2, <2>3, FirstMessage
<1>7. \A q \in Rank : ~HoldsPath(q)' /\ (AtEnd(q)' <=> AtEnd(q))
  BY <1>3, <1>5 DEF HoldsPath, AtEnd, EndOfPath
<1>8. ASSUME NEW s \in Rank, NEW e \in Rank
      PROVE  /\ ~Carries(s, e)'
             /\ e # d => (Tells(s, e)' <=> Tells(s, e))
             /\ e = d => (Tells(s, e)' <=> s = r)
  BY <1>4, <1>5, <1>6 DEF Carries, Tells, FoundMsg
<1>9. OneMaster' /\ PathSomewhere' /\ EndMeansLost'
  BY <1>3, <1>7, <1>8 DEF OneMaster, PathSomewhere, EndMeansLost, PathLost
<1>10. ToldOnce'
  <2> SUFFICES ASSUME NEW s \in Rank, NEW e \in Rank, Tells(s, e)'
               PROVE  /\ AtEnd(s)' /\ ~AtEnd(e)' /\ Len(chan'[s][e]) = 1
                      /\ \A t \in Rank \ {s} : chan'[t][e] = <<>>
    BY DEF ToldOnce
  <2>1. CASE e = d
    BY <2>1, <1>3, <1>4, <1>6, <1>7, <1>8
  <2>2. CASE e # d
    BY <2>2, <1>6, <1>7, <1>8 DEF ProtocolInv, ToldOnce
  <2> QED
    BY <2>1, <2>2
<1>11. TellsUntold'
  <2> SUFFICES ASSUME NEW f \in Rank, NEW e \in toNotify'[f]
               PROVE  /\ pc'[f] = "sendFound" /\ ~AtEnd(e)'
                      /\ \A s \in Rank : chan'[s][e] = <<>>
                      /\ \A g \in Rank \ {f} : e \notin toNotify'[g]
    BY DEF TellsUntold
  <2>1. /\ e \in toNotify[f] /\ e # d /\ e \in Rank
        /\ \A g \in Rank : toNotify'[g] \subseteq toNotify[g]
    BY <1>1, <1>2, <1>4
  <2>2. /\ pc[f] = "sendFound" /\ ~AtEnd(e)
        /\ \A s \in Rank : chan[s][e] = <<>>
        /\ \A g \in Rank \ {f} : e \notin toNotify[g]
    BY <2>1 DEF ProtocolInv, TellsUntold
  <2> QED
    BY <2>1, <2>2, <1>3, <1>6, <1>7
<1>12. NoStaleMessage'
  BY <1>4, <1>6, <1>7 DEF ProtocolInv, NoStaleMessage
<1> QED
  BY <1>9, <1>10, <1>11, <1>12 DEF ProtocolInv

LEMMA ReceiveNextProtocol ==
  ASSUME TypeOK, ProtocolInv, NEW r \in Rank, ReceiveNext(r)
  PROVE  ProtocolInv'
<1>1. PICK s \in Rank : /\ chan[s][r] # <<>>
                        /\ Head(chan[s][r]).type = "next"
                        /\ chan' = [chan EXCEPT ![s][r] = Tail(@)]
  BY DEF ReceiveNext
<1>2. chan \in [Rank -> [Rank -> Seq(Msg)]] /\ pc \in [Rank -> PC]
  BY DEF TypeOK
<1>3. Carries(s, r)
  <2>1. chan[s][r] \in Seq(Msg)
    BY <1>2
  <2>2. 1 \in DOMAIN chan[s][r] /\ Head(chan[s][r]) = chan[s][r][1]
    BY <1>1, <2>1, EmptySeq, LenProperties, HeadTailProperties
  <2> QED
    BY <1>1, <2>2 DEF Carries
<1>4. /\ \A q \in Rank : ~HoldsPath(q) /\ ~AtEnd(q) /\ toNotify[q] = {}
      /\ \A t, e \in Rank : ~Tells(t, e)
      /\ \A t, e \in Rank : Carries(t, e) => t = s /\ e = r
      /\ Len(chan[s][r]) = 1
  <2>1. /\ \A q \in Rank : ~HoldsPath(q) /\ ~AtEnd(q)
        /\ \A t, e \in Rank : Carries(t, e) => t = s /\ e = r
        /\ Len(chan[s][r]) = 1
    BY <1>3 DEF ProtocolInv, OneMaster, EndMeansLost, PathLost
  <2>2. \A t, e \in Rank : ~Tells(t, e)
    BY <2>1 DEF ProtocolInv, ToldOnce
  <2>3. \A q \in Rank : toNotify[q] = {}
    BY <2>1 DEF ProtocolInv, TellsUntold, TypeOK, AtEnd
  <2> QED
    BY <2>1, <2>2, <2>3
<1>5. Tail(chan[s][r]) = <<>>
  <2>1. chan[s][r] \in Seq(Msg)
    BY <1>2
  <2> QED
    BY <2>1, <1>4, OnlyMessage
<1>6. \A t, e \in Rank : chan'[t][e] = <<>>
  BY <1>1, <1>2, <1>4, <1>5, EmptyChannel
<1>7. \A t, e \in Rank : ~Carries(t, e)' /\ ~Tells(t, e)'
  BY <1>6 DEF Carries, Tells
<1>8. /\ pc' = [pc EXCEPT ![r] = "master"]
      /\ UNCHANGED <<blocking, toNotify>>
  BY DEF ReceiveNext, graph
<1>9. \A q \in Rank : (HoldsPath(q)' <=> q = r) /\ ~AtEnd(q)' /\ toNotify'[q] = {}
  BY <1>2, <1>4, <1>8 DEF HoldsPath, AtEnd, EndOfPath
<1> QED
  BY <1>6, <1>7, <1>9
     DEF ProtocolInv, OneMaster, PathSomewhere, EndMeansLost, ToldOnce,
         TellsUntold, NoStaleMessage

LEMMA ReceiveFoundProtocol ==
  ASSUME TypeOK, ProtocolInv, NEW r \in Rank, ReceiveFound(r)
  PROVE  ProtocolInv'
<1>1. PICK s \in Rank : /\ chan[s][r] # <<>>
                        /\ Head(chan[s][r]).type = "found"
                        /\ chan' = [chan EXCEPT ![s][r] = Tail(@)]
  BY DEF ReceiveFound
<1>2. chan \in [Rank -> [Rank -> Seq(Msg)]] /\ pc \in [Rank -> PC]
  BY DEF TypeOK
<1>3. chan[s][r] \in Seq(Msg)
  BY <1>2
<1>4. Tells(s, r)
  <2>1. 1 \in DOMAIN chan[s][r] /\ Head(chan[s][r]) = chan[s][r][1]
    BY <1>1, <1>3, EmptySeq, LenProperties, HeadTailProperties
  <2> QED
    BY <1>1, <2>1 DEF Tells
<1>5. /\ AtEnd(s) /\ Len(chan[s][r]) = 1
      /\ \A t \in Rank \ {s} : chan[t][r] = <<>>
  BY <1>4 DEF ProtocolInv, ToldOnce
<1>6. PathLost
  BY <1>5 DEF ProtocolInv, EndMeansLost
<1>7. Tail(chan[s][r]) = <<>>
  BY <1>3, <1>5, OnlyMessage
<1>8. /\ \A t \in Rank : chan'[t][r] = <<>>
      /\ \A t, e \in Rank : e # r => chan'[t][e] = chan[t][e]
  BY <1>1, <1>2, <1>5, <1>7
<1>9. /\ pc[r] = "slave" /\ pc' = [pc EXCEPT ![r] = "barrier"]
      /\ UNCHANGED <<blocking, toNotify>>
  BY DEF ReceiveFound, graph
<1>10. \A q \in Rank : ~HoldsPath(q)' /\ (AtEnd(q)' <=> AtEnd(q) \/ q = r)
  BY <1>2, <1>6, <1>9 DEF PathLost, HoldsPath, AtEnd, EndOfPath
<1>11. ASSUME NEW t \in Rank, NEW e \in Rank
       PROVE  /\ ~Carries(t, e)'
              /\ Tells(t, e)' => Tells(t, e) /\ e # r
  BY <1>6, <1>8 DEF Carries, Tells, PathLost
<1>12. OneMaster' /\ PathSomewhere' /\ EndMeansLost'
  BY <1>10, <1>11 DEF OneMaster, PathSomewhere, EndMeansLost, PathLost
<1>13. ToldOnce' /\ NoStaleMessage'
  BY <1>8, <1>10, <1>11 DEF ProtocolInv, ToldOnce, NoStaleMessage
<1>14. TellsUntold'
  <2> SUFFICES ASSUME NEW f \in Rank, NEW e \in toNotify[f]
               PROVE  /\ pc'[f] = "sendFound" /\ ~AtEnd(e)'
                      /\ \A t \in Rank : chan'[t][e] = <<>>
                      /\ \A g \in Rank \ {f} : e \notin toNotify[g]
    BY <1>9 DEF TellsUntold
  <2>1. e \in Rank
    BY DEF TypeOK
  <2>2. /\ pc[f] = "sendFound" /\ ~AtEnd(e)
        /\ \A t \in Rank : chan[t][e] = <<>>
        /\ \A g \in Rank \ {f} : e \notin toNotify[g]
    BY <2>1 DEF ProtocolInv, TellsUntold
  <2> QED
    BY <2>1, <2>2, <1>1, <1>2, <1>8, <1>9, <1>10, SMTT(60)
<1> QED
  BY <1>12, <1>13, <1>14 DEF ProtocolInv

LEMMA StepProtocolInv == TypeOK /\ ProtocolInv /\ [Next]_vars => ProtocolInv'
<1> SUFFICES ASSUME TypeOK, ProtocolInv, [Next]_vars PROVE ProtocolInv'
  OBVIOUS
<1>1. ASSUME NEW r \in Rank, Work(r) \/ SendReturns(r) PROVE ProtocolInv'
  BY <1>1, LocalStep, HandOverProtocol, ReachStartProtocol, NotifyProtocol,
     ReceiveNextProtocol, ReceiveFoundProtocol DEF Work, SendReturns
<1>2. CASE UNCHANGED vars
  BY <1>2 DEF vars, ProtocolInv, OneMaster, PathSomewhere, EndMeansLost,
          PathLost, ToldOnce, TellsUntold, NoStaleMessage, HoldsPath, AtEnd,
          EndOfPath, Carries, Tells
<1> QED
  BY <1>1, <1>2 DEF Next, Terminated

\* The protocol invariant, for any number of ranks and activities and any wait
\* states the replay may have found, as long as one rank did not wait last.
THEOREM ProtocolInvariant == Spec => []ProtocolInv
BY InitProtocolInv, StepProtocolInv, TypeCorrect, PTL DEF Spec

\* Masters, ranks about to be master and handover messages: never two.
THEOREM AtMostOneMaster == Spec => []OneMaster
<1>1. ProtocolInv => OneMaster
  BY DEF ProtocolInv
<1> QED
  BY <1>1, ProtocolInvariant, PTL

\* A rank leaves the loop, or tells others to, exactly when nobody is left
\* who could continue the path.
THEOREM EndIsSound == Spec => []FoundWhenLost
<1>1. ProtocolInv => FoundWhenLost
  BY DEF ProtocolInv, PathSomewhere, EndMeansLost, FoundWhenLost, PathFound, PathLost
<1> QED
  BY <1>1, ProtocolInvariant, PTL

\* No handover and no end message is ever left for a rank that has left the
\* loop, so the next interval's search starts with empty channels.
THEOREM NothingLeftBehind == Spec => []NoStaleMessage
<1>1. ProtocolInv => NoStaleMessage
  BY DEF ProtocolInv
<1> QED
  BY <1>1, ProtocolInvariant, PTL

-----------------------------------------------------------------------------
(***************************************************************************)
(* The sections CriticalPathReplay collects: the stretches between MPI     *)
(* activities that are computed as critical are exactly those the walk has *)
(* crossed, for every number of ranks and activities and every graph of    *)
(* wait states.                                                            *)
(***************************************************************************)

(***************************************************************************)
(* The gaps of a list of sections.                                         *)
(***************************************************************************)

Section == [from : Nat, to : Nat]
GapsOf(list) == UNION {Gaps(list[i]) : i \in DOMAIN list}

LEMMA GapsOfEmpty == GapsOf(<<>>) = {}
BY DEF GapsOf

\* A section added to the list adds its gaps.
LEMMA GapsOfAppended ==
  ASSUME NEW list \in Seq(Section), NEW sec \in Section
  PROVE  GapsOf(list \o <<sec>>) = GapsOf(list) \cup Gaps(sec)
<1> DEFINE more == list \o <<sec>>
<1>1. /\ Len(list) \in Nat /\ DOMAIN list = 1 .. Len(list)
      /\ DOMAIN more = 1 .. Len(list) + 1
      /\ \A i \in DOMAIN list : more[i] = list[i]
      /\ more[Len(list) + 1] = sec
  OBVIOUS
<1> HIDE DEF more
<1>2. \A i \in DOMAIN more : i \in DOMAIN list \/ i = Len(list) + 1
  BY <1>1
<1>3. DOMAIN list \subseteq DOMAIN more /\ Len(list) + 1 \in DOMAIN more
  BY <1>1
<1>4. GapsOf(more) \subseteq GapsOf(list) \cup Gaps(sec)
  BY <1>1, <1>2 DEF GapsOf
<1>5. GapsOf(list) \subseteq GapsOf(more) /\ Gaps(sec) \subseteq GapsOf(more)
  BY <1>1, <1>3 DEF GapsOf
<1> QED
  BY <1>4, <1>5 DEF more

\* The last section is taken off the list.
LEMMA GapsOfFront ==
  ASSUME NEW list \in Seq(Section), list # <<>>
  PROVE  GapsOf(list) = GapsOf(Front(list)) \cup Gaps(Last(list))
<1>1. /\ Len(list) \in Nat \ {0} /\ DOMAIN list = 1 .. Len(list)
      /\ Last(list) = list[Len(list)]
  BY EmptySeq, LenProperties DEF Last
<1>2. /\ DOMAIN Front(list) = 1 .. Len(list) - 1
      /\ \A i \in 1 .. Len(list) - 1 : Front(list)[i] = list[i]
  BY <1>1 DEF Front
<1>3. \A i \in DOMAIN list : i \in DOMAIN Front(list) \/ i = Len(list)
  BY <1>1, <1>2
<1>4. DOMAIN Front(list) \subseteq DOMAIN list /\ Len(list) \in DOMAIN list
  BY <1>1, <1>2
<1>5. GapsOf(list) \subseteq GapsOf(Front(list)) \cup Gaps(Last(list))
  BY <1>1, <1>2, <1>3 DEF GapsOf
<1>6. GapsOf(Front(list)) \subseteq GapsOf(list) /\ Gaps(Last(list)) \subseteq GapsOf(list)
  BY <1>1, <1>2, <1>4 DEF GapsOf
<1> QED
  BY <1>5, <1>6

\* A section is taken out of the middle of the list.
LEMMA GapsOfRemoved ==
  ASSUME NEW list \in Seq(Section), NEW k \in DOMAIN list
  PROVE  GapsOf(list) = GapsOf(RemoveAt(list, k)) \cup Gaps(list[k])
<1> DEFINE rest == RemoveAt(list, k)
<1>1. Len(list) \in Nat \ {0} /\ DOMAIN list = 1 .. Len(list) /\ k \in 1 .. Len(list)
  BY LenProperties
<1>2. /\ DOMAIN rest = 1 .. Len(list) - 1
      /\ \A i \in 1 .. k - 1 : rest[i] = list[i]
      /\ \A i \in k .. Len(list) - 1 : rest[i] = list[i + 1]
  <2> DEFINE before == SubSeq(list, 1, k - 1)
             after == SubSeq(list, k + 1, Len(list))
  <2>1. /\ before \in Seq(Section) /\ Len(before) = k - 1
        /\ \A i \in 1 .. k - 1 : before[i] = list[i]
    BY <1>1, SubSeqProperties, ElementOfSeq
  <2>2. /\ after \in Seq(Section) /\ Len(after) = Len(list) - k
        /\ \A i \in 1 .. Len(list) - k : after[i] = list[k + i]
    BY <1>1, SubSeqProperties, ElementOfSeq
  <2>3. rest = before \o after
    BY DEF RemoveAt
  <2> HIDE DEF before, after, rest
  <2>4. Len(before \o after) = Len(list) - 1
    <3>1. Len(before \o after) = Len(before) + Len(after)
      BY <2>1, <2>2, ConcatProperties
    <3> QED
      BY <1>1, <2>1, <2>2, <3>1
  <2>5. \A i \in 1 .. k - 1 : (before \o after)[i] = before[i]
    BY <1>1, <2>1, <2>2
  <2>6. \A i \in k .. Len(list) - 1 : (before \o after)[i] = after[i - (k - 1)]
    BY <1>1, <2>1, <2>2
  <2>7. \A i \in k .. Len(list) - 1 : after[i - (k - 1)] = list[i + 1]
    <3> SUFFICES ASSUME NEW i \in k .. Len(list) - 1
                 PROVE  after[i - (k - 1)] = list[i + 1]
      OBVIOUS
    <3>1. i - (k - 1) \in 1 .. Len(list) - k /\ k + (i - (k - 1)) = i + 1
      BY <1>1
    <3> QED
      BY <2>2, <3>1
  <2>8. before \o after \in Seq(Section)
    BY <2>1, <2>2, ConcatProperties
  <2>9. DOMAIN rest = 1 .. Len(list) - 1
    BY <2>3, <2>4, <2>8, LenProperties
  <2> QED
    BY <2>1, <2>3, <2>5, <2>6, <2>7, <2>9
<1> HIDE DEF rest
<1>3. ASSUME NEW i \in DOMAIN list, i # k
      PROVE  \E j \in DOMAIN rest : rest[j] = list[i]
  <2>1. CASE i < k
    BY <2>1, <1>1, <1>2
  <2>2. CASE i > k
    <3>1. i - 1 \in k .. Len(list) - 1 /\ i - 1 \in DOMAIN rest
      BY <2>2, <1>1, <1>2
    <3> QED
      BY <3>1, <1>1, <1>2
  <2> QED
    BY <1>1, <1>3, <2>1, <2>2
<1>4. ASSUME NEW j \in DOMAIN rest
      PROVE  \E i \in DOMAIN list : rest[j] = list[i]
  <2>1. CASE j < k
    BY <2>1, <1>1, <1>2
  <2>2. CASE j >= k
    <3>1. j + 1 \in DOMAIN list /\ j \in k .. Len(list) - 1
      BY <2>2, <1>1, <1>2
    <3> QED
      BY <3>1, <1>2
  <2> QED
    BY <1>1, <1>2, <2>1, <2>2
<1>5. GapsOf(list) \subseteq GapsOf(rest) \cup Gaps(list[k])
  BY <1>3 DEF GapsOf
<1>6. GapsOf(rest) \subseteq GapsOf(list) /\ Gaps(list[k]) \subseteq GapsOf(list)
  BY <1>4 DEF GapsOf
<1> QED
  BY <1>5, <1>6 DEF rest

-----------------------------------------------------------------------------
(***************************************************************************)
(* The inductive invariant.  NoGapLost and OnlyCrossedGaps are not         *)
(* inductive: HandOverReturns drops the section being walked, which loses  *)
(* nothing only because HandOver has pushed it, and a section computes no  *)
(* gap off the path only because its ends are activities of the rank with  *)
(* everything between them crossed.                                        *)
(***************************************************************************)

\* Every hand-over names an activity the new master has.
TargetsExist ==
  /\ \A r \in Rank : \A a \in DOMAIN remoteNode[r] :
       remoteNode[r][a].act \in Activity(remoteNode[r][a].rank)
  /\ \A s, d \in Rank : \A i \in DOMAIN chan[s][d] : chan[s][d][i].act \in Activity(d)

\* The section being walked ends at an activity the walk has come from.
Place(r) ==
  /\ cur[r].act \in Activity(r)
  /\ sectionEnd[r] # NoActivity => sectionEnd[r] \in cur[r].act .. LastActivity[r]
  /\ pc[r] = "master" => sectionEnd[r] # NoActivity
  /\ pc[r] = "decide" => cur[r] = Leave(LastActivity[r])

OpenCrossed(r) == Open(r) \subseteq Crossed(r)

\* Every crossed gap is accounted for; by a rank that does not walk without
\* the section it may still have an end of.
Collected(r) ==
  /\ Crossed(r) \subseteq localPath[r] \cup Pending(r) \cup Open(r)
  /\ pc[r] # "master" => Crossed(r) \subseteq localPath[r] \cup Pending(r)

OnlyCrossed(r) == localPath[r] \cup Pending(r) \subseteq Crossed(r)

Computed(r) == pc[r] = "finished" => sectionList[r] = <<>>

GapInvOf(r) ==
  Place(r) /\ OpenCrossed(r) /\ Collected(r) /\ OnlyCrossed(r) /\ Computed(r)

GapInv == TargetsExist /\ \A r \in Rank : GapInvOf(r)

-----------------------------------------------------------------------------

LEMMA GapInvImplies ==
  ASSUME TypeOK, GapInv
  PROVE  NoGapLost /\ OnlyCrossedGaps /\ PathComplete
<1>1. NoGapLost /\ OnlyCrossedGaps
  BY DEF GapInv, GapInvOf, Collected, OnlyCrossed, NoGapLost, OnlyCrossedGaps
<1>2. ASSUME NEW r \in Rank, pc[r] = "finished"
      PROVE  localPath[r] = Crossed(r)
  <2>1. Pending(r) = {}
    BY <1>2 DEF GapInv, GapInvOf, Computed, Pending
  <2> QED
    BY <1>2, <2>1 DEF GapInv, GapInvOf, Collected, OnlyCrossed
<1> QED
  BY <1>1, <1>2 DEF PathComplete, Finished

LEMMA InitGapInv == Init => GapInv
<1> SUFFICES ASSUME Init PROVE GapInv
  OBVIOUS
<1>1. PICK g \in [Rank -> UNION {RankGraph(r) : r \in Rank}] :
        /\ \A r \in Rank : g[r] \in RankGraph(r)
        /\ remoteNode = [r \in Rank |-> g[r].remoteNode]
  BY DEF Init
<1>2. ASSUME NEW r \in Rank, NEW a \in DOMAIN remoteNode[r]
      PROVE  remoteNode[r][a].act \in Activity(remoteNode[r][a].rank)
  <2>1. PICK S \in SUBSET Lasting(r) :
          g[r] \in [blocking : {S}, remoteNode : RemoteMap(r, S)]
    BY <1>1 DEF RankGraph
  <2>2. remoteNode[r] \in
          [S -> UNION {[rank : {q}, act : Lasting(q)] : q \in Rank \ {r}}]
    BY <1>1, <2>1 DEF RemoteMap
  <2>3. remoteNode[r][a] \in UNION {[rank : {q}, act : Lasting(q)] : q \in Rank \ {r}}
    BY <2>2
  <2>4. PICK q \in Rank : remoteNode[r][a] \in [rank : {q}, act : Lasting(q)]
    BY <2>3
  <2> QED
    BY <2>4, ActivityIsNat
<1>3. TargetsExist
  BY <1>2 DEF TargetsExist, Init, InitProcedure
<1>4. ASSUME NEW r \in Rank PROVE GapInvOf(r)
  <2>1. /\ pc[r] = "decide" /\ cur[r].act = LastActivity[r]
        /\ sectionEnd[r] = NoActivity /\ sectionList[r] = <<>>
        /\ onPath[r] = {} /\ localPath[r] = {}
    BY DEF Init, InitProcedure, Leave
  <2>2. Place(r)
    <3>1. cur[r] = Leave(LastActivity[r])
      BY DEF Init, InitProcedure
    <3> QED
      BY <2>1, <3>1, ActivityIsNat DEF Place, Activity
  <2>3. Open(r) = {} /\ Pending(r) = {} /\ Crossed(r) = {}
    BY <2>1 DEF Open, Pending, Crossed
  <2> QED
    BY <2>1, <2>2, <2>3 DEF GapInvOf, OpenCrossed, Collected, OnlyCrossed, Computed
<1> QED
  BY <1>3, <1>4 DEF GapInv

-----------------------------------------------------------------------------
(***************************************************************************)
(* Targets.                                                                *)
(***************************************************************************)

\* A message put on or taken from a channel names an activity of the receiver.
LEMMA TargetsKept ==
  ASSUME TypeOK, TargetsExist, NEW r \in Rank, Work(r) \/ SendReturns(r)
  PROVE  TargetsExist'
<1>1. ASSUME NEW s \in Rank, NEW d \in Rank, NEW m \in Msg, m.act \in Activity(d),
             chan' = [chan EXCEPT ![s][d] = Append(@, m)], remoteNode' = remoteNode
      PROVE  TargetsExist'
  <2> SUFFICES ASSUME NEW t \in Rank, NEW e \in Rank, NEW i \in DOMAIN chan'[t][e]
               PROVE  chan'[t][e][i].act \in Activity(e)
    BY <1>1 DEF TargetsExist
  <2>1. CASE t = s /\ e = d
    <3> DEFINE q == chan[s][d]
    <3>1. q \in Seq(Msg) /\ chan'[t][e] = Append(q, m)
      BY <1>1, <2>1, SMTT(60) DEF TypeOK
    <3> HIDE DEF q
    <3>2. (i \in DOMAIN q /\ Append(q, m)[i] = q[i]) \/ Append(q, m)[i] = m
      BY <3>1
    <3> QED
      BY <1>1, <2>1, <3>1, <3>2 DEF TargetsExist, q
  <2>2. CASE ~(t = s /\ e = d)
    BY <1>1, <2>2 DEF TargetsExist, TypeOK
  <2> QED
    BY <2>1, <2>2
<1>2. ASSUME NEW s \in Rank, chan[s][r] # <<>>,
             chan' = [chan EXCEPT ![s][r] = Tail(@)], remoteNode' = remoteNode
      PROVE  TargetsExist'
  <2> SUFFICES ASSUME NEW t \in Rank, NEW e \in Rank, NEW i \in DOMAIN chan'[t][e]
               PROVE  chan'[t][e][i].act \in Activity(e)
    BY <1>2 DEF TargetsExist
  <2>1. CASE t = s /\ e = r
    <3> DEFINE q == chan[s][r]
    <3>1. q \in Seq(Msg) /\ q # <<>> /\ chan'[t][e] = Tail(q)
      BY <1>2, <2>1 DEF TypeOK
    <3> HIDE DEF q
    <3>2. i + 1 \in DOMAIN q /\ Tail(q)[i] = q[i + 1]
      BY <3>1
    <3> QED
      BY <2>1, <3>1, <3>2 DEF TargetsExist, q
  <2>2. CASE ~(t = s /\ e = r)
    BY <1>2, <2>2 DEF TargetsExist, TypeOK
  <2> QED
    BY <2>1, <2>2
<1>3. CASE HandOver(r)
  <2> DEFINE remote == remoteNode[r][cur[r].act]
  <2>1. cur[r].act \in DOMAIN remoteNode[r]
    BY <1>3 DEF HandOver
  <2>2. remote.rank \in Rank /\ remote.act \in Nat /\ remote.act \in Activity(remote.rank)
    BY <2>1, RemoteTarget DEF TargetsExist
  <2>3. /\ NextMsg(remote.act) \in Msg /\ NextMsg(remote.act).act = remote.act
        /\ chan' = [chan EXCEPT ![r][remote.rank] = Append(@, NextMsg(remote.act))]
        /\ remoteNode' = remoteNode
    BY <1>3, <2>2 DEF HandOver, graph, NextMsg, Msg
  <2> HIDE DEF remote
  <2> QED
    BY <1>1, <2>2, <2>3
<1>4. CASE Notify(r)
  <2>1. PICK d \in toNotify[r] : chan' = [chan EXCEPT ![r][d] = Append(@, FoundMsg)]
    BY <1>4 DEF Notify
  <2>2. d \in Rank /\ remoteNode' = remoteNode
    BY <1>4, <2>1 DEF TypeOK, Notify, graph
  <2>3. FoundMsg \in Msg /\ FoundMsg.act \in Activity(d)
    BY <2>2, LastAssumption DEF FoundMsg, Msg, Activity
  <2> QED
    BY <1>1, <2>1, <2>2, <2>3
<1>5. CASE ReceiveNext(r)
  BY <1>2, <1>5 DEF ReceiveNext, graph
<1>6. CASE ReceiveFound(r)
  BY <1>2, <1>6 DEF ReceiveFound, graph
<1>7. CASE HandOverReturns(r)
  <2>1. /\ chan' = chan
        /\ \A q \in Rank : DOMAIN remoteNode'[q] \subseteq DOMAIN remoteNode[q]
        /\ \A q \in Rank : \A a \in DOMAIN remoteNode'[q] : remoteNode'[q][a] = remoteNode[q][a]
    BY <1>7 DEF HandOverReturns, TypeOK
  <2> QED
    BY <2>1 DEF TargetsExist
<1>8. CASE UNCHANGED <<remoteNode, chan>>
  BY <1>8 DEF TargetsExist
<1> QED
  BY <1>3, <1>4, <1>5, <1>6, <1>7, <1>8
     DEF Work, SendReturns, DecideRole, WalkOverActivity, WalkOverWaitState, WalkBack,
         ReachStart, LeaveLoop, ComputeSection, LeaveBarrier, ComputeRemainingSection,
         Finish, NotifyReturns, graph

-----------------------------------------------------------------------------
(***************************************************************************)
(* Steps.                                                                  *)
(***************************************************************************)

\* What GapInvOf says of a rank depends on nothing another rank changes.
LEMMA OtherRank ==
  ASSUME NEW q \in Rank, GapInvOf(q),
         pc'[q] = pc[q], cur'[q] = cur[q], sectionEnd'[q] = sectionEnd[q],
         sectionList'[q] = sectionList[q], onPath'[q] = onPath[q],
         localPath'[q] = localPath[q]
  PROVE  GapInvOf(q)'
BY DEF GapInvOf, Place, OpenCrossed, Collected, OnlyCrossed, Computed, Open, Pending,
       Crossed, Gap, Activity

LEMMA OthersKept ==
  ASSUME TypeOK, NEW r \in Rank, Work(r) \/ SendReturns(r), NEW q \in Rank \ {r}
  PROVE  /\ pc'[q] = pc[q] /\ cur'[q] = cur[q] /\ sectionEnd'[q] = sectionEnd[q]
         /\ sectionList'[q] = sectionList[q] /\ onPath'[q] = onPath[q]
         /\ localPath'[q] = localPath[q]
<1>1. CASE DecideRole(r) \/ WalkOverActivity(r) \/ WalkOverWaitState(r) \/ WalkBack(r)
  BY <1>1 DEF TypeOK, DecideRole, WalkOverActivity, WalkOverWaitState, WalkBack, Mark, PushSection
<1>2. CASE HandOver(r) \/ ReachStart(r)
  BY <1>2 DEF TypeOK, HandOver, ReachStart, Mark, PushSection
<1>3. CASE Notify(r) \/ LeaveLoop(r) \/ ReceiveFound(r) \/ LeaveBarrier(r) \/ Finish(r)
  BY <1>3 DEF TypeOK, Notify, LeaveLoop, ReceiveFound, LeaveBarrier, Finish
<1>4. CASE ComputeSection(r) \/ ComputeRemainingSection(r)
  BY <1>4 DEF TypeOK, ComputeSection, ComputeRemainingSection
<1>5. CASE ReceiveNext(r)
  BY <1>5 DEF TypeOK, ReceiveNext, Mark
<1>6. CASE SendReturns(r)
  BY <1>6 DEF TypeOK, SendReturns, HandOverReturns, NotifyReturns
<1> QED
  BY <1>1, <1>2, <1>3, <1>4, <1>5, <1>6 DEF Work

\* Marking a node adds at most the gap in front of it, and only an enter node.
LEMMA MarkCrosses ==
  ASSUME TypeOK, NEW r \in Rank, NEW n, Mark(r, n)
  PROVE  Crossed(r)' = Crossed(r) \cup {k \in Gap(r) : Enter(k) = n}
BY DEF TypeOK, Mark, Crossed, Gap

LEMMA SidesDiffer ==
  ASSUME NEW a, NEW b
  PROVE  Enter(a) # Leave(b) /\ (Enter(a) = Enter(b) => a = b) /\ Enter(a).act = a
BY DEF Enter, Leave

\* The section pushed is the one being walked.
LEMMA PushedGaps ==
  ASSUME TypeOK, NEW r \in Rank, Place(r), PushSection(r)
  PROVE  Pending(r)' = Pending(r) \cup Open(r)
<1>1. sectionList[r] \in Seq(Section) /\ sectionList'[r] = sectionList[r] \o NewSection(r)
  BY DEF TypeOK, PushSection, Section
<1>2. Pending(r) = GapsOf(sectionList[r]) /\ Pending(r)' = GapsOf(sectionList'[r])
  BY DEF Pending, GapsOf
<1>3. CASE sectionEnd[r] # NoActivity /\ cur[r] # Leave(sectionEnd[r])
  <2> DEFINE sec == [from |-> cur[r].act, to |-> sectionEnd[r]]
  <2>1. NewSection(r) = <<sec>> /\ sec \in Section /\ Gaps(sec) = Open(r)
    BY <1>3 DEF NewSection, TypeOK, Section, Gaps, Open
  <2> HIDE DEF sec
  <2> QED
    BY <1>1, <1>2, <2>1, GapsOfAppended
<1>4. CASE ~(sectionEnd[r] # NoActivity /\ cur[r] # Leave(sectionEnd[r]))
  <2>1. NewSection(r) = <<>>
    BY <1>4 DEF NewSection
  <2>2. sectionList'[r] = sectionList[r]
    BY <1>1, <2>1, ConcatEmptySeq
  <2>3. Open(r) = {}
    BY <1>4 DEF Open, TypeOK, Leave
  <2> QED
    BY <1>2, <2>2, <2>3
<1> QED
  BY <1>3, <1>4

\* Steps of the search that neither move the walk nor touch sections.
LEMMA QuietStepGaps ==
  ASSUME TypeOK, NEW r \in Rank, GapInvOf(r),
         \/ Notify(r) \/ NotifyReturns(r) \/ LeaveLoop(r) \/ ReceiveFound(r)
         \/ LeaveBarrier(r) \/ Finish(r)
  PROVE  GapInvOf(r)'
<1>1. /\ UNCHANGED <<cur, sectionEnd, sectionList, onPath, localPath>>
      /\ pc[r] # "master" /\ pc'[r] \notin {"master", "decide"}
      /\ pc'[r] = "finished" => pc[r] = "finished" \/ sectionList[r] = <<>>
  BY DEF TypeOK, Notify, NotifyReturns, LeaveLoop, ReceiveFound, LeaveBarrier, Finish
<1>2. /\ Open(r)' = Open(r) /\ Crossed(r)' = Crossed(r) /\ Pending(r)' = Pending(r)
      /\ Place(r)'
  BY <1>1 DEF GapInvOf, Place, Open, Crossed, Pending
<1> QED
  BY <1>1, <1>2 DEF GapInvOf, OpenCrossed, Collected, OnlyCrossed, Computed

LEMMA DecideRoleGaps ==
  ASSUME TypeOK, NEW r \in Rank, GapInvOf(r), DecideRole(r)
  PROVE  GapInvOf(r)'
<1>1. /\ UNCHANGED <<cur, sectionList, onPath, localPath>>
      /\ pc[r] = "decide" /\ pc'[r] \in {"master", "slave"}
      /\ \/ sectionEnd'[r] = sectionEnd[r] /\ pc'[r] = "slave"
         \/ sectionEnd'[r] = LastActivity[r] /\ pc'[r] = "master"
  BY DEF TypeOK, DecideRole
<1>2. Crossed(r)' = Crossed(r) /\ Pending(r)' = Pending(r) /\ cur[r] = Leave(LastActivity[r])
  BY <1>1 DEF Crossed, Pending, GapInvOf, Place
<1>3. /\ Crossed(r) \subseteq localPath[r] \cup Pending(r)
      /\ Open(r)' = Open(r) \/ Open(r)' = {}
  BY <1>1, <1>2, ActivityIsNat DEF GapInvOf, Collected, Open, Leave
<1>4. Place(r)'
  BY <1>1, <1>2, ActivityIsNat DEF GapInvOf, Place, Leave, Activity, NoActivity
<1> QED
  BY <1>1, <1>2, <1>3, <1>4 DEF GapInvOf, OpenCrossed, Collected, OnlyCrossed, Computed

\* Over an activity: no gap is crossed, but the section may be pushed.
LEMMA WalkOverGaps ==
  ASSUME TypeOK, NEW r \in Rank, GapInvOf(r), WalkOverActivity(r) \/ WalkOverWaitState(r)
  PROVE  GapInvOf(r)'
<1>1. /\ MasterAt(r, "leave") /\ Mark(r, cur[r])
      /\ cur' = [cur EXCEPT ![r] = Enter(cur[r].act)]
      /\ UNCHANGED <<pc, sectionEnd, localPath>>
      /\ UNCHANGED sectionList \/ PushSection(r)
  BY DEF WalkOverActivity, WalkOverWaitState
<1>2. cur[r] \in [act : Nat, side : {"enter", "leave"}] /\ cur[r].side = "leave"
  BY <1>1 DEF TypeOK, MasterAt
<1>3. Crossed(r)' = Crossed(r)
  <2>1. {k \in Gap(r) : Enter(k) = cur[r]} = {}
    BY <1>2 DEF Enter
  <2> QED
    BY <1>1, <2>1, MarkCrosses
<1>4. cur'[r].act = cur[r].act /\ Open(r)' = Open(r) /\ Place(r)'
  <2>1. cur'[r].act = cur[r].act /\ pc'[r] = "master"
    BY <1>1 DEF TypeOK, Enter, MasterAt
  <2> QED
    BY <1>1, <2>1 DEF GapInvOf, Place, Open, MasterAt, Activity
<1>5. Pending(r)' = Pending(r) \/ Pending(r)' = Pending(r) \cup Open(r)
  BY <1>1, PushedGaps DEF GapInvOf, Pending
<1>6. pc'[r] = "master" /\ pc'[r] # "finished"
  BY <1>1 DEF MasterAt
<1> QED
  BY <1>1, <1>3, <1>4, <1>5, <1>6 DEF GapInvOf, OpenCrossed, Collected, OnlyCrossed, Computed

\* Through a gap: it is crossed and becomes part of the section being walked.
LEMMA WalkBackGaps ==
  ASSUME TypeOK, NEW r \in Rank, GapInvOf(r), WalkBack(r)
  PROVE  GapInvOf(r)'
<1> DEFINE a == cur[r].act
<1>1. /\ MasterAt(r, "enter") /\ a > 0 /\ Mark(r, cur[r])
      /\ UNCHANGED <<pc, sectionEnd, sectionList, localPath>>
  BY DEF WalkBack
<1>2. cur[r] = Enter(a) /\ a \in Nat \ {0} /\ cur'[r].act = a - 1
  BY <1>1 DEF WalkBack, MasterAt, TypeOK, Enter, Leave
<1>3. a \in Gap(r) /\ sectionEnd[r] \in a .. LastActivity[r] /\ sectionEnd[r] # NoActivity
  BY <1>1, <1>2, ActivityIsNat DEF GapInvOf, Place, MasterAt, Gap, Activity
<1>4. Crossed(r)' = Crossed(r) \cup {a}
  <2>1. {k \in Gap(r) : Enter(k) = Enter(a)} = {a}
    BY <1>3, SidesDiffer
  <2> QED
    BY <1>1, <1>2, <2>1, MarkCrosses
<1>5. Open(r)' = Open(r) \cup {a}
  BY <1>1, <1>2, <1>3, ActivityIsNat DEF Open
<1>6. Place(r)'
  <2>1. pc'[r] = "master" /\ sectionEnd'[r] = sectionEnd[r] /\ a - 1 \in Activity(r)
    BY <1>1, <1>2, <1>3, ActivityIsNat DEF MasterAt, Gap, Activity
  <2>2. sectionEnd[r] \in a - 1 .. LastActivity[r]
    BY <1>2, <1>3, ActivityIsNat
  <2> QED
    BY <1>2, <1>3, <2>1, <2>2 DEF Place, Activity
<1>7. Pending(r)' = Pending(r) /\ pc'[r] = "master"
  BY <1>1 DEF Pending, MasterAt
<1> QED
  BY <1>1, <1>4, <1>5, <1>6, <1>7 DEF GapInvOf, OpenCrossed, Collected, OnlyCrossed, Computed

\* The walk leaves the rank or ends: the section being walked is pushed.
LEMMA PushAndStopGaps ==
  ASSUME TypeOK, NEW r \in Rank, GapInvOf(r), HandOver(r) \/ ReachStart(r)
  PROVE  GapInvOf(r)'
<1>1. /\ PushSection(r)
      /\ UNCHANGED <<cur, sectionEnd, localPath>>
      /\ pc[r] = "master" /\ pc'[r] \in {"sendNext", "sendFound"}
  BY DEF TypeOK, HandOver, ReachStart, MasterAt
<1>2. Crossed(r)' = Crossed(r)
  <2>1. CASE HandOver(r)
    <3>1. \/ onPath' = onPath
          \/ Mark(r, cur[r]) /\ cur[r].side = "leave"
      BY <2>1 DEF HandOver, MasterAt
    <3> QED
      BY <3>1, MarkCrosses DEF Enter, Crossed
  <2>2. CASE ReachStart(r)
    <3>1. Mark(r, cur[r]) /\ cur[r].act = 0
      BY <2>2 DEF ReachStart
    <3> QED
      BY <3>1, MarkCrosses, SidesDiffer, ActivityIsNat DEF Gap
  <2> QED
    BY <2>1, <2>2
<1>3. Pending(r)' = Pending(r) \cup Open(r)
  BY <1>1, PushedGaps DEF GapInvOf
<1>4. Open(r)' = Open(r) /\ Place(r)'
  BY <1>1 DEF Open, GapInvOf, Place
<1> QED
  BY <1>1, <1>2, <1>3, <1>4 DEF GapInvOf, OpenCrossed, Collected, OnlyCrossed, Computed

LEMMA HandOverReturnsGaps ==
  ASSUME TypeOK, NEW r \in Rank, GapInvOf(r), HandOverReturns(r)
  PROVE  GapInvOf(r)'
<1>1. /\ UNCHANGED <<cur, sectionList, onPath, localPath>>
      /\ sectionEnd'[r] = NoActivity /\ pc[r] = "sendNext" /\ pc'[r] = "slave"
  BY DEF TypeOK, HandOverReturns
<1>2. Crossed(r)' = Crossed(r) /\ Pending(r)' = Pending(r) /\ Open(r)' = {} /\ Place(r)'
  BY <1>1 DEF Crossed, Pending, Open, GapInvOf, Place
<1> QED
  BY <1>1, <1>2 DEF GapInvOf, OpenCrossed, Collected, OnlyCrossed, Computed

\* A new master starts with an empty section at the activity it was given.
LEMMA ReceiveNextGaps ==
  ASSUME TypeOK, TargetsExist, NEW r \in Rank, GapInvOf(r), ReceiveNext(r)
  PROVE  GapInvOf(r)'
<1>1. PICK s \in Rank :
        /\ chan[s][r] # <<>>
        /\ Mark(r, Leave(Head(chan[s][r]).act))
        /\ cur' = [cur EXCEPT ![r] = Enter(Head(chan[s][r]).act)]
        /\ sectionEnd' = [sectionEnd EXCEPT ![r] = Head(chan[s][r]).act]
  BY DEF ReceiveNext
<1>2. /\ pc[r] = "slave" /\ pc'[r] = "master"
      /\ UNCHANGED <<sectionList, localPath>>
  BY DEF ReceiveNext, TypeOK
<1> DEFINE a == Head(chan[s][r]).act
<1>3. a \in Activity(r)
  <2>1. chan[s][r] \in Seq(Msg) /\ 1 \in DOMAIN chan[s][r] /\ Head(chan[s][r]) = chan[s][r][1]
    BY <1>1, EmptySeq, LenProperties, HeadTailProperties DEF TypeOK
  <2> QED
    BY <2>1 DEF TargetsExist
<1>4. cur'[r].act = a /\ sectionEnd'[r] = a
  BY <1>1 DEF TypeOK, Enter
<1>5. Place(r)' /\ Open(r)' = {}
  BY <1>2, <1>3, <1>4, ActivityIsNat DEF Place, Open, Activity, NoActivity
<1>6. Crossed(r)' = Crossed(r) /\ Pending(r)' = Pending(r)
  <2>1. {k \in Gap(r) : Enter(k) = Leave(a)} = {}
    BY SidesDiffer
  <2> QED
    BY <1>1, <1>2, <2>1, MarkCrosses DEF Pending
<1> QED
  BY <1>2, <1>5, <1>6 DEF GapInvOf, OpenCrossed, Collected, OnlyCrossed, Computed

\* A section computed moves its gaps from the list to the local path.
LEMMA ComputeGaps ==
  ASSUME TypeOK, NEW r \in Rank, GapInvOf(r), ComputeSection(r) \/ ComputeRemainingSection(r)
  PROVE  GapInvOf(r)'
<1>1. /\ UNCHANGED <<pc, cur, sectionEnd, onPath>>
      /\ pc[r] \in {"slave", "sections"}
      /\ Pending(r) = GapsOf(sectionList[r]) /\ Pending(r)' = GapsOf(sectionList'[r])
      /\ sectionList[r] \in Seq(Section)
  BY DEF ComputeSection, ComputeRemainingSection, Pending, GapsOf, TypeOK, Section
<1>2. /\ Crossed(r)' = Crossed(r) /\ Open(r)' = Open(r) /\ Place(r)'
  BY <1>1 DEF Crossed, Open, GapInvOf, Place
<1>3. localPath'[r] \cup Pending(r)' = localPath[r] \cup Pending(r)
  <2>1. CASE ComputeSection(r)
    BY <2>1, <1>1, GapsOfFront DEF ComputeSection, TypeOK
  <2>2. CASE ComputeRemainingSection(r)
    <3>1. PICK i \in DOMAIN sectionList[r] :
            /\ localPath' = [localPath EXCEPT ![r] = @ \cup Gaps(sectionList[r][i])]
            /\ sectionList' = [sectionList EXCEPT ![r] = RemoveAt(@, i)]
      BY <2>2 DEF ComputeRemainingSection
    <3>2. GapsOf(sectionList[r]) =
            GapsOf(RemoveAt(sectionList[r], i)) \cup Gaps(sectionList[r][i])
      BY <1>1, GapsOfRemoved
    <3> QED
      BY <1>1, <3>1, <3>2 DEF TypeOK
  <2> QED
    BY <2>1, <2>2
<1> QED
  BY <1>1, <1>2, <1>3 DEF GapInvOf, OpenCrossed, Collected, OnlyCrossed, Computed

-----------------------------------------------------------------------------
(***************************************************************************)
(* The theorems.                                                           *)
(***************************************************************************)

LEMMA StepGapInv == TypeOK /\ GapInv /\ [Next]_vars => GapInv'
<1> SUFFICES ASSUME TypeOK, GapInv, [Next]_vars PROVE GapInv'
  OBVIOUS
<1>1. ASSUME NEW r \in Rank, Work(r) \/ SendReturns(r) PROVE GapInv'
  <2>1. TargetsExist'
    BY <1>1, TargetsKept DEF GapInv
  <2>2. GapInvOf(r)'
    BY <1>1, QuietStepGaps, DecideRoleGaps, WalkOverGaps, WalkBackGaps, PushAndStopGaps,
       HandOverReturnsGaps, ReceiveNextGaps, ComputeGaps DEF GapInv, Work, SendReturns
  <2>3. ASSUME NEW q \in Rank \ {r} PROVE GapInvOf(q)'
    BY <1>1, <2>3, OtherRank, OthersKept DEF GapInv
  <2> QED
    BY <2>1, <2>2, <2>3 DEF GapInv
<1>2. CASE UNCHANGED vars
  <2>1. TargetsExist'
    BY <1>2 DEF GapInv, TargetsExist, vars
  <2>2. ASSUME NEW q \in Rank PROVE GapInvOf(q)'
    BY <1>2, <2>2, OtherRank DEF GapInv, vars
  <2> QED
    BY <2>1, <2>2 DEF GapInv
<1> QED
  BY <1>1, <1>2 DEF Next, Terminated

\* The sections a rank has computed, those it has still to compute and the one
\* it is walking through are the gaps it has crossed.
THEOREM GapInvariant == Spec => []GapInv
BY InitGapInv, StepGapInv, TypeCorrect, PTL DEF Spec

\* No stretch of the path is forgotten between the walk and the computation of
\* the local critical path, whenever a rank gives up the path (Runner.cpp:1560).
THEOREM NoGapIsLost == Spec => []NoGapLost
<1>1. TypeOK /\ GapInv => NoGapLost
  BY GapInvImplies
<1> QED
  BY <1>1, GapInvariant, TypeCorrect, PTL

\* No section reaches beyond what the walk has crossed, so nothing else gets
\* the counter of the critical path.
THEOREM NothingElseComputed == Spec => []OnlyCrossedGaps
<1>1. TypeOK /\ GapInv => OnlyCrossedGaps
  BY GapInvImplies
<1> QED
  BY <1>1, GapInvariant, TypeCorrect, PTL

\* When every rank has finished, the local path is known of exactly the gaps
\* the walk has crossed.
THEOREM PathIsComplete == Spec => []PathComplete
<1>1. TypeOK /\ GapInv => PathComplete
  BY GapInvImplies
<1> QED
  BY <1>1, GapInvariant, TypeCorrect, PTL

-----------------------------------------------------------------------------
(***************************************************************************)
(* The path goes back in time.  The graph has no times; let t be any that  *)
(* fit it: a rank performs its activities one after the other, and what a  *)
(* wait state waited for was entered before the wait was over.             *)
(***************************************************************************)
Timed(t) ==
  \A r \in Rank : \A a \in Activity(r) :
    /\ t[r][a].enter \in Int /\ t[r][a].leave \in Int
    /\ t[r][a].enter < t[r][a].leave
    /\ a > 0 => t[r][a - 1].leave <= t[r][a].enter

TargetsBefore(t) ==
  \A r \in Rank : \A a \in DOMAIN remoteNode[r] :
    t[remoteNode[r][a].rank][remoteNode[r][a].act].enter < t[r][a].leave

\* The time the path has reached at a master.
Reached(t, r) == IF cur[r].side = "leave" THEN t[r][cur[r].act].leave
                                          ELSE t[r][cur[r].act].enter

BackInTime(t) ==
  \A s, d \in Rank : \A k \in DOMAIN chan[s][d] : chan[s][d][k].type = "next" =>
    t[d][chan[s][d][k].act].enter < t[s][cur[s].act].leave

\* The path has changed ranks at wait state a of rank r.
Used(r, a) == \/ a \in blocking[r] /\ a \notin DOMAIN remoteNode[r]
              \/ pc[r] = "sendNext" /\ a = cur[r].act

\* Then it has come to an earlier time, wherever it is continued.
PastUsed(t) ==
  \A q \in Rank : \A a \in Activity(q) : Used(q, a) =>
    /\ \A r \in Rank : pc[r] = "master" => Reached(t, r) < t[q][a].leave
    /\ \A r \in Rank : pc[r] = "decide" => ~EndOfPath(r)
    /\ \A s, d \in Rank : \A k \in DOMAIN chan[s][d] : chan[s][d][k].type = "next" =>
         t[d][chan[s][d][k].act].enter < t[q][a].leave

BackInv(t) == TargetsBefore(t) /\ BackInTime(t) /\ PastUsed(t)

LEMMA InitBackInv ==
  ASSUME NEW t, Init, TargetsBefore(t) PROVE BackInv(t)
<1>1. PICK g \in [Rank -> UNION {RankGraph(r) : r \in Rank}] :
        /\ \A r \in Rank : g[r] \in RankGraph(r)
        /\ blocking = [r \in Rank |-> g[r].blocking]
        /\ remoteNode = [r \in Rank |-> g[r].remoteNode]
  BY DEF Init
<1>2. ASSUME NEW r \in Rank PROVE blocking[r] = DOMAIN remoteNode[r]
  <2>1. PICK S \in SUBSET Lasting(r) :
          g[r] \in [blocking : {S}, remoteNode : RemoteMap(r, S)]
    BY <1>1 DEF RankGraph
  <2>2. g[r].blocking = S /\ g[r].remoteNode \in RemoteMap(r, S)
    BY <2>1
  <2>3. DOMAIN g[r].remoteNode = S
    BY <2>2 DEF RemoteMap
  <2> QED
    BY <1>1, <2>2, <2>3
<1>3. \A r \in Rank : pc[r] = "decide"
  BY DEF Init, InitProcedure
<1>4. \A s, d \in Rank : DOMAIN chan[s][d] = {}
  BY DEF Init, InitProcedure
<1> QED
  BY <1>2, <1>3, <1>4 DEF BackInv, BackInTime, PastUsed, Used

LEMMA NoSecondWait ==
  ASSUME NEW t, Timed(t), PastUsed(t), GapInv, NEW r \in Rank, MasterAt(r, "leave")
  PROVE  cur[r].act \notin blocking[r] \ DOMAIN remoteNode[r]
<1> SUFFICES ASSUME cur[r].act \in blocking[r] \ DOMAIN remoteNode[r] PROVE FALSE
  OBVIOUS
<1>1. cur[r].act \in Activity(r)
  BY DEF GapInv, GapInvOf, Place
<1>2. /\ Used(r, cur[r].act) /\ pc[r] = "master"
      /\ Reached(t, r) = t[r][cur[r].act].leave
  BY DEF MasterAt, Used, Reached
<1>3. Reached(t, r) < t[r][cur[r].act].leave /\ t[r][cur[r].act].leave \in Int
  BY <1>1, <1>2 DEF PastUsed, Timed
<1> QED
  BY <1>2, <1>3

\* Where the path is with a rank no message is on its way, and where a rank
\* is through there is nobody to continue it.
LEMMA NothingUnderWay ==
  ASSUME NEW t, ProtocolInv, NEW r \in Rank, HoldsPath(r) \/ AtEnd(r)
  PROVE  BackInTime(t) /\ (AtEnd(r) => PastUsed(t))
<1>1. \A s, d \in Rank : ~Carries(s, d)
  BY DEF ProtocolInv, OneMaster, EndMeansLost, PathLost
<1>2. AtEnd(r) => \A q \in Rank : ~HoldsPath(q)
  BY DEF ProtocolInv, EndMeansLost, PathLost
<1> QED
  BY <1>1, <1>2 DEF BackInTime, PastUsed, Carries, HoldsPath

LEMMA TargetsStayBefore ==
  ASSUME TypeOK, NEW t, TargetsBefore(t), NEW r \in Rank, Work(r) \/ SendReturns(r)
  PROVE  TargetsBefore(t)'
<1>1. CASE HandOverReturns(r)
  <2>1. /\ \A q \in Rank : DOMAIN remoteNode'[q] \subseteq DOMAIN remoteNode[q]
        /\ \A q \in Rank : \A a \in DOMAIN remoteNode'[q] : remoteNode'[q][a] = remoteNode[q][a]
    BY <1>1 DEF HandOverReturns, TypeOK
  <2> QED
    BY <2>1 DEF TargetsBefore
<1>2. CASE UNCHANGED remoteNode
  BY <1>2 DEF TargetsBefore
<1> QED
  BY <1>1, <1>2
     DEF Work, SendReturns, DecideRole, WalkOverActivity, WalkOverWaitState, WalkBack, HandOver,
         ReachStart, Notify, LeaveLoop, ComputeSection, ReceiveNext, ReceiveFound, LeaveBarrier,
         ComputeRemainingSection, Finish, NotifyReturns, graph

\* A master goes on to an earlier time.
LEMMA WalkKeepsPast ==
  ASSUME TypeOK, GapInv, ProtocolInv, ProtocolInv', NEW t, Timed(t), PastUsed(t), NEW r \in Rank,
         WalkOverActivity(r) \/ WalkBack(r)
  PROVE  BackInTime(t)' /\ PastUsed(t)'
<1>1. /\ pc[r] = "master" /\ pc' = pc /\ UNCHANGED graph /\ chan' = chan
      /\ cur[r].act \in Activity(r) /\ \A q \in Rank \ {r} : cur'[q] = cur[q]
  BY DEF TypeOK, GapInv, GapInvOf, Place, WalkOverActivity, WalkBack, MasterAt
<1>2. HoldsPath(r)' /\ HoldsPath(r)
  BY <1>1 DEF HoldsPath
<1>3. BackInTime(t)' /\ \A s, d \in Rank : ~Carries(s, d)'
  <2>1. BackInTime(t)'
    BY <1>2, NothingUnderWay, PTL
  <2> QED
    BY <1>2, <2>1 DEF ProtocolInv, OneMaster
<1>4. \A q \in Rank : \A a : Used(q, a)' <=> Used(q, a)
  BY <1>1 DEF Used, graph
<1>5. Reached(t, r)' \in Int /\ Reached(t, r) \in Int /\ Reached(t, r)' <= Reached(t, r)
  <2>1. CASE WalkOverActivity(r)
    <3>1. /\ cur[r].side = "leave" /\ cur'[r].side = "enter" /\ cur'[r].act = cur[r].act
      BY <2>1 DEF WalkOverActivity, MasterAt, Enter, TypeOK
    <3> QED
      BY <1>1, <3>1 DEF Reached, Timed
  <2>2. CASE WalkBack(r)
    <3>1. PICK c \in Nat : c = cur[r].act
      BY <1>1, ActivityIsNat
    <3>2. c > 0 /\ c \in Activity(r) /\ c - 1 \in Activity(r)
      BY <1>1, <2>2, <3>1, ActivityIsNat DEF WalkBack, Activity
    <3>3. /\ cur[r].side = "enter" /\ Reached(t, r) = t[r][c].enter
      BY <2>2, <3>1 DEF WalkBack, MasterAt, Reached
    <3>4. \/ cur'[r] = Enter(0) /\ c = 1
          \/ cur'[r] = Leave(c - 1)
      BY <2>2, <3>1 DEF WalkBack, TypeOK
    <3>5. /\ t[r][c].enter \in Int /\ t[r][c - 1].leave \in Int /\ t[r][c - 1].enter \in Int
          /\ t[r][c - 1].leave <= t[r][c].enter /\ t[r][c - 1].enter < t[r][c - 1].leave
      BY <3>2 DEF Timed
    <3>6. CASE cur'[r] = Enter(0) /\ c = 1
      <4>1. Reached(t, r)' = t[r][c - 1].enter
        BY <3>6 DEF Reached, Enter
      <4> QED
        BY <3>3, <3>5, <4>1
    <3>7. CASE cur'[r] = Leave(c - 1)
      <4>1. Reached(t, r)' = t[r][c - 1].leave
        BY <3>7 DEF Reached, Leave
      <4> QED
        BY <3>3, <3>5, <4>1
    <3> QED
      BY <3>4, <3>6, <3>7
  <2> QED
    BY <2>1, <2>2
<1>6. ASSUME NEW q \in Rank, NEW a \in Activity(q), Used(q, a)
      PROVE  /\ \A o \in Rank : pc'[o] = "master" => Reached(t, o)' < t[q][a].leave
             /\ \A o \in Rank : pc'[o] = "decide" => ~EndOfPath(o)'
  <2>1. t[q][a].leave \in Int
    BY DEF Timed
  <2>2. Reached(t, r) < t[q][a].leave
    BY <1>1, <1>6 DEF PastUsed
  <2>3. Reached(t, r)' < t[q][a].leave
    BY <1>5, <2>1, <2>2
  <2>4. ASSUME NEW o \in Rank, pc'[o] = "master" PROVE o = r
    BY <1>1, <1>2, <2>4 DEF ProtocolInv, OneMaster, HoldsPath
  <2>5. \A o \in Rank : pc'[o] = "decide" => ~EndOfPath(o)'
    BY <1>1, <1>6 DEF PastUsed, EndOfPath, graph
  <2> QED
    BY <2>3, <2>4, <2>5
<1>7. \A q : Activity(q)' = Activity(q)
  BY DEF Activity
<1> QED
  BY <1>3, <1>4, <1>6, <1>7 DEF PastUsed, Carries

LEMMA HandOverKeepsPast ==
  ASSUME TypeOK, GapInv, ProtocolInv, NEW t, Timed(t), TargetsBefore(t), PastUsed(t),
         NEW r \in Rank, HandOver(r)
  PROVE  BackInTime(t)' /\ PastUsed(t)'
<1>1. PICK n, c : c = cur[r].act /\ n = remoteNode[r][c]
  OBVIOUS
<1>2. c \in Activity(r) /\ c \in DOMAIN remoteNode[r] /\ n.rank \in Rank /\ n.act \in Activity(n.rank)
  BY <1>1, RemoteTarget DEF GapInv, GapInvOf, Place, TargetsExist, HandOver
<1>3. /\ pc[r] = "master" /\ cur' = cur /\ UNCHANGED graph
      /\ pc' = [pc EXCEPT ![r] = "sendNext"]
      /\ chan' = [chan EXCEPT ![r][n.rank] = Append(@, NextMsg(n.act))]
      /\ Reached(t, r) = t[r][c].leave
  BY <1>1 DEF HandOver, MasterAt, Reached
<1>4. HoldsPath(r)
  BY <1>3 DEF HoldsPath
<1>5. \A s, d \in Rank : chan[s][d] = <<>>
  BY <1>4, HolderAlone
<1>6. ASSUME NEW s \in Rank, NEW d \in Rank, NEW k \in DOMAIN chan'[s][d]
      PROVE  s = r /\ d = n.rank /\ chan'[s][d][k].act = n.act
  <2>1. CASE s = r /\ d = n.rank
    <3>1. PICK m \in Msg : m = NextMsg(n.act)
      BY <1>2, ActivityIsNat DEF NextMsg, Msg
    <3>2. chan'[s][d] = Append(chan[s][d], m)
      BY <1>2, <1>3, <2>1, <3>1 DEF TypeOK
    <3>3. chan'[s][d] = <<m>>
      BY <1>5, <3>2, FirstMessage
    <3> QED
      BY <1>6, <2>1, <3>1, <3>3 DEF NextMsg
  <2>2. CASE ~(s = r /\ d = n.rank)
    <3>1. chan'[s][d] = <<>>
      BY <1>2, <1>3, <1>5, <2>2 DEF TypeOK
    <3> QED
      BY <1>6, <3>1
  <2> QED
    BY <2>1, <2>2
<1>7. t[n.rank][n.act].enter \in Int /\ t[r][c].leave \in Int
      /\ t[n.rank][n.act].enter < t[r][c].leave
  BY <1>1, <1>2 DEF Timed, TargetsBefore
<1>8. BackInTime(t)'
  BY <1>1, <1>3, <1>6, <1>7 DEF BackInTime
<1>9. ASSUME NEW q \in Rank, NEW a \in Activity(q), Used(q, a)'
      PROVE  /\ \A o \in Rank : pc'[o] # "master"
             /\ \A o \in Rank : pc'[o] = "decide" => ~EndOfPath(o)'
             /\ t[n.rank][n.act].enter < t[q][a].leave
  <2>1. ASSUME NEW o \in Rank \ {r} PROVE pc'[o] = pc[o] /\ ~HoldsPath(o)
    BY <1>3, <1>4 DEF TypeOK, ProtocolInv, OneMaster
  <2>2. pc'[r] = "sendNext"
    BY <1>3 DEF TypeOK
  <2>3. \A o \in Rank : pc'[o] # "master" /\ (pc'[o] = "decide" => ~EndOfPath(o)')
    BY <1>3, <2>1, <2>2 DEF HoldsPath, EndOfPath, graph
  <2>4. Used(q, a) \/ (q = r /\ a = c)
    BY <1>1, <1>3, <1>9, <2>1 DEF Used, graph
  <2>5. ASSUME Used(q, a) PROVE t[n.rank][n.act].enter < t[q][a].leave
    <3>1. t[r][c].leave < t[q][a].leave
      BY <1>3, <2>5 DEF PastUsed
    <3>2. t[q][a].leave \in Int
      BY DEF Timed
    <3> QED
      BY <1>7, <3>1, <3>2
  <2> QED
    BY <1>7, <2>3, <2>4, <2>5
<1>10. \A q : Activity(q)' = Activity(q)
  BY DEF Activity
<1> QED
  BY <1>6, <1>8, <1>9, <1>10 DEF PastUsed

LEMMA ReceiveKeepsPast ==
  ASSUME TypeOK, GapInv, ProtocolInv, ProtocolInv', NEW t, PastUsed(t), NEW r \in Rank,
         ReceiveNext(r)
  PROVE  BackInTime(t)' /\ PastUsed(t)'
<1>1. PICK s \in Rank : /\ pc[r] = "slave" /\ chan[s][r] # <<>>
                        /\ Head(chan[s][r]).type = "next"
                        /\ cur' = [cur EXCEPT ![r] = Enter(Head(chan[s][r]).act)]
                        /\ pc' = [pc EXCEPT ![r] = "master"] /\ UNCHANGED graph
  BY DEF ReceiveNext
<1>2. 1 \in DOMAIN chan[s][r] /\ Head(chan[s][r]) = chan[s][r][1]
  <2>1. PICK m \in Seq(Msg) : m = chan[s][r]
    BY DEF TypeOK
  <2> QED
    BY <1>1, <2>1
<1>3. PICK e : e = chan[s][r][1].act
  OBVIOUS
<1>4. pc'[r] = "master" /\ cur'[r] = Enter(e) /\ \A q \in Rank \ {r} : pc'[q] = pc[q] /\ cur'[q] = cur[q]
  BY <1>1, <1>2, <1>3 DEF TypeOK
<1>5. HoldsPath(r)'
  BY <1>4 DEF HoldsPath
<1>6. BackInTime(t)' /\ \A o, d \in Rank : ~Carries(o, d)'
  <2>1. BackInTime(t)'
    BY <1>5, NothingUnderWay, PTL
  <2> QED
    BY <1>5, <2>1 DEF ProtocolInv, OneMaster
<1>7. \A q \in Rank : \A a : Used(q, a)' => Used(q, a)
  BY <1>1, <1>4 DEF Used, graph
<1>8. ASSUME NEW q \in Rank, NEW a \in Activity(q), Used(q, a)'
      PROVE  /\ \A o \in Rank : pc'[o] = "master" => Reached(t, o)' < t[q][a].leave
             /\ \A o \in Rank : pc'[o] = "decide" => ~EndOfPath(o)'
  <2>1. Used(q, a)
    BY <1>7, <1>8
  <2>2. t[r][e].enter < t[q][a].leave
    BY <1>1, <1>2, <1>3, <2>1 DEF PastUsed
  <2>3. Reached(t, r)' = t[r][e].enter
    BY <1>4 DEF Reached, Enter
  <2>4. ASSUME NEW o \in Rank, pc'[o] = "master" PROVE o = r
    BY <1>5, <2>4 DEF ProtocolInv, OneMaster, HoldsPath
  <2>5. \A o \in Rank : pc'[o] = "decide" => ~EndOfPath(o)'
    BY <1>1, <1>4, <2>1 DEF PastUsed, EndOfPath, graph
  <2> QED
    BY <2>2, <2>3, <2>4, <2>5
<1>9. \A q : Activity(q)' = Activity(q)
  BY DEF Activity
<1> QED
  BY <1>6, <1>8, <1>9 DEF PastUsed, Carries

LEMMA StepBackInv ==
  ASSUME TypeOK, GapInv, ProtocolInv, ProtocolInv', NEW t, Timed(t), BackInv(t), [Next]_vars
  PROVE  BackInv(t)'
<1>1. ASSUME NEW r \in Rank, Work(r) \/ SendReturns(r) PROVE BackInv(t)'
  <2>1. TargetsBefore(t)'
    BY <1>1, TargetsStayBefore DEF BackInv
  <2>2. CASE WalkOverWaitState(r)
    BY <2>2, NoSecondWait DEF BackInv, WalkOverWaitState
  <2>3. CASE WalkOverActivity(r) \/ WalkBack(r)
    BY <2>1, <2>3, WalkKeepsPast DEF BackInv
  <2>4. CASE HandOver(r)
    BY <2>1, <2>4, HandOverKeepsPast DEF BackInv
  <2>5. CASE ReceiveNext(r)
    BY <2>1, <2>5, ReceiveKeepsPast DEF BackInv
  <2>6. CASE DecideRole(r) /\ EndOfPath(r)
    <3>1. HoldsPath(r) /\ HoldsPath(r)' /\ UNCHANGED graph /\ pc' = [pc EXCEPT ![r] = "master"]
      BY <2>6 DEF DecideRole, HoldsPath, TypeOK
    <3>2. BackInTime(t)'
      BY <3>1, NothingUnderWay, PTL
    <3>3. \A q \in Rank : \A a \in Activity(q) : ~Used(q, a)
      BY <2>6 DEF BackInv, PastUsed, DecideRole
    <3>4. \A q \in Rank : \A a \in Activity(q) : ~Used(q, a)'
      <4>1. \A q \in Rank : pc'[q] = "sendNext" => pc[q] = "sendNext"
        BY <3>1 DEF TypeOK
      <4>2. cur' = cur
        BY <2>6 DEF DecideRole
      <4> QED
        BY <3>1, <3>3, <4>1, <4>2 DEF Used, graph
    <3> QED
      BY <2>1, <3>2, <3>4 DEF BackInv, PastUsed, Activity
  <2>7. CASE (DecideRole(r) /\ ~EndOfPath(r)) \/ ComputeSection(r) \/ HandOverReturns(r)
    <3>1. /\ cur' = cur /\ chan' = chan /\ blocking' = blocking
          /\ pc'[r] = "slave" /\ \A q \in Rank \ {r} : pc'[q] = pc[q]
      BY <2>7 DEF DecideRole, ComputeSection, HandOverReturns, graph, TypeOK
    <3>2. ASSUME NEW q \in Rank, NEW a PROVE Used(q, a)' => Used(q, a)
      <4>1. CASE HandOverReturns(r)
        <5>1. /\ \A o \in Rank \ {r} : remoteNode'[o] = remoteNode[o]
              /\ DOMAIN remoteNode'[r] = DOMAIN remoteNode[r] \ {cur[r].act}
              /\ pc[r] = "sendNext"
          BY <4>1 DEF HandOverReturns, TypeOK
        <5> QED
          BY <3>1, <5>1 DEF Used
      <4>2. CASE remoteNode' = remoteNode
        BY <3>1, <4>2 DEF Used
      <4> QED
        BY <2>7, <4>1, <4>2 DEF DecideRole, ComputeSection, graph
    <3>3. BackInTime(t)'
      BY <3>1 DEF BackInv, BackInTime
    <3>4. \A o \in Rank : /\ pc'[o] \in {"master", "decide"} => pc[o] = pc'[o]
                          /\ Reached(t, o)' = Reached(t, o) /\ (EndOfPath(o)' <=> EndOfPath(o))
      BY <3>1 DEF Reached, EndOfPath
    <3>5. PastUsed(t)'
      BY <3>1, <3>2, <3>4 DEF BackInv, PastUsed, Activity
    <3> QED
      BY <2>1, <3>3, <3>5 DEF BackInv
  <2>8. CASE pc'[r] \in {"sendFound", "barrier", "sections", "finished"}
    <3>1. AtEnd(r)'
      BY <2>8 DEF AtEnd
    <3>2. BackInTime(t)' /\ PastUsed(t)'
      BY <3>1, NothingUnderWay, PTL
    <3> QED
      BY <2>1, <3>2 DEF BackInv
  <2>9. ASSUME \/ ReachStart(r) \/ Notify(r) \/ LeaveLoop(r) \/ ReceiveFound(r)
               \/ LeaveBarrier(r) \/ ComputeRemainingSection(r) \/ Finish(r)
               \/ NotifyReturns(r)
        PROVE  pc'[r] \in {"sendFound", "barrier", "sections", "finished"}
    BY <2>9 DEF TypeOK, ReachStart, Notify, LeaveLoop, ReceiveFound, LeaveBarrier,
           ComputeRemainingSection, Finish, NotifyReturns
  <2> QED
    BY <1>1, <2>2, <2>3, <2>4, <2>5, <2>6, <2>7, <2>8, <2>9 DEF Work, SendReturns, DecideRole
<1>2. CASE UNCHANGED vars
  BY <1>2, ZenonT(60) DEF vars, BackInv, TargetsBefore, BackInTime, PastUsed, Used, Reached, EndOfPath, Activity
<1> QED
  BY <1>1, <1>2 DEF Next, Terminated

\* The path never runs through a wait state: no walk comes back to one where
\* it has changed ranks before and finds its remote node used up, whichever
\* wait states the replay has found, as long as their times fit together.
THEOREM PathAvoidsWaitStates ==
  ASSUME NEW CONSTANT t, Timed(t)
  PROVE  Init /\ TargetsBefore(t) /\ [][Next]_vars => [][~\E r \in Rank : WalkOverWaitState(r)]_vars
<1>1. Init /\ TargetsBefore(t) => BackInv(t)
  BY InitBackInv
<1>2. TypeOK /\ GapInv /\ ProtocolInv /\ ProtocolInv' /\ BackInv(t) /\ [Next]_vars => BackInv(t)'
  BY StepBackInv
<1>3. GapInv /\ BackInv(t) => ~\E r \in Rank : WalkOverWaitState(r)
  BY NoSecondWait DEF BackInv, WalkOverWaitState
<1> QED
  BY <1>1, <1>2, <1>3, TypeCorrect, GapInvariant, ProtocolInvariant, PTL DEF Spec
===============================================================================
