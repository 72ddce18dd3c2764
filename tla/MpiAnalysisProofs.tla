-------------------------- MODULE MpiAnalysisProofs --------------------------
(***************************************************************************)
(* Proofs about the analysis of an interval: the replay hands over to the  *)
(* detection what the detection relies on, although nothing separates the  *)
(* two and a process may look for the path while others still replay.      *)
(***************************************************************************)
EXTENDS MpiAnalysis, MpiWaitProofs

(***************************************************************************)
(* The graph a rank works on is the one it will have when it has replayed  *)
(* its MPI_Finalize: all ranks but the last one to enter it will wait.     *)
(***************************************************************************)
LateRank == LastEnter([q \in Rank |-> time[q][LastActivity[q]].enter])
LateNode == [rank |-> LateRank, act |-> LastActivity[LateRank]]
Settled(r) == ReplayDone(r) \/ r = LateRank

Edges == [r \in Rank |-> IF Settled(r) THEN blocking[r] ELSE blocking[r] \cup {LastActivity[r]}]
Nodes == [r \in Rank |-> IF Settled(r) THEN remoteNode[r]
                         ELSE PutNode(remoteNode[r], LastActivity[r], LateNode)]

D == INSTANCE CriticalPathProofs
       WITH AtomicStarts <- {FALSE}, blocking <- Edges, remoteNode <- Nodes

-----------------------------------------------------------------------------
(***************************************************************************)
(* The invariant.                                                          *)
(***************************************************************************)
AtFinalize(r) == pos[r] = LastActivity[r] /\ stage[r] # "apply"

\* A rank has called MPI_Allgather in every collective it has begun.
Counted ==
  /\ gathered = [r \in Rank |-> gathered[r]]
  /\ \A r \in Rank : gathered[r] = Cardinality(Begun(Collectives(program, r), r))

\* Nobody is through before all are in MPI_Finalize.
Joined == \A r, q \in Rank : ReplayDone(r) => ReplayDone(q) \/ AtFinalize(q)

NodeRecord(n) == n = [rank |-> n.rank, act |-> n.act]

\* Blocking edges are those of activities whose rule has been applied; until
\* the rank takes part in the detection each has its remote node.
Concluded ==
  /\ blocking \in [Rank -> SUBSET Nat]
  /\ \A r \in Rank : \A i \in blocking[r] : i < pos[r] \/ program[r][i].kind = "recv"
  /\ \A r \in Rank : pc[r] = "decide" => blocking[r] = DOMAIN remoteNode[r]
  /\ \A r \in Rank : ReplayDone(r) => (LastActivity[r] \in blocking[r] <=> r # LateRank)
  /\ \A r \in Rank :
       /\ remoteNode[r] = [i \in DOMAIN remoteNode[r] |-> remoteNode[r][i]]
       /\ \A i \in DOMAIN remoteNode[r] : NodeRecord(remoteNode[r][i])

\* Nobody takes part in the detection before it has replayed everything.
Started == \E r \in Rank : ReplayDone(r)
NotYet ==
  /\ atomicStart = FALSE
  /\ \A r \in Rank : pc[r] # "decide" => ReplayDone(r)
  /\ ~Started => Detection!InitProcedure

Walked == D!TypeOK /\ D!ProtocolInv /\ D!GapInv

AnalysisInv == Understood /\ Counted /\ Joined /\ Concluded /\ NotYet /\ (Started => Walked)

-----------------------------------------------------------------------------
(***************************************************************************)
(* The collective operation all ranks end with.                            *)
(***************************************************************************)
LEMMA CollectivesAgree ==
  ASSUME Measured, NEW r \in Rank, NEW q \in Rank
  PROVE  /\ LastActivity[r] \in Collectives(program, r)
         /\ Collectives(program, r) \in SUBSET Activity(r)
         /\ IsFiniteSet(Collectives(program, r))
         /\ Cardinality(Collectives(program, r)) = Cardinality(Collectives(program, q))
         /\ SameCollective(program, r, LastActivity[r], q, LastActivity[q])
<1> DEFINE C(o) == Collectives(program, o)
<1>1. ASSUME NEW o \in Rank
      PROVE  /\ LastActivity[o] \in C(o) /\ C(o) \in SUBSET Activity(o)
             /\ IsFiniteSet(C(o)) /\ Cardinality(C(o)) \in Nat
             /\ Position(C(o), LastActivity[o]) = Cardinality(C(o))
  <2>1. LastActivity[o] \in C(o)
    BY ReplayPrograms DEF Measured, LegalProgram
  <2>2. C(o) \in SUBSET Activity(o)
    BY DEF Collectives
  <2>3. PICK b \in Nat : b = LastActivity[o]
    BY ActivityNumbers
  <2>4. C(o) \in SUBSET (0 .. b)
    BY <2>2, <2>3 DEF Activity
  <2>5. IsFiniteSet(C(o)) /\ Cardinality(C(o)) \in Nat
    <3>1. IsFiniteSet(0 .. b)
      BY FS_Interval
    <3> QED
      BY <2>4, <3>1, FS_Subset, FS_CardinalityType
  <2>6. {j \in C(o) : j <= LastActivity[o]} = C(o)
    BY <2>3, <2>4
  <2> QED
    BY <2>1, <2>2, <2>5, <2>6 DEF Position
<1>2. ASSUME NEW o \in Rank, NEW p \in Rank PROVE Cardinality(C(o)) <= Cardinality(C(p))
  <2>1. PICK j \in C(p) : SameCollective(program, o, LastActivity[o], p, j)
    BY <1>1, ReplayPrograms DEF Measured, LegalProgram
  <2>2. Position(C(p), j) = Cardinality(C(o))
    BY <1>1, <2>1 DEF SameCollective
  <2>3. {k \in C(p) : k <= j} \in SUBSET C(p)
    OBVIOUS
  <2>4. Position(C(p), j) <= Cardinality(C(p))
    BY <1>1, <2>3, FS_Subset DEF Position
  <2> QED
    BY <2>2, <2>4
<1>3. Cardinality(C(r)) = Cardinality(C(q))
  BY <1>1, <1>2
<1> QED
  BY <1>1, <1>3 DEF SameCollective

LEMMA LastIsCollective ==
  ASSUME Measured, NEW r \in Rank
  PROVE  /\ program[r][LastActivity[r]].kind = "collective"
         /\ LastActivity[r] \in Nat \ {0} /\ LastActivity[r] \in Activity(r)
BY CollectivesAgree, ActivityNumbers DEF Collectives, Activity

\* In MPI_Finalize a rank waits until the others have joined.
LEMMA AllJoined ==
  ASSUME Typed, Measured, Counted, NEW r \in Rank, FinishCollective(r), pos[r] = LastActivity[r],
         NEW q \in Rank
  PROVE  ReplayDone(q) \/ AtFinalize(q)
<1>1. PICK C : C = Collectives(program, q)
  OBVIOUS
<1>2. Begun(Collectives(program, r), r) = Collectives(program, r)
  <2>1. stage[r] = "forward"
    BY DEF FinishCollective, AtStage
  <2>2. \A i \in Collectives(program, r) : i \in 0 .. LastActivity[r]
    BY DEF Collectives, Activity
  <2>3. LastActivity[r] \in Nat
    BY ActivityNumbers
  <2>4. \A i \in Collectives(program, r) : i < pos[r] \/ (i = pos[r] /\ stage[r] # "apply")
    BY <2>1, <2>2, <2>3
  <2> QED
    BY <2>4 DEF Begun
<1>3. gathered[r] <= gathered[q]
  BY DEF FinishCollective
<1>4. Cardinality(C) <= Cardinality(Begun(C, q))
  BY <1>1, <1>2, <1>3, CollectivesAgree DEF Counted
<1>5. Begun(C, q) = C
  <2>1. IsFiniteSet(C) /\ Begun(C, q) \in SUBSET C
    BY <1>1, CollectivesAgree DEF Begun
  <2> QED
    BY <1>4, <2>1, FS_Subset, FS_CardinalityType
<1>6. LastActivity[q] \in Begun(C, q)
  BY <1>1, <1>5, CollectivesAgree
<1>7. CASE LastActivity[q] < pos[q]
  BY <1>7 DEF ReplayDone, Typed
<1>8. CASE LastActivity[q] = pos[q] /\ stage[q] # "apply"
  BY <1>8 DEF AtFinalize, Typed
<1> QED
  BY <1>6, <1>7, <1>8 DEF Begun

LEMMA JoinedKept ==
  ASSUME Typed, Measured, Counted, Joined, NEW r \in Rank, Rule(r), Moves(r)
  PROVE  Joined'
<1>1. SUFFICES ASSUME NEW o \in Rank, NEW q \in Rank, ReplayDone(o)'
               PROVE  (ReplayDone(q) \/ AtFinalize(q))'
  BY DEF Joined
<1>2. pos[r] \in Nat /\ LastActivity[r] \in Nat /\ pos[r] <= LastActivity[r]
  BY ActivityNumbers DEF Typed, Moves, Activity
<1>3. ASSUME NEW p \in Rank \ {r}
      PROVE  (ReplayDone(p)' <=> ReplayDone(p)) /\ (AtFinalize(p)' <=> AtFinalize(p))
  BY <1>3 DEF ReplayDone, AtFinalize, Moves
<1>4. CASE pos[r] # LastActivity[r]
  <2>1. ~ReplayDone(r)' /\ ~ReplayDone(r) /\ ~AtFinalize(r)
    BY <1>2, <1>4 DEF ReplayDone, AtFinalize, Moves
  <2>2. o # r /\ ReplayDone(o)
    BY <1>1, <1>3, <2>1
  <2> QED
    BY <1>3, <2>1, <2>2 DEF Joined
<1>5. CASE pos[r] = LastActivity[r]
  <2>1. Op(r).kind = "collective"
    BY <1>5, LastIsCollective DEF Op
  <2>2. JoinCollective(r) \/ FinishCollective(r)
    BY <2>1 DEF Rule, StartSend, SendReturns, FinishSend, StartRecv, Receive, FinishRecv,
            StartSendrecv, ReceiveSendrecv, FinishSendrecv, Isend, Irecv, NoRule, FinishWait,
            WaitOnDeletedRecord, FinishWaitall, SelfCollective, AtStage
  <2>3. CASE JoinCollective(r)
    <3>1. pos'[r] = pos[r] /\ stage[r] = "apply" /\ stage'[r] = "forward"
      BY <2>3 DEF JoinCollective, GoTo, AtStage, Typed
    <3>2. ~ReplayDone(r) /\ ~ReplayDone(r)' /\ AtFinalize(r)'
      BY <1>2, <1>5, <3>1 DEF ReplayDone, AtFinalize
    <3>3. ReplayDone(o)
      BY <1>1, <1>3, <3>2
    <3> QED
      BY <1>3, <3>2, <3>3 DEF Joined
  <2>4. CASE FinishCollective(r)
    <3>1. pos'[r] = pos[r] + 1
      BY <2>4 DEF FinishCollective, Advance, Typed
    <3>2. ReplayDone(r)'
      BY <1>2, <1>5, <3>1 DEF ReplayDone
    <3> QED
      BY <1>3, <1>5, <2>4, <3>2, AllJoined
  <2> QED
    BY <2>2, <2>3, <2>4
<1> QED
  BY <1>4, <1>5

LEMMA CountedKept ==
  ASSUME Typed, Counted, NEW r \in Rank, Rule(r), Moves(r), UNCHANGED trace
  PROVE  Counted'
<1>1. program' = program
  BY DEF trace
<1>2. PICK C : C = [q \in Rank |-> Collectives(program, q)]
  OBVIOUS
<1>3. \A q \in Rank : /\ Collectives(program, q) = C[q] /\ Collectives(program, q)' = C[q]
                      /\ C[q] \in SUBSET Activity(q)
  BY <1>1, <1>2 DEF Collectives
<1>4. ASSUME NEW q \in Rank \ {r} PROVE Begun(C[q], q)' = Begun(C[q], q)
  BY <1>4 DEF Begun, Moves
<1>5. /\ Begins(r) /\ pos[r] \in C[r] => Cardinality(Begun(C[r], r)') = gathered[r] + 1
      /\ ~(Begins(r) /\ pos[r] \in C[r]) => Begun(C[r], r)' = Begun(C[r], r)
  BY <1>3, BegunAfter DEF Counted
<1>6. pos[r] \in C[r] <=> Op(r).kind = "collective"
  BY <1>3 DEF Moves, Collectives, Op
<1>7. CASE JoinCollective(r)
  <2>1. /\ gathered' = [gathered EXCEPT ![r] = @ + 1] /\ Begins(r) /\ pos[r] \in C[r]
    BY <1>6, <1>7 DEF JoinCollective, AtStage, Begins
  <2>2. gathered' = [q \in Rank |-> gathered'[q]] /\ gathered'[r] = gathered[r] + 1
    BY <2>1 DEF Counted
  <2>3. \A q \in Rank \ {r} : gathered'[q] = gathered[q]
    BY <2>1 DEF Counted
  <2>4. ASSUME NEW q \in Rank PROVE gathered'[q] = Cardinality(Begun(C[q], q)')
    BY <1>3, <1>4, <1>5, <2>1, <2>2, <2>3 DEF Counted
  <2> QED
    BY <1>1, <1>3, <2>2, <2>4 DEF Counted, Begun
<1>8. CASE ~JoinCollective(r)
  <2>1. gathered' = gathered /\ ~(Begins(r) /\ Op(r).kind = "collective")
    BY <1>8 DEF Rule, StartSend, SendReturns, FinishSend, StartRecv, Receive, FinishRecv,
            StartSendrecv, ReceiveSendrecv, FinishSendrecv, Isend, Irecv, NoRule, FinishWait,
            WaitOnDeletedRecord, FinishWaitall, SelfCollective, FinishCollective, AtStage, Begins
  <2>2. ASSUME NEW q \in Rank PROVE gathered'[q] = Cardinality(Begun(C[q], q)')
    BY <1>3, <1>4, <1>5, <1>6, <2>1 DEF Counted
  <2> QED
    BY <1>1, <1>3, <2>1, <2>2 DEF Counted, Begun
<1> QED
  BY <1>7, <1>8

\* A rule that finds a wait state makes the edge blocking and adds the node.
Finds(r, n) ==
  /\ NodeRecord(n)
  /\ blocking' = [blocking EXCEPT ![r] = @ \cup {pos[r]}]
  /\ remoteNode' = [remoteNode EXCEPT ![r] = PutNode(@, pos[r], n)]
  /\ Op(r).kind # "recv" => pos' = [pos EXCEPT ![r] = @ + 1]

NodesOnly(o) == \A n \in o.remote : NodeRecord(n)

LEMMA OutcomesAreNodes ==
  /\ \A my, q, m : /\ NodesOnly(SendOutcome(my, q, m)) /\ NodesOnly(RecvOutcome(my, q, m))
                   /\ NodesOnly(WaitOutcome(my, q, m))
  /\ \A my, s, in, d, out : NodesOnly(SendrecvOutcome(my, s, in, d, out))
  /\ \A my, partners, ms : NodesOnly(WaitallOutcome(my, partners, ms))
  /\ \A r, enter, act : NodesOnly(CollectiveOutcome(r, enter, act))
<1>1. NodesOnly(Nothing) /\ \A b : NodesOnly(Blame(b))
  BY DEF NodesOnly, Nothing, Blame
<1>2. \A q, act, w : NodesOnly(WaitsFor(q, act, w))
  BY DEF NodesOnly, WaitsFor, NodeRecord
<1>3. \A my, q, m : NodesOnly(SendOutcome(my, q, m))
  BY <1>1, <1>2 DEF SendOutcome
<1>4. \A my, q, m : NodesOnly(RecvOutcome(my, q, m))
  BY <1>1, <1>2 DEF RecvOutcome
<1>5. \A my, q, m : NodesOnly(WaitOutcome(my, q, m))
  BY <1>1, <1>2 DEF WaitOutcome
<1>6. \A my, s, in, d, out : NodesOnly(SendrecvOutcome(my, s, in, d, out))
  BY <1>1, <1>2 DEF SendrecvOutcome
<1>7. \A my, partners, ms : NodesOnly(WaitallOutcome(my, partners, ms))
  BY <1>1, <1>2 DEF WaitallOutcome
<1>8. \A r, enter, act : NodesOnly(CollectiveOutcome(r, enter, act))
  BY <1>1, <1>2 DEF CollectiveOutcome
<1> QED
  BY <1>3, <1>4, <1>5, <1>6, <1>7, <1>8

LEMMA ConcludeFinds ==
  ASSUME NEW r, NEW o, Conclude(r, o), Advance(r) \/ Op(r).kind = "recv", NodesOnly(o)
  PROVE  UNCHANGED <<blocking, remoteNode>> \/ \E n : Finds(r, n)
<1>1. CASE o.remote = {}
  BY <1>1 DEF Conclude
<1>2. CASE o.remote # {}
  <2>1. PICK n \in o.remote : n = CHOOSE x \in o.remote : TRUE
    BY <1>2
  <2>2. /\ blocking' = [blocking EXCEPT ![r] = @ \cup {pos[r]}]
        /\ remoteNode' = [remoteNode EXCEPT ![r] = PutNode(@, pos[r], n)]
    BY <1>2, <2>1 DEF Conclude
  <2> QED
    BY <2>1, <2>2 DEF Finds, Advance, NodesOnly
<1> QED
  BY <1>1, <1>2

LEMMA RuleFinds ==
  ASSUME NEW r \in Rank, Rule(r)
  PROVE  UNCHANGED <<blocking, remoteNode>> \/ \E n : Finds(r, n)
<1>1. CASE FinishSend(r)
  BY <1>1, ConcludeFinds, OutcomesAreNodes DEF FinishSend
<1>2. CASE Receive(r)
  BY <1>2, ConcludeFinds, OutcomesAreNodes DEF Receive, AtStage, results
<1>3. CASE ReceiveSendrecv(r)
  BY <1>3, ConcludeFinds, OutcomesAreNodes DEF ReceiveSendrecv, results
<1>4. CASE FinishSendrecv(r)
  BY <1>4, ConcludeFinds, OutcomesAreNodes DEF FinishSendrecv
<1>5. CASE FinishWait(r)
  BY <1>5, ConcludeFinds, OutcomesAreNodes DEF FinishWait
<1>6. CASE WaitOnDeletedRecord(r)
  BY <1>6, ConcludeFinds, OutcomesAreNodes DEF WaitOnDeletedRecord, results
<1>7. CASE FinishWaitall(r)
  BY <1>7, ConcludeFinds, OutcomesAreNodes DEF FinishWaitall
<1>8. CASE FinishCollective(r)
  BY <1>8, ConcludeFinds, OutcomesAreNodes DEF FinishCollective
<1>9. CASE \/ StartSend(r) \/ SendReturns(r) \/ StartRecv(r) \/ FinishRecv(r)
           \/ StartSendrecv(r) \/ Isend(r) \/ Irecv(r) \/ NoRule(r)
           \/ JoinCollective(r) \/ SelfCollective(r)
  BY <1>9 DEF StartSend, SendReturns, StartRecv, FinishRecv, StartSendrecv, Isend, Irecv,
          NoRule, JoinCollective, SelfCollective, results
<1> QED
  BY <1>1, <1>2, <1>3, <1>4, <1>5, <1>6, <1>7, <1>8, <1>9 DEF Rule

LEMMA LateIsRank ==
  ASSUME Measured PROVE LateRank \in Rank /\ LastActivity[LateRank] \in Activity(LateRank)
<1> DEFINE enter == [q \in Rank |-> time[q][LastActivity[q]].enter]
<1>1. \A q \in Rank : LastActivity[q] \in Activity(q)
  BY LastIsCollective
<1>2. enter \in [Rank -> Nat]
  BY <1>1, TimesOfActivity
<1>3. PICK r \in Rank : TRUE
  BY RankIsNatural
<1>4. ASSUME NEW q \in Rank PROVE enter[q] <= time[r][LastActivity[r]].leave
  <2>1. SameCollective(program, q, LastActivity[q], r, LastActivity[r])
    BY CollectivesAgree
  <2>2. time[q][LastActivity[q]].enter < time[r][LastActivity[r]].leave
    BY <1>1, <2>1 DEF Measured, ValidTiming
  <2> QED
    BY <1>1, <2>2, TimesOfActivity
<1>5. time[r][LastActivity[r]].leave \in Nat
  BY <1>1, TimesOfActivity
<1>6. LastEnter(enter) \in Rank
  <2> HIDE DEF enter
  <2> QED
    BY <1>2, <1>4, <1>5, LastEnterIsLast
<1> QED
  BY <1>1, <1>6 DEF LateRank

\* In MPI_Finalize all ranks but the late one find that they have waited for it.
LEMMA FinalizeFinds ==
  ASSUME Typed, Measured, NEW r \in Rank, FinishCollective(r), pos[r] = LastActivity[r]
  PROVE  /\ r = LateRank => UNCHANGED <<blocking, remoteNode>>
         /\ r # LateRank => Finds(r, LateNode)
<1>1. PICK act : act = [q \in Rank |-> CHOOSE i \in Activity(q) :
                                          SameCollective(program, r, pos[r], q, i)]
  OBVIOUS
<1>2. ASSUME NEW q \in Rank PROVE act[q] = LastActivity[q]
  <2>1. PICK i, j : i = pos[r] /\ j = LastActivity[q]
    OBVIOUS
  <2>2. SameCollective(program, r, i, q, j) /\ j \in Activity(q)
    BY <2>1, CollectivesAgree, LastIsCollective
  <2>3. \A k : SameCollective(program, r, i, q, k) => k = j
    BY <2>2, SameCollectiveFacts
  <2>4. act[q] = CHOOSE k \in Activity(q) : SameCollective(program, r, i, q, k)
    BY <1>1, <2>1
  <2> QED
    BY <2>1, <2>2, <2>3, <2>4
<1>3. PICK enter : enter = [q \in Rank |-> time[q][act[q]].enter]
  OBVIOUS
<1>4. enter = [q \in Rank |-> time[q][LastActivity[q]].enter]
  BY <1>2, <1>3
<1>5. LastEnter(enter) = LateRank
  BY <1>4 DEF LateRank
<1>6. Conclude(r, CollectiveOutcome(r, enter, act)) /\ Advance(r)
  BY <1>1, <1>3 DEF FinishCollective
<1>7. CASE r = LateRank
  <2>1. CollectiveOutcome(r, enter, act) = Blame(AllWaiting(enter, LateRank))
    BY <1>5, <1>7 DEF CollectiveOutcome
  <2>2. CollectiveOutcome(r, enter, act).remote = {}
    BY <2>1 DEF Blame, Nothing
  <2> QED
    BY <1>6, <1>7, <2>2 DEF Conclude
<1>8. CASE r # LateRank
  <2>1. LateRank \in Rank
    BY LateIsRank
  <2>2. CollectiveOutcome(r, enter, act).remote = {LateNode}
    BY <1>2, <1>5, <1>8, <2>1 DEF CollectiveOutcome, WaitsFor, LateNode
  <2>3. (CHOOSE n \in {LateNode} : TRUE) = LateNode
    OBVIOUS
  <2>4. CollectiveOutcome(r, enter, act).remote # {}
    BY <2>2
  <2>5. PICK o : o = CollectiveOutcome(r, enter, act)
    OBVIOUS
  <2>6. /\ blocking' = [blocking EXCEPT ![r] = @ \cup {pos[r]}]
        /\ remoteNode' = [remoteNode EXCEPT ![r] = PutNode(@, pos[r], LateNode)]
    BY <1>6, <2>2, <2>3, <2>4, <2>5 DEF Conclude
  <2> QED
    BY <1>6, <1>8, <2>6 DEF Finds, Advance, NodeRecord, LateNode
<1> QED
  BY <1>7, <1>8

LEMMA ConcludedKept ==
  ASSUME Typed, Measured, Findings, Concluded, NotYet, NEW r \in Rank, Rule(r), Moves(r),
         UNCHANGED trace, UNCHANGED detection
  PROVE  Concluded'
<1>1. program' = program /\ time' = time /\ pc' = pc
  BY DEF trace, detection
<1>2. /\ pos[r] \in Nat /\ LastActivity[r] \in Nat /\ pos[r] <= LastActivity[r]
      /\ pos'[r] \in {pos[r], pos[r] + 1} /\ \A q \in Rank \ {r} : pos'[q] = pos[q]
  BY ActivityNumbers DEF Typed, Moves, Activity
<1>3. LateRank' = LateRank
  BY <1>1 DEF LateRank
<1>4. pos \in [Rank -> Nat] /\ remoteNode = [q \in Rank |-> remoteNode[q]]
  BY DEF Typed, Findings
<1>5. LastActivity[r] \in blocking[r] => FALSE
  BY <1>2, LastIsCollective DEF Concluded
<1>6. ReplayDone(r)' => FinishCollective(r) /\ pos[r] = LastActivity[r]
  <2>1. SUFFICES ASSUME ReplayDone(r)' PROVE FinishCollective(r) /\ pos[r] = LastActivity[r]
    OBVIOUS
  <2>2. pos'[r] = pos[r] + 1 /\ pos[r] = LastActivity[r]
    BY <1>2, <2>1 DEF ReplayDone
  <2>3. Op(r).kind = "collective"
    BY <2>2, LastIsCollective DEF Op
  <2>4. ~JoinCollective(r)
    BY <1>2, <2>2 DEF JoinCollective, GoTo
  <2> QED
    BY <2>2, <2>3, <2>4
     DEF Rule, StartSend, SendReturns, FinishSend, StartRecv, Receive, FinishRecv,
         StartSendrecv, ReceiveSendrecv, FinishSendrecv, Isend, Irecv, NoRule, FinishWait,
         WaitOnDeletedRecord, FinishWaitall, SelfCollective, AtStage
<1>7. \A q \in Rank \ {r} : ReplayDone(q)' <=> ReplayDone(q)
  BY <1>2 DEF ReplayDone
<1>8. CASE UNCHANGED <<blocking, remoteNode>>
  <2>1. ReplayDone(r)' => r = LateRank
    <3>1. SUFFICES ASSUME ReplayDone(r)', r # LateRank PROVE FALSE
      OBVIOUS
    <3>2. blocking' = [blocking EXCEPT ![r] = @ \cup {LastActivity[r]}]
      BY <1>6, <3>1, FinalizeFinds DEF Finds
    <3> QED
      BY <1>5, <1>8, <3>2 DEF Concluded
  <2>2. ASSUME NEW q \in Rank, NEW i \in blocking[q]
        PROVE  i < pos'[q] \/ program[q][i].kind = "recv"
    BY <1>2, <2>2 DEF Concluded
  <2>3. \A q \in Rank : ReplayDone(q)' => (LastActivity[q] \in blocking[q] <=> q # LateRank)
    BY <1>5, <1>7, <2>1 DEF Concluded
  <2> QED
    BY <1>1, <1>3, <1>8, <2>2, <2>3 DEF Concluded
<1>9. CASE \E n : Finds(r, n)
  <2>1. PICK n : Finds(r, n)
    BY <1>9
  <2>2. blocking \in [Rank -> SUBSET Nat]
    BY DEF Concluded
  <2>3. /\ blocking' \in [Rank -> SUBSET Nat] /\ blocking'[r] = blocking[r] \cup {pos[r]}
        /\ \A q \in Rank \ {r} : blocking'[q] = blocking[q]
    BY <1>2, <2>1, <2>2 DEF Finds
  <2>4. PICK f : f = PutNode(remoteNode[r], pos[r], n)
    OBVIOUS
  <2>5. DOMAIN f = DOMAIN remoteNode[r] \cup {pos[r]}
    BY <2>4 DEF PutNode
  <2>6. remoteNode'[r] = f /\ \A q \in Rank \ {r} : remoteNode'[q] = remoteNode[q]
    BY <1>4, <2>1, <2>4 DEF Finds
  <2>7. ASSUME NEW q \in Rank, NEW i \in blocking'[q]
        PROVE  i < pos'[q] \/ program[q][i].kind = "recv"
    <3>1. CASE i \in blocking[q]
      BY <1>2, <2>2, <3>1 DEF Concluded
    <3>2. CASE q = r /\ i = pos[r]
      BY <1>2, <1>4, <2>1, <3>2 DEF Finds, Op
    <3> QED
      BY <2>3, <2>7, <3>1, <3>2
  <2>8. ASSUME NEW q \in Rank, pc[q] = "decide" PROVE blocking'[q] = DOMAIN remoteNode'[q]
    BY <2>3, <2>5, <2>6, <2>8 DEF Concluded
  <2>9. ReplayDone(r)' => (LastActivity[r] \in blocking'[r] <=> r # LateRank)
    <3>1. SUFFICES ASSUME ReplayDone(r)'
                   PROVE  LastActivity[r] \in blocking'[r] <=> r # LateRank
      OBVIOUS
    <3>2. pos[r] = LastActivity[r] /\ FinishCollective(r)
      BY <1>6, <3>1
    <3>3. r = LateRank => blocking' = blocking
      BY <3>2, FinalizeFinds
    <3> QED
      BY <1>5, <2>3, <3>2, <3>3
  <2>11. \A i \in DOMAIN f : NodeRecord(f[i])
    BY <2>1, <2>4 DEF PutNode, Finds, Concluded
  <2>12. f = [i \in DOMAIN f |-> f[i]]
    BY <2>4 DEF PutNode
  <2>10. \A q \in Rank : ReplayDone(q)' => (LastActivity[q] \in blocking'[q] <=> q # LateRank)
    BY <1>7, <2>3, <2>9 DEF Concluded
  <2> QED
    BY <1>1, <1>3, <2>3, <2>6, <2>7, <2>8, <2>10, <2>11, <2>12 DEF Concluded
<1> QED
  BY <1>8, <1>9, RuleFinds

-----------------------------------------------------------------------------
(***************************************************************************)
(* The detection starts with a graph of wait states as it expects it.      *)
(***************************************************************************)
LEMMA GraphReady ==
  ASSUME Typed, Measured, Findings, Concluded, atomicStart = FALSE,
         NEW r \in Rank, pc[r] = "decide"
  PROVE  /\ [blocking |-> Edges[r], remoteNode |-> Nodes[r]] \in D!RankGraph(r)
         /\ LastActivity[r] \in Edges[r] <=> r # LateRank
<1> DEFINE last == LastActivity[r]
           Targets == UNION {[rank : {q}, act : Activity(q)] : q \in Rank \ {r}}
<1>1. /\ blocking[r] = DOMAIN remoteNode[r]
      /\ \A i \in DOMAIN remoteNode[r] : i \in Activity(r) /\ Cause(r, i, remoteNode[r][i])
      /\ remoteNode[r] = [i \in DOMAIN remoteNode[r] |-> remoteNode[r][i]]
      /\ \A i \in DOMAIN remoteNode[r] : NodeRecord(remoteNode[r][i])
  BY DEF Concluded, Findings
<1>2. \A i \in DOMAIN remoteNode[r] : remoteNode[r][i] \in Targets
  <2>1. SUFFICES ASSUME NEW i \in DOMAIN remoteNode[r] PROVE remoteNode[r][i] \in Targets
    OBVIOUS
  <2>2. PICK n : n = remoteNode[r][i]
    OBVIOUS
  <2>3. n = [rank |-> n.rank, act |-> n.act]
    BY <1>1, <2>2 DEF NodeRecord
  <2>4. n.rank \in Rank \ {r} /\ n.act \in Activity(n.rank)
    BY <1>1, <2>2 DEF Cause
  <2>5. n \in [rank : {n.rank}, act : Activity(n.rank)]
    BY <2>3, <2>4
  <2> QED
    BY <2>2, <2>4, <2>5
<1>3. remoteNode[r] \in [blocking[r] -> Targets]
  BY <1>1, <1>2
<1>4. LateRank \in Rank /\ LastActivity[LateRank] \in Activity(LateRank) /\ last \in Activity(r)
  BY LateIsRank, LastIsCollective
<1>5. last \in blocking[r] => last < pos[r]
  BY LastIsCollective DEF Concluded
<1>6. last \in blocking[r] => ReplayDone(r)
  BY <1>5 DEF ReplayDone
<1>7. /\ Edges[r] \in SUBSET Activity(r) /\ Nodes[r] \in [Edges[r] -> Targets]
      /\ last \in Edges[r] <=> r # LateRank
  <2>1. CASE Settled(r)
    <3>1. Edges[r] = blocking[r] /\ Nodes[r] = remoteNode[r]
      BY <2>1 DEF Edges, Nodes
    <3>2. blocking[r] \in SUBSET Activity(r)
      BY <1>1
    <3>3. last \in blocking[r] <=> r # LateRank
      BY <1>6, <2>1 DEF Settled, Concluded
    <3> QED
      BY <1>3, <3>1, <3>2, <3>3
  <2>2. CASE ~Settled(r)
    <3>1. PICK f : f = PutNode(remoteNode[r], last, LateNode)
      OBVIOUS
    <3>2. Edges[r] = blocking[r] \cup {last} /\ Nodes[r] = f /\ r # LateRank
      BY <2>2, <3>1 DEF Edges, Nodes, Settled
    <3>3. LateNode \in Targets
      <4>1. LateNode \in [rank : {LateRank}, act : Activity(LateRank)]
        BY <1>4 DEF LateNode
      <4> QED
        BY <1>4, <3>2, <4>1
    <3>4. f \in [blocking[r] \cup {last} -> Targets]
      <4>1. PICK n \in Targets : n = LateNode
        BY <3>3
      <4>2. f = [a \in blocking[r] \cup {last} |-> IF a = last THEN n ELSE remoteNode[r][a]]
        BY <1>1, <3>1, <4>1 DEF PutNode
      <4>3. \A a \in blocking[r] : remoteNode[r][a] \in Targets
        BY <1>1, <1>2
      <4> HIDE DEF Targets, last
      <4> QED
        BY <4>2, <4>3
    <3>5. blocking[r] \cup {last} \in SUBSET Activity(r)
      BY <1>1, <1>4
    <3> QED
      BY <3>2, <3>4, <3>5
  <2> QED
    BY <2>1, <2>2
<1>8. PICK S \in SUBSET Activity(r) : S = Edges[r]
  BY <1>7
<1>9. \A q \in Rank : D!Lasting(q) = Activity(q)
  BY DEF D!Lasting, D!Activity, Activity
<1>10. D!RemoteMap(r, S) = [S -> Targets]
  BY <1>9 DEF D!RemoteMap
<1>11. [blocking |-> Edges[r], remoteNode |-> Nodes[r]]
          \in [blocking : {S}, remoteNode : D!RemoteMap(r, S)]
  BY <1>7, <1>8, <1>10
<1>12. S \in SUBSET D!Lasting(r)
  BY <1>9
<1> QED
  BY <1>7, <1>11, <1>12 DEF D!RankGraph

LEMMA DetectionBegins ==
  ASSUME Typed, Measured, Findings, Concluded, atomicStart = FALSE, Detection!InitProcedure
  PROVE  D!Init
<1>1. \A r \in Rank : pc[r] = "decide"
  BY DEF Detection!InitProcedure
<1>2. PICK g : g = [r \in Rank |-> [blocking |-> Edges[r], remoteNode |-> Nodes[r]]]
  OBVIOUS
<1>3. ASSUME NEW r \in Rank
      PROVE  g[r] \in D!RankGraph(r) /\ g[r].blocking = Edges[r] /\ g[r].remoteNode = Nodes[r]
  BY <1>1, <1>2, GraphReady
<1>4. g \in [Rank -> UNION {D!RankGraph(r) : r \in Rank}]
  BY <1>2, <1>3
<1>5. Edges = [r \in Rank |-> g[r].blocking] /\ Nodes = [r \in Rank |-> g[r].remoteNode]
  BY <1>3 DEF Edges, Nodes
<1>6. D!OneEndOfPath
  <2>1. \A r \in Rank : D!EndOfPath(r) <=> r = LateRank
    BY <1>1, GraphReady DEF D!EndOfPath
  <2> QED
    BY <2>1, LateIsRank DEF D!OneEndOfPath
<1>7. D!InitProcedure
  BY DEF Detection!InitProcedure, D!InitProcedure, Detection!Leave, D!Leave,
         Detection!NoActivity, D!NoActivity
<1> QED
  BY <1>3, <1>4, <1>5, <1>6, <1>7 DEF D!Init

-----------------------------------------------------------------------------
(***************************************************************************)
(* From then on a step of the analysis is one of the detection, or none.   *)
(***************************************************************************)
LEMMA ReplayLast ==
  ASSUME Typed, Measured, Findings, Concluded, Joined, Started, NEW r \in Rank, Rule(r), Moves(r),
         UNCHANGED <<trace, detection>>
  PROVE  UNCHANGED D!vars
<1>1. /\ pos[r] \in Nat /\ LastActivity[r] \in Nat /\ pos[r] <= LastActivity[r]
  BY ActivityNumbers DEF Typed, Moves, Activity
<1>2. pos[r] = LastActivity[r] /\ stage[r] # "apply"
  BY <1>1 DEF Started, Joined, ReplayDone, AtFinalize
<1>3. Op(r).kind = "collective"
  BY <1>2, LastIsCollective DEF Op
<1>4. FinishCollective(r)
  BY <1>2, <1>3
     DEF Rule, StartSend, SendReturns, FinishSend, StartRecv, Receive, FinishRecv,
         StartSendrecv, ReceiveSendrecv, FinishSendrecv, Isend, Irecv, NoRule, FinishWait,
         WaitOnDeletedRecord, FinishWaitall, JoinCollective, SelfCollective, AtStage
<1>5. pos'[r] = pos[r] + 1 /\ \A q \in Rank \ {r} : pos'[q] = pos[q]
  BY <1>4 DEF FinishCollective, Advance, Typed
<1>6. ReplayDone(r)' /\ ~ReplayDone(r) /\ \A q \in Rank \ {r} : ReplayDone(q)' <=> ReplayDone(q)
  BY <1>1, <1>2, <1>5 DEF ReplayDone
<1>7. LateRank' = LateRank /\ LateNode' = LateNode
  BY DEF trace, LateRank, LateNode
<1>8. Settled(r)' /\ (Settled(r) <=> r = LateRank) /\ \A q \in Rank \ {r} : Settled(q)' <=> Settled(q)
  BY <1>6, <1>7 DEF Settled
<1>9. Edges' = Edges /\ Nodes' = Nodes
  <2>1. CASE r = LateRank
    <3>1. blocking' = blocking /\ remoteNode' = remoteNode
      BY <1>2, <1>4, <2>1, FinalizeFinds
    <3> QED
      BY <1>7, <1>8, <2>1, <3>1 DEF Edges, Nodes
  <2>2. CASE r # LateRank
    <3>1. Finds(r, LateNode)
      BY <1>2, <1>4, <2>2, FinalizeFinds
    <3>2. /\ blocking'[r] = blocking[r] \cup {LastActivity[r]}
          /\ \A q \in Rank \ {r} : blocking'[q] = blocking[q]
      BY <1>2, <3>1 DEF Finds, Concluded
    <3>3. /\ remoteNode'[r] = PutNode(remoteNode[r], LastActivity[r], LateNode)
          /\ \A q \in Rank \ {r} : remoteNode'[q] = remoteNode[q]
      BY <1>2, <3>1 DEF Finds, Findings
    <3> QED
      BY <1>7, <1>8, <2>2, <3>2, <3>3 DEF Edges, Nodes
  <2> QED
    BY <2>1, <2>2
<1> QED
  BY <1>9 DEF detection, D!vars

\* A rank that takes part in the detection works on its own final graph.
LEMMA OwnGraph ==
  ASSUME NEW r \in Rank, ReplayDone(r)
  PROVE  Edges[r] = blocking[r] /\ Nodes[r] = remoteNode[r]
BY DEF Edges, Nodes, Settled

LEMMA GraphStays ==
  ASSUME UNCHANGED <<program, time, pos, blocking, remoteNode>>
  PROVE  Edges' = Edges /\ Nodes' = Nodes
<1>1. LateRank' = LateRank /\ LateNode' = LateNode /\ \A r : Settled(r)' <=> Settled(r)
  BY DEF LateRank, LateNode, Settled, ReplayDone
<1> QED
  BY <1>1 DEF Edges, Nodes

LEMMA WalkStep ==
  ASSUME Findings, NEW r \in Rank, DetectionStep(r)
  PROVE  D!Work(r) \/ D!SendReturns(r)
<1>1. /\ ReplayDone(r) /\ program' = program /\ time' = time /\ pos' = pos
      /\ Detection!Work(r) \/ Detection!SendReturns(r)
  BY DEF DetectionStep, replayOnly, trace
<1>2. Edges[r] = blocking[r] /\ Nodes[r] = remoteNode[r]
  BY <1>1, OwnGraph
<1>3. UNCHANGED <<blocking, remoteNode>> => Edges' = Edges /\ Nodes' = Nodes
  BY <1>1, GraphStays
<1>4. D!EndOfPath(r) <=> Detection!EndOfPath(r)
  BY <1>2 DEF D!EndOfPath, Detection!EndOfPath
<1>5. CASE Detection!DecideRole(r)
  <2>1. D!DecideRole(r)
    BY <1>3, <1>4, <1>5 DEF Detection!DecideRole, D!DecideRole, Detection!graph, D!graph
  <2> QED
    BY <2>1 DEF D!Work
<1>6. CASE Detection!WalkOverActivity(r)
  <2>1. D!WalkOverActivity(r)
    BY <1>2, <1>3, <1>6 DEF Detection!WalkOverActivity, D!WalkOverActivity, Detection!graph, D!graph,
       Detection!MasterAt, D!MasterAt, Detection!Mark, D!Mark, Detection!Enter, D!Enter
  <2> QED
    BY <2>1 DEF D!Work
<1>7. Detection!PushSection(r) <=> D!PushSection(r)
  BY DEF Detection!PushSection, D!PushSection, Detection!NewSection, D!NewSection,
     Detection!NoActivity, D!NoActivity, Detection!Leave, D!Leave
<1>8. CASE Detection!WalkOverWaitState(r)
  <2>1. D!WalkOverWaitState(r)
    BY <1>2, <1>3, <1>7, <1>8 DEF Detection!WalkOverWaitState, D!WalkOverWaitState,
       Detection!graph, D!graph,
       Detection!MasterAt, D!MasterAt, Detection!Mark, D!Mark, Detection!Enter, D!Enter
  <2> QED
    BY <2>1 DEF D!Work
<1>9. CASE Detection!WalkBack(r)
  <2>1. D!WalkBack(r)
    BY <1>2, <1>3, <1>9 DEF Detection!WalkBack, D!WalkBack, Detection!graph, D!graph,
       Detection!MasterAt, D!MasterAt, Detection!Mark, D!Mark, Detection!Enter, D!Enter,
       Detection!Leave, D!Leave
  <2> QED
    BY <2>1 DEF D!Work
<1>10. CASE Detection!HandOver(r)
  <2>1. D!HandOver(r)
    BY <1>2, <1>3, <1>7, <1>10 DEF Detection!HandOver, D!HandOver, Detection!graph, D!graph,
       Detection!MasterAt, D!MasterAt, Detection!Mark, D!Mark, Detection!NewSection, D!NewSection,
       Detection!NoActivity, D!NoActivity, Detection!Leave, D!Leave, Detection!NextMsg, D!NextMsg
  <2> QED
    BY <2>1 DEF D!Work
<1>11. CASE Detection!HandOverReturns(r)
  <2>1. Edges' = Edges
    <3>1. blocking' = blocking
      BY <1>11 DEF Detection!HandOverReturns
    <3>2. LateRank' = LateRank /\ \A q : Settled(q)' <=> Settled(q)
      BY <1>1 DEF LateRank, Settled, ReplayDone
    <3> QED
      BY <3>1, <3>2 DEF Edges
  <2>2. PICK f : f = [a \in DOMAIN remoteNode[r] \ {cur[r].act} |-> remoteNode[r][a]]
    OBVIOUS
  <2>3. remoteNode' = [remoteNode EXCEPT ![r] = f]
    BY <1>11, <2>2 DEF Detection!HandOverReturns
  <2>4. remoteNode'[r] = f /\ \A q \in Rank \ {r} : remoteNode'[q] = remoteNode[q]
    BY <2>3 DEF Findings
  <2>5. Nodes' = [Nodes EXCEPT ![r] = f]
    <3>1. LateRank' = LateRank /\ LateNode' = LateNode /\ \A q : Settled(q)' <=> Settled(q)
      BY <1>1 DEF LateRank, LateNode, Settled, ReplayDone
    <3>2. Settled(r)
      BY <1>1 DEF Settled
    <3> QED
      BY <2>4, <3>1, <3>2 DEF Nodes
  <2>6. Nodes' = [Nodes EXCEPT ![r] = [a \in DOMAIN @ \ {cur[r].act} |-> @[a]]]
    BY <1>2, <2>2, <2>5
  <2>7. D!HandOverReturns(r)
    BY <1>11, <2>1, <2>6 DEF Detection!HandOverReturns, D!HandOverReturns,
       Detection!NoActivity, D!NoActivity
  <2> QED
    BY <2>7 DEF D!SendReturns
<1>12. CASE Detection!ReachStart(r) \/ Detection!Notify(r) \/ Detection!LeaveLoop(r)
            \/ Detection!NotifyReturns(r)
  <2>1. D!ReachStart(r) \/ D!Notify(r) \/ D!LeaveLoop(r) \/ D!NotifyReturns(r)
    BY <1>3, <1>7, <1>12 DEF Detection!ReachStart, D!ReachStart, Detection!Notify, D!Notify,
       Detection!LeaveLoop, D!LeaveLoop, Detection!NotifyReturns, D!NotifyReturns,
       Detection!graph, D!graph, Detection!MasterAt, D!MasterAt, Detection!Mark, D!Mark,
       Detection!FoundMsg, D!FoundMsg
  <2> QED
    BY <2>1 DEF D!Work, D!SendReturns
<1>13. CASE Detection!ComputeSection(r) \/ Detection!ComputeRemainingSection(r)
  <2>1. D!ComputeSection(r) \/ D!ComputeRemainingSection(r)
    BY <1>3, <1>13 DEF Detection!ComputeSection, D!ComputeSection,
       Detection!ComputeRemainingSection, D!ComputeRemainingSection,
       Detection!graph, D!graph, Detection!Gaps, D!Gaps, Detection!Last, D!Last,
       Detection!Front, D!Front, Detection!RemoveAt, D!RemoveAt
  <2> QED
    BY <2>1 DEF D!Work
<1>14. CASE Detection!ReceiveNext(r) \/ Detection!ReceiveFound(r)
  <2>1. D!ReceiveNext(r) \/ D!ReceiveFound(r)
    BY <1>3, <1>14 DEF Detection!ReceiveNext, D!ReceiveNext, Detection!ReceiveFound,
       D!ReceiveFound, Detection!graph, D!graph, Detection!Mark, D!Mark,
       Detection!Enter, D!Enter, Detection!Leave, D!Leave
  <2> QED
    BY <2>1 DEF D!Work
<1>15. CASE Detection!LeaveBarrier(r) \/ Detection!Finish(r)
  <2>1. D!LeaveBarrier(r) \/ D!Finish(r)
    BY <1>3, <1>15 DEF Detection!LeaveBarrier, D!LeaveBarrier, Detection!Finish, D!Finish,
       Detection!graph, D!graph
  <2> QED
    BY <2>1 DEF D!Work
<1> QED
  BY <1>1, <1>5, <1>6, <1>8, <1>9, <1>10, <1>11, <1>12, <1>13, <1>14, <1>15
     DEF Detection!Work, Detection!SendReturns

-----------------------------------------------------------------------------
(***************************************************************************)
(* The detection leaves the books of the replay alone.                     *)
(***************************************************************************)
\* Rank r drops a remote node, and nothing else changes of the results.
Drops(r, k) ==
  /\ blocking' = blocking /\ waiting' = waiting
  /\ remoteNode' = [remoteNode EXCEPT ![r] = [a \in DOMAIN @ \ {k} |-> @[a]]]

LEMMA DetectionDrops ==
  ASSUME pc \in [Rank -> D!PC], NEW r \in Rank, DetectionStep(r)
  PROVE  /\ pc'[r] # "decide" /\ \A q \in Rank \ {r} : pc'[q] = pc[q]
         /\ atomicStart' = atomicStart
         /\ UNCHANGED <<blocking, remoteNode, waiting>> \/ Drops(r, cur[r].act)
<1>1. waiting' = waiting /\ (Detection!Work(r) \/ Detection!SendReturns(r))
  BY DEF DetectionStep, replayOnly
<1>2. CASE Detection!HandOverReturns(r)
  BY <1>1, <1>2 DEF Detection!HandOverReturns, Drops
<1>3. CASE Detection!NotifyReturns(r) \/ Detection!DecideRole(r) \/ Detection!WalkOverActivity(r)
           \/ Detection!WalkOverWaitState(r) \/ Detection!WalkBack(r) \/ Detection!HandOver(r)
  BY <1>1, <1>3 DEF Detection!NotifyReturns, Detection!DecideRole, Detection!WalkOverActivity,
     Detection!WalkOverWaitState, Detection!WalkBack, Detection!HandOver, Detection!MasterAt,
     Detection!graph
<1>4. CASE Detection!ReachStart(r) \/ Detection!Notify(r) \/ Detection!LeaveLoop(r)
           \/ Detection!ComputeSection(r)
  BY <1>1, <1>4 DEF Detection!ReachStart, Detection!Notify, Detection!LeaveLoop,
     Detection!ComputeSection, Detection!MasterAt, Detection!graph
<1>5. CASE Detection!ReceiveNext(r) \/ Detection!ReceiveFound(r) \/ Detection!LeaveBarrier(r)
           \/ Detection!ComputeRemainingSection(r) \/ Detection!Finish(r)
  BY <1>1, <1>5 DEF Detection!ReceiveNext, Detection!ReceiveFound, Detection!LeaveBarrier,
     Detection!ComputeRemainingSection, Detection!Finish, Detection!graph
<1> QED
  BY <1>1, <1>2, <1>3, <1>4, <1>5 DEF Detection!Work, Detection!SendReturns

LEMMA NodesDropped ==
  ASSUME Findings, NEW r \in Rank, NEW k, Drops(r, k)
  PROVE  /\ remoteNode' = [q \in Rank |-> remoteNode'[q]]
         /\ \A q \in Rank \ {r} : remoteNode'[q] = remoteNode[q]
         /\ remoteNode'[r] = [a \in DOMAIN remoteNode[r] \ {k} |-> remoteNode[r][a]]
         /\ \A q \in Rank : \A a \in DOMAIN remoteNode'[q] :
              a \in DOMAIN remoteNode[q] /\ remoteNode'[q][a] = remoteNode[q][a]
<1>1. PICK f : f = [a \in DOMAIN remoteNode[r] \ {k} |-> remoteNode[r][a]]
  OBVIOUS
<1>2. remoteNode' = [remoteNode EXCEPT ![r] = f]
  BY <1>1 DEF Drops
<1>3. /\ remoteNode' = [q \in Rank |-> remoteNode'[q]]
      /\ \A q \in Rank \ {r} : remoteNode'[q] = remoteNode[q]
      /\ remoteNode'[r] = f
  BY <1>2 DEF Findings
<1> QED
  BY <1>1, <1>3

LEMMA UnderstoodDuringDetection ==
  ASSUME Understood, pc \in [Rank -> D!PC], NEW r \in Rank, DetectionStep(r)
  PROVE  Understood'
<1>1. /\ program' = program /\ time' = time /\ pos' = pos /\ stage' = stage
      /\ sent' = sent /\ posted' = posted /\ index' = index
      /\ openRecv' = openRecv /\ openSend' = openSend /\ records' = records
      /\ waiting' = waiting /\ UNCHANGED trace
  BY DEF DetectionStep, replayOnly, trace, handles
<1>2. Booked'
  BY <1>1, BookedStutters DEF Understood
<1>3. RequestsServed'
  BY <1>1, ZenonT(60) DEF Understood, RequestsServed, Requests, Served, Arrived, Partner, Expected, Reverse
<1>4. \A q \in Rank : MessageThere(q)'
  BY <1>1 DEF Understood, MessageThere, Op, Single, Arrived
<1>5. /\ remoteNode' = [q \in Rank |-> remoteNode'[q]]
      /\ \A q \in Rank : \A a \in DOMAIN remoteNode'[q] :
           a \in DOMAIN remoteNode[q] /\ remoteNode'[q][a] = remoteNode[q][a]
  <2>1. CASE UNCHANGED <<blocking, remoteNode, waiting>>
    BY <2>1 DEF Understood, Findings
  <2>2. CASE Drops(r, cur[r].act)
    BY <2>2, NodesDropped DEF Understood
  <2> QED
    BY <2>1, <2>2, DetectionDrops
<1>6. ASSUME NEW q \in Rank, NEW a \in DOMAIN remoteNode'[q]
      PROVE  a \in Activity(q) /\ Cause(q, a, remoteNode[q][a])'
  <2>1. PICK n : n = remoteNode[q][a] /\ n = remoteNode'[q][a]
    BY <1>5
  <2>2. a \in Activity(q) /\ Cause(q, a, n)
    BY <1>5, <2>1 DEF Understood, Findings
  <2>3. Cause(q, a, n)'
    BY <1>1, <2>2, CausesStay
  <2> QED
    BY <2>1, <2>2, <2>3
<1>7. Findings'
  BY <1>1, <1>5, <1>6 DEF Understood, Findings
<1> QED
  BY <1>2, <1>3, <1>4, <1>7 DEF Understood

LEMMA ConcludedDuringDetection ==
  ASSUME Understood, Concluded, pc \in [Rank -> D!PC], NEW r \in Rank, DetectionStep(r)
  PROVE  Concluded'
<1>1. program' = program /\ time' = time /\ pos' = pos
  BY DEF DetectionStep, replayOnly, trace
<1>2. LateRank' = LateRank /\ \A q : ReplayDone(q)' <=> ReplayDone(q)
  BY <1>1 DEF LateRank, ReplayDone
<1>3. pc'[r] # "decide" /\ \A q \in Rank \ {r} : pc'[q] = pc[q]
  BY DetectionDrops
<1>4. CASE UNCHANGED <<blocking, remoteNode, waiting>>
  BY <1>1, <1>2, <1>3, <1>4 DEF Concluded
<1>5. CASE Drops(r, cur[r].act)
  <2>1. blocking' = blocking
    BY <1>5 DEF Drops
  <2>2. PICK k : k = cur[r].act
    OBVIOUS
  <2>3. /\ \A q \in Rank \ {r} : remoteNode'[q] = remoteNode[q]
        /\ remoteNode'[r] = [a \in DOMAIN remoteNode[r] \ {k} |-> remoteNode[r][a]]
        /\ \A q \in Rank : \A a \in DOMAIN remoteNode'[q] :
             a \in DOMAIN remoteNode[q] /\ remoteNode'[q][a] = remoteNode[q][a]
    BY <1>5, <2>2, NodesDropped DEF Understood
  <2>4. ASSUME NEW q \in Rank
        PROVE  /\ pc'[q] = "decide" => blocking[q] = DOMAIN remoteNode'[q]
               /\ remoteNode'[q] = [i \in DOMAIN remoteNode'[q] |-> remoteNode'[q][i]]
               /\ \A i \in DOMAIN remoteNode'[q] : NodeRecord(remoteNode'[q][i])
    <3>1. CASE q = r
      <4>1. PICK f : f = [a \in DOMAIN remoteNode[r] \ {k} |-> remoteNode[r][a]]
        OBVIOUS
      <4>2. remoteNode'[q] = f /\ pc'[q] # "decide"
        BY <1>3, <2>3, <3>1, <4>1
      <4>3. f = [i \in DOMAIN f |-> f[i]]
        BY <4>1
      <4>4. \A i \in DOMAIN f : NodeRecord(f[i])
        BY <2>3, <3>1, <4>2, ZenonT(60) DEF Concluded
      <4> QED
        BY <4>2, <4>3, <4>4
    <3>2. CASE q # r
      BY <1>3, <2>3, <3>2 DEF Concluded
    <3> QED
      BY <3>1, <3>2
  <2> QED
    BY <1>1, <1>2, <2>1, <2>4 DEF Concluded
<1> QED
  BY <1>4, <1>5, DetectionDrops

-----------------------------------------------------------------------------
(***************************************************************************)
(* The invariant holds.                                                    *)
(***************************************************************************)
LEMMA InitAnalysisInv ==
  ASSUME NoTestall, AnalysisInit PROVE AnalysisInv
<1>1. Init /\ atomicStart = FALSE /\ Detection!InitProcedure /\ Understood
  BY UnderstoodInit DEF AnalysisInit
<1>2. \A r \in Rank : /\ pos[r] = 0 /\ stage[r] = "apply" /\ remoteNode[r] = <<>>
                      /\ blocking[r] = {} /\ gathered[r] = 0 /\ ~ReplayDone(r)
  BY <1>1, ActivityNumbers DEF Init, ReplayDone
<1>3. Counted
  <2>1. ASSUME NEW r \in Rank PROVE gathered[r] = Cardinality(Begun(Collectives(program, r), r))
    <3>1. Collectives(program, r) \in SUBSET Activity(r)
      BY DEF Collectives
    <3> QED
      BY <1>2, <3>1, NothingBegun, FS_EmptySet
  <2> QED
    BY <1>1, <2>1 DEF Init, Counted
<1>4. Joined
  BY <1>2 DEF Joined
<1>5. Concluded
  <2>1. \A r \in Rank : /\ DOMAIN remoteNode[r] = {}
                        /\ remoteNode[r] = [i \in DOMAIN remoteNode[r] |-> remoteNode[r][i]]
    BY <1>2
  <2>2. blocking \in [Rank -> SUBSET Nat]
    BY <1>1 DEF Init
  <2> QED
    BY <1>2, <2>1, <2>2 DEF Concluded
<1>6. NotYet /\ ~Started
  BY <1>1, <1>2 DEF NotYet, Started, Detection!InitProcedure
<1> QED
  BY <1>1, <1>3, <1>4, <1>5, <1>6 DEF AnalysisInv

\* What the proofs about the detection assume of its constants.
LEMMA DetectionConstants ==
  /\ Rank # {} /\ D!IsFiniteSet(Rank)
  /\ LastActivity \in [Rank -> Nat \ {0}]
  /\ {FALSE} \subseteq BOOLEAN
BY RankIsNatural, ActivityNumbers DEF IsFiniteSet, D!IsFiniteSet

LEMMA WalkedAtFirst == D!Init => Walked
BY DetectionConstants, D!InitTypeOK, D!InitProtocolInv, D!InitGapInv DEF Walked

LEMMA WalkedOn == Walked /\ [D!Next]_D!vars => Walked'
BY DetectionConstants, D!StepTypeOK, D!StepProtocolInv, D!StepGapInv DEF Walked

LEMMA DetectionKeepsInv ==
  ASSUME AnalysisInv, NEW r \in Rank, DetectionStep(r) PROVE AnalysisInv'
<1>1. /\ UNCHANGED <<program, time, pos, stage, gathered>> /\ ReplayDone(r)
  BY DEF DetectionStep, replayOnly, trace
<1>2. Started /\ Started' /\ Walked /\ \A q \in Rank : ReplayDone(q)' <=> ReplayDone(q)
  BY <1>1 DEF AnalysisInv, Started, ReplayDone
<1>3. pc \in [Rank -> D!PC]
  BY <1>2 DEF Walked, D!TypeOK
<1>4. Understood' /\ Concluded'
  BY <1>3, UnderstoodDuringDetection, ConcludedDuringDetection DEF AnalysisInv
<1>5. Counted' /\ Joined'
  BY <1>1, <1>2
     DEF AnalysisInv, Counted, Joined, Begun, Collectives, AtFinalize, ReplayDone
<1>6. NotYet'
  BY <1>1, <1>2, <1>3, DetectionDrops DEF AnalysisInv, NotYet
<1>7. Walked'
  <2>1. D!Work(r) \/ D!SendReturns(r)
    BY WalkStep DEF AnalysisInv, Understood
  <2> QED
    BY <1>2, <2>1, WalkedOn DEF D!Next
<1> QED
  BY <1>4, <1>5, <1>6, <1>7 DEF AnalysisInv

LEMMA ReplayKeepsInv ==
  ASSUME TagsApart, PartnersAnswer, AnalysisInv, NEW r \in Rank, ReplayStep(r)
  PROVE  AnalysisInv'
<1>1. /\ Rule(r) /\ UNCHANGED detection /\ Understood /\ Booked
      /\ Typed /\ Measured /\ Findings /\ Counted /\ Joined /\ Concluded /\ NotYet
  BY DEF AnalysisInv, ReplayStep, Understood, Booked
<1>2. UNCHANGED trace /\ Moves(r)
  BY <1>1, BookedStep DEF Books
<1>3. Understood'
  BY <1>1, UnderstoodStep DEF Next
<1>4. Counted' /\ Joined' /\ Concluded'
  BY <1>1, <1>2, CountedKept, JoinedKept, ConcludedKept
<1>5. ASSUME NEW q \in Rank, ReplayDone(q) PROVE ReplayDone(q)'
  <2>1. pos[r] \in Nat /\ LastActivity[r] \in Nat /\ pos[r] <= LastActivity[r]
    BY <1>1, <1>2, ActivityNumbers DEF Typed, Activity, Moves
  <2>2. q # r
    BY <1>5, <2>1 DEF ReplayDone
  <2> QED
    BY <1>2, <1>5, <2>2 DEF Moves, ReplayDone
<1>6. NotYet'
  <2>1. atomicStart' = FALSE /\ pc' = pc
    BY <1>1 DEF NotYet, detection
  <2>2. ~Started' => ~Started
    BY <1>5 DEF Started
  <2>3. Detection!InitProcedure => Detection!InitProcedure'
    BY <1>1 DEF detection, Detection!InitProcedure, Detection!Leave, Detection!NoActivity
  <2> QED
    BY <1>1, <1>5, <2>1, <2>2, <2>3 DEF NotYet
<1>7. ASSUME Started PROVE Walked'
  <2>1. UNCHANGED D!vars
    BY <1>1, <1>2, <1>7, ReplayLast
  <2> QED
    BY <1>7, <2>1, WalkedOn DEF AnalysisInv
<1>8. ASSUME ~Started PROVE Walked'
  <2>1. Detection!InitProcedure'
    BY <1>1, <1>8 DEF NotYet, detection, Detection!InitProcedure, Detection!Leave,
       Detection!NoActivity
  <2>2. (Typed /\ Measured /\ Findings /\ Concluded /\ atomicStart = FALSE)'
    BY <1>3, <1>4, <1>6 DEF Understood, Booked, NotYet
  <2>3. D!Init'
    BY <2>1, <2>2, DetectionBegins, PTL
  <2> QED
    BY <2>3, WalkedAtFirst, PTL
<1> QED
  BY <1>3, <1>4, <1>6, <1>7, <1>8 DEF AnalysisInv

LEMMA StepAnalysisInv ==
  ASSUME TagsApart, PartnersAnswer, AnalysisInv, [AnalysisNext]_analysis
  PROVE  AnalysisInv'
<1>1. CASE UNCHANGED analysis
  <2>1. /\ UNCHANGED <<program, time, pos, stage, gathered, blocking, remoteNode>>
        /\ UNCHANGED replay /\ UNCHANGED detection
    BY <1>1 DEF analysis, replay, trace, results
  <2>2. Understood'
    BY <2>1, UnderstoodStep DEF AnalysisInv
  <2>3. Counted' /\ Joined' /\ Concluded'
    BY <2>1 DEF AnalysisInv, Counted, Joined, Concluded, Begun, Collectives, AtFinalize,
       ReplayDone, LateRank, NodeRecord, detection
  <2>4. NotYet' /\ (Started' <=> Started)
    BY <2>1 DEF AnalysisInv, NotYet, Started, ReplayDone, detection, Detection!InitProcedure,
       Detection!Leave, Detection!NoActivity
  <2>5. UNCHANGED D!vars
    BY <2>1, GraphStays DEF detection, D!vars
  <2> QED
    BY <2>2, <2>3, <2>4, <2>5, WalkedOn DEF AnalysisInv
<1>2. ASSUME NEW r \in Rank, ReplayStep(r) \/ DetectionStep(r) PROVE AnalysisInv'
  BY <1>2, DetectionKeepsInv, ReplayKeepsInv
<1> QED
  BY <1>1, <1>2 DEF AnalysisNext, AnalysisEnded

-----------------------------------------------------------------------------
(***************************************************************************)
(* What the analysis of an interval promises.  The hypotheses are those of *)
(* WaitsAreForPartners: no MPI_Testall in the programs, program and answer *)
(* tags apart, and partners that answer.                                   *)
(***************************************************************************)
THEOREM AnalysisInvariant ==
  ASSUME NoTestall, TagsApart, PartnersAnswer
  PROVE  AnalysisSpec => []AnalysisInv
BY InitAnalysisInv, StepAnalysisInv, PTL DEF AnalysisSpec

LEMMA HandoverIsReady ==
  ASSUME AnalysisInv, Handover
  PROVE  /\ \A r \in Rank : [blocking |-> blocking[r], remoteNode |-> remoteNode[r]]
                              \in Detection!RankGraph(r)
         /\ Detection!OneEndOfPath
<1>1. Typed /\ Measured /\ Findings /\ Concluded /\ atomicStart = FALSE
  BY DEF AnalysisInv, Understood, Booked, NotYet
<1>2. ASSUME NEW r \in Rank PROVE pc[r] = "decide" /\ Edges[r] = blocking[r] /\ Nodes[r] = remoteNode[r]
  BY OwnGraph DEF Handover, ReplayFinished
<1>3. ASSUME NEW r \in Rank
      PROVE  /\ [blocking |-> blocking[r], remoteNode |-> remoteNode[r]] \in D!RankGraph(r)
             /\ LastActivity[r] \in blocking[r] <=> r # LateRank
  BY <1>1, <1>2, GraphReady
<1>4. ASSUME NEW r \in Rank PROVE D!RankGraph(r) = Detection!RankGraph(r)
  BY DEF D!RankGraph, Detection!RankGraph, D!RemoteMap, Detection!RemoteMap, D!Lasting,
     Detection!Lasting, D!Activity, Detection!Activity, D!Gap, Detection!Gap
<1>5. Detection!OneEndOfPath
  BY <1>1, <1>3, LateIsRank DEF Detection!OneEndOfPath, Detection!EndOfPath
<1> QED
  BY <1>3, <1>4, <1>5

\* The detection finds what it relies on (CriticalPathReplay starts with it):
\* a remote node for exactly the blocking activities, on another rank, and one
\* rank, the last to enter MPI_Finalize, whose last activity is not blocking,
\* although every rank concludes this by itself from the collective.
THEOREM ReplayHandsOver ==
  ASSUME NoTestall, TagsApart, PartnersAnswer
  PROVE  AnalysisSpec => []DetectionInput
<1>1. AnalysisInv => DetectionInput
  BY HandoverIsReady DEF DetectionInput
<1> QED
  BY <1>1, AnalysisInvariant, PTL

LEMMA StepOfDetection ==
  ASSUME TagsApart, AnalysisInv, AnalysisInv', [AnalysisNext]_analysis
  PROVE  /\ Started => [D!Next]_D!vars
         /\ ~Started /\ Started' => D!Init'
<1>1. ASSUME NEW r \in Rank, DetectionStep(r)
      PROVE  Started /\ D!Next
  <2>1. Started
    BY <1>1 DEF DetectionStep, Started
  <2>2. D!Work(r) \/ D!SendReturns(r)
    BY <1>1, WalkStep DEF AnalysisInv, Understood
  <2> QED
    BY <2>1, <2>2 DEF D!Next
<1>2. ASSUME NEW r \in Rank, ReplayStep(r)
      PROVE  /\ Started => UNCHANGED D!vars
             /\ ~Started => D!Init'
  <2>1. /\ Rule(r) /\ UNCHANGED detection /\ Booked
        /\ Typed /\ Measured /\ Findings /\ Concluded /\ Joined
    BY <1>2 DEF AnalysisInv, ReplayStep, Understood, Booked
  <2>2. UNCHANGED trace /\ Moves(r)
    BY <2>1, BookedStep DEF Books
  <2>3. Started => UNCHANGED D!vars
    BY <2>1, <2>2, ReplayLast
  <2>4. ASSUME ~Started PROVE D!Init'
    <3>1. Detection!InitProcedure'
      BY <2>1, <2>4 DEF AnalysisInv, NotYet, detection, Detection!InitProcedure,
         Detection!Leave, Detection!NoActivity
    <3>2. (Typed /\ Measured /\ Findings /\ Concluded /\ atomicStart = FALSE)'
      BY DEF AnalysisInv, Understood, Booked, NotYet
    <3> QED
      BY <3>1, <3>2, DetectionBegins, PTL
  <2> QED
    BY <2>3, <2>4
<1>3. ASSUME UNCHANGED analysis
      PROVE  UNCHANGED D!vars /\ (Started' <=> Started)
  <2>1. /\ UNCHANGED <<program, time, pos, blocking, remoteNode>> /\ UNCHANGED detection
    BY <1>3 DEF analysis, replay, trace, results
  <2> QED
    BY <2>1, GraphStays DEF detection, D!vars, Started, ReplayDone
<1> QED
  BY <1>1, <1>2, <1>3 DEF AnalysisNext, AnalysisEnded

\* Where there is no barrier: a rank may look for the path while others still
\* replay.  Since they are in MPI_Finalize by then, the graph the detection
\* works on is settled when the first rank begins, and every later step, also
\* those of the replay, is a step of the detection on that graph or none.
THEOREM DetectionNeedsNoBarrier ==
  ASSUME NoTestall, TagsApart, PartnersAnswer
  PROVE  AnalysisSpec => [][/\ Started => [D!Next]_D!vars
                            /\ ~Started /\ Started' => D!Init']_analysis
BY StepOfDetection, AnalysisInvariant, PTL DEF AnalysisSpec

\* So the detection keeps its promises when every rank starts it as soon as
\* its own replay is done: no gap of the path is lost, nothing else is given
\* the counter, at the end the path is complete, and no message is left for
\* the next interval.
THEOREM DetectionKeepsItsPromises ==
  ASSUME NoTestall, TagsApart, PartnersAnswer
  PROVE  AnalysisSpec => [](/\ Detection!NoGapLost
                            /\ Detection!OnlyCrossedGaps
                            /\ Detection!PathComplete
                            /\ Detection!NoStaleMessage)
<1> DEFINE Promises == /\ Detection!NoGapLost /\ Detection!OnlyCrossedGaps
                       /\ Detection!PathComplete /\ Detection!NoStaleMessage
<1>1. ASSUME Walked PROVE Promises
  <2>1. D!NoGapLost /\ D!OnlyCrossedGaps /\ D!PathComplete /\ D!NoStaleMessage
    BY DetectionConstants, <1>1, D!GapInvImplies DEF Walked, D!ProtocolInv
  <2>2. Detection!NoGapLost /\ Detection!OnlyCrossedGaps
    BY <2>1 DEF D!NoGapLost, D!OnlyCrossedGaps, Detection!NoGapLost, Detection!OnlyCrossedGaps,
       D!Crossed, D!Pending, D!Open, Detection!Crossed, Detection!Pending, Detection!Open,
       D!Gap, Detection!Gap, D!Gaps, Detection!Gaps, D!Enter, Detection!Enter,
       D!NoActivity, Detection!NoActivity
  <2>3. Detection!PathComplete
    BY <2>1 DEF D!PathComplete, Detection!PathComplete, D!Finished, Detection!Finished,
       D!Crossed, Detection!Crossed, D!Gap, Detection!Gap, D!Enter, Detection!Enter
  <2>4. Detection!NoStaleMessage
    BY <2>1 DEF D!NoStaleMessage, Detection!NoStaleMessage, D!AtEnd, Detection!AtEnd
  <2> QED
    BY <2>2, <2>3, <2>4
<1>2. ASSUME AnalysisInv, ~Started PROVE Promises
  <2>1. Detection!InitProcedure
    BY <1>2 DEF AnalysisInv, NotYet
  <2>2. \A r \in Rank : /\ pc[r] = "decide" /\ sectionList[r] = <<>> /\ onPath[r] = {}
                        /\ localPath[r] = {}
    BY <2>1 DEF Detection!InitProcedure
  <2>3. \A r \in Rank : Detection!Crossed(r) = {} /\ Detection!Pending(r) = {}
    BY <2>2 DEF Detection!Crossed, Detection!Pending
  <2> QED
    BY <2>2, <2>3, RankIsNatural DEF Detection!NoGapLost, Detection!OnlyCrossedGaps,
       Detection!PathComplete, Detection!NoStaleMessage, Detection!AtEnd, Detection!Finished
<1>3. AnalysisInv => Promises
  BY <1>1, <1>2 DEF AnalysisInv
<1> QED
  BY <1>3, AnalysisInvariant, PTL

-----------------------------------------------------------------------------
(***************************************************************************)
(* The path goes back in time (in programs of blocking calls).             *)
(***************************************************************************)
LEMMA TimesOfWalk ==
  ASSUME Measured, NEW t, t = time PROVE D!Timed(t)
<1>1. ASSUME NEW r \in Rank, NEW a \in Activity(r), a > 0
      PROVE  time[r][a - 1].leave <= time[r][a].enter
  BY <1>1 DEF Measured, ValidTiming
<1> QED
  BY <1>1, TimesOfActivity DEF D!Timed, D!Activity, Activity

\* Also the wait states still to come, in MPI_Finalize, fit.
LEMMA TimesOfNodes ==
  ASSUME BlockingOnly, Understood, NEW t, t = time PROVE D!TargetsBefore(t)
<1>1. Measured
  BY DEF Understood, Booked
<1>2. ASSUME NEW r \in Rank, NEW a \in DOMAIN remoteNode[r], NEW c, c = remoteNode[r][a]
      PROVE  time[c.rank][c.act].enter < time[r][a].leave
  <2>1. PICK n \in Node : n = <<r, a>> /\ n[1] = r /\ n[2] = a
    <3>1. a \in Activity(r)
      BY <1>2 DEF Understood, Findings
    <3> QED
      BY <3>1, NodesAreActivities
  <2>2. Waits(n) /\ WaitedFor(n) = <<c.rank, c.act>>
    BY <1>2, <2>1 DEF Waits, WaitedFor
  <2>3. PICK m : m = WaitedFor(n) /\ m[1] = c.rank /\ m[2] = c.act
    BY <2>2
  <2>4. Enter(m) < Leave(n)
    BY <2>2, <2>3, WaitFacts
  <2> QED
    BY <2>1, <2>3, <2>4 DEF Enter, Leave
<1>3. ASSUME NEW r \in Rank
      PROVE  time[LateRank][LastActivity[LateRank]].enter < time[r][LastActivity[r]].leave
  <2>1. PICK q \in Rank : q = LateRank
    BY <1>1, LateIsRank
  <2>2. PICK i \in Activity(q), j \in Activity(r) : i = LastActivity[q] /\ j = LastActivity[r]
    BY <1>1, LastIsCollective
  <2>3. SameCollective(program, q, i, r, j)
    BY <1>1, <2>2, CollectivesAgree
  <2>4. time[q][i].enter < time[r][j].leave
    BY <1>1, <2>3 DEF Measured, ValidTiming
  <2> QED
    BY <2>1, <2>2, <2>4
<1>4. ASSUME NEW r \in Rank, NEW a \in DOMAIN Nodes[r]
      PROVE  time[Nodes[r][a].rank][Nodes[r][a].act].enter < time[r][a].leave
  <2>1. CASE Settled(r)
    BY <1>2, <1>4, <2>1 DEF Nodes
  <2>2. CASE ~Settled(r)
    <3>1. PICK f : f = PutNode(remoteNode[r], LastActivity[r], LateNode)
      OBVIOUS
    <3>2. Nodes[r] = f
      BY <2>2, <3>1 DEF Nodes
    <3>3. CASE a = LastActivity[r]
      <4>1. f[a] = LateNode
        BY <3>1, <3>3 DEF PutNode
      <4> QED
        BY <1>3, <3>2, <3>3, <4>1 DEF LateNode
    <3>4. CASE a # LastActivity[r]
      <4>1. a \in DOMAIN remoteNode[r] /\ f[a] = remoteNode[r][a]
        BY <1>4, <3>1, <3>2, <3>4 DEF PutNode
      <4> QED
        BY <1>2, <3>2, <4>1
    <3> QED
      BY <3>3, <3>4
  <2> QED
    BY <2>1, <2>2
<1> QED
  BY <1>4 DEF D!TargetsBefore

WalksBack == Started => \A t : t = time => D!BackInv(t)

LEMMA WalksBackAtFirst ==
  ASSUME BlockingOnly, Understood, D!Init
  PROVE  \A t : t = time => D!BackInv(t)
BY TimesOfNodes, DetectionConstants, D!InitBackInv

LEMMA StepWalksBack ==
  ASSUME BlockingOnly, TagsApart, PartnersAnswer, AnalysisInv, AnalysisInv', WalksBack,
         [AnalysisNext]_analysis,
         Started => [D!Next]_D!vars, ~Started /\ Started' => D!Init'
  PROVE  WalksBack'
<1>1. time' = time
  <2>1. ASSUME NEW r \in Rank, Rule(r) PROVE time' = time
    BY <2>1, BookedStep DEF AnalysisInv, Understood, Books, trace
  <2>2. ASSUME NEW r \in Rank, DetectionStep(r) PROVE time' = time
    BY <2>2 DEF DetectionStep, replayOnly, trace
  <2>3. UNCHANGED analysis => time' = time
    BY DEF analysis, replay, trace
  <2> QED
    BY <2>1, <2>2, <2>3 DEF AnalysisNext, AnalysisEnded, ReplayStep
<1>2. CASE ~Started /\ Started'
  <2>1. Understood' /\ D!Init'
    BY <1>2 DEF AnalysisInv
  <2>2. (\A t : t = time => D!BackInv(t))'
    BY <2>1, WalksBackAtFirst, PTL
  <2> QED
    BY <2>2 DEF WalksBack
<1>3. CASE Started
  <2>1. Walked /\ Walked' /\ Measured
    BY <1>3, WalkedOn DEF AnalysisInv, Understood, Booked
  <2> SUFFICES ASSUME NEW t, t = time PROVE D!BackInv(t)'
    BY <1>1 DEF WalksBack
  <2>2. D!Timed(t) /\ D!BackInv(t)
    BY <1>3, <2>1, TimesOfWalk DEF WalksBack
  <2> QED
    BY <1>3, <2>1, <2>2, DetectionConstants, D!StepBackInv DEF Walked
<1> QED
  BY <1>2, <1>3 DEF WalksBack

LEMMA WalksBackAlways ==
  ASSUME BlockingOnly, TagsApart, PartnersAnswer
  PROVE  AnalysisSpec => []WalksBack
<1>1. NoTestall
  BY BlockingOnlyTestsNothing
<1>2. AnalysisInit => ~Started
  BY ActivityNumbers DEF AnalysisInit, Init, Started, ReplayDone
<1>3. AnalysisInit => WalksBack
  BY <1>2 DEF WalksBack
<1>4. AnalysisInv /\ AnalysisInv' /\ WalksBack /\ [AnalysisNext]_analysis => WalksBack'
  BY StepOfDetection, StepWalksBack
<1> QED
  BY <1>1, <1>3, <1>4, AnalysisInvariant, PTL DEF AnalysisSpec

\* The path leads back in time: where a rank is asked to continue it, the
\* activity was entered before the waiting one was left.  Neither a rank's
\* clock nor the order of messages sees to that: it follows from what the
\* rules of the replay conclude from times that have gone through messages.
THEOREM PathGoesBack ==
  ASSUME BlockingOnly, TagsApart, PartnersAnswer
  PROVE  AnalysisSpec => []WalkGoesBack
<1>1. ASSUME AnalysisInv, WalksBack PROVE WalkGoesBack
  <2>1. CASE Started
    <3>1. PICK t : t = time
      OBVIOUS
    <3>2. D!BackInTime(t)
      BY <1>1, <2>1, <3>1 DEF WalksBack, D!BackInv
    <3> QED
      BY <3>1, <3>2 DEF D!BackInTime, WalkGoesBack
  <2>2. CASE ~Started
    <3>1. \A s, d \in Rank : chan[s][d] = <<>>
      BY <1>1, <2>2 DEF AnalysisInv, NotYet, Detection!InitProcedure
    <3> QED
      BY <3>1 DEF WalkGoesBack
  <2> QED
    BY <2>1, <2>2
<1>2. NoTestall
  BY BlockingOnlyTestsNothing
<1> QED
  BY <1>1, <1>2, AnalysisInvariant, WalksBackAlways, PTL

\* So the path never runs through a wait state: the walk does not come back
\* to one whose remote node has been used up, although nothing in the code
\* keeps a rank from becoming master again at any of its activities.
THEOREM PathAvoidsWaiting ==
  ASSUME BlockingOnly, TagsApart, PartnersAnswer
  PROVE  AnalysisSpec => NoWaitingOnPath
<1>1. ASSUME AnalysisInv, WalksBack, NEW r \in Rank, Detection!WalkOverWaitState(r)
      PROVE  FALSE
  <2>1. /\ pc[r] = "master" /\ cur[r].side = "leave"
        /\ cur[r].act \in blocking[r] \ DOMAIN remoteNode[r]
    BY <1>1 DEF Detection!WalkOverWaitState, Detection!MasterAt
  <2>2. ReplayDone(r) /\ Started
    BY <1>1, <2>1 DEF AnalysisInv, NotYet, Started
  <2>3. cur[r].act \in Edges[r] \ DOMAIN Nodes[r]
    BY <2>1, <2>2, OwnGraph
  <2>4. PICK t : t = time
    OBVIOUS
  <2>5. D!Timed(t) /\ D!PastUsed(t) /\ D!GapInv
    BY <1>1, <2>2, <2>4, TimesOfWalk
       DEF WalksBack, D!BackInv, AnalysisInv, Walked, Understood, Booked
  <2>6. D!MasterAt(r, "leave")
    BY <2>1 DEF D!MasterAt
  <2> QED
    BY <2>3, <2>5, <2>6, DetectionConstants, D!NoSecondWait
<1>2. AnalysisInv /\ WalksBack => ~\E r \in Rank : Detection!WalkOverWaitState(r)
  BY <1>1
<1>3. NoTestall
  BY BlockingOnlyTestsNothing
<1> QED
  BY <1>2, <1>3, AnalysisInvariant, WalksBackAlways, PTL DEF NoWaitingOnPath
=============================================================================
