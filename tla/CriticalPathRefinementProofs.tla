--------------------- MODULE CriticalPathRefinementProofs ---------------------
(***************************************************************************)
(* The steps of CriticalPathReplay are steps of CriticalPathWalk: for      *)
(* every number of ranks and activities and every graph of wait states,    *)
(* the ranks together find the path a single walker would find.            *)
(***************************************************************************)
EXTENDS CriticalPathRefinement, CriticalPathProofs

-----------------------------------------------------------------------------
(***************************************************************************)
(* What the mapping needs beyond the invariants of the protocol and of the *)
(* sections.                                                               *)
(***************************************************************************)

\* Who does not walk stands at the leave node it stopped at, so a slave that is
\* told to terminate is not taken for the rank that reached the start.
WaitsAtLeave(r) == pc[r] \in {"decide", "sendNext", "slave"} => cur[r].side = "leave"

\* The walk ends at the start node of one rank.
OneFinder ==
  /\ \A f, g \in Finder : f = g
  /\ PathFound => Finder # {}

\* A master at the end of its section is the rank the search began at; every
\* other hand-over leaves a section and marks the node it leaves.
FirstOrInside(r) ==
  pc[r] = "master" /\ cur[r] = Leave(sectionEnd[r]) => cur[r].act \notin blocking[r]

WalkInv ==
  /\ \A r \in Rank : WaitsAtLeave(r)
  /\ OneFinder
  /\ \A r \in Rank : FirstOrInside(r)

AllInv == TypeOK /\ ProtocolInv /\ GapInv /\ WalkInv

\* The mapping, resolved: where the walker is in each phase of the search.
WalkerPlace ==
  /\ \A r \in Rank : HoldsPath(r) => ~PathLost /\ walkerBar = Here(r)
  /\ \A s, d \in Rank :
       Carries(s, d) => ~PathLost /\ walkerBar = Arriving(d, Head(chan[s][d]).act)
  /\ \A f \in Finder : PathLost /\ walkerBar = Here(f)
  /\ PathLost => Finder # {}

LEMMA WalkerIsPlaced == AllInv => WalkerPlace
<1> SUFFICES ASSUME TypeOK, ProtocolInv, WalkInv PROVE WalkerPlace
  BY DEF AllInv
<1>1. ASSUME NEW r \in Rank, HoldsPath(r)
      PROVE  ~PathLost /\ walkerBar = Here(r)
  <2>1. \A q \in Rank : HoldsPath(q) => q = r
    BY <1>1 DEF ProtocolInv, OneMaster
  <2>2. \A s, d \in Rank : ~Carries(s, d)
    BY <1>1 DEF ProtocolInv, OneMaster
  <2>3. WalkerAt = {Here(r)}
    BY <1>1, <2>1, <2>2, Zenon DEF WalkerAt
  <2>4. ~PathLost
    BY <1>1 DEF PathLost
  <2> QED
    BY <2>3, <2>4 DEF walkerBar
<1>2. ASSUME NEW s \in Rank, NEW d \in Rank, Carries(s, d)
      PROVE  ~PathLost /\ walkerBar = Arriving(d, Head(chan[s][d]).act)
  <2>1. \A t, e \in Rank : Carries(t, e) => t = s /\ e = d
    BY <1>2 DEF ProtocolInv, OneMaster
  <2>2. \A q \in Rank : ~HoldsPath(q)
    BY <1>2 DEF ProtocolInv, OneMaster
  <2>3. WalkerAt = {Arriving(d, Head(chan[s][d]).act)}
    BY <1>2, <2>1, <2>2, Zenon DEF WalkerAt
  <2>4. ~PathLost
    BY <1>2 DEF PathLost
  <2> QED
    BY <2>3, <2>4 DEF walkerBar
<1>3. ASSUME NEW f \in Finder
      PROVE  PathLost /\ walkerBar = Here(f)
  <2>1. f \in Rank /\ AtEnd(f)
    BY DEF Finder
  <2>2. PathLost
    BY <2>1 DEF ProtocolInv, EndMeansLost
  <2>3. \A g \in Finder : g = f
    BY DEF WalkInv, OneFinder
  <2>4. {Here(g) : g \in Finder} = {Here(f)}
    BY <2>3, Zenon
  <2> QED
    BY <2>2, <2>4 DEF walkerBar
<1>4. PathLost => Finder # {}
  BY DEF ProtocolInv, PathSomewhere, PathLost, WalkInv, OneFinder, PathFound
<1> QED
  BY <1>1, <1>2, <1>3, <1>4 DEF WalkerPlace

-----------------------------------------------------------------------------

LEMMA InitWalkInv == Init => WalkInv
<1> SUFFICES ASSUME Init PROVE WalkInv
  OBVIOUS
<1>1. \A r \in Rank : pc[r] = "decide" /\ cur[r] = Leave(LastActivity[r]) /\ ~AtEnd(r)
  BY DEF Init, InitProcedure, AtEnd
<1>2. ASSUME NEW r \in Rank PROVE WaitsAtLeave(r) /\ FirstOrInside(r)
  <2>1. pc[r] = "decide" /\ cur[r] = Leave(LastActivity[r])
    BY <1>1
  <2>2. cur[r].side = "leave"
    BY <2>1 DEF Leave
  <2> QED
    BY <2>1, <2>2 DEF WaitsAtLeave, FirstOrInside
<1>3. OneFinder
  BY <1>1 DEF OneFinder, Finder, PathFound
<1> QED
  BY <1>2, <1>3 DEF WalkInv

\* Who is told to terminate is told by a rank at the end.
LEMMA FoundBeforeTold ==
  ASSUME TypeOK, ProtocolInv, NEW r \in Rank, ReceiveFound(r)
  PROVE  PathFound
<1>1. PICK s \in Rank : chan[s][r] # <<>> /\ Head(chan[s][r]).type = "found"
  BY DEF ReceiveFound
<1>2. chan[s][r] \in Seq(Msg) /\ 1 \in DOMAIN chan[s][r] /\ Head(chan[s][r]) = chan[s][r][1]
  BY <1>1, EmptySeq, LenProperties, HeadTailProperties DEF TypeOK
<1> QED
  BY <1>1, <1>2 DEF Tells, ProtocolInv, ToldOnce, PathFound

\* Once the path has been found no hand-over comes into being.
LEMMA LostStaysLost ==
  ASSUME TypeOK, ProtocolInv, NEW r \in Rank, Notify(r) \/ ReceiveFound(r)
  PROVE  \A s, d \in Rank : ~Carries(s, d)'
<1>1. ProtocolInv'
  BY NotifyProtocol, ReceiveFoundProtocol
<1>2. AtEnd(r)'
  BY DEF Notify, ReceiveFound, TypeOK, AtEnd
<1> QED
  BY <1>1, <1>2 DEF ProtocolInv, EndMeansLost, PathLost

\* One rank moves; the finder is known from then on.
LEMMA OneFinderKept ==
  ASSUME TypeOK, ProtocolInv, WalkInv, NEW r \in Rank, Work(r) \/ SendReturns(r)
  PROVE  OneFinder'
<1>1. \A q \in Rank \ {r} : cur'[q] = cur[q] /\ pc'[q] = pc[q]
  BY OthersKept
<1>2. CASE ReachStart(r)
  <2>1. HoldsPath(r) /\ pc'[r] = "sendFound" /\ cur'[r] = Enter(0)
    BY <1>2 DEF ReachStart, MasterAt, HoldsPath, TypeOK, Enter
  <2>2. \A q \in Rank : ~AtEnd(q)
    BY <2>1, HolderAlone
  <2>3. \A q \in Rank \ {r} : ~AtEnd(q)'
    BY <1>1, <2>2 DEF AtEnd
  <2>4. AtEnd(r)'
    BY <2>1 DEF AtEnd
  <2> QED
    BY <2>1, <2>3, <2>4 DEF OneFinder, Finder
<1>3. CASE ~ReachStart(r)
  <2>1. \/ AtEnd(r)' <=> AtEnd(r)
        \/ AtEnd(r)' /\ ~AtEnd(r) /\ pc[r] = "slave" /\ PathFound
    <3>1. CASE ReceiveFound(r)
      <4>1. PathFound
        BY <3>1, FoundBeforeTold
      <4> QED
        BY <3>1, <4>1 DEF ReceiveFound, AtEnd, TypeOK
    <3>2. CASE ~ReceiveFound(r)
      BY <1>3, <3>2
         DEF Work, SendReturns, TypeOK, AtEnd, DecideRole, WalkOverActivity, WalkOverWaitState,
             WalkBack, HandOver, Notify, LeaveLoop, ComputeSection, ReceiveNext, LeaveBarrier,
             ComputeRemainingSection, Finish, HandOverReturns, NotifyReturns, MasterAt
    <3> QED
      BY <3>1, <3>2
  <2>2. AtEnd(r) \/ AtEnd(r)' => cur'[r] = cur[r]
    BY <1>3
       DEF Work, SendReturns, TypeOK, AtEnd, DecideRole, WalkOverActivity, WalkOverWaitState,
           WalkBack, HandOver, Notify, LeaveLoop, ComputeSection, ReceiveNext, LeaveBarrier,
           ComputeRemainingSection, Finish, HandOverReturns, NotifyReturns, MasterAt,
           ReceiveFound
  <2>3. pc[r] = "slave" => cur[r] # Enter(0)
    BY DEF WalkInv, WaitsAtLeave, Enter
  <2>4. \A q \in Rank \ {r} : AtEnd(q)' <=> AtEnd(q)
    BY <1>1 DEF AtEnd
  <2>5. Finder' = Finder
    BY <1>1, <2>1, <2>2, <2>3, <2>4 DEF Finder
  <2>6. PathFound' => PathFound
    BY <2>1, <2>4 DEF PathFound
  <2> QED
    BY <2>5, <2>6 DEF WalkInv, OneFinder
<1> QED
  BY <1>2, <1>3

LEMMA PlacesKept ==
  ASSUME TypeOK, GapInv, WalkInv, NEW r \in Rank, Work(r) \/ SendReturns(r)
  PROVE  \A q \in Rank : WaitsAtLeave(q)' /\ FirstOrInside(q)'
<1>0. blocking' = blocking
  BY DEF Work, SendReturns, DecideRole, WalkOverActivity, WalkOverWaitState, WalkBack, HandOver,
         ReachStart, Notify, LeaveLoop, ComputeSection, ReceiveNext, ReceiveFound, LeaveBarrier,
         ComputeRemainingSection, Finish, HandOverReturns, NotifyReturns, graph
<1>1. ASSUME NEW q \in Rank \ {r} PROVE WaitsAtLeave(q)' /\ FirstOrInside(q)'
  BY <1>0, OthersKept DEF WalkInv, WaitsAtLeave, FirstOrInside
<1> SUFFICES WaitsAtLeave(r)' /\ FirstOrInside(r)'
  BY <1>1
<1>2. CASE DecideRole(r)
  <2>1. cur[r] = Leave(LastActivity[r]) /\ cur[r].act = LastActivity[r]
    BY <1>2 DEF GapInv, GapInvOf, Place, DecideRole, Leave
  <2>2. pc[r] = "decide" /\ cur' = cur /\ (pc'[r] = "master" => EndOfPath(r))
    BY <1>2 DEF DecideRole, TypeOK
  <2> QED
    BY <1>0, <2>1, <2>2 DEF WalkInv, WaitsAtLeave, FirstOrInside, EndOfPath
<1>3. CASE WalkOverActivity(r) \/ WalkOverWaitState(r)
  <2>1. pc'[r] = "master" /\ cur'[r] = Enter(cur[r].act)
    BY <1>3 DEF WalkOverActivity, WalkOverWaitState, MasterAt, TypeOK
  <2> QED
    BY <2>1, SidesDiffer DEF WaitsAtLeave, FirstOrInside
<1>4. CASE WalkBack(r)
  <2>1. /\ pc[r] = "master" /\ pc'[r] = "master" /\ sectionEnd'[r] = sectionEnd[r]
        /\ cur'[r].act = cur[r].act - 1 /\ cur[r].act \in Nat
    BY <1>4 DEF WalkBack, MasterAt, TypeOK, Enter, Leave
  <2>2. sectionEnd[r] \in cur[r].act .. LastActivity[r]
    BY <2>1 DEF GapInv, GapInvOf, Place
  <2>3. cur'[r] # Leave(sectionEnd[r])
    BY <2>1, <2>2, ActivityIsNat DEF Leave
  <2> QED
    BY <2>1, <2>3 DEF WaitsAtLeave, FirstOrInside
<1>5. CASE HandOver(r)
  BY <1>5 DEF HandOver, MasterAt, TypeOK, WaitsAtLeave, FirstOrInside
<1>6. CASE ReceiveNext(r)
  <2>1. PICK s \in Rank :
          /\ cur' = [cur EXCEPT ![r] = Enter(Head(chan[s][r]).act)]
          /\ pc' = [pc EXCEPT ![r] = "master"]
    BY <1>6 DEF ReceiveNext
  <2>2. cur'[r] = Enter(Head(chan[s][r]).act) /\ pc'[r] = "master"
    BY <2>1 DEF TypeOK
  <2> QED
    BY <2>2, SidesDiffer DEF WaitsAtLeave, FirstOrInside
<1>7. CASE \/ ReachStart(r) \/ Notify(r) \/ LeaveLoop(r) \/ ComputeSection(r)
           \/ ReceiveFound(r) \/ LeaveBarrier(r) \/ ComputeRemainingSection(r) \/ Finish(r)
           \/ HandOverReturns(r) \/ NotifyReturns(r)
  <2>1. /\ cur'[r] = cur[r] /\ pc'[r] # "master" /\ pc'[r] # "decide"
        /\ pc'[r] \in {"sendNext", "slave"} => pc[r] \in {"sendNext", "slave"}
    BY <1>7 DEF ReachStart, Notify, LeaveLoop, ComputeSection, ReceiveFound, LeaveBarrier,
                ComputeRemainingSection, Finish, HandOverReturns, NotifyReturns, TypeOK
  <2> QED
    BY <2>1 DEF WalkInv, WaitsAtLeave, FirstOrInside
<1> QED
  BY <1>2, <1>3, <1>4, <1>5, <1>6, <1>7 DEF Work, SendReturns

LEMMA WalkInvariant == Spec => []WalkInv
<1>1. TypeOK /\ ProtocolInv /\ GapInv /\ WalkInv /\ [Next]_vars => WalkInv'
  <2> SUFFICES ASSUME TypeOK, ProtocolInv, GapInv, WalkInv, [Next]_vars PROVE WalkInv'
    OBVIOUS
  <2>1. ASSUME NEW r \in Rank, Work(r) \/ SendReturns(r) PROVE WalkInv'
    BY <2>1, OneFinderKept, PlacesKept DEF WalkInv
  <2>2. CASE UNCHANGED vars
    BY <2>2 DEF vars, WalkInv, WaitsAtLeave, OneFinder, FirstOrInside, Finder, PathFound, AtEnd
  <2> QED
    BY <2>1, <2>2 DEF Next, Terminated
<1> QED
  BY <1>1, InitWalkInv, TypeCorrect, ProtocolInvariant, GapInvariant, PTL DEF Spec

-----------------------------------------------------------------------------
(***************************************************************************)
(* Steps.                                                                  *)
(***************************************************************************)

LEMMA InitWalks == Init => Walk!WalkInit
<1> SUFFICES ASSUME Init PROVE Walk!WalkInit
  OBVIOUS
<1>1. WalkerPlace
  BY InitTypeOK, InitProtocolInv, InitGapInv, InitWalkInv, WalkerIsPlaced DEF AllInv
<1>2. PICK r \in Rank : EndOfPath(r)
  BY DEF Init, OneEndOfPath
<1>3. pc[r] = "decide" /\ cur[r] = Leave(LastActivity[r])
  BY DEF Init, InitProcedure
<1>4. HoldsPath(r)
  BY <1>2, <1>3 DEF HoldsPath
<1>5. ~PathLost /\ walkerBar = Here(r)
  BY <1>1, <1>4 DEF WalkerPlace
<1>6. walkerBar = Walk!At(r, LastActivity[r], "leave", FALSE)
  BY <1>3, <1>5 DEF Here, Leave, Walk!At
<1>7. onPath = [q \in Rank |-> {}]
  BY DEF Init, InitProcedure
<1> QED
  BY <1>2, <1>5, <1>6, <1>7 DEF Walk!WalkInit, EndOfPath

\* A step that leaves the path with whoever has it is invisible to the walker.
LEMMA InvisibleStep ==
  ASSUME WalkerPlace, WalkerPlace',
         UNCHANGED <<atomicStart, blocking, onPath, remoteNodeBar>>,
         \A q \in Rank : /\ HoldsPath(q)' <=> HoldsPath(q)
                         /\ HoldsPath(q) \/ q \in Finder => cur'[q] = cur[q]
                         /\ AtEnd(q) => AtEnd(q)',
         \A s, d \in Rank : /\ Carries(s, d)' <=> Carries(s, d)
                            /\ Carries(s, d) => chan'[s][d] = chan[s][d]
  PROVE  UNCHANGED Walk!walk
<1>1. PathLost' <=> PathLost
  BY DEF PathLost
<1>2. walkerBar' = walkerBar
  <2>1. CASE \E q \in Rank : HoldsPath(q)
    <3>1. PICK q \in Rank : HoldsPath(q)
      BY <2>1
    <3>2. walkerBar = Here(q) /\ walkerBar' = Here(q)' /\ cur'[q] = cur[q]
      BY <3>1 DEF WalkerPlace
    <3> QED
      BY <3>2 DEF Here
  <2>2. CASE \E s, d \in Rank : Carries(s, d)
    <3>1. PICK s \in Rank, d \in Rank : Carries(s, d)
      BY <2>2
    <3>2. /\ walkerBar = Arriving(d, Head(chan[s][d]).act)
          /\ walkerBar' = Arriving(d, Head(chan'[s][d]).act)
          /\ chan'[s][d] = chan[s][d]
      BY <3>1 DEF WalkerPlace, Arriving
    <3> QED
      BY <3>2
  <2>3. CASE PathLost
    <3>1. PICK f \in Finder : TRUE
      BY <2>3 DEF WalkerPlace
    <3>2. f \in Finder' /\ cur'[f] = cur[f]
      BY DEF Finder
    <3>3. walkerBar = Here(f) /\ walkerBar' = Here(f)'
      BY <3>2 DEF WalkerPlace
    <3> QED
      BY <3>2, <3>3 DEF Here
  <2> QED
    BY <2>1, <2>2, <2>3 DEF PathLost
<1> QED
  BY <1>1, <1>2 DEF Walk!walk

LEMMA InvisibleSteps ==
  ASSUME AllInv, WalkerPlace, WalkerPlace', NEW r \in Rank,
         \/ DecideRole(r) \/ HandOverReturns(r) \/ Notify(r) \/ NotifyReturns(r)
         \/ LeaveLoop(r) \/ ComputeSection(r) \/ ReceiveFound(r) \/ LeaveBarrier(r)
         \/ ComputeRemainingSection(r) \/ Finish(r)
  PROVE  UNCHANGED Walk!walk
<1>1. UNCHANGED <<atomicStart, blocking, onPath, cur>>
  BY DEF DecideRole, HandOverReturns, Notify, NotifyReturns, LeaveLoop, ComputeSection,
         ReceiveFound, LeaveBarrier, ComputeRemainingSection, Finish, graph
<1>2. TypeOK /\ ProtocolInv
  BY DEF AllInv
<1>3. remoteNodeBar' = remoteNodeBar
  <2>1. CASE HandOverReturns(r)
    <3>1. /\ pc[r] = "sendNext" /\ pc' = [pc EXCEPT ![r] = "slave"]
          /\ remoteNode' = [remoteNode EXCEPT ![r] =
                              [a \in DOMAIN @ \ {cur[r].act} |-> @[a]]]
      BY <2>1 DEF HandOverReturns
    <3>2. pc \in [Rank -> PC] /\ remoteNode \in [Rank -> RemoteNodeMap]
      BY <1>2 DEF TypeOK
    <3>3. ASSUME NEW q \in Rank
          PROVE  (IF pc'[q] = "sendNext"
                    THEN [a \in DOMAIN remoteNode'[q] \ {cur'[q].act} |-> remoteNode'[q][a]]
                    ELSE remoteNode'[q])
                 = (IF pc[q] = "sendNext"
                      THEN [a \in DOMAIN remoteNode[q] \ {cur[q].act} |-> remoteNode[q][a]]
                      ELSE remoteNode[q])
      <4>1. CASE q = r
        BY <4>1, <3>1, <3>2
      <4>2. CASE q # r
        BY <4>2, <1>1, <3>1, <3>2
      <4> QED
        BY <4>1, <4>2
    <3> QED
      BY <3>3 DEF remoteNodeBar
  <2>2. CASE ~HandOverReturns(r)
    <3>1. remoteNode' = remoteNode /\ \A q \in Rank : pc'[q] = "sendNext" <=> pc[q] = "sendNext"
      BY <1>2, <2>2, ZenonT(60)
         DEF TypeOK, DecideRole, Notify, NotifyReturns, LeaveLoop, ComputeSection, ReceiveFound,
             LeaveBarrier, ComputeRemainingSection, Finish, graph
    <3> QED
      BY <1>1, <3>1 DEF remoteNodeBar
  <2> QED
    BY <2>1, <2>2
<1>4. ASSUME NEW q \in Rank
      PROVE  (HoldsPath(q)' <=> HoldsPath(q)) /\ (AtEnd(q) => AtEnd(q)')
  BY <1>1, <1>2, ZenonT(60)
     DEF TypeOK, DecideRole, HandOverReturns, Notify, NotifyReturns, LeaveLoop, ComputeSection,
         ReceiveFound, LeaveBarrier, ComputeRemainingSection, Finish, HoldsPath, AtEnd, EndOfPath
<1>5. ASSUME NEW s \in Rank, NEW d \in Rank
      PROVE  /\ Carries(s, d)' <=> Carries(s, d)
             /\ Carries(s, d) => chan'[s][d] = chan[s][d]
  <2>1. CASE chan' = chan
    BY <2>1 DEF Carries
  <2>2. CASE Notify(r) \/ ReceiveFound(r)
    <3>1. PathFound
      <4>1. CASE Notify(r)
        BY <4>1 DEF Notify, PathFound, AtEnd
      <4>2. CASE ReceiveFound(r)
        BY <4>2, <1>2, FoundBeforeTold
      <4> QED
        BY <2>2, <4>1, <4>2
    <3>2. ~Carries(s, d) /\ PathFound'
      BY <3>1, <1>2, <1>4 DEF PathFound, ProtocolInv, EndMeansLost, PathLost
    <3>3. ~Carries(s, d)'
      BY <1>2, <2>2, <3>2, LostStaysLost
    <3> QED
      BY <3>2, <3>3
  <2> QED
    BY <2>1, <2>2 DEF DecideRole, HandOverReturns, NotifyReturns, LeaveLoop, ComputeSection,
                      LeaveBarrier, ComputeRemainingSection, Finish
<1> QED
  BY <1>1, <1>3, <1>4, <1>5, InvisibleStep

\* The walker is at the current node of the master, which has not jumped there,
\* and the remote nodes the walk knows are those of the master's map.
LEMMA WalkerAtMaster ==
  ASSUME TypeOK, WalkerPlace, NEW r \in Rank, pc[r] = "master"
  PROVE  /\ ~PathLost
         /\ walkerBar = Walk!At(r, cur[r].act, cur[r].side, FALSE)
         /\ [act |-> walkerBar.act, side |-> walkerBar.side] = cur[r]
         /\ remoteNodeBar[r] = remoteNode[r]
<1>1. HoldsPath(r)
  BY DEF HoldsPath
<1>2. ~PathLost /\ walkerBar = Here(r)
  BY <1>1 DEF WalkerPlace
<1>3. walkerBar = Walk!At(r, cur[r].act, cur[r].side, FALSE)
  BY <1>2 DEF Here, Walk!At
<1>4. [act |-> cur[r].act, side |-> cur[r].side] = cur[r]
  BY DEF TypeOK
<1>5. remoteNodeBar[r] = remoteNode[r]
  BY DEF remoteNodeBar
<1> QED
  BY <1>2, <1>3, <1>4, <1>5 DEF Walk!At

\* Who is not in the MPI_Send of a hand-over has the map the walk knows.
LEMMA MasterKeepsMap ==
  ASSUME NEW r \in Rank, UNCHANGED remoteNode, pc[r] # "sendNext", pc'[r] # "sendNext",
         \A q \in Rank \ {r} : pc'[q] = pc[q] /\ cur'[q] = cur[q]
  PROVE  remoteNodeBar' = remoteNodeBar
<1>1. ASSUME NEW q \in Rank
      PROVE  (IF pc'[q] = "sendNext"
                THEN [a \in DOMAIN remoteNode'[q] \ {cur'[q].act} |-> remoteNode'[q][a]]
                ELSE remoteNode'[q])
             = (IF pc[q] = "sendNext"
                  THEN [a \in DOMAIN remoteNode[q] \ {cur[q].act} |-> remoteNode[q][a]]
                  ELSE remoteNode[q])
  OBVIOUS
<1> QED
  BY <1>1 DEF remoteNodeBar

LEMMA CrossActivityStep ==
  ASSUME AllInv, WalkerPlace, WalkerPlace', NEW r \in Rank,
         WalkOverActivity(r) \/ WalkOverWaitState(r)
  PROVE  Walk!CrossActivity
<1>1. /\ pc[r] = "master" /\ cur[r].side = "leave" /\ UNCHANGED <<pc, atomicStart, blocking, remoteNode>>
      /\ Mark(r, cur[r])
      /\ cur' = [cur EXCEPT ![r] = Enter(cur[r].act)]
      /\ cur[r].act \notin blocking[r] \cap DOMAIN remoteNode[r]
  BY DEF WalkOverActivity, WalkOverWaitState, MasterAt, graph
<1>2. TypeOK
  BY DEF AllInv
<1>3. /\ ~PathLost
      /\ walkerBar = Walk!At(r, cur[r].act, "leave", FALSE)
      /\ [act |-> walkerBar.act, side |-> walkerBar.side] = cur[r]
      /\ remoteNodeBar[r] = remoteNode[r]
  BY <1>1, <1>2, WalkerAtMaster
<1>4. ~PathLost' /\ walkerBar' = Walk!At(r, cur[r].act, "enter", FALSE)
  <2>1. cur'[r] = Enter(cur[r].act)
    BY <1>1, <1>2 DEF TypeOK
  <2>2. HoldsPath(r)'
    BY <1>1 DEF HoldsPath
  <2>3. ~PathLost' /\ walkerBar' = Here(r)'
    BY <2>2 DEF WalkerPlace
  <2> QED
    BY <2>1, <2>3 DEF Here, Enter, Walk!At
<1>5. remoteNodeBar' = remoteNodeBar
  BY <1>1, <1>2, MasterKeepsMap DEF TypeOK
<1>6. walkerBar.rank = r /\ walkerBar.act = cur[r].act /\ walkerBar.side = "leave"
  BY <1>3 DEF Walk!At
<1>7. Walk!Visit
  BY <1>1, <1>3, <1>6 DEF Walk!Visit, Mark
<1>8. ~Walk!AtWaitState
  BY <1>1, <1>3, <1>6 DEF Walk!AtWaitState
<1> QED
  BY <1>1, <1>3, <1>4, <1>5, <1>6, <1>7, <1>8 DEF Walk!CrossActivity

LEMMA CrossGapStep ==
  ASSUME AllInv, WalkerPlace, WalkerPlace', NEW r \in Rank, WalkBack(r)
  PROVE  Walk!CrossGap
<1> DEFINE next == IF atomicStart /\ cur[r].act = 1 THEN Enter(0) ELSE Leave(cur[r].act - 1)
<1>1. /\ pc[r] = "master" /\ cur[r].side = "enter" /\ cur[r].act > 0
      /\ UNCHANGED <<pc, atomicStart, blocking, remoteNode>>
      /\ Mark(r, cur[r])
      /\ cur' = [cur EXCEPT ![r] = next]
  BY DEF WalkBack, MasterAt, graph
<1>2. TypeOK
  BY DEF AllInv
<1>3. /\ ~PathLost
      /\ walkerBar = Walk!At(r, cur[r].act, "enter", FALSE)
      /\ [act |-> walkerBar.act, side |-> walkerBar.side] = cur[r]
  BY <1>1, <1>2, WalkerAtMaster
<1>4. ~PathLost' /\ walkerBar' = Walk!At(r, next.act, next.side, FALSE)
  <2>1. cur'[r] = next
    BY <1>1, <1>2 DEF TypeOK
  <2>2. HoldsPath(r)'
    BY <1>1 DEF HoldsPath
  <2>3. ~PathLost' /\ walkerBar' = Here(r)'
    BY <2>2 DEF WalkerPlace
  <2> HIDE DEF next
  <2> QED
    BY <2>1, <2>3 DEF Here, Walk!At
<1>5. walkerBar' = IF atomicStart /\ cur[r].act = 1
                     THEN Walk!At(r, 0, "enter", FALSE)
                     ELSE Walk!At(r, cur[r].act - 1, "leave", FALSE)
  BY <1>4 DEF Enter, Leave
<1>6. remoteNodeBar' = remoteNodeBar
  BY <1>1, <1>2, MasterKeepsMap DEF TypeOK
<1>7. walkerBar.rank = r /\ walkerBar.act = cur[r].act /\ walkerBar.side = "enter"
  BY <1>3 DEF Walk!At
<1>8. Walk!Visit
  BY <1>1, <1>3, <1>7 DEF Walk!Visit, Mark
<1> QED
  BY <1>1, <1>3, <1>4, <1>5, <1>6, <1>7, <1>8 DEF Walk!CrossGap

LEMMA PassStartStep ==
  ASSUME AllInv, WalkerPlace, WalkerPlace', NEW r \in Rank, ReachStart(r)
  PROVE  Walk!PassStart
<1>1. /\ pc[r] = "master" /\ cur[r].side = "enter" /\ cur[r].act = 0
      /\ UNCHANGED <<cur, atomicStart, blocking, remoteNode>>
      /\ Mark(r, cur[r])
      /\ pc' = [pc EXCEPT ![r] = "sendFound"]
  BY DEF ReachStart, MasterAt, graph
<1>2. TypeOK
  BY DEF AllInv
<1>3. /\ ~PathLost
      /\ walkerBar = Walk!At(r, cur[r].act, "enter", FALSE)
      /\ [act |-> walkerBar.act, side |-> walkerBar.side] = cur[r]
  BY <1>1, <1>2, WalkerAtMaster
<1>4. PathLost' /\ walkerBar' = Here(r)'
  <2>1. cur[r] = Enter(0)
    BY <1>1, <1>2 DEF TypeOK, Enter
  <2>2. r \in Finder'
    BY <1>1, <1>2, <2>1 DEF Finder, AtEnd, TypeOK
  <2> QED
    BY <2>2 DEF WalkerPlace
<1>5. walkerBar' = walkerBar
  BY <1>1, <1>3, <1>4 DEF Here, Walk!At
<1>6. remoteNodeBar' = remoteNodeBar
  BY <1>1, <1>2, MasterKeepsMap DEF TypeOK
<1>7. walkerBar.rank = r /\ walkerBar.act = 0 /\ walkerBar.side = "enter"
  BY <1>1, <1>3 DEF Walk!At
<1>8. Walk!Visit
  BY <1>1, <1>3, <1>7 DEF Walk!Visit, Mark
<1> QED
  BY <1>1, <1>3, <1>4, <1>5, <1>6, <1>7, <1>8 DEF Walk!PassStart

\* The hand-over is the jump: from here on the walker is in the message.
LEMMA JumpStep ==
  ASSUME AllInv, WalkerPlace, WalkerPlace', NEW r \in Rank, HandOver(r), ProtocolInv'
  PROVE  Walk!Jump
<1>0. PICK d \in Rank, b \in Nat :
        d = remoteNode[r][cur[r].act].rank /\ b = remoteNode[r][cur[r].act].act
  BY RemoteTarget DEF HandOver, AllInv
<1>1. /\ pc[r] = "master" /\ cur[r].side = "leave"
      /\ cur[r].act \in blocking[r] \cap DOMAIN remoteNode[r]
      /\ UNCHANGED <<cur, atomicStart, blocking, remoteNode>>
      /\ chan' = [chan EXCEPT ![r][d] = Append(@, NextMsg(b))]
      /\ pc' = [pc EXCEPT ![r] = "sendNext"]
  BY <1>0 DEF HandOver, MasterAt, graph
<1>2. TypeOK /\ ProtocolInv /\ GapInv /\ WalkInv
  BY DEF AllInv
<1>3. /\ ~PathLost
      /\ walkerBar = Walk!At(r, cur[r].act, "leave", FALSE)
      /\ [act |-> walkerBar.act, side |-> walkerBar.side] = cur[r]
      /\ remoteNodeBar[r] = remoteNode[r]
  BY <1>1, <1>2, WalkerAtMaster
<1>4. Mark(r, cur[r])
  <2>1. sectionEnd[r] # NoActivity
    BY <1>1, <1>2 DEF GapInv, GapInvOf, Place
  <2>2. cur[r] # Leave(sectionEnd[r])
    BY <1>1, <1>2 DEF WalkInv, FirstOrInside
  <2>3. NewSection(r) # <<>>
    BY <2>1, <2>2 DEF NewSection
  <2> QED
    BY <2>3 DEF HandOver
<1>6. /\ Carries(r, d)' /\ Head(chan'[r][d]).act = b
  <2>1. HoldsPath(r)
    BY <1>1 DEF HoldsPath
  <2>2. chan[r][d] = <<>>
    BY <2>1, <1>2, HolderAlone
  <2>3. chan'[r][d] = Append(<<>>, NextMsg(b))
    BY <1>1, <1>2, <2>2 DEF TypeOK
  <2>4. NextMsg(b) \in Msg
    BY DEF NextMsg, Msg
  <2>5. chan'[r][d] = <<NextMsg(b)>>
    BY <2>3, <2>4, FirstMessage
  <2> QED
    BY <2>5 DEF Carries, NextMsg
<1>7. ~PathLost' /\ walkerBar' = Walk!At(d, b, "leave", TRUE)
  <2>1. ~PathLost' /\ walkerBar' = Arriving(d, Head(chan'[r][d]).act)
    BY <1>6 DEF WalkerPlace, Arriving
  <2> QED
    BY <1>6, <2>1 DEF Arriving, Walk!At
<1>8. remoteNodeBar' = [remoteNodeBar EXCEPT ![r] =
                          [a \in DOMAIN @ \ {cur[r].act} |-> @[a]]]
  <2>1. ASSUME NEW q \in Rank
        PROVE  (IF pc'[q] = "sendNext"
                  THEN [a \in DOMAIN remoteNode'[q] \ {cur'[q].act} |-> remoteNode'[q][a]]
                  ELSE remoteNode'[q])
               = (IF q = r
                    THEN [a \in DOMAIN remoteNode[r] \ {cur[r].act} |-> remoteNode[r][a]]
                    ELSE remoteNodeBar[q])
    <3>1. CASE q = r
      BY <3>1, <1>1, <1>2 DEF TypeOK
    <3>2. CASE q # r
      BY <3>2, <1>1, <1>2 DEF TypeOK, remoteNodeBar
    <3> QED
      BY <3>1, <3>2
  <2>2. remoteNodeBar' = [q \in Rank |->
                            IF q = r
                              THEN [a \in DOMAIN remoteNode[r] \ {cur[r].act} |-> remoteNode[r][a]]
                              ELSE remoteNodeBar[q]]
    BY <2>1 DEF remoteNodeBar
  <2>3. DOMAIN remoteNodeBar = Rank
    BY DEF remoteNodeBar
  <2> QED
    BY <1>3, <2>2, <2>3
<1>9. walkerBar.rank = r /\ walkerBar.act = cur[r].act /\ walkerBar.side = "leave"
      /\ walkerBar.jumped = FALSE
  BY <1>3 DEF Walk!At
<1>10. Walk!Visit
  BY <1>3, <1>4, <1>9 DEF Walk!Visit, Mark
<1>11. Walk!AtWaitState
  BY <1>1, <1>3, <1>9 DEF Walk!AtWaitState
<1> QED
  BY <1>0, <1>1, <1>3, <1>7, <1>8, <1>9, <1>10, <1>11 DEF Walk!Jump

\* The new master continues in front of the activity it was given.
LEMMA ArriveStep ==
  ASSUME AllInv, WalkerPlace, WalkerPlace', NEW r \in Rank, ReceiveNext(r)
  PROVE  Walk!CrossActivity
<1>1. PICK s \in Rank :
        /\ chan[s][r] # <<>>
        /\ Head(chan[s][r]).type = "next"
        /\ Mark(r, Leave(Head(chan[s][r]).act))
        /\ cur' = [cur EXCEPT ![r] = Enter(Head(chan[s][r]).act)]
  BY DEF ReceiveNext
<1> DEFINE a == Head(chan[s][r]).act
<1>2. /\ pc[r] = "slave" /\ pc' = [pc EXCEPT ![r] = "master"]
      /\ UNCHANGED <<atomicStart, blocking, remoteNode>>
  BY DEF ReceiveNext, graph
<1>3. TypeOK
  BY DEF AllInv
<1>4. Carries(s, r)
  <2>1. chan[s][r] \in Seq(Msg) /\ 1 \in DOMAIN chan[s][r] /\ Head(chan[s][r]) = chan[s][r][1]
    BY <1>1, <1>3, EmptySeq, LenProperties, HeadTailProperties DEF TypeOK
  <2> QED
    BY <1>1, <2>1 DEF Carries
<1>5. ~PathLost /\ walkerBar = Walk!At(r, a, "leave", TRUE)
  BY <1>4 DEF WalkerPlace, Arriving, Walk!At
<1>6. ~PathLost' /\ walkerBar' = Walk!At(r, a, "enter", FALSE)
  <2>1. cur'[r] = Enter(a)
    BY <1>1, <1>3 DEF TypeOK
  <2>2. HoldsPath(r)'
    BY <1>2, <1>3 DEF HoldsPath, TypeOK
  <2>3. ~PathLost' /\ walkerBar' = Here(r)'
    BY <2>2 DEF WalkerPlace
  <2> HIDE DEF a
  <2> QED
    BY <2>1, <2>3 DEF Here, Enter, Walk!At
<1>7. remoteNodeBar' = remoteNodeBar
  BY <1>1, <1>2, <1>3, MasterKeepsMap DEF TypeOK
<1> HIDE DEF a
<1>8. walkerBar.rank = r /\ walkerBar.act = a /\ walkerBar.side = "leave" /\ walkerBar.jumped
  BY <1>5 DEF Walk!At
<1>9. Walk!Visit
  BY <1>1, <1>8 DEF Walk!Visit, Mark, Leave, a
<1>10. ~Walk!AtWaitState
  BY <1>8 DEF Walk!AtWaitState
<1> QED
  BY <1>2, <1>5, <1>6, <1>7, <1>8, <1>9, <1>10 DEF Walk!CrossActivity

-----------------------------------------------------------------------------

LEMMA StepWalks ==
  AllInv /\ ProtocolInv' /\ WalkerPlace /\ WalkerPlace' /\ [Next]_vars
    => [Walk!WalkNext]_(Walk!walk)
<1> SUFFICES ASSUME AllInv, ProtocolInv', WalkerPlace, WalkerPlace', [Next]_vars
             PROVE  Walk!WalkNext \/ UNCHANGED Walk!walk
  OBVIOUS
<1>1. ASSUME NEW r \in Rank, Work(r) \/ SendReturns(r)
      PROVE  Walk!WalkNext \/ UNCHANGED Walk!walk
  BY <1>1, InvisibleSteps, CrossActivityStep, CrossGapStep, PassStartStep, JumpStep, ArriveStep
     DEF Work, SendReturns, Walk!WalkNext
<1>2. CASE UNCHANGED vars
  <2>1. UNCHANGED <<atomicStart, blocking, onPath, remoteNodeBar>>
    BY <1>2 DEF vars, remoteNodeBar
  <2>2. walkerBar' = walkerBar /\ (PathLost' <=> PathLost)
    BY <1>2 DEF vars, walkerBar, PathLost, HoldsPath, EndOfPath, Carries, WalkerAt, Here, Arriving,
                Finder, AtEnd
  <2> QED
    BY <2>1, <2>2 DEF Walk!walk
<1> QED
  BY <1>1, <1>2 DEF Next, Terminated

\* The safety part of ImplementsWalk: the walk that the ranks carry on for each
\* other starts where one walker would start, and every step of every rank
\* either is the next step of that walker or invisible to it.
THEOREM WalksAsOne == Spec => WalkSafety
<1>1. Spec => []AllInv
  BY TypeCorrect, ProtocolInvariant, GapInvariant, WalkInvariant, PTL DEF AllInv
<1>2. AllInv => ProtocolInv /\ WalkerPlace
  BY WalkerIsPlaced DEF AllInv
<1> QED
  BY <1>1, <1>2, InitWalks, StepWalks, PTL DEF Spec, WalkSafety

=============================================================================
