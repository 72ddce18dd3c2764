------------------------ MODULE CriticalPathRefinement ------------------------
(***************************************************************************)
(* CriticalPathReplay implements CriticalPathWalk.  The walker is where    *)
(* the master's current node is; a handover message puts it at the node    *)
(* the message names; when the walk has ended it stays at the start node   *)
(* of the rank that reached it.  While a rank is still in the MPI_Send of  *)
(* its handover, the remote node it used is not yet removed from its map.  *)
(***************************************************************************)
EXTENDS CriticalPathReplay

Here(r) == [rank |-> r, act |-> cur[r].act, side |-> cur[r].side, jumped |-> FALSE]
Arriving(d, a) == [rank |-> d, act |-> a, side |-> "leave", jumped |-> TRUE]

\* Positions of the walker a state stands for; OneMaster: there is only one.
WalkerAt ==
  {Here(r) : r \in {q \in Rank : HoldsPath(q)}}
    \cup UNION {{Arriving(d, Head(chan[s][d]).act) :
                   s \in {q \in Rank : Carries(q, d)}} : d \in Rank}

\* The rank that reached the start keeps its last node: cur of the finder.
Finder == {r \in Rank : AtEnd(r) /\ cur[r] = Enter(0)}

walkerBar ==
  IF PathLost THEN CHOOSE w \in {Here(r) : r \in Finder} : TRUE
              ELSE CHOOSE w \in WalkerAt : TRUE

remoteNodeBar ==
  [r \in Rank |->
     IF pc[r] = "sendNext"
       THEN [a \in DOMAIN remoteNode[r] \ {cur[r].act} |-> remoteNode[r][a]]
       ELSE remoteNode[r]]

Walk == INSTANCE CriticalPathWalk WITH
          remoteNode <- remoteNodeBar,
          walker <- walkerBar,
          walking <- ~PathLost

\* The safety part of the refinement, one step of the walk at a time.
WalkSafety == Walk!WalkInit /\ [][Walk!WalkNext]_(Walk!walk)

(* Every step of the ranks is a step of the single walker or invisible to  *)
(* it, and the walk goes on until it has passed the start: the messages,   *)
(* the hand-overs and the sections computed meanwhile change nothing about *)
(* the path that is found.                                                 *)
ImplementsWalk == Walk!WalkSpec
=============================================================================
