-------------------------- MODULE CriticalPathReplay --------------------------
(***************************************************************************)
(* The distributed detection of the critical path over the MPI activities  *)
(* of one analysis interval: Runner::detectCriticalPathMPIP2P, and the     *)
(* local processing of the sections it collects (Runner::computeCritical-  *)
(* Path, getCriticalLocalNodes, processSectionsParallel).                  *)
(*                                                                         *)
(* The MPI nodes of a rank form a chain: activity 0 is the start of the    *)
(* interval (MPI_Init, or the atomic node an intermediate interval begins  *)
(* with), activity LastActivity[r] is the last one.  An activity has an    *)
(* enter and a leave node; the edge between them is blocking when the      *)
(* forward replay found a wait state, and then the map of remote nodes     *)
(* names the activity of another rank the path continues at.  One rank,    *)
(* the master, walks the chain backwards; at a wait state it hands over to *)
(* the rank the remote node is on.  The slaves compute, while they wait    *)
(* for a message, the local path of the sections they already know.        *)
(*                                                                         *)
(* Gap k of a rank is the stretch between the leave of activity k - 1 and  *)
(* the enter of activity k; a section is a run of gaps.                    *)
(***************************************************************************)
EXTENDS Integers, Sequences, FiniteSets, SequencesExt

CONSTANTS
  Rank,         \* the MPI processes of the analysis (and of the trace)
  LastActivity, \* index of the last MPI activity of each rank
  AtomicStarts  \* kinds of intervals: does one begin with an atomic node

ASSUME RankAssumption == Rank # {} /\ IsFiniteSet(Rank)
ASSUME LastAssumption == LastActivity \in [Rank -> Nat \ {0}]
ASSUME AtomicStartAssumption == AtomicStarts \subseteq BOOLEAN

VARIABLES
  atomicStart,  \* the interval begins with an atomic node, not MPI_Init
  blocking,     \* activities of a rank whose activity edge is blocking
  remoteNode,   \* MPIAnalysis::remoteNodeMap of a rank, keyed by activity
  pc,           \* where a rank is in the procedure
  cur,          \* currentNode
  sectionEnd,   \* activity of sectionEndNode, NoActivity for NULL
  sectionList,  \* critical sections not yet computed
  onPath,       \* MPI nodes with the counter CRITICAL_PATH set
  localPath,    \* gaps whose local critical path has been computed
  chan,         \* messages under way, a FIFO for every ordered pair of ranks
  sendTo,       \* destination of the MPI_Send a rank has not returned from
  toNotify      \* ranks the final master has still to tell

graph == <<atomicStart, blocking, remoteNode>>
vars == <<atomicStart, blocking, remoteNode, pc, cur, sectionEnd, sectionList, onPath,
          localPath, chan, sendTo, toNotify>>

-----------------------------------------------------------------------------

NoActivity == -1
Activity(r) == 0 .. LastActivity[r]
Gap(r) == 1 .. LastActivity[r]
Enter(a) == [act |-> a, side |-> "enter"]
Leave(a) == [act |-> a, side |-> "leave"]
\* Mutant: the gap in front of the first node of the section is included.
GapsFromFirst(section) == section.from .. section.to

Gaps(section) == section.from + 1 .. section.to

NextMsg(a) == [type |-> "next", act |-> a]
FoundMsg == [type |-> "found", act |-> 0]
Msg == [type : {"next", "found"}, act : Nat]

PC == {"decide", "master", "sendNext", "sendFound", "slave", "barrier",
       "sections", "finished"}

(***************************************************************************)
(* What the forward replay leaves behind: every blocking activity has a    *)
(* remote node on another rank, and exactly one rank did not wait in its   *)
(* last activity.  An atomic start node has no duration to wait in.        *)
(***************************************************************************)
Lasting(r) == IF atomicStart THEN Gap(r) ELSE Activity(r)
RemoteMap(r, S) ==
  [S -> UNION {[rank : {q}, act : Lasting(q)] : q \in Rank \ {r}}]
RankGraph(r) ==
  UNION {[blocking : {S}, remoteNode : RemoteMap(r, S)] : S \in SUBSET Lasting(r)}

EndOfPath(r) == LastActivity[r] \notin blocking[r]
OneEndOfPath == \E r \in Rank : \A q \in Rank : EndOfPath(q) <=> q = r

InitProcedure ==
  /\ pc = [r \in Rank |-> "decide"]
  /\ cur = [r \in Rank |-> Leave(LastActivity[r])]
  /\ sectionEnd = [r \in Rank |-> NoActivity]
  /\ sectionList = [r \in Rank |-> <<>>]
  /\ onPath = [r \in Rank |-> {}]
  /\ localPath = [r \in Rank |-> {}]
  /\ chan = [s \in Rank |-> [d \in Rank |-> <<>>]]
  /\ sendTo = [r \in Rank |-> {}]
  /\ toNotify = [r \in Rank |-> {}]

Init ==
  /\ atomicStart \in AtomicStarts
  /\ \E g \in [Rank -> UNION {RankGraph(r) : r \in Rank}] :
       /\ \A r \in Rank : g[r] \in RankGraph(r)
       /\ blocking = [r \in Rank |-> g[r].blocking]
       /\ remoteNode = [r \in Rank |-> g[r].remoteNode]
  /\ OneEndOfPath
  /\ InitProcedure

-----------------------------------------------------------------------------
(***************************************************************************)
(* The master.                                                             *)
(***************************************************************************)

\* The rank that did not wait in its last MPI activity starts as master.
DecideRole(r) ==
  /\ pc[r] = "decide"
  /\ IF EndOfPath(r)
       THEN /\ pc' = [pc EXCEPT ![r] = "master"]
            /\ sectionEnd' = [sectionEnd EXCEPT ![r] = LastActivity[r]]
       ELSE /\ pc' = [pc EXCEPT ![r] = "slave"]
            /\ UNCHANGED sectionEnd
  /\ UNCHANGED <<graph, cur, sectionList, onPath, localPath, chan, sendTo,
                 toNotify>>

MasterAt(r, side) == pc[r] = "master" /\ cur[r].side = side

Mark(r, node) == onPath' = [onPath EXCEPT ![r] = @ \cup {node}]

\* The section from the current node to the section end, if there is one.
NewSection(r) ==
  IF sectionEnd[r] # NoActivity /\ cur[r] # Leave(sectionEnd[r])
    THEN <<[from |-> cur[r].act, to |-> sectionEnd[r]]>>
    ELSE <<>>

\* Mutant: the new section takes the place of those not yet computed.
PushSectionOverwriting(r) == sectionList' = [sectionList EXCEPT ![r] = NewSection(r)]

PushSection(r) ==
  sectionList' = [sectionList EXCEPT ![r] = @ \o NewSection(r)]

WalkOverActivity(r) ==
  /\ MasterAt(r, "leave")
  /\ cur[r].act \notin blocking[r]
  /\ Mark(r, cur[r])
  /\ cur' = [cur EXCEPT ![r] = Enter(cur[r].act)]
  /\ UNCHANGED <<graph, pc, sectionEnd, sectionList, localPath, chan, sendTo,
                 toNotify>>

\* A wait state whose remote node has been used before: no change of stream.
WalkOverWaitState(r) ==
  /\ MasterAt(r, "leave")
  /\ cur[r].act \in blocking[r] \ DOMAIN remoteNode[r]
  /\ PushSection(r)
  /\ Mark(r, cur[r])
  /\ cur' = [cur EXCEPT ![r] = Enter(cur[r].act)]
  /\ UNCHANGED <<graph, pc, sectionEnd, localPath, chan, sendTo, toNotify>>

\* A wait state: the MPI_Send to the rank that becomes master is started.
HandOver(r) ==
  LET remote == remoteNode[r][cur[r].act] IN
  /\ MasterAt(r, "leave")
  /\ cur[r].act \in blocking[r] \cap DOMAIN remoteNode[r]
  /\ PushSection(r)
  /\ IF NewSection(r) = <<>> THEN UNCHANGED onPath ELSE Mark(r, cur[r])
  /\ chan' = [chan EXCEPT ![r][remote.rank] = Append(@, NextMsg(remote.act))]
  /\ sendTo' = [sendTo EXCEPT ![r] = {remote.rank}]
  /\ pc' = [pc EXCEPT ![r] = "sendNext"]
  /\ UNCHANGED <<graph, cur, sectionEnd, localPath, toNotify>>

\* Mutants: the rank goes on as master; the remote node is not used up.
HandOverReturnsAsMaster(r) ==
  /\ pc[r] = "sendNext"
  /\ sendTo' = [sendTo EXCEPT ![r] = {}]
  /\ pc' = [pc EXCEPT ![r] = "master"]
  /\ sectionEnd' = [sectionEnd EXCEPT ![r] = NoActivity]
  /\ remoteNode' = [remoteNode EXCEPT ![r] =
                      [a \in DOMAIN @ \ {cur[r].act} |-> @[a]]]
  /\ UNCHANGED <<atomicStart, blocking, cur, sectionList, onPath, localPath, chan, toNotify>>

HandOverReturnsKeeping(r) ==
  /\ pc[r] = "sendNext"
  /\ sendTo' = [sendTo EXCEPT ![r] = {}]
  /\ pc' = [pc EXCEPT ![r] = "slave"]
  /\ sectionEnd' = [sectionEnd EXCEPT ![r] = NoActivity]
  /\ UNCHANGED <<graph, cur, sectionList, onPath, localPath, chan, toNotify>>

\* The MPI_Send returns: the rank is a slave and the remote node is used up.
HandOverReturns(r) ==
  /\ pc[r] = "sendNext"
  /\ sendTo' = [sendTo EXCEPT ![r] = {}]
  /\ pc' = [pc EXCEPT ![r] = "slave"]
  /\ sectionEnd' = [sectionEnd EXCEPT ![r] = NoActivity]
  /\ remoteNode' = [remoteNode EXCEPT ![r] =
                      [a \in DOMAIN @ \ {cur[r].act} |-> @[a]]]
  /\ UNCHANGED <<atomicStart, blocking, cur, sectionList, onPath, localPath, chan, toNotify>>

\* From an enter node along the edge from the previous MPI node of the rank.
WalkBack(r) ==
  /\ MasterAt(r, "enter")
  /\ cur[r].act > 0
  /\ Mark(r, cur[r])
  /\ cur' = [cur EXCEPT ![r] = IF atomicStart /\ cur[r].act = 1
                                 THEN Enter(0) ELSE Leave(cur[r].act - 1)]
  /\ UNCHANGED <<graph, pc, sectionEnd, sectionList, localPath, chan, sendTo,
                 toNotify>>

\* Mutant: tells itself, too.
ReachStartTellingAll(r) ==
  /\ MasterAt(r, "enter")
  /\ cur[r].act = 0
  /\ PushSection(r)
  /\ Mark(r, cur[r])
  /\ pc' = [pc EXCEPT ![r] = "sendFound"]
  /\ toNotify' = [toNotify EXCEPT ![r] = Rank]
  /\ UNCHANGED <<graph, cur, sectionEnd, localPath, chan, sendTo>>

\* MPI_Init or the atomic node: the path is complete, tell all other ranks.
ReachStart(r) ==
  /\ MasterAt(r, "enter")
  /\ cur[r].act = 0
  /\ PushSection(r)
  /\ Mark(r, cur[r])
  /\ pc' = [pc EXCEPT ![r] = "sendFound"]
  /\ toNotify' = [toNotify EXCEPT ![r] = Rank \ {r}]
  /\ UNCHANGED <<graph, cur, sectionEnd, localPath, chan, sendTo>>

\* Mutant: the loop over the other ranks comes to a rank twice.
NotifyTwice(r) ==
  /\ pc[r] = "sendFound"
  /\ sendTo[r] = {}
  /\ \E d \in toNotify[r] :
       /\ chan' = [chan EXCEPT ![r][d] = Append(@, FoundMsg)]
       /\ sendTo' = [sendTo EXCEPT ![r] = {d}]
       /\ toNotify' \in {toNotify, [toNotify EXCEPT ![r] = @ \ {d}]}
  /\ UNCHANGED <<graph, pc, cur, sectionEnd, sectionList, onPath, localPath>>

Notify(r) ==
  /\ pc[r] = "sendFound"
  /\ sendTo[r] = {}
  /\ \E d \in toNotify[r] :
       /\ chan' = [chan EXCEPT ![r][d] = Append(@, FoundMsg)]
       /\ sendTo' = [sendTo EXCEPT ![r] = {d}]
       /\ toNotify' = [toNotify EXCEPT ![r] = @ \ {d}]
  /\ UNCHANGED <<graph, pc, cur, sectionEnd, sectionList, onPath, localPath>>

NotifyReturns(r) ==
  /\ pc[r] = "sendFound"
  /\ sendTo[r] # {}
  /\ sendTo' = [sendTo EXCEPT ![r] = {}]
  /\ UNCHANGED <<graph, pc, cur, sectionEnd, sectionList, onPath, localPath,
                 chan, toNotify>>

LeaveLoop(r) ==
  /\ pc[r] = "sendFound"
  /\ sendTo[r] = {}
  /\ toNotify[r] = {}
  /\ pc' = [pc EXCEPT ![r] = "barrier"]
  /\ UNCHANGED <<graph, cur, sectionEnd, sectionList, onPath, localPath, chan,
                 sendTo, toNotify>>

-----------------------------------------------------------------------------
(***************************************************************************)
(* The slaves.  The receive is posted for any source; while MPI_Test finds *)
(* it unfinished the last section is computed, and with no section left    *)
(* the rank waits.                                                         *)
(***************************************************************************)
ComputeSection(r) ==
  /\ pc[r] = "slave"
  /\ sectionList[r] # <<>>
  /\ localPath' = [localPath EXCEPT ![r] = @ \cup Gaps(Last(sectionList[r]))]
  /\ sectionList' = [sectionList EXCEPT ![r] = Front(@)]
  /\ UNCHANGED <<graph, pc, cur, sectionEnd, onPath, chan, sendTo, toNotify>>

\* Mutants: the rank stays a slave; it continues in front of its wait state.
ReceiveNextAsSlave(r) ==
  \E s \in Rank :
    /\ pc[r] = "slave"
    /\ chan[s][r] # <<>>
    /\ Head(chan[s][r]).type = "next"
    /\ Mark(r, Leave(Head(chan[s][r]).act))
    /\ cur' = [cur EXCEPT ![r] = Enter(Head(chan[s][r]).act)]
    /\ sectionEnd' = [sectionEnd EXCEPT ![r] = Head(chan[s][r]).act]
    /\ chan' = [chan EXCEPT ![s][r] = Tail(@)]
    /\ UNCHANGED <<graph, pc, sectionList, localPath, sendTo, toNotify>>

ReceiveNextAtLeave(r) ==
  \E s \in Rank :
    /\ pc[r] = "slave"
    /\ chan[s][r] # <<>>
    /\ Head(chan[s][r]).type = "next"
    /\ cur' = [cur EXCEPT ![r] = Leave(Head(chan[s][r]).act)]
    /\ sectionEnd' = [sectionEnd EXCEPT ![r] = Head(chan[s][r]).act]
    /\ pc' = [pc EXCEPT ![r] = "master"]
    /\ chan' = [chan EXCEPT ![s][r] = Tail(@)]
    /\ UNCHANGED <<graph, sectionList, onPath, localPath, sendTo, toNotify>>

ReceiveNext(r) ==
  \E s \in Rank :
    /\ pc[r] = "slave"
    /\ chan[s][r] # <<>>
    /\ Head(chan[s][r]).type = "next"
    /\ LET a == Head(chan[s][r]).act IN
         /\ Mark(r, Leave(a))
         /\ cur' = [cur EXCEPT ![r] = Enter(a)]
         /\ sectionEnd' = [sectionEnd EXCEPT ![r] = a]
    /\ pc' = [pc EXCEPT ![r] = "master"]
    /\ chan' = [chan EXCEPT ![s][r] = Tail(@)]
    /\ UNCHANGED <<graph, sectionList, localPath, sendTo, toNotify>>

ReceiveFound(r) ==
  \E s \in Rank :
    /\ pc[r] = "slave"
    /\ chan[s][r] # <<>>
    /\ Head(chan[s][r]).type = "found"
    /\ pc' = [pc EXCEPT ![r] = "barrier"]
    /\ chan' = [chan EXCEPT ![s][r] = Tail(@)]
    /\ UNCHANGED <<graph, cur, sectionEnd, sectionList, onPath, localPath,
                   sendTo, toNotify>>

-----------------------------------------------------------------------------
(***************************************************************************)
(* After the loop: the barrier, then the sections that are left, by the    *)
(* threads of an OpenMP loop in any order.                                 *)
(***************************************************************************)
LeaveBarrier(r) ==
  /\ pc[r] = "barrier"
  /\ \A q \in Rank : pc[q] \in {"barrier", "sections", "finished"}
  /\ pc' = [pc EXCEPT ![r] = "sections"]
  /\ UNCHANGED <<graph, cur, sectionEnd, sectionList, onPath, localPath, chan,
                 sendTo, toNotify>>

ComputeRemainingSection(r) ==
  /\ pc[r] = "sections"
  /\ \E i \in DOMAIN sectionList[r] :
       /\ localPath' = [localPath EXCEPT ![r] = @ \cup Gaps(sectionList[r][i])]
       /\ sectionList' = [sectionList EXCEPT ![r] = RemoveAt(@, i)]
  /\ UNCHANGED <<graph, pc, cur, sectionEnd, onPath, chan, sendTo, toNotify>>

\* Mutant: the sections left are forgotten.
FinishEarly(r) ==
  /\ pc[r] = "sections"
  /\ pc' = [pc EXCEPT ![r] = "finished"]
  /\ UNCHANGED <<graph, cur, sectionEnd, sectionList, onPath, localPath, chan,
                 sendTo, toNotify>>

Finish(r) ==
  /\ pc[r] = "sections"
  /\ sectionList[r] = <<>>
  /\ pc' = [pc EXCEPT ![r] = "finished"]
  /\ UNCHANGED <<graph, cur, sectionEnd, sectionList, onPath, localPath, chan,
                 sendTo, toNotify>>

Finished == \A r \in Rank : pc[r] = "finished"

\* Stuttering of the ended procedure, so that any other halt is a deadlock.
Terminated == Finished /\ UNCHANGED vars

-----------------------------------------------------------------------------

\* What a rank does by itself, without waiting for another rank.
Work(r) ==
  \/ DecideRole(r)
  \/ WalkOverActivity(r) \/ WalkOverWaitState(r) \/ WalkBack(r)
  \/ HandOver(r) \/ ReachStart(r) \/ Notify(r) \/ LeaveLoop(r)
  \/ ComputeSection(r) \/ ReceiveNext(r) \/ ReceiveFound(r)
  \/ LeaveBarrier(r) \/ ComputeRemainingSection(r) \/ Finish(r)

\* An MPI_Send may return at once (buffered) or only when it is received.
SendReturns(r) == HandOverReturns(r) \/ NotifyReturns(r)

Next ==
  \/ \E r \in Rank : Work(r) \/ SendReturns(r)
  \/ Terminated

Received(r) == \A d \in sendTo[r] : chan[r][d] = <<>>

Fairness ==
  \A r \in Rank : /\ WF_vars(Work(r))
                  /\ WF_vars(Received(r) /\ SendReturns(r))

Spec == Init /\ [][Next]_vars
FairSpec == Spec /\ Fairness

-----------------------------------------------------------------------------

RemoteNodeMap ==
  UNION {[S -> [rank : Rank, act : UNION {Activity(q) : q \in Rank}]] :
           S \in SUBSET UNION {Activity(q) : q \in Rank}}

(* Every variable has the type its counterpart has in the code.            *)
TypeOK ==
  /\ atomicStart \in BOOLEAN
  /\ blocking \in [Rank -> SUBSET Nat]
  /\ remoteNode \in [Rank -> RemoteNodeMap]
  /\ pc \in [Rank -> PC]
  /\ cur \in [Rank -> [act : Nat, side : {"enter", "leave"}]]
  /\ sectionEnd \in [Rank -> Nat \cup {NoActivity}]
  /\ sectionList \in [Rank -> Seq([from : Nat, to : Nat])]
  /\ onPath \in [Rank -> SUBSET [act : Nat, side : {"enter", "leave"}]]
  /\ localPath \in [Rank -> SUBSET Nat]
  /\ chan \in [Rank -> [Rank -> Seq(Msg)]]
  /\ sendTo \in [Rank -> SUBSET Rank]
  /\ toNotify \in [Rank -> SUBSET Rank]

\* The right to walk the path, wherever it is: at a master, at the rank that
\* will be the first one, or in a message.
HoldsPath(r) == pc[r] = "master" \/ (pc[r] = "decide" /\ EndOfPath(r))
Carries(s, d) == \E i \in DOMAIN chan[s][d] : chan[s][d][i].type = "next"
PathLost == /\ \A r \in Rank : ~HoldsPath(r)
            /\ \A s, d \in Rank : ~Carries(s, d)

\* A rank that has left the loop, or is telling the others to leave it.
AtEnd(r) == pc[r] \in {"sendFound", "barrier", "sections", "finished"}
PathFound == \E r \in Rank : AtEnd(r)

(* The path is extended by one rank at a time: of the masters, the ranks    *)
(* that will start as master and the handover messages under way there is   *)
(* never more than one (Runner.cpp:1506, the collective rule leaves one     *)
(* non-blocking edge).                                                     *)
OneMaster ==
  /\ \A r, q \in Rank : HoldsPath(r) /\ HoldsPath(q) => r = q
  /\ \A r, s, d \in Rank : ~(HoldsPath(r) /\ Carries(s, d))
  /\ \A s, d, t, e \in Rank :
       Carries(s, d) /\ Carries(t, e) => s = t /\ d = e /\ Len(chan[s][d]) = 1

(* The slaves are asked to terminate only when nobody continues the path,   *)
(* and until then somebody does.                                           *)
FoundWhenLost == PathFound <=> PathLost

(* No message is left behind for a rank that leaves the loop: the next     *)
(* interval's slaves receive from any source with the same tag, a stale    *)
(* message would end or misdirect their search.                            *)
NoStaleMessage ==
  \A s, d \in Rank : AtEnd(d) => chan[s][d] = <<>>

(* The inductive invariant behind the three properties above.  Found        *)
(* messages come from a rank at the end, each slave gets exactly one, and  *)
(* the path does not move any more while they are under way.               *)
Tells(s, d) == \E i \in DOMAIN chan[s][d] : chan[s][d][i].type = "found"

PathSomewhere == \/ \E r \in Rank : HoldsPath(r) \/ AtEnd(r)
                 \/ \E s, d \in Rank : Carries(s, d)
EndMeansLost == \A r \in Rank : AtEnd(r) => PathLost
ToldOnce ==
  \A s, d \in Rank :
    Tells(s, d) => /\ AtEnd(s) /\ ~AtEnd(d)
                   /\ Len(chan[s][d]) = 1
                   /\ \A t \in Rank \ {s} : chan[t][d] = <<>>
TellsUntold ==
  \A f \in Rank : \A d \in toNotify[f] :
    /\ pc[f] = "sendFound" /\ ~AtEnd(d)
    /\ \A s \in Rank : chan[s][d] = <<>>
    /\ \A g \in Rank \ {f} : d \notin toNotify[g]

ProtocolInv ==
  /\ OneMaster
  /\ PathSomewhere
  /\ EndMeansLost
  /\ ToldOnce
  /\ TellsUntold
  /\ NoStaleMessage

(* No stretch of the path gets lost between the master's walk and the      *)
(* local analysis: a gap the walk has crossed is computed, or in a section *)
(* still to be computed, or part of the section being walked.              *)
Crossed(r) == {k \in Gap(r) : Enter(k) \in onPath[r]}
Pending(r) == UNION {Gaps(sectionList[r][i]) : i \in DOMAIN sectionList[r]}
Open(r) == IF sectionEnd[r] = NoActivity THEN {}
             ELSE cur[r].act + 1 .. sectionEnd[r]
NoGapLost == \A r \in Rank : Crossed(r) \subseteq localPath[r] \cup Pending(r) \cup Open(r)

(* ... and nothing else is computed as critical.                           *)
OnlyCrossedGaps == \A r \in Rank : localPath[r] \cup Pending(r) \subseteq Crossed(r)

(* At the end the local path of exactly the crossed gaps is known.         *)
PathComplete == Finished => \A r \in Rank : localPath[r] = Crossed(r)

(* The detection ends on every rank, whatever wait states the replay found *)
(* (remote nodes may form cycles; each is used once).                      *)
Termination == <>Finished
=============================================================================
