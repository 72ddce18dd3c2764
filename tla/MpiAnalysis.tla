----------------------------- MODULE MpiAnalysis -----------------------------
(***************************************************************************)
(* The analysis of one interval: every process replays the communication   *)
(* (AnalysisEngine::runAnalysis) and then takes part in the detection of   *)
(* the critical path (Runner::computeCriticalPath).  There is no barrier   *)
(* between the two; the replay uses the communicators of the trace, the    *)
(* detection MPI_COMM_WORLD, so that their messages cannot meet.           *)
(***************************************************************************)
EXTENDS MpiReplay

VARIABLES pc, cur, sectionEnd, sectionList, onPath, localPath, chan, sendTo, toNotify, atomicStart

\* The first interval, which begins with MPI_Init.
Detection == INSTANCE CriticalPathReplay WITH AtomicStarts <- {FALSE}

detection == <<pc, cur, sectionEnd, sectionList, onPath, localPath, chan, sendTo, toNotify,
               atomicStart>>
replayOnly == <<trace, pos, stage, sent, posted, index, handles, gathered, waiting, blamed>>
analysis == <<replay, detection>>

AnalysisInit == Init /\ atomicStart = FALSE /\ Detection!InitProcedure

ReplayStep(r) == Rule(r) /\ UNCHANGED detection

DetectionStep(r) ==
  /\ ReplayDone(r)
  /\ Detection!Work(r) \/ Detection!SendReturns(r)
  /\ UNCHANGED replayOnly

AnalysisEnded == Detection!Finished /\ UNCHANGED analysis

AnalysisNext == (\E r \in Rank : ReplayStep(r) \/ DetectionStep(r)) \/ AnalysisEnded

AnalysisFairness ==
  \A r \in Rank :
    /\ WF_analysis(CallTaken(r) /\ ReplayStep(r))
    /\ WF_analysis(ReplayDone(r) /\ Detection!Work(r) /\ UNCHANGED replayOnly)
    /\ WF_analysis(/\ ReplayDone(r) /\ Detection!Received(r)
                   /\ Detection!SendReturns(r) /\ UNCHANGED replayOnly)

AnalysisSpec == AnalysisInit /\ [][AnalysisNext]_analysis /\ AnalysisFairness

-----------------------------------------------------------------------------

(* What the replay finds is what the detection relies on: remote nodes for *)
(* exactly the blocking activities, on other ranks, and one rank that did  *)
(* not wait in the last activity.                                          *)
Handover == ReplayFinished /\ \A r \in Rank : pc[r] = "decide"
DetectionInput ==
  Handover =>
    /\ \A r \in Rank :
         [blocking |-> blocking[r], remoteNode |-> remoteNode[r]] \in Detection!RankGraph(r)
    /\ Detection!OneEndOfPath

(* The path leads back in time: the activity a rank is asked to continue   *)
(* at was entered before the waiting one was left.                         *)
WalkGoesBack ==
  \A s, d \in Rank : \A k \in DOMAIN chan[s][d] :
    chan[s][d][k].type = "next" =>
      time[d][chan[s][d][k].act].enter < time[s][cur[s].act].leave

(* The path never runs through a wait state: no walk comes back to one it  *)
(* has left before and finds its remote node used up.                      *)
NoWaitingOnPath == [][~\E r \in Rank : Detection!WalkOverWaitState(r)]_analysis

(* The path has been found and computed on every process.                  *)
AnalysisEnds == <>Detection!Finished
=============================================================================
