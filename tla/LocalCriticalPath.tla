------------------------ MODULE LocalCriticalPath --------------------------
(***************************************************************************)
(* The critical path between two nodes of one process                      *)
(* (Graph::getCriticalPath), and the nodes of a section between two MPI    *)
(* activities that it yields (Runner::getCriticalLocalNodes).              *)
(***************************************************************************)
EXTENDS ActivityGraph

VARIABLE criticalNodes   \* the nodes handed to the statistics and the writer

LoopDepth == 10   \* nodes of the path searched for a loop, once there is a reverse edge

\* The weight grows as the duration falls; equal durations and 0 count as 1.
Length(e) == IF Duration(e) = 0 THEN 1 ELSE Duration(e)

\* A bug for comparison: blocking edges are taken as well.
ShortestBlocked(es) ==
  LET Closer(best, e) ==
        IF best.from = NULL \/ Length(e) < best.length
        THEN [from |-> e.from, length |-> Length(e)]
        ELSE best
  IN FoldLeft(Closer, [from |-> NULL, length |-> 0], es).from

\* The shortest edge that is not blocking; a reverse edge from another stream
\* is taken whatever was found before it.
Shortest(es) ==
  LET Closer(best, e) ==
        IF \/ IsReverse(e) /\ ~ Intra(e)
           \/ ~ e.blocking /\ (best.from = NULL \/ Length(e) < best.length)
        THEN [from |-> e.from, length |-> IF e.blocking THEN 0 ELSE Length(e)]
        ELSE best
  IN FoldLeft(Closer, [from |-> NULL, length |-> 0], es).from

\* Without an edge the path goes to the node before in the list of the graph,
\* on the same stream inside of a region.  At the front of that list the
\* iterator runs off it.
Before(n) ==
  LET S == {m \in first .. n - 1 : node[n].caller = NULL \/ node[m].stream = node[n].stream}
  IN IF n < first \/ S = {} THEN NULL ELSE CHOOSE m \in S : \A k \in S : k <= m

Looping(p, n) ==
  p.check /\ \E i \in 1 .. Len(p.path) : i <= LoopDepth /\ p.path[i] = n

\* One round of the loop of getCriticalPath.
Step(p) ==
  LET in == InEdges(edges, p.at)
      pred == Shortest(in)
      q == [p EXCEPT !.check = @ \/ \E i \in DOMAIN in : IsReverse(in[i]) /\ ~ Intra(in[i])]
      seen == Looping(q, p.at)
      next == IF pred # NULL THEN pred ELSE Before(p.at)
  IN IF pred # NULL /\ seen THEN [q EXCEPT !.at = NULL]
     ELSE [q EXCEPT !.at = next,
                    !.lost = next = NULL,
                    !.path = IF seen THEN @ ELSE <<p.at>> \o @]

Rounds == [at : Nat, path : Seq(Nat), check : BOOLEAN, lost : BOOLEAN]

\* The path to the start, and whether it was lost on the way.
GetCriticalPath(start, end) ==
  LET run[p \in Rounds] == IF p.at = NULL \/ p.at <= start THEN p ELSE run[Step(p)]
      p == run[[at |-> end, path |-> <<>>, check |-> FALSE, lost |-> FALSE]]
  IN [path |-> <<start>> \o p.path, lost |-> p.lost]

\* Of a section between two MPI activities: the path between the first local
\* node after its start and the last local node before its end.
LocalNodes(from, to) ==
  LET start == IF Enter(from) THEN node[from].partner ELSE from
      end == IF Leave(to) THEN node[to].partner ELSE to
      s == At(right, start)
      e == At(left, end)
      tail == <<end>> \o (IF Enter(end) THEN <<node[end].partner>> ELSE <<>>)
  IN IF s = NULL \/ e = NULL \/ s >= e
     THEN [path |-> <<start>> \o tail, lost |-> FALSE]
     ELSE LET p == GetCriticalPath(s, e)
          IN [path |-> <<start>> \o p.path \o tail, lost |-> p.lost]

\* The section of one interval; the path of a section that lost its way refers
\* to a node that does not exist.
ProcessSection(from, to) ==
  LET p == LocalNodes(from, to)
  IN /\ criticalNodes' = p.path
     /\ fault' = (fault \/ p.lost)
-----------------------------------------------------------------------------
CameLast(e) ==
  node[e.to].kind = "barrier" /\ [e EXCEPT !.blocking = FALSE] \in Range(edges)

(* Where another edge leads to the end of a wait state, the path takes that  *)
(* edge to what the activity waited for, and never the one to its begin,    *)
(* although it takes the shortest edge (Graph::getCriticalPath).  A barrier *)
(* of OMPT is no wait state for the thread that came last: it has an edge   *)
(* in addition to the one that is made blocking.                            *)
PathAvoidsWaits ==
  \A i \in DOMAIN edges :
    (/\ edges[i].blocking /\ ~ CameLast(edges[i])
     /\ \E j \in DOMAIN edges \ {i} : edges[j].to = edges[i].to) =>
      \A k \in 1 .. Len(criticalNodes) - 1 :
        ~ (criticalNodes[k] = edges[i].from /\ criticalNodes[k + 1] = edges[i].to)
=============================================================================
