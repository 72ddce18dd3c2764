--------------------------- MODULE CriticalPathWalk ---------------------------
(***************************************************************************)
(* What the critical-path detection of the MPI activities promises: a      *)
(* single walker that follows the path backwards through the graphs of all *)
(* ranks, as if they were in one place.  In front of a wait state whose    *)
(* remote node has not been used it continues at that node, everywhere     *)
(* else at the previous node of the rank, and it stops at the start of the *)
(* interval.  CriticalPathReplay spreads this walk over the ranks.         *)
(***************************************************************************)
EXTENDS Integers

CONSTANTS Rank, LastActivity

VARIABLES
  atomicStart,  \* the interval begins with an atomic node
  blocking,     \* activities with a wait state, per rank
  remoteNode,   \* where the path continues before a wait state, per rank
  walker,       \* the node the walk is at; jumped if it was reached remotely
  walking,      \* FALSE when the start of the interval has been passed
  onPath        \* the nodes of the path, per rank

walk == <<atomicStart, blocking, remoteNode, walker, walking, onPath>>

At(r, a, side, jumped) ==
  [rank |-> r, act |-> a, side |-> side, jumped |-> jumped]

WalkInit ==
  /\ \E r \in Rank : /\ LastActivity[r] \notin blocking[r]
                     /\ walker = At(r, LastActivity[r], "leave", FALSE)
  /\ walking = TRUE
  /\ onPath = [r \in Rank |-> {}]

Visit ==
  onPath' = [onPath EXCEPT ![walker.rank] =
               @ \cup {[act |-> walker.act, side |-> walker.side]}]

\* A wait state the walk leaves the rank at: it was not reached remotely and
\* its remote node is unused.
AtWaitState ==
  /\ walker.side = "leave"
  /\ ~walker.jumped
  /\ walker.act \in blocking[walker.rank] \cap DOMAIN remoteNode[walker.rank]

Jump ==
  LET target == remoteNode[walker.rank][walker.act] IN
  /\ walking
  /\ AtWaitState
  /\ Visit
  /\ walker' = At(target.rank, target.act, "leave", TRUE)
  /\ remoteNode' = [remoteNode EXCEPT ![walker.rank] =
                      [a \in DOMAIN @ \ {walker.act} |-> @[a]]]
  /\ UNCHANGED <<atomicStart, blocking, walking>>

CrossActivity ==
  /\ walking
  /\ walker.side = "leave"
  /\ ~AtWaitState
  /\ Visit
  /\ walker' = At(walker.rank, walker.act, "enter", FALSE)
  /\ UNCHANGED <<atomicStart, blocking, remoteNode, walking>>

CrossGap ==
  /\ walking
  /\ walker.side = "enter"
  /\ walker.act > 0
  /\ Visit
  /\ walker' = IF atomicStart /\ walker.act = 1
                 THEN At(walker.rank, 0, "enter", FALSE)
                 ELSE At(walker.rank, walker.act - 1, "leave", FALSE)
  /\ UNCHANGED <<atomicStart, blocking, remoteNode, walking>>

PassStart ==
  /\ walking
  /\ walker.side = "enter"
  /\ walker.act = 0
  /\ Visit
  /\ walking' = FALSE
  /\ UNCHANGED <<atomicStart, blocking, remoteNode, walker>>

WalkNext == Jump \/ CrossActivity \/ CrossGap \/ PassStart

(* The path is found: a safety part (one step of the walk at a time) and   *)
(* the promise that the walk goes on until the start is reached.           *)
WalkSpec == WalkInit /\ [][WalkNext]_walk /\ WF_walk(WalkNext)
=============================================================================
