------------------------------- MODULE MpiTrace -------------------------------
(***************************************************************************)
(* What the analysis reads: the MPI activities of every process of the     *)
(* measured program, in the order of their leave events, with the times    *)
(* they were entered and left.  Nothing here is code of the analyser; the  *)
(* module states what MPI guarantees of a measurement, as far as the       *)
(* analysis rules rely on it.                                              *)
(*                                                                         *)
(* A program gives every rank a function from its activities to operations,*)
(* a timing gives every activity an enter and a leave time.  The first and *)
(* the last activity are MPI_Init and MPI_Finalize, which are handled as   *)
(* collectives of all ranks.                                               *)
(***************************************************************************)
EXTENDS Integers, FiniteSets, Sequences

CONSTANTS
  Rank,         \* the MPI processes, numbered as in MPI_COMM_WORLD
  LastActivity  \* index of the last MPI activity of each rank

ASSUME RankIsNatural == Rank \subseteq Nat /\ Rank # {} /\ IsFiniteSet(Rank)
\* MPI_Init and MPI_Finalize are two activities.
ASSUME ActivityNumbers == LastActivity \in [Rank -> Nat \ {0}]

Activity(r) == 0 .. LastActivity[r]

\* Blocking and non-blocking two-sided communication.  A request is named by
\* the activity that started it.
MpiSend(d, tag) == [kind |-> "send", to |-> d, tag |-> tag]
MpiRecv(s, tag) == [kind |-> "recv", from |-> s, rtag |-> tag]
MpiSendrecv(d, tag, s, rtag) ==
  [kind |-> "sendrecv", to |-> d, tag |-> tag, from |-> s, rtag |-> rtag]
MpiIsend(d, tag) == [kind |-> "isend", to |-> d, tag |-> tag]
MpiIrecv(s, tag) == [kind |-> "irecv", from |-> s, rtag |-> tag]

\* Operations that complete requests: all of them were found completed.
MpiWait(i) == [kind |-> "wait", reqs |-> <<i>>]
MpiWaitall(is) == [kind |-> "waitall", reqs |-> is]
MpiTest(i) == [kind |-> "test", reqs |-> <<i>>]
MpiTestall(is) == [kind |-> "testall", reqs |-> is]

\* A collective of all ranks, and one of MPI_COMM_SELF.
Collective == [kind |-> "collective"]
OnSelf == [kind |-> "self"]

Completing == {"wait", "waitall", "test", "testall"}
SendKinds == {"send", "isend", "sendrecv"}
RecvKinds == {"recv", "irecv", "sendrecv"}

Completes(op, i) == op.kind \in Completing /\ \E k \in DOMAIN op.reqs : op.reqs[k] = i

\* The activity a message is complete at for its receiver.
CompletedAt(p, r, i) ==
  IF p[r][i].kind = "irecv" THEN CHOOSE k \in Activity(r) : Completes(p[r][k], i) ELSE i

-----------------------------------------------------------------------------

SendsTo(p, r, d, tag) ==
  {i \in Activity(r) : p[r][i].kind \in SendKinds /\ p[r][i].to = d /\ p[r][i].tag = tag}
ReceivesFrom(p, r, s, tag) ==
  {i \in Activity(r) : p[r][i].kind \in RecvKinds /\ p[r][i].from = s /\ p[r][i].rtag = tag}

Position(S, i) == Cardinality({j \in S : j <= i})

(* Messages do not overtake: the n-th send of a rank to another one with a *)
(* tag is received by the n-th receive from it with this tag.              *)
Matches(p, s, i, d, j) ==
  /\ p[s][i].kind \in SendKinds /\ p[d][j].kind \in RecvKinds
  /\ p[s][i].to = d /\ p[d][j].from = s
  /\ p[s][i].tag = p[d][j].rtag
  /\ Position(SendsTo(p, s, d, p[s][i].tag), i)
       = Position(ReceivesFrom(p, d, s, p[s][i].tag), j)

Collectives(p, r) == {i \in Activity(r) : p[r][i].kind = "collective"}

SameCollective(p, r, i, q, j) ==
  /\ i \in Collectives(p, r) /\ j \in Collectives(p, q)
  /\ Position(Collectives(p, r), i) = Position(Collectives(p, q), j)

(* A program that runs to its end under MPI, with the given tags: requests  *)
(* are completed after they were started, every message is received, every *)
(* collective is entered by all.  Nobody sends to itself.                  *)
LegalOperation(p, r, i, tags) ==
  LET op == p[r][i] IN
  /\ op.kind \in SendKinds => op.to \in Rank \ {r} /\ op.tag \in tags
  /\ op.kind \in RecvKinds => op.from \in Rank \ {r} /\ op.rtag \in tags
  /\ op.kind \in Completing =>
       /\ op.reqs \in Seq(Activity(r))
       /\ \A k \in DOMAIN op.reqs :
            op.reqs[k] < i /\ p[r][op.reqs[k]].kind \in {"isend", "irecv"}
  /\ op.kind \in {"wait", "test"} => Len(op.reqs) = 1

LegalProgram(p, tags) ==
  /\ \A r \in Rank : \A i \in Activity(r) : LegalOperation(p, r, i, tags)
  /\ \A s, d \in Rank, tag \in tags :
       Cardinality(SendsTo(p, s, d, tag)) = Cardinality(ReceivesFrom(p, d, s, tag))
  /\ \A r, q \in Rank : \A i \in Collectives(p, r) :
       \E j \in Collectives(p, q) : SameCollective(p, r, i, q, j)
  /\ \A r \in Rank : {0, LastActivity[r]} \subseteq Collectives(p, r)

(* Times of a measurement: the activities of a rank one after the other, a *)
(* message received after it was sent, a collective left after everybody   *)
(* has entered it.                                                         *)
ValidTiming(p, t) ==
  /\ \A r \in Rank : \A i \in Activity(r) :
       /\ {t[r][i].enter, t[r][i].leave} \subseteq Nat
       /\ 0 < t[r][i].enter /\ t[r][i].enter < t[r][i].leave
       /\ i > 0 => t[r][i - 1].leave <= t[r][i].enter
  /\ \A s, d \in Rank : \A i \in Activity(s), j \in Activity(d) :
       /\ Matches(p, s, i, d, j) => t[s][i].enter < t[d][CompletedAt(p, d, j)].leave
       /\ SameCollective(p, s, i, d, j) => t[s][i].enter < t[d][j].leave
=============================================================================
