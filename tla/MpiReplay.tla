------------------------------ MODULE MpiReplay ------------------------------
(***************************************************************************)
(* The replay of the MPI communication that finds the wait states.  Every  *)
(* process of the analyser walks through the MPI activities of one process *)
(* of the trace and applies a rule at each leave node.  The rules repeat   *)
(* the communication: a message in the forward direction carries the times *)
(* of the sender to the receiver, one in the reverse direction, with       *)
(* another tag, the times of the receiver to the sender.  Who has entered  *)
(* too early waits; the activity gets a blocking edge, an entry in the map *)
(* of remote nodes and a waiting time, the late one gets the blame.        *)
(*                                                                         *)
(* Blocking calls of MPI are split where the process may block.  MPI_Send  *)
(* may return at once (buffered) or only after the receive is posted.      *)
(***************************************************************************)
EXTENDS MpiTrace, Functions

CONSTANTS
  Tag,        \* message tags of the program
  ReverseTag, \* added to a tag in the reverse direction (10000 in the code)
  Programs,   \* operations of every activity of every rank
  Timings     \* times of the activities of a rank

ASSUME ReplayTags == Tag \subseteq Nat /\ ReverseTag \in Nat \ {0}
ASSUME ReplayPrograms == \A p \in Programs : LegalProgram(p, Tag)

VARIABLES
  program, time,        \* the trace
  pos,                  \* activity of a rank whose rule is applied
  stage,                \* the MPI call of the rule it has started
  sent,                 \* messages ever sent, by sender, receiver and tag
  posted,               \* number of receives posted, by receiver, sender, tag
  index,                \* which messages the calls of an activity deal with
  openRecv, openSend,   \* requests[0], requests[1] that are not MPI_REQUEST_NULL
  records,              \* MpiStream::mpiIcommRecords: activities with a record
  gathered,             \* number of MPI_Allgather calls of a rank
  blocking, remoteNode, \* result: blocking activity edges, remoteNodeMap
  waiting, blamed       \* result: waiting time, blame handed out at the enter

trace == <<program, time>>
results == <<blocking, remoteNode, waiting, blamed>>
handles == <<openRecv, openSend, records>>
replay == <<trace, pos, stage, sent, posted, index, handles, gathered, results>>

-----------------------------------------------------------------------------

Reverse(tag) == tag + ReverseTag
ReplayTag == Tag \cup {Reverse(tag) : tag \in Tag}

Op(r) == program[r][pos[r]]
My(r) == time[r][pos[r]]
AtStage(r, kind, s) ==
  pos[r] \in Activity(r) /\ Op(r).kind = kind /\ stage[r] = s

\* The indices a rule needs: of its messages out and in, in both directions.
NoIndex == [out |-> 0, in |-> 0, revOut |-> 0, revIn |-> 0]

\* The buffer with the times of the activity, or of the one that completes it.
Buffer(type, r, i) ==
  [type |-> type, act |-> i, start |-> time[r][i].enter, end |-> time[r][i].leave]
SendTypes == {"SEND", "ISEND", "SENDRECV"}
RecvTypes == {"RECV", "IRECV", "SENDRECV"}

SendMessage(r, d, tag, m) == sent' = [sent EXCEPT ![r][d][tag] = Append(@, m)]
PostReceive(r, s, tag) == posted' = [posted EXCEPT ![r][s][tag] = @ + 1]
NextSent(r, d, tag) == Len(sent[r][d][tag]) + 1
NextPosted(r, s, tag) == posted[r][s][tag] + 1

Arrived(r, s, tag, k) == k <= Len(sent[s][r][tag])
Taken(r, d, tag, k) == k <= posted[d][r][tag]

SetIndex(r, field, k) == index' = [index EXCEPT ![r][pos[r]][field] = k]

Advance(r) ==
  /\ pos' = [pos EXCEPT ![r] = @ + 1]
  /\ stage' = [stage EXCEPT ![r] = "apply"]
GoTo(r, s) == stage' = [stage EXCEPT ![r] = s] /\ UNCHANGED pos

-----------------------------------------------------------------------------
(***************************************************************************)
(* What a rule concludes from the times of its partners.                   *)
(***************************************************************************)
Nothing == [remote |-> {}, waiting |-> 0, blame |-> 0]
WaitsFor(q, act, w) ==
  [remote |-> {[rank |-> q, act |-> act]}, waiting |-> w, blame |-> 0]
Blame(b) == [Nothing EXCEPT !.blame = b]
Min2(a, b) == IF a <= b THEN a ELSE b

\* Mutant: a buffered send waits for a receive entered after it was left.
SendOutcomeUnbounded(my, q, m) ==
  IF m.type \notin RecvTypes THEN Nothing
  ELSE IF my.enter < m.start THEN WaitsFor(q, m.act, m.start - my.enter)
  ELSE IF m.start < my.enter /\ my.enter < m.end THEN Blame(my.enter - m.start)
  ELSE Nothing

SendOutcome(my, q, m) ==
  IF m.type \notin RecvTypes THEN Nothing
  ELSE IF my.enter < m.start /\ m.start < my.leave
         THEN WaitsFor(q, m.act, m.start - my.enter)
  ELSE IF m.start < my.enter /\ my.enter < m.end
         THEN Blame(my.enter - m.start)
  ELSE Nothing

\* Also for an MPI_Sendrecv with a single partner.
RecvOutcome(my, q, m) ==
  IF my.enter < m.start THEN WaitsFor(q, m.act, m.start - my.enter)
  ELSE IF m.start < my.enter /\ my.enter < m.end THEN Blame(my.enter - m.start)
  ELSE Nothing

\* Mutant: waits if entered together.
SendrecvOutcomeTogether(my, s, in, d, out) ==
  LET lateIn == my.enter <= in.start
      lateOut == my.enter <= out.start /\ out.start < my.leave
      inIsLast == lateIn /\ (lateOut => out.start < in.start)
      Waited(q, m) == WaitsFor(q, m.act, Min2(m.start, my.leave) - my.enter)
  IN IF inIsLast THEN Waited(s, in) ELSE IF lateOut THEN Waited(d, out) ELSE Nothing

\* Mutant: the waiting time is blamed on the receiver only.
SendrecvOutcomeHalfBlamed(my, s, in, d, out) ==
  LET lateIn == my.enter < in.start
      lateOut == my.enter < out.start /\ out.start < my.leave
      inIsLast == lateIn /\ (lateOut => out.start < in.start)
      Waited(q, m) == WaitsFor(q, m.act, Min2(m.start, my.leave) - my.enter)
  IN IF inIsLast THEN Waited(s, in) ELSE IF lateOut THEN Waited(d, out)
     ELSE Blame(IF my.enter < in.end THEN my.enter - in.start ELSE 0)

\* in: from the rank received from, out: from the rank sent to.
SendrecvOutcome(my, s, in, d, out) ==
  LET lateIn == my.enter < in.start
      lateOut == my.enter < out.start /\ out.start < my.leave
      inIsLast == lateIn /\ (lateOut => out.start < in.start)
      Waited(q, m) == WaitsFor(q, m.act, Min2(m.start, my.leave) - my.enter)
  IN IF inIsLast THEN Waited(s, in)
     ELSE IF lateOut THEN Waited(d, out)
     ELSE Blame((IF my.enter < in.end THEN my.enter - in.start ELSE 0)
                + (IF out.start < my.enter THEN my.enter - out.start ELSE 0))

\* Mutant: the whole time up to the partner's, whenever the wait was over.
WaitOutcomeUnbounded(my, q, m) ==
  LET partnerTime == IF m.type \in {"SEND", "RECV", "SENDRECV"} THEN m.start ELSE m.end
  IN IF my.enter < partnerTime THEN WaitsFor(q, m.act, partnerTime - my.enter)
                               ELSE Nothing

WaitOutcome(my, q, m) ==
  LET partnerTime == IF m.type \in {"SEND", "RECV", "SENDRECV"} THEN m.start ELSE m.end
  IN IF my.enter < partnerTime
       THEN WaitsFor(q, m.act, Min2(partnerTime, my.leave) - my.enter)
       ELSE Nothing

\* Messages received before are superseded by one with a later end.
Superseding(my, ms) ==
  {k \in DOMAIN ms : /\ my.enter < ms[k].end
                     /\ \A j \in 1 .. k - 1 : ms[j].end < ms[k].end}
WaitallOutcome(my, partners, ms) ==
  LET late == Superseding(my, ms) IN
  IF late = {} THEN Nothing
  ELSE LET k == CHOOSE k \in late : \A j \in late : j <= k
       IN WaitsFor(partners[k], ms[k].act, Min2(ms[k].end, my.leave) - my.enter)

\* enter: the enter times of the participants, act: their activities.  Of the
\* latest ones the first in the order of the communicator counts as the last.
LastEnter(enter) == CHOOSE q \in Rank : \A o \in Rank :
                      enter[o] < enter[q] \/ (enter[o] = enter[q] /\ q <= o)
AllWaiting(enter, last) == FoldFunction(+, 0, [q \in Rank |-> enter[last] - enter[q]])

\* Mutant: who has entered as late as the last one does not wait.
CollectiveOutcomeByTime(r, enter, act) ==
  LET last == LastEnter(enter) IN
  IF enter[r] < enter[last] THEN WaitsFor(last, act[last], enter[last] - enter[r])
  ELSE Blame(AllWaiting(enter, last))

CollectiveOutcome(r, enter, act) ==
  LET last == LastEnter(enter) IN
  IF r # last THEN WaitsFor(last, act[last], enter[last] - enter[r])
  ELSE Blame(AllWaiting(enter, last))

\* The map f of remote nodes, with n for activity i.
PutNode(f, i, n) == [a \in DOMAIN f \cup {i} |-> IF a = i THEN n ELSE f[a]]

\* Mutant: no remote node for who has entered together with the last one.
ConcludeIfWaited(r, outcome) ==
  LET i == pos[r] IN
  /\ blocking' = IF outcome.remote = {} THEN blocking
                 ELSE [blocking EXCEPT ![r] = @ \cup {i}]
  /\ remoteNode' = IF outcome.waiting = 0 THEN remoteNode
                   ELSE [remoteNode EXCEPT ![r] =
                           PutNode(@, i, CHOOSE n \in outcome.remote : TRUE)]
  /\ waiting' = [waiting EXCEPT ![r][i] = outcome.waiting]
  /\ blamed' = [blamed EXCEPT ![r][i] = outcome.blame]

\* A wait state makes the activity edge blocking and adds a remote node.
Conclude(r, outcome) ==
  LET i == pos[r] IN
  /\ IF outcome.remote = {} THEN UNCHANGED <<blocking, remoteNode>>
     ELSE /\ blocking' = [blocking EXCEPT ![r] = @ \cup {i}]
          /\ remoteNode' = [remoteNode EXCEPT ![r] =
                              PutNode(@, i, CHOOSE n \in outcome.remote : TRUE)]
  /\ waiting' = [waiting EXCEPT ![r][i] = outcome.waiting]
  /\ blamed' = [blamed EXCEPT ![r][i] = outcome.blame]

-----------------------------------------------------------------------------
(***************************************************************************)
(* The records of non-blocking communication when the trace has been read. *)
(***************************************************************************)
Requests(p, r) == {i \in Activity(r) : p[r][i].kind \in {"isend", "irecv"}}

\* MPI_Testall removes the records of its requests already while reading.
RecordsRead(p, r) ==
  {i \in Requests(p, r) :
     ~\E k \in Activity(r) : p[r][k].kind = "testall" /\ Completes(p[r][k], i)}

\* The syncNode of a record: MPI_Wait and MPI_Test set it, MPI_Waitall does not.
SyncActivity(r, i) ==
  LET sync == {k \in Activity(r) : /\ program[r][k].kind \in {"wait", "test"}
                                   /\ Completes(program[r][k], i)}
  IN IF sync = {} THEN i ELSE CHOOSE k \in sync : TRUE

Init ==
  /\ program \in Programs
  /\ time \in {t \in [Rank -> Timings] : ValidTiming(program, t)}
  /\ pos = [r \in Rank |-> 0]
  /\ stage = [r \in Rank |-> "apply"]
  /\ sent = [s \in Rank |-> [d \in Rank |-> [tag \in ReplayTag |-> <<>>]]]
  /\ posted = [d \in Rank |-> [s \in Rank |-> [tag \in ReplayTag |-> 0]]]
  /\ index = [r \in Rank |-> [i \in Activity(r) |-> NoIndex]]
  /\ openRecv = [r \in Rank |-> {}]
  /\ openSend = [r \in Rank |-> {}]
  /\ records = [r \in Rank |-> RecordsRead(program, r)]
  /\ gathered = [r \in Rank |-> 0]
  /\ blocking = [r \in Rank |-> {}]
  /\ remoteNode = [r \in Rank |-> <<>>]
  /\ waiting = [r \in Rank |-> [i \in Activity(r) |-> 0]]
  /\ blamed = [r \in Rank |-> [i \in Activity(r) |-> 0]]

(***************************************************************************)
(* MPI_Send and MPI_Recv.                                                  *)
(***************************************************************************)
StartSend(r) ==
  /\ AtStage(r, "send", "apply")
  /\ SendMessage(r, Op(r).to, Op(r).tag, Buffer("SEND", r, pos[r]))
  /\ SetIndex(r, "out", NextSent(r, Op(r).to, Op(r).tag))
  /\ GoTo(r, "forward")
  /\ UNCHANGED <<trace, posted, handles, gathered, results>>

\* The MPI_Send returns, the receive of the reverse direction is posted.
SendReturns(r) ==
  LET partner == Op(r).to
      tag == Reverse(Op(r).tag)
  IN
  /\ AtStage(r, "send", "forward")
  /\ PostReceive(r, partner, tag)
  /\ SetIndex(r, "revIn", NextPosted(r, partner, tag))
  /\ GoTo(r, "reverse")
  /\ UNCHANGED <<trace, sent, handles, gathered, results>>

FinishSend(r) ==
  LET partner == Op(r).to
      tag == Reverse(Op(r).tag)
      k == index[r][pos[r]].revIn
  IN
  /\ AtStage(r, "send", "reverse")
  /\ Arrived(r, partner, tag, k)
  /\ Conclude(r, SendOutcome(My(r), partner, sent[partner][r][tag][k]))
  /\ Advance(r)
  /\ UNCHANGED <<trace, sent, posted, index, handles, gathered>>

StartRecv(r) ==
  /\ AtStage(r, "recv", "apply")
  /\ PostReceive(r, Op(r).from, Op(r).rtag)
  /\ SetIndex(r, "in", NextPosted(r, Op(r).from, Op(r).rtag))
  /\ GoTo(r, "forward")
  /\ UNCHANGED <<trace, sent, handles, gathered, results>>

\* The sender's times are there: answer with the receiver's, if it is one.
Receive(r) ==
  LET partner == Op(r).from
      tag == Reverse(Op(r).rtag)
      k == index[r][pos[r]].in
      m == sent[partner][r][Op(r).rtag][k]
  IN
  /\ AtStage(r, "recv", "forward")
  /\ Arrived(r, partner, Op(r).rtag, k)
  /\ IF m.type \in SendTypes
       THEN /\ SendMessage(r, partner, tag, Buffer("RECV", r, pos[r]))
            /\ SetIndex(r, "revOut", NextSent(r, partner, tag))
            /\ Conclude(r, RecvOutcome(My(r), partner, m))
            /\ GoTo(r, "reverse")
       ELSE /\ Advance(r)
            /\ UNCHANGED <<sent, index, results>>
  /\ UNCHANGED <<trace, posted, handles, gathered>>

FinishRecv(r) ==
  /\ AtStage(r, "recv", "reverse")
  /\ Advance(r)
  /\ UNCHANGED <<trace, sent, posted, index, handles, gathered, results>>

(***************************************************************************)
(* MPI_Sendrecv: the reverse direction is left out with a single partner.  *)
(***************************************************************************)
StartSendrecv(r) ==
  LET op == Op(r) IN
  /\ AtStage(r, "sendrecv", "apply")
  /\ SendMessage(r, op.to, op.tag, Buffer("SENDRECV", r, pos[r]))
  /\ PostReceive(r, op.from, op.rtag)
  /\ index' = [index EXCEPT ![r][pos[r]] =
                  [@ EXCEPT !.out = NextSent(r, op.to, op.tag),
                            !.in = NextPosted(r, op.from, op.rtag)]]
  /\ GoTo(r, "forward")
  /\ UNCHANGED <<trace, handles, gathered, results>>

ReceiveSendrecv(r) ==
  LET op == Op(r)
      k == index[r][pos[r]].in
  IN
  /\ AtStage(r, "sendrecv", "forward")
  /\ Arrived(r, op.from, op.rtag, k)
  /\ IF op.to = op.from
       THEN /\ Conclude(r, RecvOutcome(My(r), op.from, sent[op.from][r][op.rtag][k]))
            /\ Advance(r)
            /\ UNCHANGED <<sent, posted, index>>
       ELSE /\ SendMessage(r, op.from, Reverse(op.rtag), Buffer("SENDRECV", r, pos[r]))
            /\ PostReceive(r, op.to, Reverse(op.tag))
            /\ index' = [index EXCEPT ![r][pos[r]] =
                  [@ EXCEPT !.revOut = NextSent(r, op.from, Reverse(op.rtag)),
                            !.revIn = NextPosted(r, op.to, Reverse(op.tag))]]
            /\ GoTo(r, "reverse")
            /\ UNCHANGED results
  /\ UNCHANGED <<trace, handles, gathered>>

FinishSendrecv(r) ==
  LET op == Op(r)
      k == index[r][pos[r]]
  IN
  /\ AtStage(r, "sendrecv", "reverse")
  /\ Arrived(r, op.to, Reverse(op.tag), k.revIn)
  /\ Conclude(r, SendrecvOutcome(My(r),
                   op.from, sent[op.from][r][op.rtag][k.in],
                   op.to, sent[op.to][r][Reverse(op.tag)][k.revIn]))
  /\ Advance(r)
  /\ UNCHANGED <<trace, sent, posted, index, handles, gathered>>
(***************************************************************************)
(* MPI_Isend and MPI_Irecv: communication is started in both directions,   *)
(* and an MPI_Test closes the requests that happen to be complete.         *)
(***************************************************************************)
OpenRequests(r, recvArrived) ==
  /\ openSend' \in {openSend, [openSend EXCEPT ![r] = @ \cup {pos[r]}]}
  /\ \/ openRecv' = [openRecv EXCEPT ![r] = @ \cup {pos[r]}]
     \/ recvArrived /\ UNCHANGED openRecv

Isend(r) ==
  LET partner == Op(r).to
      tag == Op(r).tag
      k == NextPosted(r, partner, Reverse(tag))
  IN
  /\ AtStage(r, "isend", "apply")
  /\ pos[r] \in records[r]
  /\ SendMessage(r, partner, tag, Buffer("ISEND", r, pos[r]))
  /\ PostReceive(r, partner, Reverse(tag))
  /\ index' = [index EXCEPT ![r][pos[r]] =
                  [@ EXCEPT !.out = NextSent(r, partner, tag), !.revIn = k]]
  /\ OpenRequests(r, Arrived(r, partner, Reverse(tag), k))
  /\ Advance(r)
  /\ UNCHANGED <<trace, records, gathered, results>>

\* Mutant: nothing is sent in the reverse direction.
IrecvSilent(r) ==
  LET k == NextPosted(r, Op(r).from, Op(r).rtag) IN
  /\ AtStage(r, "irecv", "apply")
  /\ pos[r] \in records[r]
  /\ PostReceive(r, Op(r).from, Op(r).rtag)
  /\ SetIndex(r, "in", k)
  /\ OpenRequests(r, Arrived(r, Op(r).from, Op(r).rtag, k))
  /\ Advance(r)
  /\ UNCHANGED <<trace, sent, records, gathered, results>>

Irecv(r) ==
  LET partner == Op(r).from
      tag == Op(r).rtag
      k == NextPosted(r, partner, tag)
  IN
  /\ AtStage(r, "irecv", "apply")
  /\ pos[r] \in records[r]
  /\ PostReceive(r, partner, tag)
  /\ SendMessage(r, partner, Reverse(tag), Buffer("IRECV", r, SyncActivity(r, pos[r])))
  /\ index' = [index EXCEPT ![r][pos[r]] =
                  [@ EXCEPT !.in = k, !.revOut = NextSent(r, partner, Reverse(tag))]]
  /\ OpenRequests(r, Arrived(r, partner, tag, k))
  /\ Advance(r)
  /\ UNCHANGED <<trace, records, gathered, results>>

\* No record, no communication; the rule for MPI_Test[all] is disabled.
NoRule(r) ==
  /\ \/ AtStage(r, "isend", "apply") /\ pos[r] \notin records[r]
     \/ AtStage(r, "irecv", "apply") /\ pos[r] \notin records[r]
     \/ AtStage(r, "test", "apply") \/ AtStage(r, "testall", "apply")
  /\ Advance(r)
  /\ UNCHANGED <<trace, sent, posted, index, handles, gathered, results>>

(***************************************************************************)
(* MPI_Wait and MPI_Waitall.                                               *)
(***************************************************************************)
Partner(op) == IF op.kind = "isend" THEN op.to ELSE op.from

\* The message the receive buffer of the record of request i is for.
Expected(r, i) ==
  LET op == program[r][i]
      k == index[r][i]
  IN IF op.kind = "isend" THEN [tag |-> Reverse(op.tag), nr |-> k.revIn]
                          ELSE [tag |-> op.rtag, nr |-> k.in]
\* Mutant: the buffer of the message received last.
InBoxLatest(r, i) ==
  LET ms == sent[Partner(program[r][i])][r][Expected(r, i).tag] IN ms[Len(ms)]

InBox(r, i) ==
  sent[Partner(program[r][i])][r][Expected(r, i).tag][Expected(r, i).nr]
RecvDone(r, i) ==
  i \in openRecv[r] =>
    Arrived(r, Partner(program[r][i]), Expected(r, i).tag, Expected(r, i).nr)

CloseRequests(r, S) ==
  /\ openRecv' = [openRecv EXCEPT ![r] = @ \ S]
  /\ openSend' = [openSend EXCEPT ![r] = @ \ S]

FinishWait(r) ==
  LET i == Op(r).reqs[1] IN
  /\ AtStage(r, "wait", "apply")
  /\ i \in records[r]
  /\ RecvDone(r, i)
  /\ Conclude(r, WaitOutcome(My(r), Partner(program[r][i]), InBox(r, i)))
  /\ CloseRequests(r, {i})
  /\ records' = [records EXCEPT ![r] = @ \ {i}]
  /\ Advance(r)
  /\ UNCHANGED <<trace, sent, posted, index, gathered>>

\* The record was deleted at a collective, but the MPI_Wait node still refers
\* to it: what is left in the memory is evaluated, or it is of no use.
WaitOnDeletedRecord(r) ==
  LET i == Op(r).reqs[1] IN
  /\ AtStage(r, "wait", "apply")
  /\ i \notin records[r]
  /\ \/ Conclude(r, WaitOutcome(My(r), Partner(program[r][i]), InBox(r, i)))
     \/ UNCHANGED results
  /\ Advance(r)
  /\ UNCHANGED <<trace, sent, posted, index, handles, gathered>>

\* Records with a message later than all before are kept until the reset.
FinishWaitall(r) ==
  LET reqs == Op(r).reqs
      ms == [k \in DOMAIN reqs |-> InBox(r, reqs[k])]
      kept == {reqs[k] : k \in Superseding(My(r), ms)}
  IN
  /\ AtStage(r, "waitall", "apply")
  /\ \A k \in DOMAIN reqs : reqs[k] \in records[r] /\ RecvDone(r, reqs[k])
  /\ Conclude(r, WaitallOutcome(My(r),
                   [k \in DOMAIN reqs |-> Partner(program[r][reqs[k]])], ms))
  /\ CloseRequests(r, {reqs[k] : k \in DOMAIN reqs})
  /\ records' = [records EXCEPT ![r] = @ \ ({reqs[k] : k \in DOMAIN reqs} \ kept)]
  /\ Advance(r)
  /\ UNCHANGED <<trace, sent, posted, index, gathered>>

\* Mutant: a record goes as soon as one of its requests is complete.
TestAllPendingRequestsEither(r) ==
  \E doneRecv \in SUBSET {i \in openRecv[r] : RecvDone(r, i)} :
  \E doneSend \in SUBSET openSend[r] :
    /\ openRecv' = [openRecv EXCEPT ![r] = @ \ doneRecv]
    /\ openSend' = [openSend EXCEPT ![r] = @ \ doneSend]
    /\ records' = [records EXCEPT ![r] = @ \ (doneRecv \cup doneSend)]

(***************************************************************************)
(* Collectives.  First the pending requests are tested (not at MPI_Init);  *)
(* a record goes when both its requests complete in this one test.         *)
(***************************************************************************)
TestAllPendingRequests(r) ==
  \E doneRecv \in SUBSET {i \in openRecv[r] : RecvDone(r, i)} :
  \E doneSend \in SUBSET openSend[r] :
    /\ openRecv' = [openRecv EXCEPT ![r] = @ \ doneRecv]
    /\ openSend' = [openSend EXCEPT ![r] = @ \ doneSend]
    /\ records' = [records EXCEPT ![r] = @ \ (doneRecv \cap doneSend)]

JoinCollective(r) ==
  /\ AtStage(r, "collective", "apply")
  /\ IF pos[r] = 0 THEN UNCHANGED handles ELSE TestAllPendingRequests(r)
  /\ gathered' = [gathered EXCEPT ![r] = @ + 1]
  /\ GoTo(r, "forward")
  /\ UNCHANGED <<trace, sent, posted, index, results>>

FinishCollective(r) ==
  LET act == [q \in Rank |-> CHOOSE i \in Activity(q) :
                               SameCollective(program, r, pos[r], q, i)]
      enter == [q \in Rank |-> time[q][act[q]].enter]
  IN
  /\ AtStage(r, "collective", "forward")
  /\ \A q \in Rank : gathered[r] <= gathered[q]
  /\ Conclude(r, CollectiveOutcome(r, enter, act))
  /\ Advance(r)
  /\ UNCHANGED <<trace, sent, posted, index, handles, gathered>>

\* Nothing is exchanged about a collective of MPI_COMM_SELF.
SelfCollective(r) ==
  /\ AtStage(r, "self", "apply")
  /\ TestAllPendingRequests(r)
  /\ Advance(r)
  /\ UNCHANGED <<trace, sent, posted, index, gathered, results>>

-----------------------------------------------------------------------------

Rule(r) ==
  \/ StartSend(r) \/ SendReturns(r) \/ FinishSend(r)
  \/ StartRecv(r) \/ Receive(r) \/ FinishRecv(r)
  \/ StartSendrecv(r) \/ ReceiveSendrecv(r) \/ FinishSendrecv(r)
  \/ Isend(r) \/ Irecv(r) \/ NoRule(r)
  \/ FinishWait(r) \/ WaitOnDeletedRecord(r) \/ FinishWaitall(r)
  \/ JoinCollective(r) \/ FinishCollective(r) \/ SelfCollective(r)

ReplayDone(r) == pos[r] > LastActivity[r]
ReplayFinished == \A r \in Rank : ReplayDone(r)

\* Stuttering of the ended replay, so that any other halt is a deadlock.
ReplayTerminated == ReplayFinished /\ UNCHANGED replay

Next == (\E r \in Rank : Rule(r)) \/ ReplayTerminated

\* The messages activity i has sent are taken by posted receives.
OutTaken(r, i) ==
  LET op == program[r][i]
      k == index[r][i]
  IN /\ k.out > 0 => Taken(r, op.to, op.tag, k.out)
     /\ k.revOut > 0 => Taken(r, op.from, Reverse(op.rtag), k.revOut)

\* The calls a rank is in cannot block any more because of what it sends.
CallTaken(r) ==
  pos[r] \in Activity(r) /\
    IF Op(r).kind \in {"wait", "waitall"}
      THEN \A k \in DOMAIN Op(r).reqs :
             Op(r).reqs[k] \in openSend[r] => OutTaken(r, Op(r).reqs[k])
      ELSE OutTaken(r, pos[r])

Fairness == \A r \in Rank : WF_replay(CallTaken(r) /\ Rule(r))

Spec == Init /\ [][Next]_replay
FairSpec == Spec /\ Fairness

-----------------------------------------------------------------------------

(* Every variable keeps the type of its counterpart in the code.           *)
Message == [type : SendTypes \cup RecvTypes, act : Nat, start : Nat, end : Nat]
RemoteNodes == [rank : Rank, act : UNION {Activity(r) : r \in Rank}]

TypeOK ==
  /\ \A r \in Rank :
       /\ pos[r] \in 0 .. LastActivity[r] + 1
       /\ stage[r] \in {"apply", "forward", "reverse"}
       /\ \A d \in Rank, tag \in ReplayTag :
            /\ \A k \in DOMAIN sent[r][d][tag] : sent[r][d][tag][k] \in Message
            /\ posted[r][d][tag] \in Nat
       /\ index[r] \in [Activity(r) -> [out : Nat, in : Nat, revOut : Nat, revIn : Nat]]
       /\ UNION {openRecv[r], openSend[r], records[r]} \subseteq Requests(program, r)
       /\ gathered[r] \in Nat
       /\ blocking[r] \subseteq Activity(r)
       /\ \A a \in DOMAIN remoteNode[r] : remoteNode[r][a] \in RemoteNodes
       /\ waiting[r] \in [Activity(r) -> Nat]
       /\ blamed[r] \in [Activity(r) -> Nat]

(* The buffers of a record are freed with it: no request of the replay may *)
(* still be open then (removePendingMPIRequest, testAllPendingMPIRequests, *)
(* the record removed by MPI_Testall while reading).                       *)
BuffersAlive == \A r \in Rank : openRecv[r] \cup openSend[r] \subseteq records[r]

(* The rules of two processes agree on which message is which: a wait      *)
(* state names the activity its communication was with, in whatever order  *)
(* messages, answers and requests were completed.                          *)
Communicates(r, i, q, j) ==
  \/ Matches(program, r, i, q, j) \/ Matches(program, q, j, r, i)
  \/ SameCollective(program, r, i, q, j)
With(r, i) ==
  {i} \cup (IF program[r][i].kind \in {"wait", "waitall", "test"}
              THEN {program[r][i].reqs[k] : k \in DOMAIN program[r][i].reqs} ELSE {})
WaitsForPartner ==
  \A r \in Rank : \A i \in DOMAIN remoteNode[r] :
    LET n == remoteNode[r][i] IN
    n.rank # r /\ \E a \in With(r, i), b \in With(n.rank, n.act) :
                    Communicates(r, a, n.rank, b)

(* No activity is charged more waiting time than it lasted, and what it    *)
(* waited for was not over when it began.                                  *)
WaitingIsSpent ==
  \A r \in Rank : \A i \in Activity(r) :
    /\ waiting[r][i] <= time[r][i].leave - time[r][i].enter
    /\ i \in DOMAIN remoteNode[r] =>
         time[remoteNode[r][i].rank][remoteNode[r][i].act].leave > time[r][i].enter

(* Between blocking calls no waiting time gets lost: the two sides decide   *)
(* alone who was late, and the waiting time of one is the blame of the     *)
(* other; in a collective the last one is blamed for all waiting time.     *)
BlockingPair(s, i, d, j) ==
  LET op == program[s][i]
      other == program[d][j]
  IN /\ Matches(program, s, i, d, j)
     /\ \/ op.kind = "send" /\ other.kind = "recv"
        \/ /\ op.kind = "sendrecv" /\ other.kind = "sendrecv"
           /\ op.from = d /\ other.to = s
CollectiveOf(n, q) ==
  CHOOSE i \in Collectives(program, q) : Position(Collectives(program, q), i) = n

WaitingIsBlamed ==
  ReplayFinished =>
    /\ \A s, d \in Rank : \A i \in Activity(s), j \in Activity(d) :
         BlockingPair(s, i, d, j) => /\ waiting[s][i] = blamed[d][j]
                                     /\ waiting[d][j] = blamed[s][i]
    /\ \A r \in Rank : \A i \in Collectives(program, r) :
         LET n == Position(Collectives(program, r), i)
             Total(f) == FoldFunction(+, 0, [q \in Rank |-> f[q][CollectiveOf(n, q)]])
         IN Total(waiting) = Total(blamed)

(* Who is waited for in a blocking call is blamed at least for this wait,   *)
(* unless it has waited itself, with several partners as well.             *)
BlockingKinds == {"send", "recv", "sendrecv", "collective"}
LateIsBlamed ==
  ReplayFinished =>
    \A r \in Rank : \A i \in DOMAIN remoteNode[r] :
      LET n == remoteNode[r][i] IN
      {program[r][i].kind, program[n.rank][n.act].kind} \subseteq BlockingKinds
        => \/ n.act \in DOMAIN remoteNode[n.rank]
           \/ waiting[r][i] <= blamed[n.rank][n.act]

(* The replay leaves no message behind that a later receive with the same  *)
(* tag, in the next interval, would take for its own.                      *)
NothingLeft ==
  ReplayFinished => \A s, d \in Rank, tag \in ReplayTag :
                      Len(sent[s][d][tag]) = posted[d][s][tag]

(* The activities and what they waited for form no cycle (README:10: a     *)
(* distributed DAG) in a program of blocking calls, unless who was waited  *)
(* for has waited itself, and the cycle leads on through earlier           *)
(* activities: of any other activities, one depends on none of them.       *)
Node == UNION {{r} \X Activity(r) : r \in Rank}
Waits(n) == n[2] \in DOMAIN remoteNode[n[1]]
WaitedFor(n) == <<remoteNode[n[1]][n[2]].rank, remoteNode[n[1]][n[2]].act>>
Before(n) == <<n[1], n[2] - 1>>
DependsOn(n) ==
  (IF n[2] > 0 THEN {Before(n)} ELSE {}) \cup (IF Waits(n) THEN {WaitedFor(n)} ELSE {})
Chained(S) == \E n \in S : Waits(n) /\ WaitedFor(n) \in S /\ Waits(WaitedFor(n))
Acyclic ==
  ReplayFinished => \A S \in SUBSET Node :
    \/ S = {}
    \/ \E n \in S : DependsOn(n) \cap S = {}
    \/ Chained(S) /\ \E n \in S : Before(n) \in S

(* The replay gets through on every process, however long messages are     *)
(* under way and whether or not MPI_Send is buffered.                      *)
ReplayEnds == <>ReplayFinished

(* MPI_Wait finds the record of its request (the comment in                *)
(* testAllPendingMPIRequests says that a record both of whose requests are *)
(* finished can be deleted).                                               *)
WaitFindsRecord ==
  \A r \in Rank : AtStage(r, "wait", "apply") => Op(r).reqs[1] \in records[r]
=============================================================================
