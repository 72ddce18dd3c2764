------------------------- MODULE IntervalDriverProofs -------------------------
(***************************************************************************)
(* Proofs about the interval driver for every number of ranks, segments    *)
(* and nodes, as long as no writer fails: the ranks call the same          *)
(* collective operations, and write what they have read.                   *)
(*                                                                         *)
(* The argument: what a rank calls next is a function of the collective it *)
(* has called last and of its result, and both are the same on all ranks.  *)
(***************************************************************************)
EXTENDS IntervalDriver, FiniteSums

ResultAt(k) == Max({calls[q][k].value : q \in Rank})

\* Where a rank that has read s segments calls its next collective.
KindAfterReading(s) == IF s + 1 < Segments THEN "agree" ELSE "replay"
ReadsAfter(c, m) ==
  \/ c.kind = "agree" /\ ~Enough(m)
  \/ c.kind = "write" /\ c.segment < Segments

KindAfter(c, m) ==
  IF ReadsAfter(c, m) THEN KindAfterReading(c.segment)
  ELSE IF c.kind = "agree" THEN "replay"
  ELSE IF c.kind = "replay" THEN IF c.segment < Segments THEN "detect" ELSE "findEnd"
  ELSE IF c.kind = "findEnd" THEN "detect"
  ELSE IF c.kind = "detect" THEN IF c.intervals <= 1 THEN "findStart" ELSE "write"
  ELSE IF c.kind = "findStart" THEN "write"
  ELSE "summary"
SegmentAfter(c, m) == IF ReadsAfter(c, m) THEN c.segment + 1 ELSE c.segment
IntervalsAfter(c, m) ==
  IF c.kind = "agree" /\ Enough(m) THEN c.intervals + 1 ELSE c.intervals

\* The call (kind, s, n) is what follows call k of rank r.
Follows(r, k, kind, s, n) ==
  IF k = 0 THEN kind = KindAfterReading(0) /\ s = 1 /\ n = 0
  ELSE /\ kind = KindAfter(calls[r][k], ResultAt(k))
       /\ s = SegmentAfter(calls[r][k], ResultAt(k))
       /\ n = IntervalsAfter(calls[r][k], ResultAt(k))

-----------------------------------------------------------------------------
\* The parts of the inductive invariant.

\* Types, and the node counts whose difference is contributed.
Typed == TypeOK /\ \A r \in Rank : intervalNode[r] <= lastNode[r]

\* No rank is two calls ahead of another one.
Lockstep == \A r, q \in Rank : Len(calls[r]) <= Len(calls[q]) + 1

\* Every call follows from the one before.
History ==
  \A r \in Rank : \A k \in 1 .. Len(calls[r]) :
    Follows(r, k - 1, calls[r][k].kind, calls[r][k].segment, calls[r][k].intervals)

\* The variables of a rank agree with its last call.
Reading(r) ==
  LET k == Len(calls[r]) IN
  /\ segment[r] < Segments
  /\ \A q \in Rank : k <= Len(calls[q])
  /\ IF k = 0 THEN segment[r] = 0 /\ intervals[r] = 0
     ELSE /\ calls[r][k].segment = segment[r]
          /\ calls[r][k].intervals = intervals[r]
          /\ ReadsAfter(calls[r][k], ResultAt(k))
Calling(r) ==
  LET k == Len(calls[r]) IN
  /\ k > 0
  /\ calls[r][k].kind = pc[r]
  /\ calls[r][k].segment = segment[r]
  /\ calls[r][k].intervals = intervals[r]
  /\ pc[r] = "agree" => segment[r] < Segments
InPlace(r) ==
  /\ segment[r] <= Segments
  /\ available[r] <=> segment[r] < Segments
  /\ pc[r] = "read" => Reading(r)
  /\ pc[r] \in Collective => Calling(r)
Place == \A r \in Rank : InPlace(r)

DriverInv == Typed /\ Lockstep /\ History /\ Place /\ CollectivesMatch

-----------------------------------------------------------------------------
\* The last call of a rank grows its history by one and leaves the rest.
NewCall(r, kind, s, n) ==
  LET k == Len(calls[r]) IN
  /\ Len(calls'[r]) = k + 1
  /\ calls'[r][k + 1].kind = kind
  /\ calls'[r][k + 1].segment = s
  /\ calls'[r][k + 1].intervals = n
  /\ \A i \in 1 .. k : calls'[r][i] = calls[r][i]
  /\ \A q \in Rank \ {r} : calls'[q] = calls[q]

LEMMA CallAtCalls ==
  ASSUME TypeOK, NEW r \in Rank, NEW kind \in Collective, NEW s \in Nat,
         NEW n \in Nat, NEW v \in Nat, CallAt(r, kind, s, n, v)
  PROVE  /\ calls' \in [Rank -> Seq(Call)]
         /\ pc' = [pc EXCEPT ![r] = kind]
         /\ pc' \in [Rank -> Collective \cup {"read", "finished"}]
         /\ NewCall(r, kind, s, n)
<1> DEFINE c == [kind |-> kind, segment |-> s, intervals |-> n, value |-> v]
<1>1. c \in Call
  BY DEF Call
<1>2. calls[r] \in Seq(Call)
  BY DEF TypeOK
<1>3. /\ calls' = [calls EXCEPT ![r] = Append(calls[r], c)]
      /\ pc' = [pc EXCEPT ![r] = kind]
  BY DEF CallAt
<1>4. /\ c.kind = kind /\ c.segment = s /\ c.intervals = n
  OBVIOUS
<1> HIDE DEF c
<1>5. /\ Append(calls[r], c) \in Seq(Call)
      /\ Len(Append(calls[r], c)) = Len(calls[r]) + 1
      /\ Append(calls[r], c)[Len(calls[r]) + 1] = c
      /\ \A i \in 1 .. Len(calls[r]) : Append(calls[r], c)[i] = calls[r][i]
  BY <1>1, <1>2
<1>6. calls \in [Rank -> Seq(Call)] /\ pc \in [Rank -> Collective \cup {"read", "finished"}]
  BY DEF TypeOK
<1>7. calls'[r] = Append(calls[r], c) /\ \A q \in Rank \ {r} : calls'[q] = calls[q]
  BY <1>3, <1>6
<1>8. calls' \in [Rank -> Seq(Call)]
  BY <1>3, <1>5, <1>6
<1>9. pc' \in [Rank -> Collective \cup {"read", "finished"}]
  BY <1>3, <1>6
<1>10. NewCall(r, kind, s, n)
  BY <1>4, <1>5, <1>7 DEF NewCall
<1> QED
  BY <1>3, <1>8, <1>9, <1>10

\* What was contributed to a collective does not change any more.
LEMMA ResultStays ==
  ASSUME NEW k \in Nat \ {0}, \A q \in Rank : calls'[q][k] = calls[q][k]
  PROVE  ResultAt(k)' = ResultAt(k)
<1>1. {calls'[q][k].value : q \in Rank} = {calls[q][k].value : q \in Rank}
  OBVIOUS
<1> QED
  BY <1>1 DEF ResultAt

\* A rank that reads stays in place while others make calls.
LEMMA CallsStay ==
  ASSUME TypeOK, NEW r \in Rank, NEW kind, NEW s, NEW n, NewCall(r, kind, s, n)
  PROVE  \A q \in Rank : /\ Len(calls[q]) <= Len(calls'[q])
                         /\ \A k \in 1 .. Len(calls[q]) : calls'[q][k] = calls[q][k]
<1>1. \A q \in Rank : Len(calls[q]) \in Nat
  BY DEF TypeOK
<1> QED
  BY <1>1 DEF NewCall

\* The histories stay in step when a rank whose last collective has been
\* called by all calls what follows from it.
LEMMA NextCall ==
  ASSUME TypeOK, Lockstep, History, CollectivesMatch,
         NEW r \in Rank, NEW kind, NEW s, NEW n,
         NewCall(r, kind, s, n),
         \A q \in Rank : Len(calls[r]) <= Len(calls[q]),
         Follows(r, Len(calls[r]), kind, s, n),
         calls' \in [Rank -> Seq(Call)]
  PROVE  Lockstep' /\ History' /\ CollectivesMatch'
<1>0. PICK k \in Nat : k = Len(calls[r])
  BY DEF TypeOK
<1>1. /\ k \in Nat
      /\ \A q \in Rank : Len(calls[q]) \in Nat
      /\ \A q \in Rank : calls[q] \in Seq(Call) /\ calls'[q] \in Seq(Call)
  BY DEF TypeOK
<1>2. /\ Len(calls'[r]) = k + 1
      /\ calls'[r][k + 1].kind = kind
      /\ calls'[r][k + 1].segment = s
      /\ calls'[r][k + 1].intervals = n
      /\ \A i \in 1 .. k : calls'[r][i] = calls[r][i]
      /\ \A q \in Rank \ {r} : calls'[q] = calls[q]
  BY <1>0 DEF NewCall
<1>3. \A q \in Rank : k <= Len(calls[q])
  BY <1>0
<1>4. Lockstep'
  <2> SUFFICES ASSUME NEW p \in Rank, NEW q \in Rank
               PROVE  Len(calls'[p]) <= Len(calls'[q]) + 1
    BY DEF Lockstep
  <2>1. Len(calls[p]) <= Len(calls[q]) + 1
    BY DEF Lockstep
  <2>2. Len(calls[q]) <= Len(calls'[q])
    BY <1>0, <1>1, <1>2
  <2>3. CASE p = r
    BY <1>0, <1>1, <1>2, <1>3, <2>2, <2>3
  <2>4. CASE p # r
    BY <1>1, <1>2, <2>1, <2>2, <2>4
  <2> QED
    BY <2>3, <2>4
<1>5. \A q \in Rank : \A i \in 1 .. Len(calls[q]) : calls'[q][i] = calls[q][i]
  BY <1>0, <1>2
<1>6. \A i \in Nat \ {0} : (\A q \in Rank : i <= Len(calls[q])) => ResultAt(i)' = ResultAt(i)
  <2> SUFFICES ASSUME NEW i \in Nat \ {0}, \A q \in Rank : i <= Len(calls[q])
               PROVE  ResultAt(i)' = ResultAt(i)
    OBVIOUS
  <2>1. \A q \in Rank : calls'[q][i] = calls[q][i]
    BY <1>1, <1>5
  <2> QED
    BY <2>1, ResultStays
<1>7. ASSUME NEW q \in Rank, NEW i \in Nat, i <= Len(calls[q]),
             \A p \in Rank : i <= Len(calls[p]),
             NEW kd, NEW sg, NEW iv, Follows(q, i, kd, sg, iv)
      PROVE  Follows(q, i, kd, sg, iv)'
  <2>1. CASE i = 0
    BY <1>7, <2>1 DEF Follows
  <2>2. CASE i # 0
    <3>1. calls'[q][i] = calls[q][i]
      BY <1>1, <1>5, <1>7, <2>2
    <3>2. ResultAt(i)' = ResultAt(i)
      BY <1>6, <1>7, <2>2
    <3> QED
      BY <1>7, <2>2, <3>1, <3>2
         DEF Follows, KindAfter, SegmentAfter, IntervalsAfter, ReadsAfter, KindAfterReading, Enough
  <2> QED
    BY <2>1, <2>2
<1>8. History'
  <2> SUFFICES ASSUME NEW q \in Rank, NEW i \in 1 .. Len(calls'[q])
               PROVE  Follows(q, i - 1, calls[q][i].kind, calls[q][i].segment,
                              calls[q][i].intervals)'
    BY DEF History
  <2>1. CASE i <= Len(calls[q])
    <3>1. \A p \in Rank : i - 1 <= Len(calls[p])
      BY <1>1, <2>1 DEF Lockstep
    <3>2. Follows(q, i - 1, calls[q][i].kind, calls[q][i].segment, calls[q][i].intervals)
      BY <1>1, <2>1 DEF History
    <3>3. calls'[q][i] = calls[q][i]
      BY <1>1, <1>5, <2>1
    <3>4. i - 1 \in Nat /\ i - 1 <= Len(calls[q])
      BY <1>1, <2>1
    <3> QED
      BY <1>7, <3>1, <3>2, <3>3, <3>4
  <2>2. CASE ~(i <= Len(calls[q]))
    <3>1. q = r /\ i = k + 1
      BY <1>0, <1>1, <1>2, <2>2
    <3>2. Follows(r, k, kind, s, n)
      BY <1>0
    <3>3. Follows(r, k, kind, s, n)'
      BY <1>1, <1>3, <1>7, <3>2
    <3>4. i - 1 = k
      BY <1>1, <3>1
    <3> QED
      BY <1>2, <3>1, <3>3, <3>4
  <2> QED
    BY <2>1, <2>2
<1>9. ASSUME NEW q \in Rank \ {r}, k + 1 <= Len(calls[q])
      PROVE  /\ calls[q][k + 1].kind = kind
             /\ calls[q][k + 1].segment = s
             /\ calls[q][k + 1].intervals = n
  <2>1. k + 1 \in 1 .. Len(calls[q]) /\ (k + 1) - 1 = k
    BY <1>1, <1>9
  <2>2. Follows(q, k, calls[q][k + 1].kind, calls[q][k + 1].segment, calls[q][k + 1].intervals)
    BY <2>1 DEF History
  <2>3. Follows(r, k, kind, s, n)
    BY <1>0
  <2>4. CASE k = 0
    BY <2>2, <2>3, <2>4 DEF Follows
  <2>5. CASE k # 0
    <3>1. k \in DOMAIN calls[r] \cap DOMAIN calls[q]
      BY <1>0, <1>1, <1>3, <2>5
    <3>2. /\ calls[r][k].kind = calls[q][k].kind
          /\ calls[r][k].segment = calls[q][k].segment
          /\ calls[r][k].intervals = calls[q][k].intervals
      BY <3>1 DEF CollectivesMatch
    <3>3. /\ KindAfter(calls[r][k], ResultAt(k)) = KindAfter(calls[q][k], ResultAt(k))
          /\ SegmentAfter(calls[r][k], ResultAt(k)) = SegmentAfter(calls[q][k], ResultAt(k))
          /\ IntervalsAfter(calls[r][k], ResultAt(k)) = IntervalsAfter(calls[q][k], ResultAt(k))
      BY <3>2 DEF KindAfter, SegmentAfter, IntervalsAfter, ReadsAfter
    <3> QED
      BY <2>2, <2>3, <2>5, <3>3 DEF Follows
  <2> QED
    BY <2>4, <2>5
<1>10. CollectivesMatch'
  <2> SUFFICES ASSUME NEW p \in Rank, NEW q \in Rank,
                      NEW i \in DOMAIN calls'[p] \cap DOMAIN calls'[q]
               PROVE  /\ calls'[p][i].kind = calls'[q][i].kind
                      /\ calls'[p][i].segment = calls'[q][i].segment
                      /\ calls'[p][i].intervals = calls'[q][i].intervals
    BY DEF CollectivesMatch
  <2>1. i \in 1 .. Len(calls'[p]) /\ i \in 1 .. Len(calls'[q])
    BY <1>1
  <2>2. CASE i <= Len(calls[p]) /\ i <= Len(calls[q])
    <3>1. i \in DOMAIN calls[p] \cap DOMAIN calls[q]
      BY <1>1, <2>1, <2>2
    <3>2. calls'[p][i] = calls[p][i] /\ calls'[q][i] = calls[q][i]
      BY <1>1, <1>5, <2>1, <2>2
    <3> QED
      BY <3>1, <3>2 DEF CollectivesMatch
  <2>3. CASE p = q
    BY <2>3
  <2>4. CASE p = r /\ q # r /\ i = k + 1
    BY <1>2, <1>9, <2>1, <2>4
  <2>5. CASE q = r /\ p # r /\ i = k + 1
    BY <1>2, <1>9, <2>1, <2>5
  <2>6. ASSUME NEW x \in Rank, i \in 1 .. Len(calls'[x]), ~(i <= Len(calls[x]))
        PROVE  x = r /\ i = k + 1
    BY <1>0, <1>1, <1>2, <2>6
  <2> QED
    BY <2>1, <2>2, <2>3, <2>4, <2>5, <2>6
<1> QED
  BY <1>4, <1>8, <1>10

\* The other ranks stay in place when rank r makes a call or none.
LEMMA OthersStay ==
  ASSUME TypeOK, Place, NEW r \in Rank,
         \A q \in Rank : /\ Len(calls[q]) <= Len(calls'[q])
                        /\ \A k \in 1 .. Len(calls[q]) : calls'[q][k] = calls[q][k],
         calls' \in [Rank -> Seq(Call)],
         \A q \in Rank \ {r} : /\ calls'[q] = calls[q]
                              /\ pc'[q] = pc[q]
                              /\ segment'[q] = segment[q]
                              /\ intervals'[q] = intervals[q]
                              /\ available'[q] = available[q]
  PROVE  \A q \in Rank \ {r} : InPlace(q)'
<1> SUFFICES ASSUME NEW q \in Rank \ {r} PROVE InPlace(q)'
  OBVIOUS
<1>1. InPlace(q)
  BY DEF Place
<1>2. \A p \in Rank : Len(calls[p]) \in Nat /\ Len(calls'[p]) \in Nat
  <2>1. \A p \in Rank : calls[p] \in Seq(Call) /\ calls'[p] \in Seq(Call)
    BY DEF TypeOK
  <2> QED
    BY <2>1
<1>3. PICK k \in Nat : k = Len(calls[q]) /\ k = Len(calls'[q])
  BY <1>2
<1>4. Calling(q) => Calling(q)'
  BY <1>3 DEF Calling
<1>5. Reading(q) => Reading(q)'
  <2> SUFFICES ASSUME Reading(q) PROVE Reading(q)'
    OBVIOUS
  <2>1. \A p \in Rank : k <= Len(calls[p]) /\ k <= Len(calls'[p])
    BY <1>2, <1>3 DEF Reading
  <2>2. CASE k = 0
    BY <1>3, <2>1, <2>2 DEF Reading
  <2>3. CASE k # 0
    <3>1. \A p \in Rank : calls'[p][k] = calls[p][k]
      BY <1>2, <2>1, <2>3
    <3>2. ResultAt(k)' = ResultAt(k)
      BY <2>3, <3>1, ResultStays
    <3>3. ReadsAfter(calls[q][k], ResultAt(k)) => ReadsAfter(calls[q][k], ResultAt(k))'
      BY <3>1, <3>2 DEF ReadsAfter, Enough
    <3> QED
      BY <1>3, <2>1, <2>3, <3>1, <3>3 DEF Reading
  <2> QED
    BY <2>2, <2>3
<1> QED
  BY <1>1, <1>4, <1>5 DEF InPlace

-----------------------------------------------------------------------------
(* All variables of the driver keep the types of their counterparts, and    *)
(* the node an interval begins with is never ahead of the last node.       *)
LEMMA TypedInit == Init => Typed
  BY DEF Init, Typed, TypeOK

LEMMA TypedStep ==
  ASSUME Typed, NEW r \in Rank, Step(r)
  PROVE  Typed'
<1>1. TypeOK /\ \A q \in Rank : intervalNode[q] \in Nat /\ lastNode[q] \in Nat /\ intervalNode[q] <= lastNode[q]
  BY DEF Typed, TypeOK
<1>2. /\ segment[r] \in Nat /\ intervals[r] \in Nat /\ toWrite[r] \in Nat /\ written[r] \in Nat
      /\ Segments \in Nat /\ UINT64_MAX \in Nat /\ NodeCount \subseteq Nat
  BY <1>1, IntervalSegments, IntervalNodes DEF TypeOK
<1>3. CASE ReadToCollective(r)
  <2>1. PICK n \in NodeCount, o \in BOOLEAN :
          /\ lastNode' = [lastNode EXCEPT ![r] = @ + n]
          /\ open' = [open EXCEPT ![r] = o]
          /\ CallAt(r, "agree", segment[r] + 1, intervals[r],
                    PendingNodes(r, o, lastNode[r] + n))
    BY <1>3 DEF ReadToCollective
  <2>2. n \in Nat
    BY <1>2
  <2>3. PendingNodes(r, o, lastNode[r] + n) \in Nat
    BY <1>1, <1>2, <2>2 DEF PendingNodes
  <2>4. /\ calls' \in [Rank -> Seq(Call)]
        /\ pc' \in [Rank -> Collective \cup {"read", "finished"}]
    BY <1>1, <1>2, <2>1, <2>3, CallAtCalls, "agree" \in Collective, segment[r] + 1 \in Nat DEF Collective
  <2>5. lastNode' \in [Rank -> Nat] /\ \A q \in Rank : intervalNode[q] <= lastNode'[q]
    BY <1>1, <2>1, <2>2 DEF TypeOK
  <2>6. open' \in [Rank -> BOOLEAN]
    BY <1>1, <2>1 DEF TypeOK
  <2>7. segment' \in [Rank -> Nat] /\ toWrite' \in [Rank -> Nat]
    BY <1>1, <1>2, <1>3, SMTT(60) DEF ReadToCollective, TypeOK
  <2>8. UNCHANGED <<beginNode, intervalNode, intervals, available, written>>
    BY <1>3 DEF ReadToCollective
  <2> QED
    BY <1>1, <2>4, <2>5, <2>6, <2>7, <2>8 DEF Typed, TypeOK
<1>4. CASE ReadToEnd(r)
  <2>1. PICK n \in NodeCount : lastNode' = [lastNode EXCEPT ![r] = @ + n]
    BY <1>4 DEF ReadToEnd
  <2>2. n \in Nat
    BY <1>2
  <2>3. CallAt(r, "replay", segment[r] + 1, intervals[r], 0)
    BY <1>4 DEF ReadToEnd
  <2>4. /\ calls' \in [Rank -> Seq(Call)]
        /\ pc' \in [Rank -> Collective \cup {"read", "finished"}]
    BY <1>1, <1>2, <2>3, CallAtCalls, "replay" \in Collective, segment[r] + 1 \in Nat DEF Collective
  <2>5. lastNode' \in [Rank -> Nat] /\ \A q \in Rank : intervalNode[q] <= lastNode'[q]
    BY <1>1, <2>1, <2>2 DEF TypeOK
  <2>6. open' \in [Rank -> BOOLEAN] /\ available' \in [Rank -> BOOLEAN]
    BY <1>1, <1>4 DEF ReadToEnd, TypeOK
  <2>7. segment' \in [Rank -> Nat] /\ toWrite' \in [Rank -> Nat]
    BY <1>1, <1>2, <1>4, SMTT(60) DEF ReadToEnd, TypeOK
  <2>8. UNCHANGED <<beginNode, intervalNode, intervals, written>>
    BY <1>4 DEF ReadToEnd
  <2> QED
    BY <1>1, <2>4, <2>5, <2>6, <2>7, <2>8 DEF Typed, TypeOK
<1>5. CASE KeepReading(r)
  BY <1>1, <1>5 DEF KeepReading, reading, Typed, TypeOK
<1>6. CASE StartAnalysis(r)
  <2>1. CallAt(r, "replay", segment[r], intervals[r] + 1, 0)
    BY <1>6 DEF StartAnalysis
  <2>2. /\ calls' \in [Rank -> Seq(Call)]
        /\ pc' \in [Rank -> Collective \cup {"read", "finished"}]
    BY <1>1, <1>2, <2>1, CallAtCalls, "replay" \in Collective, intervals[r] + 1 \in Nat DEF Collective
  <2>3. intervals' \in [Rank -> Nat]
    BY <1>1, <1>2, <1>6 DEF StartAnalysis, TypeOK
  <2>4. UNCHANGED <<segment, open, lastNode, beginNode, available, toWrite, written>>
    BY <1>6 DEF StartAnalysis, reading
  <2>5. intervalNode' \in [Rank -> Nat] /\ \A q \in Rank : intervalNode'[q] <= lastNode[q]
    BY <1>1, <1>6 DEF StartAnalysis, TypeOK
  <2> QED
    BY <1>1, <2>2, <2>3, <2>4, <2>5 DEF Typed, TypeOK
<1>7. ASSUME NEW kind \in Collective, NEW next \in Collective, Analysing(r, kind, next)
      PROVE  Typed'
  <2>1. CallAt(r, next, segment[r], intervals[r], 0)
    BY <1>7 DEF Analysing, Enter
  <2>2. /\ calls' \in [Rank -> Seq(Call)]
        /\ pc' \in [Rank -> Collective \cup {"read", "finished"}]
    BY <1>1, <1>2, <2>1, CallAtCalls
  <2> QED
    BY <1>1, <1>7, <2>2 DEF Analysing, reading, Typed, TypeOK
<1>8. CASE Replayed(r) \/ EndFound(r) \/ Detected(r) \/ StartFound(r)
  BY <1>7, <1>8 DEF Replayed, EndFound, Detected, StartFound, Collective
<1>9. CASE createIntermediateBegin(r)
  <2>1. written' \in [Rank -> Nat] /\ toWrite' \in [Rank -> Nat]
    BY <1>1, <1>2, <1>9 DEF createIntermediateBegin, Write, TypeOK
  <2> QED
    BY <1>1, <1>9, <2>1 DEF createIntermediateBegin, reading, Typed, TypeOK
<1>10. CASE LeaveLoop(r)
  <2>1. PICK n \in Writable(r) : Write(r, n)
    BY <1>10 DEF LeaveLoop
  <2>2. n \in Nat
    BY <1>2 DEF Writable
  <2>3. written' \in [Rank -> Nat] /\ toWrite' \in [Rank -> Nat]
    BY <1>1, <1>2, <2>1, <2>2 DEF Write, TypeOK
  <2>4. CallAt(r, "summary", segment[r], intervals[r], 0)
    BY <1>10 DEF LeaveLoop, Enter
  <2>5. /\ calls' \in [Rank -> Seq(Call)]
        /\ pc' \in [Rank -> Collective \cup {"read", "finished"}]
    BY <1>1, <1>2, <2>4, CallAtCalls, "summary" \in Collective DEF Collective
  <2> QED
    BY <1>1, <1>10, <2>3, <2>5 DEF LeaveLoop, reading, Typed, TypeOK
<1>11. CASE Summarise(r)
  BY <1>1, <1>11 DEF Summarise, reading, Typed, TypeOK
<1> QED
  BY <1>3, <1>4, <1>5, <1>6, <1>8, <1>9, <1>10, <1>11 DEF Step

-----------------------------------------------------------------------------
\* What a rank does when it calls a collective.
Elsewhere(r) ==
  \A q \in Rank \ {r} : /\ segment'[q] = segment[q]
                       /\ intervals'[q] = intervals[q]
                       /\ available'[q] = available[q]

LEMMA CallStep ==
  ASSUME DriverInv, NEW r \in Rank, NEW kind \in Collective, NEW s \in Nat,
         NEW n \in Nat, NEW v \in Nat, CallAt(r, kind, s, n, v),
         \A q \in Rank : Len(calls[r]) <= Len(calls[q]),
         Follows(r, Len(calls[r]), kind, s, n),
         segment'[r] = s, intervals'[r] = n, s <= Segments,
         available'[r] <=> s < Segments, kind = "agree" => s < Segments, Elsewhere(r)
  PROVE  Lockstep' /\ History' /\ CollectivesMatch' /\ Place'
<1>1. TypeOK /\ Lockstep /\ History /\ Place /\ CollectivesMatch
  BY DEF DriverInv, Typed
<1>2. /\ calls' \in [Rank -> Seq(Call)]
      /\ pc' = [pc EXCEPT ![r] = kind]
      /\ NewCall(r, kind, s, n)
  BY <1>1, CallAtCalls
<1>3. Lockstep' /\ History' /\ CollectivesMatch'
  BY <1>1, <1>2, NextCall
<1>4. pc'[r] = kind /\ \A q \in Rank \ {r} : pc'[q] = pc[q]
  BY <1>1, <1>2 DEF TypeOK
<1>5. InPlace(r)'
  <2>1. Len(calls[r]) \in Nat
    BY <1>1 DEF TypeOK
  <2>2. Calling(r)'
    BY <1>2, <1>4, <2>1 DEF NewCall, Calling
  <2>3. kind # "read"
    BY DEF Collective
  <2> QED
    BY <1>4, <2>2, <2>3 DEF InPlace
<1>6. \A q \in Rank \ {r} : InPlace(q)'
  <2>1. \A q \in Rank : /\ Len(calls[q]) <= Len(calls'[q])
                       /\ \A k \in 1 .. Len(calls[q]) : calls'[q][k] = calls[q][k]
    BY <1>1, <1>2, CallsStay
  <2>2. \A q \in Rank \ {r} : calls'[q] = calls[q]
    BY <1>2 DEF NewCall
  <2> QED
    BY <1>1, <1>2, <1>4, <2>1, <2>2, OthersStay DEF Elsewhere
<1> QED
  BY <1>3, <1>5, <1>6 DEF Place

\* ... and when it does not.
LEMMA QuietStep ==
  ASSUME DriverInv, NEW r \in Rank, UNCHANGED <<calls, segment, intervals, available>>,
         \A q \in Rank \ {r} : pc'[q] = pc[q],
         pc'[r] = "read" => Reading(r), pc'[r] \notin Collective
  PROVE  Lockstep' /\ History' /\ CollectivesMatch' /\ Place'
<1>1. TypeOK /\ Lockstep /\ History /\ Place /\ CollectivesMatch
  BY DEF DriverInv, Typed
<1>2. Lockstep' /\ CollectivesMatch'
  BY <1>1 DEF Lockstep, CollectivesMatch
<1>3. History'
  <2>1. \A k : ResultAt(k)' = ResultAt(k)
    BY DEF ResultAt
  <2>2. ASSUME NEW q \in Rank, NEW k, NEW kd, NEW sg, NEW iv, Follows(q, k, kd, sg, iv)
        PROVE  Follows(q, k, kd, sg, iv)'
    BY <2>1, <2>2 DEF Follows, KindAfter, SegmentAfter, IntervalsAfter, ReadsAfter,
                      KindAfterReading, Enough
  <2>3. SUFFICES ASSUME NEW q \in Rank, NEW k \in 1 .. Len(calls[q])
                 PROVE  Follows(q, k - 1, calls[q][k].kind, calls[q][k].segment,
                                calls[q][k].intervals)'
    BY DEF History
  <2>4. Follows(q, k - 1, calls[q][k].kind, calls[q][k].segment, calls[q][k].intervals)
    BY <1>1 DEF History
  <2> QED
    BY <2>2, <2>4
<1>4. \A q \in Rank : Reading(q) => Reading(q)'
  BY DEF Reading, ReadsAfter, ResultAt, Enough
<1>5. InPlace(r)'
  BY <1>1, <1>4 DEF InPlace, Place
<1>6. ASSUME NEW q \in Rank \ {r} PROVE InPlace(q)'
  BY <1>1, <1>4 DEF InPlace, Place, Calling
<1> QED
  BY <1>2, <1>3, <1>5, <1>6 DEF Place

\* A rank in a collective that is complete, and its last call.
LEMMA Completed ==
  ASSUME DriverInv, NEW r \in Rank, NEW kind \in Collective, Complete(r, kind)
  PROVE  /\ Len(calls[r]) \in Nat \ {0}
         /\ \A q \in Rank : Len(calls[r]) <= Len(calls[q])
         /\ calls[r][Len(calls[r])].kind = kind
         /\ calls[r][Len(calls[r])].segment = segment[r]
         /\ calls[r][Len(calls[r])].intervals = intervals[r]
         /\ segment[r] <= Segments /\ (available[r] <=> segment[r] < Segments)
<1>1. Len(calls[r]) \in Nat
  BY DEF DriverInv, Typed, TypeOK
<1>2. InPlace(r) /\ pc[r] = kind
  BY DEF DriverInv, Place, Complete
<1> QED
  BY <1>1, <1>2 DEF Complete, InPlace, Calling

LEMMA DriverStep ==
  ASSUME DriverInv, ~WriterMayFail, NEW r \in Rank, Step(r)
  PROVE  DriverInv'
<1> USE DEF Collective
<1>1. /\ TypeOK
      /\ segment[r] \in Nat /\ intervals[r] \in Nat /\ lastNode[r] \in Nat
      /\ intervalNode[r] \in Nat /\ intervalNode[r] <= lastNode[r]
      /\ Segments \in Nat /\ Segments > 0 /\ UINT64_MAX \in Nat /\ NodeCount \subseteq Nat
      /\ Len(calls[r]) \in Nat
  BY IntervalSegments, IntervalNodes, SMTT(60) DEF DriverInv, Typed, TypeOK
<1>2. Typed'
  BY TypedStep DEF DriverInv
<1>3. ASSUME pc[r] = "read"
      PROVE  /\ \A q \in Rank : Len(calls[r]) <= Len(calls[q])
             /\ segment[r] < Segments /\ available[r]
             /\ Follows(r, Len(calls[r]), KindAfterReading(segment[r]), segment[r] + 1, intervals[r])
  <2>1. InPlace(r) /\ Reading(r)
    BY <1>3 DEF DriverInv, Place, InPlace
  <2>2. Follows(r, Len(calls[r]), KindAfterReading(segment[r]), segment[r] + 1, intervals[r])
    <3>1. CASE Len(calls[r]) = 0
      BY <2>1, <3>1 DEF Reading, Follows
    <3>2. CASE Len(calls[r]) # 0
      <4>1. /\ calls[r][Len(calls[r])].segment = segment[r]
            /\ calls[r][Len(calls[r])].intervals = intervals[r]
            /\ ReadsAfter(calls[r][Len(calls[r])], ResultAt(Len(calls[r])))
        BY <2>1, <3>2 DEF Reading
      <4> QED
        BY <3>2, <4>1 DEF Follows, KindAfter, SegmentAfter, IntervalsAfter, ReadsAfter
    <3> QED
      BY <3>1, <3>2
  <2> QED
    BY <2>1, <2>2 DEF InPlace, Reading
<1>4. CASE ReadToCollective(r)
  <2>1. PICK v \in Nat : CallAt(r, "agree", segment[r] + 1, intervals[r], v)
    <3>1. PICK m \in NodeCount, o \in BOOLEAN :
            CallAt(r, "agree", segment[r] + 1, intervals[r], PendingNodes(r, o, lastNode[r] + m))
      BY <1>4 DEF ReadToCollective
    <3>2. PendingNodes(r, o, lastNode[r] + m) \in Nat
      BY <1>1 DEF PendingNodes
    <3> QED
      BY <3>1, <3>2
  <2>2. /\ pc[r] = "read" /\ segment[r] + 1 < Segments
        /\ segment' = [segment EXCEPT ![r] = @ + 1]
        /\ UNCHANGED <<intervals, available>>
    BY <1>4 DEF ReadToCollective
  <2>3. segment'[r] = segment[r] + 1 /\ Elsewhere(r)
    BY <1>1, <2>2 DEF TypeOK, Elsewhere
  <2>4. Follows(r, Len(calls[r]), "agree", segment[r] + 1, intervals[r])
    BY <1>3, <2>2 DEF KindAfterReading
  <2> QED
    BY <1>1, <1>2, <1>3, <2>1, <2>2, <2>3, <2>4, CallStep, segment[r] + 1 \in Nat DEF DriverInv
<1>5. CASE ReadToEnd(r)
  <2>1. CallAt(r, "replay", segment[r] + 1, intervals[r], 0)
    BY <1>5 DEF ReadToEnd
  <2>2. /\ pc[r] = "read" /\ segment[r] + 1 = Segments
        /\ segment' = [segment EXCEPT ![r] = @ + 1]
        /\ available' = [available EXCEPT ![r] = FALSE]
        /\ UNCHANGED intervals
    BY <1>5 DEF ReadToEnd
  <2>3. segment'[r] = segment[r] + 1 /\ Elsewhere(r) /\ ~available'[r]
    BY <1>1, <2>2 DEF TypeOK, Elsewhere
  <2>4. Follows(r, Len(calls[r]), "replay", segment[r] + 1, intervals[r])
    BY <1>1, <1>3, <2>2 DEF KindAfterReading
  <2> QED
    BY <1>1, <1>2, <1>3, <2>1, <2>2, <2>3, <2>4, CallStep, segment[r] + 1 \in Nat DEF DriverInv
<1>6. CASE KeepReading(r)
  <2>1. /\ Complete(r, "agree") /\ ~Enough(ResultAt(Len(calls[r])))
        /\ pc' = [pc EXCEPT ![r] = "read"]
        /\ UNCHANGED <<calls, segment, intervals, available>>
    BY <1>6 DEF KeepReading, Result, ResultAt, reading
  <2>2. pc'[r] = "read" /\ \A q \in Rank \ {r} : pc'[q] = pc[q]
    BY <1>1, <2>1 DEF TypeOK
  <2>3. segment[r] < Segments
    BY <2>1 DEF Complete, DriverInv, Place, InPlace, Calling
  <2>4. Reading(r)
    BY <2>1, <2>3, Completed DEF Reading, ReadsAfter
  <2> QED
    BY <1>2, <2>1, <2>2, <2>4, QuietStep DEF DriverInv
<1>7. CASE StartAnalysis(r)
  <2>1. /\ Complete(r, "agree") /\ Enough(ResultAt(Len(calls[r])))
        /\ CallAt(r, "replay", segment[r], intervals[r] + 1, 0)
        /\ intervals' = [intervals EXCEPT ![r] = @ + 1]
        /\ UNCHANGED <<segment, available>>
    BY <1>7 DEF StartAnalysis, Result, ResultAt, reading
  <2>2. intervals'[r] = intervals[r] + 1 /\ Elsewhere(r)
    BY <1>1, <2>1 DEF TypeOK, Elsewhere
  <2>3. Follows(r, Len(calls[r]), "replay", segment[r], intervals[r] + 1)
    BY <2>1, Completed DEF Follows, KindAfter, SegmentAfter, IntervalsAfter, ReadsAfter
  <2> QED
    BY <1>1, <1>2, <2>1, <2>2, <2>3, Completed, CallStep, intervals[r] + 1 \in Nat DEF DriverInv
<1>8. ASSUME NEW kind \in Collective \ {"agree", "write"}, NEW next \in Collective,
             Analysing(r, kind, next),
             \A m : next = KindAfter([kind |-> kind, segment |-> segment[r],
                                      intervals |-> intervals[r]], m)
      PROVE  DriverInv'
  <2>1. /\ Complete(r, kind) /\ CallAt(r, next, segment[r], intervals[r], 0)
        /\ UNCHANGED <<segment, intervals, available>>
    BY <1>8 DEF Analysing, Enter, reading
  <2>2. Elsewhere(r)
    BY <2>1 DEF Elsewhere
  <2>3. Follows(r, Len(calls[r]), next, segment[r], intervals[r])
    BY <1>8, <2>1, Completed DEF Follows, KindAfter, SegmentAfter, IntervalsAfter, ReadsAfter
  <2>4. next # "agree"
    BY <1>8 DEF KindAfter, ReadsAfter
  <2>5. /\ \A q \in Rank : Len(calls[r]) <= Len(calls[q])
        /\ segment[r] <= Segments /\ (available[r] <=> segment[r] < Segments)
    BY <2>1, Completed
  <2> QED
    BY <1>1, <1>2, <2>1, <2>2, <2>3, <2>4, <2>5, CallStep DEF DriverInv
<1>9. ASSUME NEW kind \in Collective, Complete(r, kind)
      PROVE  available[r] <=> segment[r] < Segments
  BY <1>9, Completed
<1>10. CASE Replayed(r)
  BY <1>8, <1>9, <1>10 DEF Replayed, Analysing, lastInterval, KindAfter, ReadsAfter
<1>11. CASE EndFound(r)
  BY <1>8, <1>11 DEF EndFound, KindAfter, ReadsAfter
<1>12. CASE Detected(r)
  BY <1>8, <1>12 DEF Detected, firstInterval, KindAfter, ReadsAfter
<1>13. CASE StartFound(r)
  BY <1>8, <1>13 DEF StartFound, KindAfter, ReadsAfter
<1>14. CASE createIntermediateBegin(r)
  <2>1. /\ Complete(r, "write") /\ available[r]
        /\ pc' = [pc EXCEPT ![r] = "read"]
        /\ UNCHANGED <<calls, segment, intervals, available>>
    BY <1>14 DEF createIntermediateBegin, reading
  <2>2. pc'[r] = "read" /\ \A q \in Rank \ {r} : pc'[q] = pc[q]
    BY <1>1, <2>1 DEF TypeOK
  <2>3. Reading(r)
    BY <2>1, Completed DEF Reading, ReadsAfter
  <2> QED
    BY <1>2, <2>1, <2>2, <2>3, QuietStep DEF DriverInv
<1>15. CASE LeaveLoop(r)
  <2>1. /\ Complete(r, "write") /\ CallAt(r, "summary", segment[r], intervals[r], 0)
        /\ available' = [available EXCEPT ![r] = FALSE]
        /\ UNCHANGED <<segment, intervals>>
    BY <1>15 DEF LeaveLoop, Enter, reading
  <2>2. ~available[r]
    BY <1>15 DEF LeaveLoop, Writable
  <2>3. Elsewhere(r) /\ ~available'[r]
    BY <1>1, <2>1 DEF TypeOK, Elsewhere
  <2>4. ~(segment[r] < Segments)
    BY <2>1, <2>2, Completed
  <2>5. Follows(r, Len(calls[r]), "summary", segment[r], intervals[r])
    BY <2>1, <2>4, Completed DEF Follows, KindAfter, SegmentAfter, IntervalsAfter, ReadsAfter
  <2> QED
    BY <1>1, <1>2, <2>1, <2>3, <2>4, <2>5, Completed, CallStep DEF DriverInv
<1>16. CASE Summarise(r)
  <2>1. /\ pc' = [pc EXCEPT ![r] = "finished"]
        /\ UNCHANGED <<calls, segment, intervals, available>>
    BY <1>16 DEF Summarise, reading
  <2>2. pc'[r] = "finished" /\ \A q \in Rank \ {r} : pc'[q] = pc[q]
    BY <1>1, <2>1 DEF TypeOK
  <2> QED
    BY <1>2, <2>1, <2>2, QuietStep DEF DriverInv
<1> QED
  BY <1>4, <1>5, <1>6, <1>7, <1>10, <1>11, <1>12, <1>13, <1>14, <1>15, <1>16 DEF Step

-----------------------------------------------------------------------------
\* Events: what was read and not yet written is what the writer is told.
LEMMA EventsStep ==
  ASSUME DriverInv, EventsWritten, ~WriterMayFail, NEW r \in Rank, Step(r)
  PROVE  EventsWritten'
<1> USE DEF Collective
<1>1. /\ TypeOK
      /\ \A q \in Rank : segment[q] \in Nat /\ toWrite[q] \in Nat /\ written[q] \in Nat
      /\ Segments \in Nat
  BY IntervalSegments DEF DriverInv, Typed, TypeOK
<1>2. ASSUME NEW kind \in Collective, NEW s, NEW n, NEW v, CallAt(r, kind, s, n, v)
      PROVE  pc'[r] = kind /\ \A q \in Rank \ {r} : pc'[q] = pc[q]
  BY <1>1, <1>2 DEF CallAt, TypeOK
<1>3. CASE ReadToCollective(r) \/ ReadToEnd(r)
  <2>1. \E kind \in Collective \ {"summary"} : \E s, n, v : CallAt(r, kind, s, n, v)
    BY <1>3 DEF ReadToCollective, ReadToEnd
  <2>2. pc'[r] \notin {"summary", "finished"} /\ \A q \in Rank \ {r} : pc'[q] = pc[q]
    BY <1>2, <2>1
  <2>3. /\ segment' = [segment EXCEPT ![r] = @ + 1]
        /\ toWrite' = [toWrite EXCEPT ![r] = @ + 1]
        /\ written' = written
    BY <1>3 DEF ReadToCollective, ReadToEnd
  <2>4. /\ segment'[r] = segment[r] + 1 /\ toWrite'[r] = toWrite[r] + 1
        /\ \A q \in Rank \ {r} : segment'[q] = segment[q] /\ toWrite'[q] = toWrite[q]
    BY <1>1, <2>3 DEF TypeOK
  <2> QED
    BY <1>1, <2>2, <2>3, <2>4 DEF EventsWritten
<1>4. CASE StartAnalysis(r) \/ Replayed(r) \/ EndFound(r) \/ Detected(r) \/ StartFound(r)
  <2>1. \E kind \in Collective \ {"summary"} : \E s, n, v : CallAt(r, kind, s, n, v)
    BY <1>4 DEF StartAnalysis, Replayed, EndFound, Detected, StartFound, Analysing, Enter
  <2>2. pc'[r] \notin {"summary", "finished"} /\ \A q \in Rank \ {r} : pc'[q] = pc[q]
    BY <1>2, <2>1
  <2>3. UNCHANGED <<segment, toWrite, written>>
    BY <1>4 DEF StartAnalysis, Replayed, EndFound, Detected, StartFound, Analysing, reading
  <2> QED
    BY <2>2, <2>3 DEF EventsWritten
<1>5. CASE KeepReading(r)
  <2>1. pc'[r] = "read" /\ \A q \in Rank \ {r} : pc'[q] = pc[q]
    BY <1>1, <1>5 DEF KeepReading, TypeOK
  <2> QED
    BY <1>5, <2>1 DEF KeepReading, reading, EventsWritten
<1>6. ASSUME Write(r, toWrite[r]), UNCHANGED segment,
             \A q \in Rank \ {r} : pc'[q] = pc[q],
             pc'[r] \in {"summary", "finished"} => segment[r] = Segments
      PROVE  EventsWritten'
  <2>1. /\ written'[r] = written[r] + toWrite[r] /\ toWrite'[r] = 0
        /\ \A q \in Rank \ {r} : written'[q] = written[q] /\ toWrite'[q] = toWrite[q]
    BY <1>1, <1>6 DEF Write, TypeOK
  <2> QED
    BY <1>1, <1>6, <2>1 DEF EventsWritten
<1>7. CASE createIntermediateBegin(r)
  <2>1. pc'[r] = "read" /\ \A q \in Rank \ {r} : pc'[q] = pc[q]
    BY <1>1, <1>7 DEF createIntermediateBegin, TypeOK
  <2> QED
    BY <1>6, <1>7, <2>1 DEF createIntermediateBegin, reading
<1>8. CASE LeaveLoop(r)
  <2>1. /\ ~available[r] /\ Write(r, toWrite[r]) /\ UNCHANGED segment
        /\ Complete(r, "write") /\ CallAt(r, "summary", segment[r], intervals[r], 0)
    BY <1>8 DEF LeaveLoop, Writable, Enter, reading
  <2>2. segment[r] = Segments
    BY <1>1, <2>1, Completed
  <2> QED
    BY <1>2, <1>6, <2>1, <2>2
<1>9. CASE Summarise(r)
  <2>1. pc[r] = "summary" /\ \A q \in Rank \ {r} : pc'[q] = pc[q]
    BY <1>1, <1>9 DEF Summarise, TypeOK
  <2>2. UNCHANGED <<segment, toWrite, written>>
    BY <1>9 DEF Summarise, reading
  <2> QED
    BY <2>1, <2>2 DEF EventsWritten
<1> QED
  BY <1>3, <1>4, <1>5, <1>7, <1>8, <1>9 DEF Step

-----------------------------------------------------------------------------
LEMMA DriverInit == Init => DriverInv /\ EventsWritten
<1> SUFFICES ASSUME Init PROVE DriverInv /\ EventsWritten
  OBVIOUS
<1>1. \A r \in Rank : Len(calls[r]) = 0 /\ segment[r] = 0 /\ intervals[r] = 0
  BY DEF Init
<1>2. \A r \in Rank : pc[r] = "read" /\ available[r] /\ toWrite[r] = 0 /\ written[r] = 0
  BY DEF Init
<1>3. Typed
  BY TypedInit
<1>4. Lockstep /\ History
  BY <1>1 DEF Lockstep, History
<1>5. Place
  BY <1>1, <1>2, IntervalSegments DEF Place, InPlace, Reading, Collective
<1>6. CollectivesMatch
  <2>1. \A r \in Rank : calls[r] = <<>>
    BY DEF Init
  <2> QED
    BY <2>1 DEF CollectivesMatch
<1>7. EventsWritten
  BY <1>1, <1>2 DEF EventsWritten
<1> QED
  BY <1>3, <1>4, <1>5, <1>6, <1>7 DEF DriverInv

LEMMA DriverStutters ==
  ASSUME DriverInv, EventsWritten, UNCHANGED vars
  PROVE  DriverInv' /\ EventsWritten'
<1> USE DEF vars
<1>1. Typed'
  BY DEF DriverInv, Typed, TypeOK
<1>2. Lockstep' /\ CollectivesMatch' /\ EventsWritten'
  BY DEF DriverInv, Lockstep, CollectivesMatch, EventsWritten
<1>3. \A k : ResultAt(k)' = ResultAt(k)
  BY DEF ResultAt
<1>4. History'
  <2>1. ASSUME NEW q \in Rank, NEW k, NEW kd, NEW sg, NEW iv, Follows(q, k, kd, sg, iv)
        PROVE  Follows(q, k, kd, sg, iv)'
    BY <1>3, <2>1 DEF Follows, KindAfter, SegmentAfter, IntervalsAfter, ReadsAfter,
                      KindAfterReading, Enough
  <2>2. SUFFICES ASSUME NEW q \in Rank, NEW k \in 1 .. Len(calls[q])
                 PROVE  Follows(q, k - 1, calls[q][k].kind, calls[q][k].segment,
                                calls[q][k].intervals)'
    BY DEF History
  <2>3. Follows(q, k - 1, calls[q][k].kind, calls[q][k].segment, calls[q][k].intervals)
    BY DEF DriverInv, History
  <2> QED
    BY <2>1, <2>3
<1>5. Place'
  <2>1. \A q \in Rank : Reading(q) => Reading(q)'
    BY <1>3 DEF Reading, ReadsAfter, Enough
  <2> QED
    BY <2>1 DEF DriverInv, Place, InPlace, Calling
<1> QED
  BY <1>1, <1>2, <1>4, <1>5 DEF DriverInv

\* As long as no writer fails, the driver's invariant holds.
LEMMA DriverInvariant ==
  ASSUME ~WriterMayFail
  PROVE  Spec => [](DriverInv /\ EventsWritten)
<1>1. Init => DriverInv /\ EventsWritten
  BY DriverInit
<1>2. (DriverInv /\ EventsWritten) /\ [Next]_vars => (DriverInv /\ EventsWritten)'
  <2> SUFFICES ASSUME DriverInv, EventsWritten, [Next]_vars
               PROVE  DriverInv' /\ EventsWritten'
    OBVIOUS
  <2>1. ASSUME NEW r \in Rank, Step(r) PROVE DriverInv' /\ EventsWritten'
    BY <2>1, DriverStep, EventsStep
  <2>2. CASE UNCHANGED vars
    BY <2>2, DriverStutters
  <2> QED
    BY <2>1, <2>2 DEF Next, Terminated
<1> QED
  BY <1>1, <1>2, PTL DEF Spec

(* The ranks never get out of step: the k-th collective of any two ranks    *)
(* is the same, at the same place of the trace and in the same interval,   *)
(* though every rank decides alone (Runner::processTrace).                 *)
THEOREM RanksStayInStep ==
  ASSUME ~WriterMayFail
  PROVE  Spec => []CollectivesMatch
<1>1. DriverInv /\ EventsWritten => CollectivesMatch
  BY DEF DriverInv
<1> QED
  BY <1>1, DriverInvariant, PTL

(* Every event read is written exactly once: read events are written or    *)
(* counted in events_to_read, and at the end all are written.              *)
THEOREM EverythingIsWritten ==
  ASSUME ~WriterMayFail
  PROVE  Spec => []EventsWritten
BY DriverInvariant, PTL

(* Every variable of the driver keeps its type, with and without failing   *)
(* writers; in particular the number of pending nodes of a rank, a         *)
(* difference of two node IDs, never becomes negative.                     *)
THEOREM DriverTypeCorrect == Spec => []TypeOK
<1>1. Init => Typed
  BY TypedInit
<1>2. Typed /\ [Next]_vars => Typed'
  <2>1. Typed /\ UNCHANGED vars => Typed'
    BY DEF Typed, TypeOK, vars
  <2> QED
    BY <2>1, TypedStep DEF Next, Terminated
<1>3. Typed => TypeOK
  BY DEF Typed
<1> QED
  BY <1>1, <1>2, <1>3, PTL DEF Spec

-----------------------------------------------------------------------------
(***************************************************************************)
(* What the ranks agree on: an interval ends only outside of regions, and  *)
(* the graph of a rank is cut when it is large enough.                     *)
(***************************************************************************)

\* A set of numbers with a bound has a maximum.
LEMMA MaxOfBounded ==
  ASSUME NEW V \in SUBSET Nat, V # {}, NEW b \in Nat, \A v \in V : v <= b
  PROVE  Max(V) \in V /\ \A v \in V : v <= Max(V)
<1>1. \E x \in V : \A y \in V : x >= y
  BY GreatestNat
<1>2. Max(V) \in V /\ \A v \in V : Max(V) >= v
  BY <1>1, Zenon DEF Max
<1> QED
  BY <1>2

\* The IDs of nodes are in range, and what a rank contributes is.
InRange ==
  \A r \in Rank :
    /\ Segments * lastNode[r] <= segment[r] * UINT64_MAX
    /\ \A k \in 1 .. Len(calls[r]) : calls[r][k].value <= UINT64_MAX

\* A rank contributes the maximum for the segment that ends in a region.
Contributed ==
  \A r \in Rank : \A k \in 1 .. Len(calls[r]) :
    calls[r][k].kind = "agree" =>
      /\ calls[r][k].segment <= segment[r]
      /\ open[r] /\ calls[r][k].segment = segment[r] => calls[r][k].value = UINT64_MAX

\* While it reads, a rank counts the nodes from where the graph begins, and
\* has contributed their number if it has read on without an analysis.
Cut(r) ==
  LET k == Len(calls[r]) IN
  /\ pc[r] \in {"read", "agree"} => intervalNode[r] = beginNode[r]
  /\ pc[r] \in {"read", "agree"} /\ k > 0 /\ calls[r][k].kind = "agree"
       => calls[r][k].value = PendingNodes(r, open[r], lastNode[r])
  /\ pc[r] = "read" /\ (k = 0 \/ calls[r][k].kind # "agree") => lastNode[r] = beginNode[r]

\* All ranks have agreed, with enough nodes, on the end of segment s.
AgreedOn(r, s) ==
  \E j \in 1 .. Len(calls[r]) :
    /\ calls[r][j].kind = "agree" /\ calls[r][j].segment = s
    /\ \A q \in Rank : j <= Len(calls[q])
    /\ Enough(ResultAt(j))

Analysed(r) ==
  available[r] /\ pc[r] \in {"replay", "findEnd", "detect", "findStart", "write"}
    => /\ pc[r] # "findEnd"
       /\ intervalNode[r] = lastNode[r]
       /\ AgreedOn(r, segment[r])

GraphInv == InRange /\ Contributed /\ \A r \in Rank : Cut(r) /\ Analysed(r)

LEMMA ResultIsMax ==
  ASSUME TypeOK, InRange, NEW k \in Nat \ {0}, \A q \in Rank : k <= Len(calls[q]),
         NEW r \in Rank
  PROVE  /\ calls[r][k].value <= ResultAt(k)
         /\ ResultAt(k) <= UINT64_MAX
         /\ \E q \in Rank : calls[q][k].value = ResultAt(k)
         /\ ResultAt(k) \in Nat
<1> DEFINE V == {calls[q][k].value : q \in Rank}
<1>1. \A q \in Rank : calls[q] \in Seq(Call) /\ k \in 1 .. Len(calls[q])
  BY DEF TypeOK
<1>2. \A q \in Rank : calls[q][k].value \in Nat /\ calls[q][k].value <= UINT64_MAX
  <2>1. \A q \in Rank : calls[q][k] \in Call
    BY <1>1
  <2> QED
    BY <1>1, <2>1 DEF InRange, Call
<1>3. V \in SUBSET Nat /\ V # {} /\ \A v \in V : v <= UINT64_MAX
  BY <1>2
<1>4. Max(V) \in V /\ \A v \in V : v <= Max(V)
  <2> HIDE DEF V
  <2> QED
    BY <1>3, MaxOfBounded, IntervalNodes
<1>5. ResultAt(k) = Max(V)
  BY DEF ResultAt
<1> HIDE DEF V
<1>6. ResultAt(k) \in V /\ calls[r][k].value \in V
  BY <1>4, <1>5 DEF V
<1> QED
  BY <1>2, <1>3, <1>4, <1>5, <1>6 DEF V

\* Nobody is in a region at the end of a segment that is agreed on.
LEMMA AgreedOutside ==
  ASSUME TypeOK, InRange, Contributed, CollectivesMatch, NEW r \in Rank, NEW q \in Rank,
         AgreedOn(r, segment[q])
  PROVE  ~open[q]
<1>1. PICK j \in 1 .. Len(calls[r]) :
        /\ calls[r][j].kind = "agree" /\ calls[r][j].segment = segment[q]
        /\ \A p \in Rank : j <= Len(calls[p])
        /\ Enough(ResultAt(j))
  BY DEF AgreedOn
<1>2. calls[r] \in Seq(Call) /\ calls[q] \in Seq(Call)
  BY DEF TypeOK
<1>3. j \in Nat \ {0} /\ j \in 1 .. Len(calls[q])
  BY <1>1, <1>2
<1>4. calls[q][j].kind = "agree" /\ calls[q][j].segment = segment[q]
  <2>1. j \in DOMAIN calls[r] \cap DOMAIN calls[q]
    BY <1>2, <1>3
  <2> QED
    BY <1>1, <2>1 DEF CollectivesMatch
<1>5. open[q] => calls[q][j].value = UINT64_MAX
  BY <1>3, <1>4 DEF Contributed
<1>6. /\ calls[q][j].value <= ResultAt(j) /\ ResultAt(j) <= UINT64_MAX /\ ResultAt(j) \in Nat
  BY <1>1, <1>3, ResultIsMax
<1> QED
  BY <1>1, <1>5, <1>6, IntervalNodes DEF Enough

\* What is agreed on stays agreed on.
LEMMA AgreedStays ==
  ASSUME TypeOK, calls' \in [Rank -> Seq(Call)],
         \A q \in Rank : /\ Len(calls[q]) <= Len(calls'[q])
                         /\ \A k \in 1 .. Len(calls[q]) : calls'[q][k] = calls[q][k],
         NEW r \in Rank, NEW s, AgreedOn(r, s)
  PROVE  AgreedOn(r, s)'
<1>1. PICK j \in 1 .. Len(calls[r]) :
        /\ calls[r][j].kind = "agree" /\ calls[r][j].segment = s
        /\ \A p \in Rank : j <= Len(calls[p])
        /\ Enough(ResultAt(j))
  BY DEF AgreedOn
<1>2. \A p \in Rank : Len(calls[p]) \in Nat /\ Len(calls'[p]) \in Nat
  <2>1. \A p \in Rank : calls[p] \in Seq(Call) /\ calls'[p] \in Seq(Call)
    BY DEF TypeOK
  <2> QED
    BY <2>1
<1>3. /\ j \in Nat \ {0}
      /\ \A p \in Rank : j \in 1 .. Len(calls[p]) /\ j \in 1 .. Len(calls'[p])
  BY <1>1, <1>2
<1>4. \A p \in Rank : calls'[p][j] = calls[p][j]
  BY <1>3
<1>5. ResultAt(j)' = ResultAt(j)
  BY <1>3, <1>4, ResultStays
<1>6. Enough(ResultAt(j))'
  BY <1>1, <1>5 DEF Enough
<1>7. \A p \in Rank : j <= Len(calls'[p])
  BY <1>3
<1> QED
  BY <1>1, <1>3, <1>4, <1>6, <1>7 DEF AgreedOn

\* The last call is the one that was made.
LEMMA CallAtValue ==
  ASSUME TypeOK, NEW r \in Rank, NEW kind \in Collective, NEW s \in Nat,
         NEW n \in Nat, NEW v \in Nat, CallAt(r, kind, s, n, v)
  PROVE  /\ calls'[r][Len(calls[r]) + 1].value = v
         /\ pc'[r] = kind /\ \A q \in Rank \ {r} : pc'[q] = pc[q]
<1> DEFINE c == [kind |-> kind, segment |-> s, intervals |-> n, value |-> v]
<1>1. c \in Call /\ c.value = v
  BY DEF Call
<1>2. calls[r] \in Seq(Call)
  BY DEF TypeOK
<1>3. calls'[r] = Append(calls[r], c)
  BY DEF CallAt, TypeOK
<1> HIDE DEF c
<1>4. calls'[r][Len(calls[r]) + 1] = c
  BY <1>1, <1>2, <1>3
<1> QED
  BY <1>1, <1>4 DEF CallAt, TypeOK

\* The variables of rank q that GraphInv is about.
Unmoved(q) ==
  /\ segment'[q] = segment[q] /\ open'[q] = open[q] /\ lastNode'[q] = lastNode[q]
  /\ beginNode'[q] = beginNode[q] /\ intervalNode'[q] = intervalNode[q]
  /\ available'[q] = available[q]
Still(q) == Unmoved(q) /\ calls'[q] = calls[q] /\ pc'[q] = pc[q]

\* A rank is not disturbed by what the others do.
LEMMA GraphOthers ==
  ASSUME TypeOK, calls' \in [Rank -> Seq(Call)],
         \A q \in Rank : /\ Len(calls[q]) <= Len(calls'[q])
                         /\ \A k \in 1 .. Len(calls[q]) : calls'[q][k] = calls[q][k],
         NEW q \in Rank, Still(q), Cut(q), Analysed(q)
  PROVE  Cut(q)' /\ Analysed(q)'
<1>1. Cut(q)'
  BY DEF Cut, PendingNodes, Still, Unmoved
<1>2. PICK s : s = segment[q]
  OBVIOUS
<1>3. AgreedOn(q, s) => AgreedOn(q, s)'
  BY AgreedStays
<1>4. AgreedOn(q, s)' => AgreedOn(q, segment[q])'
  BY <1>2 DEF AgreedOn, Still, Unmoved
<1>5. Analysed(q)'
  BY <1>2, <1>3, <1>4 DEF Analysed, Still, Unmoved
<1> QED
  BY <1>1, <1>5

\* A call that contributes what it should.
LEMMA GraphCall ==
  ASSUME DriverInv, GraphInv, TypeOK', NEW r \in Rank, NEW kind \in Collective,
         NEW s \in Nat, NEW n \in Nat, NEW v \in Nat, CallAt(r, kind, s, n, v),
         v <= UINT64_MAX, s = segment'[r], segment[r] <= segment'[r],
         \A q \in Rank \ {r} : Unmoved(q),
         Segments * lastNode'[r] <= segment'[r] * UINT64_MAX,
         kind = "agree" /\ open'[r] => v = UINT64_MAX,
         segment'[r] = segment[r] => open'[r] = open[r],
         Cut(r)', Analysed(r)'
  PROVE  GraphInv'
<1>1. TypeOK /\ calls' \in [Rank -> Seq(Call)]
  BY DEF DriverInv, Typed, TypeOK
<1>2. NewCall(r, kind, s, n)
  BY <1>1, CallAtCalls
<1>3. \A q \in Rank : /\ Len(calls[q]) <= Len(calls'[q])
                      /\ \A k \in 1 .. Len(calls[q]) : calls'[q][k] = calls[q][k]
  BY <1>1, <1>2, CallsStay
<1>4. /\ calls'[r][Len(calls[r]) + 1].value = v
      /\ pc'[r] = kind /\ \A q \in Rank \ {r} : pc'[q] = pc[q]
  BY <1>1, CallAtValue
<1>5. \A q \in Rank \ {r} : Still(q)
  BY <1>2, <1>4 DEF NewCall, Still
<1>6. \A q \in Rank : Cut(q)' /\ Analysed(q)'
  <2>1. \A q \in Rank \ {r} : Cut(q)' /\ Analysed(q)'
    BY <1>1, <1>3, <1>5, GraphOthers DEF GraphInv
  <2> QED
    BY <2>1
<1>7. /\ Len(calls[r]) \in Nat /\ Len(calls'[r]) = Len(calls[r]) + 1
      /\ calls'[r][Len(calls[r]) + 1].kind = kind
      /\ calls'[r][Len(calls[r]) + 1].segment = s
  BY <1>1, <1>2 DEF NewCall, TypeOK
<1>8. InRange'
  <2> SUFFICES ASSUME NEW q \in Rank
               PROVE  /\ Segments * lastNode'[q] <= segment'[q] * UINT64_MAX
                      /\ \A k \in 1 .. Len(calls'[q]) : calls'[q][k].value <= UINT64_MAX
    BY DEF InRange
  <2>1. CASE q # r
    BY <1>5, <2>1 DEF GraphInv, InRange, Still, Unmoved
  <2>2. CASE q = r
    <3>1. \A k \in 1 .. Len(calls[r]) : calls'[r][k].value <= UINT64_MAX
      BY <1>3 DEF GraphInv, InRange
    <3> QED
      BY <1>4, <1>7, <2>2, <3>1
  <2> QED
    BY <2>1, <2>2
<1>9. Contributed'
  <2> SUFFICES ASSUME NEW q \in Rank, NEW k \in 1 .. Len(calls'[q]),
                      calls'[q][k].kind = "agree"
               PROVE  /\ calls'[q][k].segment <= segment'[q]
                      /\ open'[q] /\ calls'[q][k].segment = segment'[q]
                           => calls'[q][k].value = UINT64_MAX
    BY DEF Contributed
  <2>1. CASE q # r
    BY <1>5, <2>1 DEF GraphInv, Contributed, Still, Unmoved
  <2>2. CASE q = r /\ k = Len(calls[r]) + 1
    BY <1>1, <1>4, <1>7, <2>2, SMTT(60) DEF TypeOK
  <2>3. CASE q = r /\ k # Len(calls[r]) + 1
    <3>1. k \in 1 .. Len(calls[r])
      BY <1>7, <2>3
    <3>2. calls'[r][k] = calls[r][k] /\ calls[r][k] \in Call
      <4>1. calls[r] \in Seq(Call)
        BY <1>1 DEF TypeOK
      <4>2. calls'[r][k] = calls[r][k]
        BY <1>3, <3>1
      <4> QED
        BY <3>1, <4>1, <4>2
    <3>3. /\ calls[r][k].segment <= segment[r]
          /\ open[r] /\ calls[r][k].segment = segment[r] => calls[r][k].value = UINT64_MAX
      BY <2>3, <3>1, <3>2 DEF GraphInv, Contributed
    <3>4. calls[r][k].segment \in Nat /\ segment[r] \in Nat /\ segment'[r] \in Nat
      BY <1>1, <3>2 DEF TypeOK, Call
    <3>5. calls[r][k].segment <= segment'[r]
      BY <3>3, <3>4
    <3>6. calls[r][k].segment = segment'[r] => segment'[r] = segment[r]
      BY <3>3, <3>4
    <3> QED
      BY <2>3, <3>2, <3>3, <3>5, <3>6
  <2> QED
    BY <2>1, <2>2, <2>3
<1> QED
  BY <1>6, <1>8, <1>9 DEF GraphInv

\* A step without a call, after which the rank is in place.
LEMMA GraphQuiet ==
  ASSUME TypeOK, GraphInv, NEW r \in Rank,
         UNCHANGED <<calls, segment, open, lastNode>>,
         \A q \in Rank \ {r} : Still(q),
         Cut(r)', Analysed(r)'
  PROVE  GraphInv'
<1>1. calls' \in [Rank -> Seq(Call)]
  BY DEF TypeOK
<1>2. \A q \in Rank : /\ Len(calls[q]) <= Len(calls'[q])
                      /\ \A k \in 1 .. Len(calls[q]) : calls'[q][k] = calls[q][k]
  BY <1>1 DEF TypeOK
<1>3. \A q \in Rank \ {r} : Cut(q)' /\ Analysed(q)'
  BY <1>1, <1>2, GraphOthers DEF GraphInv
<1>4. InRange' /\ Contributed'
  BY DEF GraphInv, InRange, Contributed
<1> QED
  BY <1>3, <1>4 DEF GraphInv

LEMMA GraphStep ==
  ASSUME DriverInv, GraphInv, TypeOK', ~WriterMayFail, NEW r \in Rank, Step(r)
  PROVE  GraphInv'
<1> USE DEF Collective
<1>1. /\ TypeOK /\ Typed /\ InRange /\ Contributed /\ CollectivesMatch
      /\ Cut(r) /\ Analysed(r) /\ InPlace(r)
  BY DEF DriverInv, Typed, GraphInv, Place
<1>2. /\ Segments \in Nat \ {0} /\ UINT64_MAX \in Nat /\ NodeCount \subseteq Nat
      /\ analysisInterval \in Nat
  BY IntervalSegments, IntervalNodes
<1>3. /\ Len(calls[r]) \in Nat /\ segment[r] \in Nat /\ intervals[r] \in Nat
      /\ lastNode[r] \in Nat /\ intervalNode[r] \in Nat /\ intervalNode[r] <= lastNode[r]
      /\ segment'[r] \in Nat /\ lastNode'[r] \in Nat
  BY <1>1 DEF TypeOK, Typed
<1>4. Segments * lastNode[r] <= segment[r] * UINT64_MAX
  BY <1>1 DEF InRange
\* A segment that is read.
<1>5. ASSUME NEW n \in NodeCount, lastNode' = [lastNode EXCEPT ![r] = @ + n],
             segment' = [segment EXCEPT ![r] = @ + 1], segment[r] + 1 <= Segments
      PROVE  /\ lastNode'[r] = lastNode[r] + n /\ segment'[r] = segment[r] + 1
             /\ \A q \in Rank \ {r} : lastNode'[q] = lastNode[q] /\ segment'[q] = segment[q]
             /\ Segments * lastNode'[r] <= segment'[r] * UINT64_MAX
             /\ lastNode'[r] <= UINT64_MAX
  <2>1. /\ lastNode'[r] = lastNode[r] + n /\ segment'[r] = segment[r] + 1
        /\ \A q \in Rank \ {r} : lastNode'[q] = lastNode[q] /\ segment'[q] = segment[q]
    BY <1>1, <1>5 DEF TypeOK
  <2>2. n \in Nat /\ Segments * n <= UINT64_MAX
    BY <1>2, <1>5, IntervalIds
  <2>3. Segments * (lastNode[r] + n) = Segments * lastNode[r] + Segments * n
    BY <1>2, <1>3, <2>2
  <2>4. (segment[r] + 1) * UINT64_MAX = segment[r] * UINT64_MAX + UINT64_MAX
    BY <1>2, <1>3
  <2>5. Segments * lastNode'[r] <= segment'[r] * UINT64_MAX
    <3>1. /\ Segments * lastNode[r] \in Nat /\ segment[r] * UINT64_MAX \in Nat
          /\ Segments * n \in Nat
      BY <1>2, <1>3, <2>2
    <3>2. Segments * lastNode[r] + Segments * n <= segment[r] * UINT64_MAX + UINT64_MAX
      BY <1>2, <1>4, <2>2, <3>1
    <3> QED
      BY <2>1, <2>3, <2>4, <3>2
  <2>6. segment'[r] * UINT64_MAX <= Segments * UINT64_MAX
    BY <1>2, <1>3, <1>5, <2>1
  <2>7. Segments * lastNode'[r] <= Segments * UINT64_MAX
    <3>1. PICK a, b, c \in Nat : /\ a = Segments * lastNode'[r]
                                /\ b = segment'[r] * UINT64_MAX
                                /\ c = Segments * UINT64_MAX
      BY <1>2, <1>3, SMTT(60)
    <3>2. a <= b /\ b <= c
      BY <2>5, <2>6, <3>1
    <3>3. a <= c
      BY <3>2
    <3> QED
      BY <3>1, <3>3
  <2>8. lastNode'[r] <= UINT64_MAX
    BY <1>2, <1>3, <2>7
  <2> QED
    BY <2>1, <2>5, <2>8
<1>6. CASE ReadToCollective(r)
  <2>1. PICK n \in NodeCount, o \in BOOLEAN :
          /\ lastNode' = [lastNode EXCEPT ![r] = @ + n]
          /\ open' = [open EXCEPT ![r] = o]
          /\ CallAt(r, "agree", segment[r] + 1, intervals[r],
                    PendingNodes(r, o, lastNode[r] + n))
    BY <1>6 DEF ReadToCollective
  <2>2. /\ pc[r] = "read" /\ segment[r] + 1 < Segments
        /\ segment' = [segment EXCEPT ![r] = @ + 1]
        /\ UNCHANGED <<beginNode, intervalNode, intervals, available>>
    BY <1>6 DEF ReadToCollective
  <2>3. /\ lastNode'[r] = lastNode[r] + n /\ segment'[r] = segment[r] + 1
        /\ \A q \in Rank \ {r} : lastNode'[q] = lastNode[q] /\ segment'[q] = segment[q]
        /\ Segments * lastNode'[r] <= segment'[r] * UINT64_MAX
        /\ lastNode'[r] <= UINT64_MAX
    <3>1. segment[r] + 1 <= Segments
      BY <1>2, <1>3, <2>2
    <3> QED
      BY <1>5, <2>1, <2>2, <3>1
  <2>4. open'[r] = o /\ \A q \in Rank \ {r} : open'[q] = open[q]
    BY <1>1, <2>1 DEF TypeOK
  <2>5. PICK v \in Nat : v = PendingNodes(r, o, lastNode[r] + n)
    <3>1. PendingNodes(r, o, lastNode[r] + n) \in Nat
      BY <1>2, <1>3 DEF PendingNodes
    <3> QED
      BY <3>1
  <2>6. v <= UINT64_MAX /\ (o => v = UINT64_MAX)
    BY <1>2, <1>3, <2>3, <2>5, SMTT(60) DEF PendingNodes
  <2>7. /\ calls'[r][Len(calls[r]) + 1].value = v
        /\ pc'[r] = "agree" /\ Len(calls'[r]) = Len(calls[r]) + 1
    <3>1. segment[r] + 1 \in Nat /\ intervals[r] \in Nat /\ "agree" \in Collective
      BY <1>3 DEF Collective
    <3>2. CallAt(r, "agree", segment[r] + 1, intervals[r], v)
      BY <2>1, <2>5
    <3>3. calls'[r][Len(calls[r]) + 1].value = v /\ pc'[r] = "agree"
      BY <1>1, <3>1, <3>2, CallAtValue
    <3>4. NewCall(r, "agree", segment[r] + 1, intervals[r])
      BY <1>1, <3>1, <3>2, CallAtCalls
    <3> QED
      BY <3>3, <3>4 DEF NewCall
  <2>8. Cut(r)'
    <3>1. intervalNode'[r] = beginNode'[r]
      BY <1>1, <2>2 DEF Cut
    <3>2. PendingNodes(r, open[r], lastNode[r])' = v
      BY <2>2, <2>3, <2>4, <2>5 DEF PendingNodes
    <3> QED
      BY <2>7, <3>1, <3>2 DEF Cut
  <2>9. Analysed(r)'
    BY <2>7 DEF Analysed
  <2>10. \A q \in Rank \ {r} : Unmoved(q)
    BY <2>2, <2>3, <2>4 DEF Unmoved
  <2>11. /\ segment[r] + 1 \in Nat /\ segment[r] <= segment'[r] /\ segment'[r] # segment[r]
    BY <1>3, <2>3
  <2>12. CallAt(r, "agree", segment[r] + 1, intervals[r], v)
    BY <2>1, <2>5
  <2> QED
    BY <1>3, <2>3, <2>4, <2>6, <2>8, <2>9, <2>10, <2>11, <2>12, GraphCall
<1>7. CASE ReadToEnd(r)
  <2>1. PICK n \in NodeCount : lastNode' = [lastNode EXCEPT ![r] = @ + n]
    BY <1>7 DEF ReadToEnd
  <2>2. /\ pc[r] = "read" /\ segment[r] + 1 = Segments
        /\ segment' = [segment EXCEPT ![r] = @ + 1]
        /\ open' = [open EXCEPT ![r] = FALSE]
        /\ available' = [available EXCEPT ![r] = FALSE]
        /\ CallAt(r, "replay", segment[r] + 1, intervals[r], 0)
        /\ UNCHANGED <<beginNode, intervalNode, intervals>>
    BY <1>7 DEF ReadToEnd
  <2>3. /\ lastNode'[r] = lastNode[r] + n /\ segment'[r] = segment[r] + 1
        /\ \A q \in Rank \ {r} : lastNode'[q] = lastNode[q] /\ segment'[q] = segment[q]
        /\ Segments * lastNode'[r] <= segment'[r] * UINT64_MAX
    <3>1. segment[r] + 1 <= Segments
      BY <1>2, <1>3, <2>2
    <3> QED
      BY <1>5, <2>1, <2>2, <3>1
  <2>4. /\ \A q \in Rank \ {r} : open'[q] = open[q] /\ available'[q] = available[q]
        /\ ~available'[r]
    BY <1>1, <2>2 DEF TypeOK
  <2>5. pc'[r] = "replay"
    BY <1>1, <1>3, <2>2, CallAtValue, segment[r] + 1 \in Nat
  <2>6. Cut(r)' /\ Analysed(r)'
    BY <2>4, <2>5 DEF Cut, Analysed
  <2>7. \A q \in Rank \ {r} : Unmoved(q)
    BY <2>2, <2>3, <2>4 DEF Unmoved
  <2>8. /\ segment[r] + 1 \in Nat /\ segment[r] <= segment'[r] /\ segment'[r] # segment[r]
    BY <1>3, <2>3
  <2>9. "replay" \in Collective /\ "replay" # "agree" /\ 0 \in Nat /\ 0 <= UINT64_MAX
    BY <1>2
  <2>10. segment[r] + 1 = segment'[r]
    BY <2>3
  <2> HIDE DEF Collective
  <2> QED
    BY <1>3, <2>2, <2>3, <2>6, <2>7, <2>8, <2>9, <2>10, GraphCall
<1>8. CASE KeepReading(r)
  <2>1. /\ Complete(r, "agree") /\ pc' = [pc EXCEPT ![r] = "read"]
        /\ UNCHANGED <<calls, segment, open, lastNode, beginNode, intervalNode, available>>
    BY <1>8 DEF KeepReading, reading
  <2>2. pc'[r] = "read" /\ \A q \in Rank \ {r} : pc'[q] = pc[q]
    BY <1>1, <2>1 DEF TypeOK
  <2>3. Len(calls[r]) > 0 /\ calls[r][Len(calls[r])].kind = "agree" /\ pc[r] = "agree"
    BY <1>1, <2>1 DEF Complete, InPlace, Calling
  <2>4. PendingNodes(r, open[r], lastNode[r])' = PendingNodes(r, open[r], lastNode[r])
    BY <2>1 DEF PendingNodes
  <2>5. Cut(r)'
    BY <1>1, <1>3, <2>1, <2>2, <2>3, <2>4 DEF Cut
  <2>6. Analysed(r)'
    BY <2>2 DEF Analysed
  <2>7. \A q \in Rank \ {r} : Still(q)
    BY <2>1, <2>2 DEF Still, Unmoved
  <2> QED
    BY <1>1, <2>1, <2>5, <2>6, <2>7, GraphQuiet
<1>9. CASE StartAnalysis(r)
  <2>1. /\ Complete(r, "agree") /\ Enough(ResultAt(Len(calls[r])))
        /\ CallAt(r, "replay", segment[r], intervals[r] + 1, 0)
        /\ intervalNode' = [intervalNode EXCEPT ![r] = IF open[r] THEN 0 ELSE lastNode[r]]
        /\ UNCHANGED <<segment, open, lastNode, beginNode, available>>
    BY <1>9 DEF StartAnalysis, Result, ResultAt, reading
  <2>2. pc'[r] = "replay"
    BY <1>1, <1>3, <2>1, CallAtValue, intervals[r] + 1 \in Nat
  <2>3. AgreedOn(r, segment[r])
    <3>1. /\ calls[r][Len(calls[r])].kind = "agree"
          /\ calls[r][Len(calls[r])].segment = segment[r]
          /\ Len(calls[r]) \in 1 .. Len(calls[r])
      BY <1>1, <1>3, <2>1 DEF Complete, InPlace, Calling
    <3>2. \A q \in Rank : Len(calls[r]) <= Len(calls[q])
      BY <2>1 DEF Complete
    <3> QED
      BY <2>1, <3>1, <3>2 DEF AgreedOn
  <2>4. ~open[r]
    BY <1>1, <2>3, AgreedOutside
  <2>5. intervalNode'[r] = lastNode[r] /\ \A q \in Rank \ {r} : intervalNode'[q] = intervalNode[q]
    BY <1>1, <2>1, <2>4 DEF TypeOK
  <2>6. PICK s : s = segment[r] /\ s = segment'[r]
    BY <2>1
  <2>7. NewCall(r, "replay", segment[r], intervals[r] + 1) /\ calls' \in [Rank -> Seq(Call)]
    BY <1>1, <1>3, <2>1, CallAtCalls, intervals[r] + 1 \in Nat
  <2>8. AgreedOn(r, s)'
    BY <1>1, <2>3, <2>6, <2>7, CallsStay, AgreedStays
  <2>9. Analysed(r)'
    BY <2>1, <2>2, <2>5, <2>6, <2>8 DEF Analysed, AgreedOn
  <2>10. Cut(r)'
    BY <2>2 DEF Cut
  <2>11. \A q \in Rank \ {r} : Unmoved(q)
    BY <2>1, <2>5 DEF Unmoved
  <2>12. /\ intervals[r] + 1 \in Nat /\ segment[r] <= segment'[r]
         /\ Segments * lastNode'[r] <= segment'[r] * UINT64_MAX
    BY <1>3, <1>4, <2>1
  <2>13. "replay" \in Collective /\ "replay" # "agree" /\ 0 \in Nat /\ 0 <= UINT64_MAX
    BY <1>2
  <2>14. segment[r] = segment'[r] /\ open'[r] = open[r]
    BY <2>1
  <2> HIDE DEF Collective
  <2> QED
    BY <1>3, <2>1, <2>9, <2>10, <2>11, <2>12, <2>13, <2>14, GraphCall
\* A call within the analysis of an interval, or the one for the summary.
<1>10. ASSUME NEW kind \in Collective \ {"agree"}, CallAt(r, kind, segment[r], intervals[r], 0),
              UNCHANGED <<segment, open, lastNode, beginNode, intervalNode>>,
              \A q \in Rank \ {r} : available'[q] = available[q],
              available'[r] => /\ available[r] /\ kind # "findEnd"
                               /\ pc[r] \in {"replay", "findEnd", "detect", "findStart", "write"}
       PROVE  GraphInv'
  <2>1. pc'[r] = kind
    BY <1>1, <1>3, <1>10, CallAtValue
  <2>2. NewCall(r, kind, segment[r], intervals[r]) /\ calls' \in [Rank -> Seq(Call)]
    BY <1>1, <1>3, <1>10, CallAtCalls
  <2>3. PICK s : s = segment[r] /\ s = segment'[r]
    BY <1>10
  <2>4. AgreedOn(r, s) => AgreedOn(r, s)'
    BY <1>1, <2>2, CallsStay, AgreedStays
  <2>5. Analysed(r)'
    <3> SUFFICES ASSUME available'[r]
                 PROVE  /\ pc'[r] # "findEnd" /\ intervalNode'[r] = lastNode'[r]
                        /\ AgreedOn(r, segment[r])'
      BY DEF Analysed
    <3>1. intervalNode[r] = lastNode[r] /\ AgreedOn(r, segment[r])
      BY <1>1, <1>10 DEF Analysed
    <3> QED
      BY <1>10, <2>1, <2>3, <2>4, <3>1 DEF AgreedOn
  <2>6. Cut(r)'
    BY <1>10, <2>1 DEF Cut
  <2>7. \A q \in Rank \ {r} : Unmoved(q)
    BY <1>10 DEF Unmoved
  <2>8. segment[r] <= segment'[r] /\ Segments * lastNode'[r] <= segment'[r] * UINT64_MAX
    BY <1>3, <1>4, <1>10
  <2> QED
    BY <1>2, <1>3, <1>10, <2>5, <2>6, <2>7, <2>8, GraphCall
<1>11. CASE Replayed(r)
  BY <1>10, <1>11 DEF Replayed, Analysing, Enter, Complete, lastInterval, reading
<1>12. CASE EndFound(r)
  BY <1>10, <1>12 DEF EndFound, Analysing, Enter, Complete, reading
<1>13. CASE Detected(r)
  BY <1>10, <1>13 DEF Detected, Analysing, Enter, Complete, reading
<1>14. CASE StartFound(r)
  BY <1>10, <1>14 DEF StartFound, Analysing, Enter, Complete, reading
<1>15. CASE createIntermediateBegin(r)
  <2>1. /\ Complete(r, "write") /\ available[r]
        /\ pc' = [pc EXCEPT ![r] = "read"]
        /\ beginNode' = [beginNode EXCEPT ![r] = lastNode[r]]
        /\ UNCHANGED <<calls, segment, open, lastNode, intervalNode, available>>
    BY <1>15 DEF createIntermediateBegin, reading
  <2>2. pc'[r] = "read" /\ \A q \in Rank \ {r} : pc'[q] = pc[q]
    BY <1>1, <2>1 DEF TypeOK
  <2>3. beginNode'[r] = lastNode[r] /\ \A q \in Rank \ {r} : beginNode'[q] = beginNode[q]
    BY <1>1, <2>1 DEF TypeOK
  <2>4. calls[r][Len(calls[r])].kind = "write" /\ pc[r] = "write"
    BY <1>1, <2>1 DEF Complete, InPlace, Calling
  <2>5. intervalNode[r] = lastNode[r]
    BY <1>1, <2>1, <2>4 DEF Analysed
  <2>6. Cut(r)'
    BY <2>1, <2>2, <2>3, <2>4, <2>5 DEF Cut
  <2>7. Analysed(r)'
    BY <2>2 DEF Analysed
  <2>8. \A q \in Rank \ {r} : Still(q)
    BY <2>1, <2>2, <2>3 DEF Still, Unmoved
  <2> QED
    BY <1>1, <2>1, <2>6, <2>7, <2>8, GraphQuiet
<1>16. CASE LeaveLoop(r)
  <2>1. /\ CallAt(r, "summary", segment[r], intervals[r], 0)
        /\ available' = [available EXCEPT ![r] = FALSE]
        /\ UNCHANGED <<segment, open, lastNode, beginNode, intervalNode>>
    BY <1>16 DEF LeaveLoop, Enter, reading
  <2>2. ~available'[r] /\ \A q \in Rank \ {r} : available'[q] = available[q]
    BY <1>1, <2>1 DEF TypeOK
  <2> QED
    BY <1>10, <2>1, <2>2
<1>17. CASE Summarise(r)
  <2>1. /\ pc' = [pc EXCEPT ![r] = "finished"]
        /\ UNCHANGED <<calls, segment, open, lastNode, beginNode, intervalNode, available>>
    BY <1>17 DEF Summarise, reading
  <2>2. pc'[r] = "finished" /\ \A q \in Rank \ {r} : pc'[q] = pc[q]
    BY <1>1, <2>1 DEF TypeOK
  <2>3. Cut(r)' /\ Analysed(r)'
    BY <2>2 DEF Cut, Analysed
  <2>4. \A q \in Rank \ {r} : Still(q)
    BY <2>1, <2>2 DEF Still, Unmoved
  <2> QED
    BY <1>1, <2>1, <2>3, <2>4, GraphQuiet
<1> QED
  BY <1>6, <1>7, <1>8, <1>9, <1>11, <1>12, <1>13, <1>14, <1>15, <1>16, <1>17 DEF Step

LEMMA GraphInit == Init => GraphInv
<1> SUFFICES ASSUME Init PROVE GraphInv
  OBVIOUS
<1>1. \A r \in Rank : /\ Len(calls[r]) = 0 /\ pc[r] = "read" /\ lastNode[r] = 0
                      /\ beginNode[r] = 0 /\ intervalNode[r] = 0 /\ segment[r] = 0
  BY DEF Init
<1>2. InRange
  BY <1>1, IntervalSegments, IntervalNodes DEF InRange
<1>3. Contributed
  BY <1>1 DEF Contributed
<1> QED
  BY <1>1, <1>2, <1>3 DEF GraphInv, Cut, Analysed

LEMMA GraphStutters ==
  ASSUME TypeOK, GraphInv, UNCHANGED vars
  PROVE  GraphInv'
<1>1. UNCHANGED <<calls, segment, open, lastNode>> /\ \A q \in Rank : Still(q)
  BY DEF vars, Still, Unmoved
<1>2. calls' \in [Rank -> Seq(Call)]
  BY <1>1 DEF TypeOK
<1>3. \A q \in Rank : /\ Len(calls[q]) <= Len(calls'[q])
                      /\ \A k \in 1 .. Len(calls[q]) : calls'[q][k] = calls[q][k]
  BY <1>1, <1>2 DEF TypeOK
<1>4. \A q \in Rank : Cut(q)' /\ Analysed(q)'
  BY <1>1, <1>2, <1>3, GraphOthers DEF GraphInv
<1>5. InRange' /\ Contributed'
  BY <1>1 DEF GraphInv, InRange, Contributed
<1> QED
  BY <1>4, <1>5 DEF GraphInv

LEMMA GraphInvariant ==
  ASSUME ~WriterMayFail
  PROVE  Spec => [](DriverInv /\ GraphInv)
<1>1. GraphInv /\ DriverInv /\ [Next]_vars /\ TypeOK' => GraphInv'
  <2> SUFFICES ASSUME GraphInv, DriverInv, [Next]_vars, TypeOK' PROVE GraphInv'
    OBVIOUS
  <2>1. CASE UNCHANGED vars
    BY <2>1, GraphStutters DEF DriverInv, Typed
  <2>2. ASSUME NEW r \in Rank, Step(r) PROVE GraphInv'
    BY <2>2, GraphStep
  <2> QED
    BY <2>1, <2>2 DEF Next, Terminated
<1> QED
  BY <1>1, GraphInit, DriverInvariant, DriverTypeCorrect, PTL DEF Spec

(* An interval never ends while a rank is inside a parallel region or has  *)
(* a kernel pending: such a rank contributes the maximum, and with it the  *)
(* maximum over all ranks is the one value that is not enough              *)
(* (Runner.cpp:288).                                                       *)
THEOREM IntervalsEndOutside ==
  ASSUME ~WriterMayFail
  PROVE  Spec => []OutsideRegions
<1>1. DriverInv /\ GraphInv => OutsideRegions
  <2> SUFFICES ASSUME DriverInv, GraphInv, NEW r \in Rank, NEW q \in Rank, available[r],
                      pc[r] \in {"replay", "detect", "findStart", "write"},
                      segment[q] = segment[r]
               PROVE  ~open[q]
    BY DEF OutsideRegions
  <2>1. AgreedOn(r, segment[q])
    BY DEF GraphInv, Analysed
  <2> QED
    BY <2>1, AgreedOutside DEF DriverInv, Typed, GraphInv
<1> QED
  BY <1>1, GraphInvariant, PTL

(* A rank reads on with more nodes in its graph than suffice only if some  *)
(* rank was in a region at the last collective: the count of pending nodes *)
(* always starts where the graph does, so nothing is counted twice and no  *)
(* node escapes the count.                                                 *)
THEOREM NoBacklogIsKept ==
  ASSUME ~WriterMayFail
  PROVE  Spec => []NoBacklog
<1>1. DriverInv /\ GraphInv => NoBacklog
  <2> SUFFICES ASSUME DriverInv, GraphInv, NEW r \in Rank, pc[r] = "read",
                      lastNode[r] - beginNode[r] > analysisInterval
               PROVE  \E q \in Rank : calls[q][Len(calls[r])].value = UINT64_MAX
    BY DEF NoBacklog
  <2>1. PICK k \in Nat : k = Len(calls[r])
    BY DEF DriverInv, Typed, TypeOK
  <2>2. /\ lastNode[r] \in Nat /\ beginNode[r] \in Nat /\ analysisInterval \in Nat
        /\ UINT64_MAX \in Nat
    BY IntervalNodes DEF DriverInv, Typed, TypeOK
  <2>3. Cut(r) /\ Reading(r)
    BY DEF GraphInv, DriverInv, Place, InPlace
  <2>4. k > 0 /\ calls[r][k].kind = "agree"
    BY <2>1, <2>2, <2>3 DEF Cut
  <2>5. ~Enough(ResultAt(k)) /\ \A q \in Rank : k <= Len(calls[q])
    BY <2>1, <2>3, <2>4 DEF Reading, ReadsAfter
  <2>6. /\ calls[r][k].value <= ResultAt(k) /\ ResultAt(k) <= UINT64_MAX
        /\ ResultAt(k) \in Nat
        /\ \E q \in Rank : calls[q][k].value = ResultAt(k)
    BY <2>4, <2>5, ResultIsMax DEF DriverInv, Typed, GraphInv
  <2>7. calls[r][k].value = PendingNodes(r, open[r], lastNode[r])
    BY <2>1, <2>3, <2>4 DEF Cut
  <2>8. open[r] => calls[r][k].value = UINT64_MAX
    BY <2>7 DEF PendingNodes
  <2>9. ~open[r] => calls[r][k].value = lastNode[r] - beginNode[r]
    BY <2>3, <2>7 DEF Cut, PendingNodes
  <2>10. ResultAt(k) = UINT64_MAX
    BY <2>2, <2>5, <2>6, <2>8, <2>9 DEF Enough
  <2> QED
    BY <2>1, <2>6, <2>10
<1> QED
  BY <1>1, GraphInvariant, PTL
=============================================================================
