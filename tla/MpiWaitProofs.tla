---------------------------- MODULE MpiWaitProofs ----------------------------
(***************************************************************************)
(* Proofs about what the replay concludes: every wait state names the      *)
(* activity its communication was with and is no longer than the activity, *)
(* blocking calls do not wait for each other in a circle, and whoever came *)
(* late is blamed for what the others waited.                              *)
(***************************************************************************)
EXTENDS MpiReplayProofs

-----------------------------------------------------------------------------
(***************************************************************************)
(* What a wait state says.                                                 *)
(***************************************************************************)

\* The one of a collective that the others are said to have waited for.
LastOf(n) ==
  \A q \in Rank : \A j \in Activity(q) : SameCollective(program, n.rank, n.act, q, j) =>
    \/ time[q][j].enter < time[n.rank][n.act].enter
    \/ time[q][j].enter = time[n.rank][n.act].enter /\ n.rank <= q

\* Activity i of rank r may be said to have waited for n.
Cause(r, i, n) ==
  LET my == time[r][i]
      its == time[n.rank][n.act]
  IN
  /\ n.rank \in Rank \ {r} /\ n.act \in Activity(n.rank)
  /\ \E a \in With(r, i), b \in With(n.rank, n.act) : Communicates(r, a, n.rank, b)
  /\ my.enter < its.leave
  /\ program[r][i].kind \notin {"self", "test", "testall", "isend", "irecv"}
  /\ program[r][i].kind \in {"send", "recv", "sendrecv"}
       => my.enter < its.enter /\ its.enter < my.leave
  /\ program[r][i].kind = "collective"
       => /\ SameCollective(program, r, i, n.rank, n.act) /\ LastOf(n)
          /\ my.enter <= its.enter /\ its.enter < my.leave

\* What has been concluded so far.
Findings ==
  /\ remoteNode = [r \in Rank |-> remoteNode[r]]
  /\ waiting = [r \in Rank |-> waiting[r]]
  /\ \A r \in Rank : \A i \in DOMAIN remoteNode[r] :
       i \in Activity(r) /\ Cause(r, i, remoteNode[r][i])
  /\ \A r \in Rank :
       /\ waiting[r] \in [Activity(r) -> Int]
       /\ \A i \in Activity(r) : waiting[r][i] <= time[r][i].leave - time[r][i].enter

LEMMA TimesOfActivity ==
  ASSUME Measured, NEW r \in Rank, NEW i \in Activity(r)
  PROVE  /\ time[r][i].enter \in Nat /\ time[r][i].leave \in Nat
         /\ time[r][i].enter < time[r][i].leave
BY DEF Measured, ValidTiming

\* The conclusion about activity i of rank r is sound.
Sound(r, i, outcome) ==
  /\ outcome.waiting \in Int /\ outcome.waiting <= time[r][i].leave - time[r][i].enter
  /\ \A n \in outcome.remote : Cause(r, i, n)

LEMMA CausesStay ==
  ASSUME UNCHANGED trace, NEW r, NEW i, NEW n
  PROVE  Cause(r, i, n)' <=> Cause(r, i, n)
<1>1. program' = program /\ time' = time
  BY DEF trace
<1>2. With(r, i)' = With(r, i) /\ With(n.rank, n.act)' = With(n.rank, n.act)
  BY <1>1 DEF With
<1>3. LastOf(n)' <=> LastOf(n)
  BY <1>1 DEF LastOf
<1> QED
  BY <1>1, <1>2, <1>3 DEF Cause, Communicates

LEMMA FindingsKept ==
  ASSUME Findings, Measured, UNCHANGED trace, NEW r \in Rank, pos[r] \in Activity(r), NEW o,
         Conclude(r, o), Sound(r, pos[r], o)
  PROVE  Findings'
<1>1. PICK i \in Activity(r) : i = pos[r]
  OBVIOUS
<1>2. program' = program /\ time' = time
  BY DEF trace
<1>3. waiting' = [waiting EXCEPT ![r][i] = o.waiting]
  BY <1>1 DEF Conclude
<1>4. /\ waiting' = [q \in Rank |-> waiting'[q]]
      /\ waiting'[r] = [waiting[r] EXCEPT ![i] = o.waiting]
      /\ \A q \in Rank \ {r} : waiting'[q] = waiting[q]
  BY <1>3 DEF Findings
<1>5. ASSUME NEW q \in Rank
      PROVE  /\ waiting'[q] \in [Activity(q) -> Int]
             /\ \A j \in Activity(q) : waiting'[q][j] <= time[q][j].leave - time[q][j].enter
  <2>1. CASE q # r
    BY <1>4, <2>1 DEF Findings
  <2>2. CASE q = r
    <3>1. /\ waiting[r] \in [Activity(r) -> Int] /\ o.waiting \in Int
          /\ \A j \in Activity(r) : waiting[r][j] <= time[r][j].leave - time[r][j].enter
          /\ o.waiting <= time[r][i].leave - time[r][i].enter
      BY <1>1 DEF Findings, Sound
    <3> QED
      BY <1>4, <2>2, <3>1
  <2> QED
    BY <2>1, <2>2
<1>6. /\ remoteNode' = [q \in Rank |-> remoteNode'[q]]
      /\ \A q \in Rank : \A j \in DOMAIN remoteNode'[q] :
           j \in Activity(q) /\ Cause(q, j, remoteNode'[q][j])
  <2>1. CASE o.remote = {}
    BY <2>1 DEF Conclude, Findings
  <2>2. CASE o.remote # {}
    <3>1. PICK n \in o.remote : n = CHOOSE x \in o.remote : TRUE
      BY <2>2
    <3>2. PICK f : f = PutNode(remoteNode[r], i, n)
      OBVIOUS
    <3>3. remoteNode' = [remoteNode EXCEPT ![r] = f]
      BY <1>1, <2>2, <3>1, <3>2 DEF Conclude
    <3>4. /\ DOMAIN f = {i} \cup DOMAIN remoteNode[r]
          /\ \A j \in DOMAIN f : f[j] = IF j = i THEN n ELSE remoteNode[r][j]
      BY <3>2 DEF PutNode
    <3>5. /\ remoteNode' = [q \in Rank |-> remoteNode'[q]]
          /\ remoteNode'[r] = f
          /\ \A q \in Rank \ {r} : remoteNode'[q] = remoteNode[q]
      BY <3>3 DEF Findings
    <3>6. Cause(r, i, n)
      BY <1>1, <3>1 DEF Sound
    <3>7. \A q \in Rank : \A j \in DOMAIN remoteNode[q] :
            j \in Activity(q) /\ Cause(q, j, remoteNode[q][j])
      BY DEF Findings
    <3> QED
      BY <3>4, <3>5, <3>6, <3>7
  <2> QED
    BY <2>1, <2>2
<1>7. ASSUME NEW q \in Rank, NEW j \in DOMAIN remoteNode'[q]
      PROVE  Cause(q, j, remoteNode[q][j])'
  <2>1. PICK m : m = remoteNode'[q][j]
    OBVIOUS
  <2>2. Cause(q, j, m)
    BY <1>6, <2>1
  <2>3. Cause(q, j, m)'
    BY <2>2, CausesStay
  <2> QED
    BY <2>1, <2>3
<1>8. \A q \in Rank : \A j \in DOMAIN remoteNode'[q] : j \in Activity(q)
  BY <1>6
<1>9. remoteNode' = [q \in Rank |-> remoteNode'[q]]
  BY <1>6
<1> QED
  BY <1>2, <1>4, <1>5, <1>7, <1>8, <1>9 DEF Findings

-----------------------------------------------------------------------------
(***************************************************************************)
(* Each rule concludes soundly from the letter of the partner it is about. *)
(***************************************************************************)
\* m carries the times of the activity with which rank q takes part in the
\* communication of activity i of rank r.
Letter(r, i, q, m) ==
  /\ q \in Rank \ {r}
  /\ m.act \in Activity(q)
  /\ m.start = time[q][m.act].enter /\ m.end = time[q][m.act].leave
  /\ \E b \in With(q, m.act) : Communicates(r, i, q, b)

LEMMA LetterCause ==
  ASSUME Measured, NEW r \in Rank, NEW i \in Activity(r), NEW a \in With(r, i), NEW q, NEW m,
         Letter(r, a, q, m), time[r][i].enter < m.end,
         \/ program[r][i].kind \in {"wait", "waitall"}
         \/ /\ program[r][i].kind \in {"send", "recv", "sendrecv"}
            /\ time[r][i].enter < m.start /\ m.start < time[r][i].leave
  PROVE  Cause(r, i, [rank |-> q, act |-> m.act])
BY DEF Letter, Cause

LEMMA LetterTimes ==
  ASSUME Measured, NEW r, NEW i, NEW q, NEW m, Letter(r, i, q, m)
  PROVE  m.start \in Nat /\ m.end \in Nat /\ m.start < m.end
BY TimesOfActivity DEF Letter

LEMMA SoundNothing ==
  ASSUME Measured, NEW r \in Rank, NEW i \in Activity(r), NEW b
  PROVE  Sound(r, i, Nothing) /\ Sound(r, i, Blame(b))
<1>1. 0 <= time[r][i].leave - time[r][i].enter
  BY TimesOfActivity
<1>2. /\ Nothing.remote = {} /\ Nothing.waiting = 0
      /\ Blame(b).remote = {} /\ Blame(b).waiting = 0
  BY DEF Nothing, Blame
<1> QED
  BY <1>1, <1>2 DEF Sound

LEMMA SoundWaitsFor ==
  ASSUME NEW r \in Rank, NEW i \in Activity(r), NEW q, NEW act, NEW w \in Int,
         w <= time[r][i].leave - time[r][i].enter, Cause(r, i, [rank |-> q, act |-> act])
  PROVE  Sound(r, i, WaitsFor(q, act, w))
BY DEF Sound, WaitsFor

LEMMA SoundSend ==
  ASSUME Measured, NEW r \in Rank, NEW i \in Activity(r), NEW q, NEW m,
         program[r][i].kind = "send", Letter(r, i, q, m)
  PROVE  Sound(r, i, SendOutcome(time[r][i], q, m))
<1> DEFINE my == time[r][i]
<1>1. my.enter \in Nat /\ my.leave \in Nat /\ m.start \in Nat /\ m.end \in Nat /\ m.start < m.end
  BY TimesOfActivity, LetterTimes
<1>2. CASE my.enter < m.start /\ m.start < my.leave
  <2>1. i \in With(r, i)
    BY DEF With
  <2>2. Cause(r, i, [rank |-> q, act |-> m.act])
    BY <1>1, <1>2, <2>1, LetterCause
  <2>3. Sound(r, i, WaitsFor(q, m.act, m.start - my.enter))
    BY <1>1, <1>2, <2>2, SoundWaitsFor
  <2> QED
    BY <1>2, <2>3, SoundNothing DEF SendOutcome
<1>3. CASE ~(my.enter < m.start /\ m.start < my.leave)
  BY <1>3, SoundNothing DEF SendOutcome
<1> QED
  BY <1>2, <1>3

LEMMA SoundRecv ==
  ASSUME Measured, NEW r \in Rank, NEW i \in Activity(r), NEW q, NEW m,
         program[r][i].kind \in {"recv", "sendrecv"}, Letter(r, i, q, m),
         m.start < time[r][i].leave
  PROVE  Sound(r, i, RecvOutcome(time[r][i], q, m))
<1> DEFINE my == time[r][i]
<1>1. my.enter \in Nat /\ my.leave \in Nat /\ m.start \in Nat /\ m.end \in Nat /\ m.start < m.end
  BY TimesOfActivity, LetterTimes
<1>2. CASE my.enter < m.start
  <2>1. i \in With(r, i)
    BY DEF With
  <2>2. Cause(r, i, [rank |-> q, act |-> m.act])
    BY <1>1, <1>2, <2>1, LetterCause
  <2>3. Sound(r, i, WaitsFor(q, m.act, m.start - my.enter))
    BY <1>1, <1>2, <2>2, SoundWaitsFor
  <2> QED
    BY <1>2, <2>3 DEF RecvOutcome
<1>3. CASE ~(my.enter < m.start)
  BY <1>3, SoundNothing DEF RecvOutcome
<1> QED
  BY <1>2, <1>3

LEMMA SoundSendrecv ==
  ASSUME Measured, NEW r \in Rank, NEW i \in Activity(r), NEW s, NEW in, NEW d, NEW out,
         program[r][i].kind = "sendrecv", Letter(r, i, s, in), Letter(r, i, d, out),
         in.start < time[r][i].leave
  PROVE  Sound(r, i, SendrecvOutcome(time[r][i], s, in, d, out))
<1> DEFINE my == time[r][i]
<1>1. /\ my.enter \in Nat /\ my.leave \in Nat
      /\ in.start \in Nat /\ in.end \in Nat /\ in.start < in.end
      /\ out.start \in Nat /\ out.end \in Nat /\ out.start < out.end
  BY TimesOfActivity, LetterTimes
<1>2. ASSUME NEW q, NEW m, Letter(r, i, q, m), my.enter < m.start, m.start < my.leave,
             m.start \in Nat, m.end \in Nat, m.start < m.end
      PROVE  Sound(r, i, WaitsFor(q, m.act, Min2(m.start, my.leave) - my.enter))
  <2>1. i \in With(r, i)
    BY DEF With
  <2>2. Cause(r, i, [rank |-> q, act |-> m.act])
    BY <1>1, <1>2, <2>1, LetterCause
  <2>3. Min2(m.start, my.leave) - my.enter \in Int
        /\ Min2(m.start, my.leave) - my.enter <= my.leave - my.enter
    BY <1>1, <1>2 DEF Min2
  <2> QED
    BY <2>2, <2>3, SoundWaitsFor
<1>3. my.enter < in.start =>
        Sound(r, i, WaitsFor(s, in.act, Min2(in.start, my.leave) - my.enter))
  BY <1>1, <1>2
<1>4. my.enter < out.start /\ out.start < my.leave =>
        Sound(r, i, WaitsFor(d, out.act, Min2(out.start, my.leave) - my.enter))
  BY <1>1, <1>2
<1> QED
  BY <1>3, <1>4, SoundNothing DEF SendrecvOutcome

LEMMA SoundWait ==
  ASSUME Measured, NEW r \in Rank, NEW i \in Activity(r), NEW a \in With(r, i), NEW q, NEW m,
         program[r][i].kind = "wait", Letter(r, a, q, m)
  PROVE  Sound(r, i, WaitOutcome(time[r][i], q, m))
<1> DEFINE my == time[r][i]
<1>1. my.enter \in Nat /\ my.leave \in Nat /\ m.start \in Nat /\ m.end \in Nat /\ m.start < m.end
  BY TimesOfActivity, LetterTimes
<1>2. PICK w \in Nat : /\ w = IF m.type \in {"SEND", "RECV", "SENDRECV"} THEN m.start ELSE m.end
                       /\ w <= m.end
  BY <1>1
<1>3. CASE my.enter < w
  <2>1. Cause(r, i, [rank |-> q, act |-> m.act])
    BY <1>1, <1>2, <1>3, LetterCause
  <2>2. Min2(w, my.leave) - my.enter \in Int
        /\ Min2(w, my.leave) - my.enter <= my.leave - my.enter
    BY <1>1, <1>2 DEF Min2
  <2>3. Sound(r, i, WaitsFor(q, m.act, Min2(w, my.leave) - my.enter))
    BY <2>1, <2>2, SoundWaitsFor
  <2> QED
    BY <1>2, <1>3, <2>3 DEF WaitOutcome
<1>4. CASE ~(my.enter < w)
  BY <1>2, <1>4, SoundNothing DEF WaitOutcome
<1> QED
  BY <1>3, <1>4

LEMMA SoundWaitall ==
  ASSUME Measured, NEW r \in Rank, NEW i \in Activity(r), program[r][i].kind = "waitall",
         NEW partners, NEW ms, NEW length \in Nat, DOMAIN ms = 1 .. length,
         \A k \in DOMAIN ms : \E a \in With(r, i) : Letter(r, a, partners[k], ms[k])
  PROVE  Sound(r, i, WaitallOutcome(time[r][i], partners, ms))
<1> DEFINE my == time[r][i]
<1>1. ASSUME NEW k \in Superseding(my, ms)
      PROVE  Sound(r, i, WaitsFor(partners[k], ms[k].act, Min2(ms[k].end, my.leave) - my.enter))
  <2>1. k \in DOMAIN ms /\ my.enter < ms[k].end
    BY DEF Superseding
  <2>2. PICK a \in With(r, i) : Letter(r, a, partners[k], ms[k])
    BY <2>1
  <2>3. PICK q, m : q = partners[k] /\ m = ms[k]
    OBVIOUS
  <2>4. my.enter \in Nat /\ my.leave \in Nat /\ m.start \in Nat /\ m.end \in Nat /\ m.start < m.end
    BY <2>2, <2>3, TimesOfActivity, LetterTimes
  <2>5. Cause(r, i, [rank |-> q, act |-> m.act])
    BY <2>1, <2>2, <2>3, LetterCause
  <2>6. Min2(m.end, my.leave) - my.enter \in Int
        /\ Min2(m.end, my.leave) - my.enter <= my.leave - my.enter
    BY <2>4 DEF Min2
  <2> QED
    BY <2>3, <2>5, <2>6, SoundWaitsFor
<1>2. CASE Superseding(my, ms) = {}
  BY <1>2, SoundNothing DEF WaitallOutcome
<1>3. CASE Superseding(my, ms) # {}
  <2> DEFINE k == CHOOSE k \in Superseding(my, ms) : \A j \in Superseding(my, ms) : j <= k
  <2>1. Superseding(my, ms) \in SUBSET Nat /\ \A j \in Superseding(my, ms) : j <= length
    BY DEF Superseding
  <2>2. \E j \in Superseding(my, ms) : \A h \in Superseding(my, ms) : h <= j
    BY <1>3, <2>1, GreatestNat
  <2>3. k \in Superseding(my, ms)
    BY <2>2
  <2> QED
    BY <1>1, <1>3, <2>3 DEF WaitallOutcome
<1> QED
  BY <1>2, <1>3

LEMMA SameCollectiveFacts ==
  ASSUME NEW p, NEW r \in Rank, NEW i, NEW q \in Rank, NEW j, SameCollective(p, r, i, q, j)
  PROVE  /\ i \in Activity(r) /\ j \in Activity(q)
         /\ p[r][i].kind = "collective" /\ p[q][j].kind = "collective"
         /\ SameCollective(p, q, j, r, i)
         /\ \A k : SameCollective(p, r, i, q, k) => k = j
         /\ \A o \in Rank : \A k : SameCollective(p, q, j, o, k) => SameCollective(p, r, i, o, k)
<1>1. /\ i \in Activity(r) /\ j \in Activity(q)
      /\ p[r][i].kind = "collective" /\ p[q][j].kind = "collective"
      /\ SameCollective(p, q, j, r, i)
      /\ \A o \in Rank : \A k : SameCollective(p, q, j, o, k) => SameCollective(p, r, i, o, k)
  BY DEF SameCollective, Collectives
<1>2. ASSUME NEW k, SameCollective(p, r, i, q, k) PROVE k = j
  <2>1. PICK b \in Nat : b = LastActivity[q]
    BY ActivityNumbers
  <2>2. PICK S \in SUBSET (0 .. b) : S = Collectives(p, q)
    BY <2>1 DEF Collectives, Activity
  <2>3. j \in S /\ k \in S /\ Position(S, k) = Position(S, j)
    BY <1>2, <2>2 DEF SameCollective
  <2> QED
    BY <2>3, PositionsDiffer
<1> QED
  BY <1>1, <1>2

\* The last one of a collective is well defined.
LEMMA LastEnterIsLast ==
  ASSUME NEW enter \in [Rank -> Nat], NEW b \in Nat, \A q \in Rank : enter[q] <= b
  PROVE  /\ LastEnter(enter) \in Rank
         /\ \A o \in Rank : \/ enter[o] < enter[LastEnter(enter)]
                            \/ enter[o] = enter[LastEnter(enter)] /\ LastEnter(enter) <= o
<1> DEFINE V == {enter[q] : q \in Rank}
<1>1. V \in SUBSET Nat /\ V # {} /\ \A v \in V : v <= b
  BY RankIsNatural
<1>2. PICK v \in V : \A w \in V : w <= v
  BY <1>1, GreatestNat
<1> DEFINE T == {q \in Rank : enter[q] = v}
<1>3. T \in SUBSET Nat /\ T # {}
  BY RankIsNatural
<1>4. PICK last \in T : \A q \in T : last <= q
  BY <1>3, LeastNat
<1>5. \A o \in Rank : enter[o] < enter[last] \/ (enter[o] = enter[last] /\ last <= o)
  BY <1>2, <1>4
<1>6. last \in Rank
  OBVIOUS
<1> QED
  BY <1>5, <1>6 DEF LastEnter

LEMMA SoundCollective ==
  ASSUME Measured, NEW r \in Rank, NEW i \in Activity(r), program[r][i].kind = "collective",
         NEW act, NEW enter,
         act = [q \in Rank |-> CHOOSE j \in Activity(q) : SameCollective(program, r, i, q, j)],
         enter = [q \in Rank |-> time[q][act[q]].enter]
  PROVE  Sound(r, i, CollectiveOutcome(r, enter, act))
<1>1. ASSUME NEW q \in Rank PROVE act[q] \in Activity(q) /\ SameCollective(program, r, i, q, act[q])
  <2>1. i \in Collectives(program, r)
    BY DEF Collectives
  <2>2. \E j \in Collectives(program, q) : SameCollective(program, r, i, q, j)
    BY <2>1, ReplayPrograms DEF Measured, LegalProgram
  <2>3. \E j \in Activity(q) : SameCollective(program, r, i, q, j)
    BY <2>2 DEF Collectives
  <2> QED
    BY <2>3
<1>2. ASSUME NEW q \in Rank
      PROVE  /\ enter[q] \in Nat /\ enter[q] < time[r][i].leave
             /\ enter[q] = time[q][act[q]].enter
  <2>1. enter[q] = time[q][act[q]].enter
    OBVIOUS
  <2>2. SameCollective(program, q, act[q], r, i)
    BY <1>1, SameCollectiveFacts
  <2>3. time[q][act[q]].enter < time[r][i].leave
    BY <1>1, <2>2 DEF Measured, ValidTiming
  <2> QED
    BY <1>1, <2>1, <2>3, TimesOfActivity
<1>3. time[r][i].enter \in Nat /\ time[r][i].leave \in Nat /\ time[r][i].enter < time[r][i].leave
  BY TimesOfActivity
<1>4. enter \in [Rank -> Nat] /\ \A q \in Rank : enter[q] <= time[r][i].leave
  BY <1>2, <1>3
<1>5. PICK last : last = LastEnter(enter)
  OBVIOUS
<1>6. /\ last \in Rank
      /\ \A o \in Rank : enter[o] < enter[last] \/ (enter[o] = enter[last] /\ last <= o)
  BY <1>3, <1>4, <1>5, LastEnterIsLast, ZenonT(60)
<1>7. act[r] = i
  <2>1. SameCollective(program, r, i, r, i)
    BY DEF SameCollective, Collectives
  <2> QED
    BY <1>1, <2>1, SameCollectiveFacts
<1>8. CASE r # last
  <2>1. PICK n : n = [rank |-> last, act |-> act[last]]
    OBVIOUS
  <2>2. n.rank = last /\ n.act = act[last]
    BY <2>1
  <2>3. SameCollective(program, r, i, last, act[last])
    BY <1>1, <1>6
  <2>4. LastOf(n)
    <3>1. SUFFICES ASSUME NEW q \in Rank, NEW j \in Activity(q),
                          SameCollective(program, last, act[last], q, j)
                   PROVE  \/ time[q][j].enter < time[last][act[last]].enter
                          \/ time[q][j].enter = time[last][act[last]].enter /\ last <= q
      BY <2>2 DEF LastOf
    <3>2. SameCollective(program, r, i, q, j)
      BY <1>6, <2>3, <3>1, SameCollectiveFacts
    <3>3. j = act[q]
      BY <1>1, <3>2, SameCollectiveFacts
    <3> QED
      BY <1>2, <1>6, <3>3
  <2>5. /\ enter[r] = time[r][i].enter /\ enter[last] = time[last][act[last]].enter
        /\ enter[r] <= enter[last] /\ enter[last] < time[r][i].leave
        /\ enter[r] \in Nat /\ enter[last] \in Nat
    BY <1>2, <1>6, <1>7, SMTT(60)
  <2>6. enter[last] < time[last][act[last]].leave
    BY <1>1, <1>6, <2>5, TimesOfActivity
  <2>7. time[r][i].enter < time[last][act[last]].leave
    <3>1. PICK j \in Activity(last) : j = act[last]
      BY <1>1, <1>6
    <3>2. time[last][j].leave \in Nat
      BY <1>6, TimesOfActivity
    <3>3. PICK b \in Nat : b = time[last][act[last]].leave
      BY <3>1, <3>2
    <3>4. PICK c \in Nat, d \in Nat : c = enter[r] /\ d = enter[last]
      BY <2>5
    <3>5. c <= d /\ d < b
      BY <2>5, <2>6, <3>3, <3>4
    <3>6. c < b
      BY <3>5
    <3> QED
      BY <2>5, <3>3, <3>4, <3>6
  <2>8. \E a \in With(r, i), b \in With(last, act[last]) : Communicates(r, a, last, b)
    BY <2>3 DEF With, Communicates
  <2>9. Cause(r, i, n)
    BY <1>1, <1>6, <1>8, <2>2, <2>3, <2>4, <2>5, <2>7, <2>8 DEF Cause
  <2>10. Sound(r, i, WaitsFor(last, act[last], enter[last] - enter[r]))
    <3>1. PICK w \in Int : w = enter[last] - enter[r] /\ w <= time[r][i].leave - time[r][i].enter
      <4>1. PICK x \in Nat, y \in Nat, z \in Nat :
              /\ x = enter[last] /\ y = enter[r] /\ y = time[r][i].enter
              /\ z = time[r][i].leave /\ x < z
        BY <1>3, <2>5
      <4>2. x - y \in Int /\ x - y <= z - y
        BY <4>1
      <4> QED
        BY <4>1, <4>2
    <3>2. PICK a : a = act[last]
      OBVIOUS
    <3> QED
      BY <2>1, <2>9, <3>1, <3>2, SoundWaitsFor
  <2> QED
    BY <1>5, <1>8, <2>10 DEF CollectiveOutcome
<1>9. CASE r = last
  BY <1>5, <1>9, SoundNothing DEF CollectiveOutcome
<1> QED
  BY <1>8, <1>9

-----------------------------------------------------------------------------
(***************************************************************************)
(* The letter with the index of a call is the one of its partner.          *)
(***************************************************************************)
LEMMA ForwardLetter ==
  ASSUME Booked, NEW r \in Rank, NEW q \in Rank, NEW tag \in Tag,
         NEW j \in Begun(ReceivesFrom(program, r, q, tag), r),
         Arrived(r, q, tag, index[r][j].in)
  PROVE  /\ Letter(r, j, q, sent[q][r][tag][index[r][j].in])
         /\ program[r][j].kind # "irecv" =>
              sent[q][r][tag][index[r][j].in].start < time[r][j].leave
<1>1. Typed /\ Measured /\ \A o \in Rank : Ledger(o)
  BY DEF Booked
<1>2. PICK i \in SendsTo(program, q, r, tag), t \in SendTypes :
        /\ Matches(program, q, i, r, j)
        /\ sent[q][r][tag][index[r][j].in] = Buffer(t, q, i)
  BY <1>1, MessageOfSend
<1>3. PICK m : m = sent[q][r][tag][index[r][j].in]
  OBVIOUS
<1>4. m.act = i /\ m.start = time[q][i].enter /\ m.end = time[q][i].leave
  BY <1>2, <1>3 DEF Buffer
<1>5. i \in Activity(q) /\ j \in Activity(r)
  BY DEF SendsTo, ReceivesFrom, Begun
<1>6. q # r
  <2>1. LegalOperation(program, r, j, Tag)
    BY <1>1, <1>5, ReplayPrograms DEF Measured, LegalProgram
  <2> QED
    BY <2>1 DEF LegalOperation, ReceivesFrom, Begun
<1>7. Letter(r, j, q, m)
  <2>1. i \in With(q, i) /\ Communicates(r, j, q, i)
    BY <1>2 DEF With, Communicates
  <2> QED
    BY <1>4, <1>5, <1>6, <2>1 DEF Letter
<1>8. program[r][j].kind # "irecv" => m.start < time[r][j].leave
  <2>1. time[q][i].enter < time[r][CompletedAt(program, r, j)].leave
    BY <1>1, <1>2, <1>5 DEF Measured, ValidTiming
  <2> QED
    BY <1>4, <2>1 DEF CompletedAt
<1> QED
  BY <1>3, <1>7, <1>8

\* The answer that is there is the one of the matching receive.
LEMMA MessageOfAnswer ==
  ASSUME PartnersAnswer, Booked, NEW r \in Rank, NEW q \in Rank, NEW tag \in Tag,
         NEW i \in Replied(Asks(program, r, q, tag), r),
         Arrived(r, q, Reverse(tag), index[r][i].revIn)
  PROVE  \E j \in Activity(q), t \in RecvTypes :
           /\ Matches(program, r, i, q, j)
           /\ sent[q][r][Reverse(tag)][index[r][i].revIn] = Buffer(t, q, AnswerAt(q, j))
<1> DEFINE P == Asks(program, r, q, tag)
           Q == Answers(program, q, r, tag)
<1>1. Typed /\ Measured /\ Ledger(r) /\ Ledger(q)
  BY DEF Booked
<1>2. index[r][i].revIn = Position(P, i) /\ i \in P
  BY <1>1 DEF Ledger, ReversePosts, Replied
<1>3. i \in Activity(r) /\ P \in SUBSET Activity(r)
  BY <1>2, KindsOfActivities
<1>4. Position(P, i) \in Nat \ {0}
  <2>1. PICK b \in Nat : b = LastActivity[r]
    BY ActivityNumbers
  <2>2. PICK T \in SUBSET (0 .. b) : T = P
    BY <1>3, <2>1 DEF Activity
  <2>3. i \in T
    BY <1>2, <2>2
  <2>4. /\ Cardinality(UpTo(T, i)) = Cardinality(Below(T, i)) + 1
        /\ Cardinality(Below(T, i)) \in Nat
        /\ Position(T, i) = Cardinality(UpTo(T, i))
    BY <2>3, UpToNext
  <2>5. Position(T, i) \in Nat \ {0}
    BY <2>4
  <2> QED
    BY <2>2, <2>5
<1>5. PICK k \in Nat \ {0} : k = Position(P, i)
  BY <1>4
<1>6. PICK ms \in Seq(Message) : ms = sent[q][r][Reverse(tag)]
  BY <1>1, TagsOfReplay, SentIsSequence
<1>7. k \in 1 .. Len(ms)
  BY <1>2, <1>5, <1>6 DEF Arrived
<1>8. PICK j \in Q, t \in RecvTypes : Position(Q, j) = k /\ ms[k] = Buffer(t, q, AnswerAt(q, j))
  BY <1>1, <1>6, <1>7 DEF Ledger, ReverseMail
<1>9. Matches(program, r, i, q, j)
  BY <1>1, <1>2, <1>5, <1>8, AnswersMatch DEF Measured
<1>10. j \in Activity(q)
  BY KindsOfActivities
<1> QED
  BY <1>2, <1>5, <1>6, <1>8, <1>9, <1>10

\* The letter it is.
LEMMA BackLetter ==
  ASSUME PartnersAnswer, Booked, NEW r \in Rank, NEW q \in Rank, NEW tag \in Tag,
         NEW i \in Replied(Asks(program, r, q, tag), r),
         Arrived(r, q, Reverse(tag), index[r][i].revIn)
  PROVE  Letter(r, i, q, sent[q][r][Reverse(tag)][index[r][i].revIn])
<1>1. Measured /\ i \in Asks(program, r, q, tag) /\ i \in Activity(r)
  BY KindsOfActivities DEF Booked, Replied
<1>2. PICK m : m = sent[q][r][Reverse(tag)][index[r][i].revIn]
  OBVIOUS
<1>3. PICK j \in Activity(q), t \in RecvTypes :
        Matches(program, r, i, q, j) /\ m = Buffer(t, q, AnswerAt(q, j))
  BY <1>2, MessageOfAnswer
<1>4. PICK a : a = AnswerAt(q, j)
  OBVIOUS
<1>5. a \in Activity(q) /\ j \in With(q, a)
  <2> DEFINE sync == {h \in Activity(q) : /\ program[q][h].kind \in {"wait", "test"}
                                            /\ Completes(program[q][h], j)}
  <2>1. CASE a = j
    BY <2>1 DEF With
  <2>2. CASE a # j
    <3>1. a \in sync
      BY <1>4, <2>2 DEF AnswerAt, SyncActivity
    <3>2. /\ a \in Activity(q) /\ program[q][a].kind \in {"wait", "test"}
          /\ Completes(program[q][a], j)
      BY <3>1
    <3> QED
      BY <3>2 DEF With, Completes
  <2> QED
    BY <2>1, <2>2
<1>6. q # r
  <2>1. LegalOperation(program, r, i, Tag)
    BY <1>1, ReplayPrograms DEF Measured, LegalProgram
  <2> QED
    BY <1>1, <2>1 DEF LegalOperation, Asks, SendsTo
<1>7. m.act = a /\ m.start = time[q][a].enter /\ m.end = time[q][a].leave
  BY <1>3, <1>4 DEF Buffer
<1>8. Letter(r, i, q, m)
  BY <1>3, <1>5, <1>6, <1>7 DEF Letter, Communicates
<1> QED
  BY <1>2, <1>8

-----------------------------------------------------------------------------
(***************************************************************************)
(* A request that is not open any more has been served.                    *)
(***************************************************************************)
Served(r, i) == Arrived(r, Partner(program[r][i]), Expected(r, i).tag, Expected(r, i).nr)
RequestsServed ==
  \A r \in Rank : \A i \in Requests(program, r) :
    i < pos[r] => i \in openRecv[r] \/ Served(r, i)

\* The letter a request is about is that of its partner.
LEMMA RequestLetter ==
  ASSUME PartnersAnswer, Booked, NEW r \in Rank, NEW i \in Requests(program, r),
         i < pos[r], Served(r, i)
  PROVE  Letter(r, i, Partner(program[r][i]), InBox(r, i))
<1>1. LegalOperation(program, r, i, Tag) /\ i \in Activity(r)
  BY ReplayPrograms DEF Booked, Measured, LegalProgram, Requests
<1>2. CASE program[r][i].kind = "isend"
  <2>1. PICK q \in Rank, tag \in Tag : q = program[r][i].to /\ tag = program[r][i].tag
    BY <1>1, <1>2 DEF LegalOperation, SendKinds
  <2>2. i \in Replied(Asks(program, r, q, tag), r)
    BY <1>1, <1>2, <2>1 DEF Replied, Asks, SendsTo, SendKinds, Single
  <2>3. Partner(program[r][i]) = q /\ Expected(r, i) = [tag |-> Reverse(tag), nr |-> index[r][i].revIn]
    BY <1>2, <2>1 DEF Partner, Expected
  <2>4. Arrived(r, q, Reverse(tag), index[r][i].revIn)
    BY <2>3 DEF Served
  <2>5. InBox(r, i) = sent[q][r][Reverse(tag)][index[r][i].revIn]
    BY <2>3 DEF InBox
  <2> QED
    BY <2>2, <2>3, <2>4, <2>5, BackLetter
<1>3. CASE program[r][i].kind = "irecv"
  <2>1. PICK q \in Rank, tag \in Tag : q = program[r][i].from /\ tag = program[r][i].rtag
    BY <1>1, <1>3 DEF LegalOperation, RecvKinds
  <2>2. i \in Begun(ReceivesFrom(program, r, q, tag), r)
    BY <1>1, <1>3, <2>1 DEF Begun, ReceivesFrom, RecvKinds
  <2>3. Partner(program[r][i]) = q /\ Expected(r, i) = [tag |-> tag, nr |-> index[r][i].in]
    BY <1>3, <2>1 DEF Partner, Expected
  <2>4. Arrived(r, q, tag, index[r][i].in)
    BY <2>3 DEF Served
  <2>5. InBox(r, i) = sent[q][r][tag][index[r][i].in]
    BY <2>3 DEF InBox
  <2> QED
    BY <2>2, <2>3, <2>4, <2>5, ForwardLetter
<1> QED
  BY <1>2, <1>3 DEF Requests

LEMMA SentGrows ==
  ASSUME Typed, NEW r \in Rank, Books(r), NEW q \in Rank, NEW d \in Rank, NEW tag \in ReplayTag
  PROVE  /\ Len(sent[q][d][tag]) \in Nat /\ Len(sent'[q][d][tag]) \in Nat
         /\ Len(sent[q][d][tag]) <= Len(sent'[q][d][tag])
<1>1. PICK ms \in Seq(Message) : ms = sent[q][d][tag]
  BY SentIsSequence
<1>2. PICK ns \in Seq(Message) : ns = sent'[q][d][tag]
  <2>1. sent' \in [Rank -> [Rank -> [ReplayTag -> Seq(Message)]]]
    BY DEF Books
  <2>2. sent'[q] \in [Rank -> [ReplayTag -> Seq(Message)]]
    BY <2>1
  <2>3. sent'[q][d] \in [ReplayTag -> Seq(Message)]
    BY <2>2
  <2>4. sent'[q][d][tag] \in Seq(Message)
    BY <2>3
  <2> QED
    BY <2>4
<1>3. ns = ms \/ \E m : ns = Append(ms, m)
  <2>1. CASE q # r
    BY <1>1, <1>2, <2>1 DEF Books
  <2>2. CASE q = r /\ tag \in Tag
    <3>1. ForwardBooked(r, d, tag)
      BY <2>2 DEF Books
    <3> QED
      BY <1>1, <1>2, <2>2, <3>1 DEF ForwardBooked
  <2>3. ASSUME NEW u \in Tag, tag = Reverse(u), q = r
        PROVE  ns = ms \/ \E m : ns = Append(ms, m)
    <3>1. ReverseBooked(r, d, u)
      BY <2>3 DEF Books
    <3> QED
      BY <1>1, <1>2, <2>3, <3>1 DEF ReverseBooked
  <2> QED
    BY <2>1, <2>2, <2>3 DEF ReplayTag
<1>4. Len(ms) \in Nat /\ Len(ns) \in Nat /\ Len(ms) <= Len(ns)
  <2>1. \A m : Len(Append(ms, m)) = Len(ms) + 1
    OBVIOUS
  <2> QED
    BY <1>3, <2>1
<1> QED
  BY <1>1, <1>2, <1>4

\* Partner and tag of the message a request is for.
LEMMA RequestIsFor ==
  ASSUME Booked, NEW q \in Rank, NEW i \in Requests(program, q)
  PROVE  /\ Partner(program[q][i]) \in Rank /\ Expected(q, i).tag \in ReplayTag
         /\ Expected(q, i).nr \in Nat
         /\ Expected(q, i).nr = IF program[q][i].kind = "isend" THEN index[q][i].revIn
                                                               ELSE index[q][i].in
<1>1. LegalOperation(program, q, i, Tag) /\ i \in Activity(q)
  BY ReplayPrograms DEF Booked, Measured, LegalProgram, Requests
<1>2. index[q][i] \in Indices
  BY <1>1 DEF Booked, Typed
<1>3. CASE program[q][i].kind = "isend"
  BY <1>1, <1>2, <1>3, TagsOfReplay DEF LegalOperation, SendKinds, Partner, Expected, Indices
<1>4. CASE program[q][i].kind = "irecv"
  BY <1>1, <1>2, <1>4, TagsOfReplay DEF LegalOperation, RecvKinds, Partner, Expected, Indices
<1> QED
  BY <1>3, <1>4 DEF Requests

LEMMA ServedStays ==
  ASSUME Booked, NEW r \in Rank, Books(r), NEW q \in Rank, NEW i \in Requests(program, q),
         index'[q][i] = index[q][i], Served(q, i)
  PROVE  Served(q, i)'
<1>1. PICK d \in Rank, tag \in ReplayTag, nr \in Nat :
        d = Partner(program[q][i]) /\ tag = Expected(q, i).tag /\ nr = Expected(q, i).nr
  BY RequestIsFor
<1>2. nr <= Len(sent[d][q][tag])
  BY <1>1 DEF Served, Arrived
<1>3. nr <= Len(sent'[d][q][tag])
  BY <1>2, SentGrows DEF Booked
<1>4. program' = program
  BY DEF Books, trace
<1>5. Partner(program[q][i])' = d
  BY <1>1, <1>4 DEF Partner
<1>6. Expected(q, i)' = Expected(q, i)
  BY <1>4 DEF Expected, Reverse
<1> QED
  BY <1>1, <1>3, <1>5, <1>6 DEF Served, Arrived

LEMMA RequestsServedKept ==
  ASSUME Booked, RequestsServed, NEW r \in Rank, Rule(r), Books(r)
  PROVE  RequestsServed'
<1>1. /\ pos[r] \in Nat /\ pos'[r] \in Nat /\ pos[r] \in Activity(r)
      /\ pos'[r] \in {pos[r], pos[r] + 1}
      /\ \A q \in Rank \ {r} : pos'[q] = pos[q]
  BY DEF Books, Moves, Booked, Typed
<1>2. program' = program
  BY DEF Books, trace
<1>3. SUFFICES ASSUME NEW q \in Rank, NEW i \in Requests(program, q), i < pos'[q],
                      i \notin openRecv'[q]
               PROVE  Served(q, i)'
  BY <1>2 DEF RequestsServed, Requests
<1>4. i \in Nat /\ i \in Activity(q)
  BY ActivityNumbers DEF Requests, Activity
<1>5. CASE q # r
  <2>1. index'[q][i] = index[q][i]
    BY <1>5 DEF Books
  <2>2. openRecv'[q] = openRecv[q]
    <3>1. HandlesTyped
      BY DEF Booked
    <3>2. CASE UNCHANGED handles
      BY <3>2 DEF handles
    <3>3. CASE Opens(r)
      BY <1>5, <3>1, <3>3 DEF Opens, HandlesTyped
    <3>4. ASSUME NEW A, NEW B, NEW T, Closes(r, A, B, T) PROVE openRecv'[q] = openRecv[q]
      BY <1>5, <3>1, <3>4 DEF Closes, HandlesTyped
    <3> QED
      BY <3>1, <3>2, <3>3, <3>4, HandleSteps
  <2>3. Served(q, i)
    BY <1>1, <1>3, <1>5, <2>2 DEF RequestsServed
  <2> QED
    BY <2>1, <2>3, ServedStays
<1>6. CASE q = r /\ i < pos[r]
  <2>1. index'[r][i] = index[r][i]
    BY <1>1, <1>4, <1>6 DEF Books, Indexed
  <2>2. Served(r, i)
    <3>1. SUFFICES ASSUME i \in openRecv[r] PROVE Served(r, i)
      BY <1>6 DEF RequestsServed
    <3>2. HandlesTyped
      BY DEF Booked
    <3>3. ~UNCHANGED handles
      BY <1>3, <1>6, <3>1 DEF handles
    <3>4. ~Opens(r)
      BY <1>3, <1>6, <3>1, <3>2 DEF Opens, HandlesTyped
    <3>5. PICK A, B, T : Closes(r, A, B, T)
      BY <3>2, <3>3, <3>4, HandleSteps
    <3>6. openRecv'[r] = openRecv[r] \ A
      BY <3>2, <3>5 DEF Closes, HandlesTyped
    <3>7. i \in A /\ RecvDone(r, i)
      BY <1>3, <1>6, <3>1, <3>5, <3>6 DEF Closes
    <3> QED
      BY <3>1, <3>7 DEF RecvDone, Served
  <2> QED
    BY <1>6, <2>1, <2>2, ServedStays
<1>7. CASE q = r /\ i = pos[r]
  <2>1. Op(r).kind \in {"isend", "irecv"} /\ pos[r] \in records[r]
    BY <1>1, <1>7 DEF Requests, Op, Booked, RecordsThere
  <2>2. Isend(r) \/ Irecv(r)
    BY <2>1 DEF Rule, StartSend, SendReturns, FinishSend, StartRecv, Receive, FinishRecv,
         StartSendrecv, ReceiveSendrecv, FinishSendrecv, NoRule, FinishWait,
         WaitOnDeletedRecord, FinishWaitall, JoinCollective, FinishCollective,
         SelfCollective, AtStage
  <2>3. PICK x : x = index[r][pos[r]]
    OBVIOUS
  <2>4. x \in Indices /\ index = [o \in Rank |-> index[o]] /\ index[r] \in [Activity(r) -> Indices]
    BY <1>1, <2>3 DEF Booked, Typed
  <2>5. HandlesTyped
    BY DEF Booked
  <2>6. CASE Isend(r)
    <3>1. PICK d \in Rank, u \in Tag : d = Op(r).to /\ u = Op(r).tag
      BY <1>1, <2>6, LegalNow DEF Booked, LegalOperation, Op, SendKinds, Isend, AtStage
    <3>2. PICK k : k = NextPosted(r, d, Reverse(u))
      OBVIOUS
    <3>3. Arrived(r, d, Reverse(u), k)
      <4>1. OpenRequests(r, Arrived(r, d, Reverse(u), k))
        BY <2>6, <3>1, <3>2 DEF Isend
      <4>2. openRecv' # [openRecv EXCEPT ![r] = @ \cup {pos[r]}]
        BY <1>3, <1>7, <2>5 DEF HandlesTyped
      <4> QED
        BY <4>1, <4>2 DEF OpenRequests
    <3>4. index'[r][pos[r]].revIn = k
      <4>1. PICK y : y = [x EXCEPT !.out = NextSent(r, d, u), !.revIn = k]
        OBVIOUS
      <4>2. index' = [index EXCEPT ![r][pos[r]] = y]
        BY <2>3, <2>6, <3>1, <3>2, <4>1 DEF Isend
      <4>3. y.revIn = k
        BY <2>4, <4>1 DEF Indices
      <4>4. index'[r][pos[r]] = y
        BY <1>1, <2>4, <4>2
      <4> QED
        BY <4>3, <4>4
    <3>5. k \in Nat
      <4>1. posted[r][d][Reverse(u)] \in Nat
        BY TagsOfReplay DEF Booked, Typed
      <4> QED
        BY <3>2, <4>1 DEF NextPosted
    <3>6. k <= Len(sent'[d][r][Reverse(u)])
      BY <3>3, <3>5, SentGrows, TagsOfReplay DEF Booked, Arrived
    <3>7. program[r][i].kind = "isend" /\ program[r][i].to = d /\ program[r][i].tag = u
      BY <1>7, <2>6, <3>1 DEF Isend, AtStage, Op
    <3>8. Partner(program[r][i])' = d
      BY <1>2, <3>7 DEF Partner
    <3>9. Expected(r, i)' = [tag |-> Reverse(u), nr |-> k]
      BY <1>2, <1>7, <3>4, <3>7 DEF Expected, Reverse
    <3> QED
      BY <1>7, <3>6, <3>8, <3>9 DEF Served, Arrived
  <2>7. CASE Irecv(r)
    <3>1. PICK d \in Rank, u \in Tag : d = Op(r).from /\ u = Op(r).rtag
      BY <1>1, <2>7, LegalNow DEF Booked, LegalOperation, Op, RecvKinds, Irecv, AtStage
    <3>2. PICK k : k = NextPosted(r, d, u)
      OBVIOUS
    <3>3. Arrived(r, d, u, k)
      <4>1. OpenRequests(r, Arrived(r, d, u, k))
        BY <2>7, <3>1, <3>2 DEF Irecv
      <4>2. openRecv' # [openRecv EXCEPT ![r] = @ \cup {pos[r]}]
        BY <1>3, <1>7, <2>5 DEF HandlesTyped
      <4> QED
        BY <4>1, <4>2 DEF OpenRequests
    <3>4. index'[r][pos[r]].in = k
      <4>1. PICK y : y = [x EXCEPT !.in = k, !.revOut = NextSent(r, d, Reverse(u))]
        OBVIOUS
      <4>2. index' = [index EXCEPT ![r][pos[r]] = y]
        BY <2>3, <2>7, <3>1, <3>2, <4>1 DEF Irecv
      <4>3. y.in = k
        BY <2>4, <4>1 DEF Indices
      <4>4. index'[r][pos[r]] = y
        BY <1>1, <2>4, <4>2
      <4> QED
        BY <4>3, <4>4
    <3>5. k \in Nat
      <4>1. posted[r][d][u] \in Nat
        BY TagsOfReplay DEF Booked, Typed
      <4> QED
        BY <3>2, <4>1 DEF NextPosted
    <3>6. k <= Len(sent'[d][r][u])
      BY <3>3, <3>5, SentGrows, TagsOfReplay DEF Booked, Arrived
    <3>7. program[r][i].kind = "irecv" /\ program[r][i].from = d /\ program[r][i].rtag = u
      BY <1>7, <2>7, <3>1 DEF Irecv, AtStage, Op
    <3>8. Partner(program[r][i])' = d
      BY <1>2, <3>7 DEF Partner
    <3>9. Expected(r, i)' = [tag |-> u, nr |-> k]
      BY <1>2, <1>7, <3>4, <3>7 DEF Expected
    <3> QED
      BY <1>7, <3>6, <3>8, <3>9 DEF Served, Arrived
  <2> QED
    BY <2>2, <2>6, <2>7
<1> QED
  BY <1>1, <1>3, <1>4, <1>5, <1>6, <1>7

-----------------------------------------------------------------------------
(***************************************************************************)
(* Every rule that concludes anything concludes soundly.                   *)
(***************************************************************************)
LEMMA FindingsStay ==
  ASSUME Findings, UNCHANGED <<trace, results>>
  PROVE  Findings'
<1>1. program' = program /\ time' = time /\ remoteNode' = remoteNode /\ waiting' = waiting
  BY DEF trace, results
<1>2. ASSUME NEW r \in Rank, NEW i \in DOMAIN remoteNode'[r]
      PROVE  i \in Activity(r) /\ Cause(r, i, remoteNode[r][i])'
  <2>1. PICK n : n = remoteNode[r][i]
    OBVIOUS
  <2>2. i \in Activity(r) /\ Cause(r, i, n)
    BY <1>1, <2>1 DEF Findings
  <2>3. Cause(r, i, n)'
    BY <2>2, CausesStay
  <2> QED
    BY <1>1, <2>1, <2>2, <2>3
<1> QED
  BY <1>1, <1>2 DEF Findings

LEMMA FinishSendFindings ==
  ASSUME PartnersAnswer, Booked, Findings, NEW r \in Rank, FinishSend(r)
  PROVE  Findings'
<1>1. /\ pos[r] \in Activity(r) /\ Op(r).kind = "send" /\ stage[r] = "reverse"
      /\ UNCHANGED trace
  BY DEF FinishSend, AtStage
<1>2. PICK q \in Rank, u \in Tag : q = Op(r).to /\ u = Op(r).tag
  BY <1>1, LegalNow DEF Booked, LegalOperation, Op, SendKinds
<1>3. PICK i \in Activity(r) : i = pos[r]
  BY <1>1
<1>4. i \in Replied(Asks(program, r, q, u), r)
  BY <1>1, <1>2, <1>3, OwnSets DEF Replied, SendKinds, Single
<1>5. PICK m : m = sent[q][r][Reverse(u)][index[r][i].revIn]
  OBVIOUS
<1>6. /\ Arrived(r, q, Reverse(u), index[r][i].revIn)
      /\ Conclude(r, SendOutcome(time[r][i], q, m))
  BY <1>2, <1>3, <1>5 DEF FinishSend, My
<1>7. Letter(r, i, q, m)
  BY <1>4, <1>5, <1>6, BackLetter
<1>8. Sound(r, i, SendOutcome(time[r][i], q, m))
  BY <1>1, <1>3, <1>7, SoundSend DEF Booked, Op
<1> QED
  BY <1>1, <1>3, <1>6, <1>8, FindingsKept DEF Booked

LEMMA ReceiveFindings ==
  ASSUME Booked, Findings, NEW r \in Rank, Receive(r)
  PROVE  Findings'
<1>1. /\ pos[r] \in Activity(r) /\ Op(r).kind = "recv" /\ stage[r] = "forward"
      /\ UNCHANGED trace
  BY DEF Receive, AtStage
<1>2. PICK q \in Rank, u \in Tag : q = Op(r).from /\ u = Op(r).rtag
  BY <1>1, LegalNow DEF Booked, LegalOperation, Op, RecvKinds
<1>3. PICK i \in Activity(r) : i = pos[r]
  BY <1>1
<1>4. i \in Begun(ReceivesFrom(program, r, q, u), r)
  BY <1>1, <1>2, <1>3, OwnSets DEF Begun, RecvKinds
<1>5. PICK m : m = sent[q][r][u][index[r][i].in]
  OBVIOUS
<1>6. /\ Arrived(r, q, u, index[r][i].in)
      /\ \/ Conclude(r, RecvOutcome(time[r][i], q, m))
         \/ UNCHANGED results
  BY <1>2, <1>3, <1>5 DEF Receive, My
<1>7. Letter(r, i, q, m) /\ m.start < time[r][i].leave
  BY <1>1, <1>3, <1>4, <1>5, <1>6, ForwardLetter DEF Op
<1>8. Sound(r, i, RecvOutcome(time[r][i], q, m))
  BY <1>1, <1>3, <1>7, SoundRecv DEF Booked, Op
<1> QED
  BY <1>1, <1>3, <1>6, <1>8, FindingsKept, FindingsStay DEF Booked

LEMMA ReceiveSendrecvFindings ==
  ASSUME Booked, Findings, NEW r \in Rank, ReceiveSendrecv(r)
  PROVE  Findings'
<1>1. /\ pos[r] \in Activity(r) /\ Op(r).kind = "sendrecv" /\ stage[r] = "forward"
      /\ UNCHANGED trace
  BY DEF ReceiveSendrecv, AtStage
<1>2. PICK q \in Rank, u \in Tag : q = Op(r).from /\ u = Op(r).rtag
  BY <1>1, LegalNow DEF Booked, LegalOperation, Op, RecvKinds
<1>3. PICK i \in Activity(r) : i = pos[r]
  BY <1>1
<1>4. i \in Begun(ReceivesFrom(program, r, q, u), r)
  BY <1>1, <1>2, <1>3, OwnSets DEF Begun, RecvKinds
<1>5. PICK m : m = sent[q][r][u][index[r][i].in]
  OBVIOUS
<1>6. /\ Arrived(r, q, u, index[r][i].in)
      /\ \/ Conclude(r, RecvOutcome(time[r][i], q, m))
         \/ UNCHANGED results
  BY <1>2, <1>3, <1>5 DEF ReceiveSendrecv, My
<1>7. Letter(r, i, q, m) /\ m.start < time[r][i].leave
  BY <1>1, <1>3, <1>4, <1>5, <1>6, ForwardLetter DEF Op
<1>8. Sound(r, i, RecvOutcome(time[r][i], q, m))
  BY <1>1, <1>3, <1>7, SoundRecv DEF Booked, Op
<1> QED
  BY <1>1, <1>3, <1>6, <1>8, FindingsKept, FindingsStay DEF Booked

\* An MPI_Sendrecv that waits for its answer has its message already.
MessageThere(r) ==
  pos[r] \in Activity(r) /\ Op(r).kind = "sendrecv" /\ stage[r] = "reverse" =>
    ~Single(Op(r)) /\ Arrived(r, Op(r).from, Op(r).rtag, index[r][pos[r]].in)

LEMMA FinishSendrecvFindings ==
  ASSUME PartnersAnswer, Booked, Findings, NEW r \in Rank, FinishSendrecv(r), MessageThere(r)
  PROVE  Findings'
<1>1. /\ pos[r] \in Activity(r) /\ Op(r).kind = "sendrecv" /\ stage[r] = "reverse"
      /\ UNCHANGED trace
  BY DEF FinishSendrecv, AtStage
<1>2. PICK q \in Rank, u \in Tag, d \in Rank, v \in Tag :
        q = Op(r).from /\ u = Op(r).rtag /\ d = Op(r).to /\ v = Op(r).tag
  BY <1>1, LegalNow DEF Booked, LegalOperation, Op, RecvKinds, SendKinds
<1>3. PICK i \in Activity(r) : i = pos[r]
  BY <1>1
<1>4. /\ i \in Begun(ReceivesFrom(program, r, q, u), r)
      /\ i \in Replied(Asks(program, r, d, v), r)
  BY <1>1, <1>2, <1>3, OwnSets DEF MessageThere, Begun, RecvKinds, Replied, SendKinds
<1>5. PICK in, out : /\ in = sent[q][r][u][index[r][i].in]
                     /\ out = sent[d][r][Reverse(v)][index[r][i].revIn]
  OBVIOUS
<1>6. /\ Arrived(r, q, u, index[r][i].in)
      /\ Arrived(r, d, Reverse(v), index[r][i].revIn)
      /\ Conclude(r, SendrecvOutcome(time[r][i], q, in, d, out))
  BY <1>1, <1>2, <1>3, <1>5 DEF FinishSendrecv, My, MessageThere
<1>7. Letter(r, i, d, out)
  BY <1>4, <1>5, <1>6, BackLetter
<1>8. Letter(r, i, q, in) /\ in.start < time[r][i].leave
  BY <1>1, <1>3, <1>4, <1>5, <1>6, ForwardLetter DEF Op
<1>9. Sound(r, i, SendrecvOutcome(time[r][i], q, in, d, out))
  BY <1>1, <1>3, <1>7, <1>8, SoundSendrecv DEF Booked, Op
<1> QED
  BY <1>1, <1>3, <1>6, <1>9, FindingsKept DEF Booked

\* A record whose request is complete holds the letter of its partner.
LEMMA CompletedLetter ==
  ASSUME PartnersAnswer, Booked, RequestsServed, NEW r \in Rank, NEW i \in Requests(program, r),
         i < pos[r], i \notin openRecv[r] \/ RecvDone(r, i)
  PROVE  Letter(r, i, Partner(program[r][i]), InBox(r, i))
<1>1. Served(r, i)
  BY DEF RequestsServed, RecvDone, Served
<1> QED
  BY <1>1, RequestLetter

\* The requests of an activity that completes some.
LEMMA ItsRequests ==
  ASSUME Booked, NEW r \in Rank, pos[r] \in Activity(r), Op(r).kind \in {"wait", "waitall"}
  PROVE  /\ Len(Op(r).reqs) \in Nat /\ DOMAIN Op(r).reqs = 1 .. Len(Op(r).reqs)
         /\ Op(r).kind = "wait" => 1 \in DOMAIN Op(r).reqs
         /\ \A k \in DOMAIN Op(r).reqs :
              /\ Op(r).reqs[k] \in Requests(program, r) /\ Op(r).reqs[k] < pos[r]
              /\ Op(r).reqs[k] \in With(r, pos[r])
<1>1. LegalOperation(program, r, pos[r], Tag)
  BY LegalNow DEF Booked
<1>2. /\ Op(r).reqs \in Seq(Activity(r)) /\ Len(Op(r).reqs) \in Nat
      /\ DOMAIN Op(r).reqs = 1 .. Len(Op(r).reqs)
  <2>1. PICK s : s = Op(r).reqs
    OBVIOUS
  <2>2. s \in Seq(Activity(r))
    BY <1>1, <2>1 DEF LegalOperation, Op, Completing
  <2> QED
    BY <2>1, <2>2
<1>3. Op(r).kind = "wait" => 1 \in DOMAIN Op(r).reqs
  <2>1. Op(r).kind = "wait" => Len(Op(r).reqs) = 1
    BY <1>1 DEF LegalOperation, Op
  <2>2. PICK n \in Nat : n = Len(Op(r).reqs) /\ DOMAIN Op(r).reqs = 1 .. n
    BY <1>2
  <2>3. n = 1 => 1 \in DOMAIN Op(r).reqs
    BY <2>2
  <2> QED
    BY <2>1, <2>2, <2>3
<1>4. ASSUME NEW k \in DOMAIN Op(r).reqs
      PROVE  /\ Op(r).reqs[k] \in Requests(program, r) /\ Op(r).reqs[k] < pos[r]
             /\ Op(r).reqs[k] \in With(r, pos[r])
  <2>1. Op(r) = program[r][pos[r]]
    BY DEF Op
  <2>2. PICK j : j = Op(r).reqs[k]
    OBVIOUS
  <2>3. j \in Activity(r)
    BY <1>2, <2>2
  <2>4. j < pos[r] /\ program[r][j].kind \in {"isend", "irecv"}
    BY <1>1, <2>1, <2>2 DEF LegalOperation, Completing
  <2>5. j \in Requests(program, r)
    BY <2>3, <2>4 DEF Requests
  <2>6. j \in With(r, pos[r])
    BY <2>1, <2>2 DEF With, Completing
  <2> QED
    BY <2>2, <2>4, <2>5, <2>6
<1> QED
  BY <1>2, <1>3, <1>4

LEMMA WaitFindings ==
  ASSUME PartnersAnswer, Booked, RequestsServed, Findings, NEW r \in Rank,
         FinishWait(r) \/ WaitOnDeletedRecord(r)
  PROVE  Findings'
<1>1. pos[r] \in Activity(r) /\ Op(r).kind = "wait" /\ UNCHANGED trace
  BY DEF FinishWait, WaitOnDeletedRecord, AtStage
<1>2. PICK i \in Activity(r) : i = pos[r]
  BY <1>1
<1>3. PICK a \in Requests(program, r) : a = Op(r).reqs[1] /\ a < pos[r] /\ a \in With(r, i)
  BY <1>1, <1>2, ItsRequests
<1>4. PICK q, m : q = Partner(program[r][a]) /\ m = InBox(r, a)
  OBVIOUS
<1>5. \/ Conclude(r, WaitOutcome(time[r][i], q, m))
      \/ UNCHANGED results
  BY <1>2, <1>3, <1>4 DEF FinishWait, WaitOnDeletedRecord, My
<1>6. a \notin openRecv[r] \/ RecvDone(r, a)
  <2>1. CASE FinishWait(r)
    BY <1>3, <2>1 DEF FinishWait
  <2>2. CASE WaitOnDeletedRecord(r)
    <3>1. a \notin records[r]
      BY <1>3, <2>2 DEF WaitOnDeletedRecord
    <3> QED
      BY <3>1 DEF Booked, BuffersAlive
  <2> QED
    BY <2>1, <2>2
<1>7. Letter(r, a, q, m)
  BY <1>3, <1>4, <1>6, CompletedLetter
<1>8. Sound(r, i, WaitOutcome(time[r][i], q, m))
  BY <1>1, <1>2, <1>3, <1>7, SoundWait DEF Booked, Op
<1> QED
  BY <1>1, <1>2, <1>5, <1>8, FindingsKept, FindingsStay DEF Booked

LEMMA WaitallFindings ==
  ASSUME PartnersAnswer, Booked, RequestsServed, Findings, NEW r \in Rank, FinishWaitall(r)
  PROVE  Findings'
<1>1. pos[r] \in Activity(r) /\ Op(r).kind = "waitall" /\ UNCHANGED trace
  BY DEF FinishWaitall, AtStage
<1>2. PICK i \in Activity(r) : i = pos[r]
  BY <1>1
<1>3. PICK reqs : reqs = Op(r).reqs
  OBVIOUS
<1>4. PICK partners, ms : /\ partners = [k \in DOMAIN reqs |-> Partner(program[r][reqs[k]])]
                          /\ ms = [k \in DOMAIN reqs |-> InBox(r, reqs[k])]
  OBVIOUS
<1>5. /\ \A k \in DOMAIN reqs : RecvDone(r, reqs[k])
      /\ Conclude(r, WaitallOutcome(time[r][i], partners, ms))
  BY <1>2, <1>3, <1>4 DEF FinishWaitall, My
<1>6. ASSUME NEW k \in DOMAIN ms
      PROVE  \E a \in With(r, i) : Letter(r, a, partners[k], ms[k])
  <2>1. PICK a \in Requests(program, r) : a = reqs[k] /\ a < pos[r] /\ a \in With(r, i)
    BY <1>1, <1>2, <1>3, <1>4, ItsRequests
  <2>2. partners[k] = Partner(program[r][a]) /\ ms[k] = InBox(r, a)
    BY <1>4, <2>1
  <2>3. RecvDone(r, a)
    BY <1>4, <1>5, <2>1
  <2> QED
    BY <2>1, <2>2, <2>3, CompletedLetter
<1>7. PICK length \in Nat : DOMAIN ms = 1 .. length
  BY <1>1, <1>3, <1>4, ItsRequests
<1>8. Sound(r, i, WaitallOutcome(time[r][i], partners, ms))
  BY <1>1, <1>2, <1>6, <1>7, SoundWaitall DEF Booked, Op
<1> QED
  BY <1>1, <1>2, <1>5, <1>8, FindingsKept DEF Booked

LEMMA CollectiveFindings ==
  ASSUME Booked, Findings, NEW r \in Rank, FinishCollective(r)
  PROVE  Findings'
<1>1. pos[r] \in Activity(r) /\ Op(r).kind = "collective" /\ UNCHANGED trace
  BY DEF FinishCollective, AtStage
<1>2. PICK i \in Activity(r) : i = pos[r]
  BY <1>1
<1>3. PICK act : act = [q \in Rank |-> CHOOSE j \in Activity(q) : SameCollective(program, r, i, q, j)]
  OBVIOUS
<1>4. PICK enter : enter = [q \in Rank |-> time[q][act[q]].enter]
  OBVIOUS
<1>5. Conclude(r, CollectiveOutcome(r, enter, act))
  BY <1>2, <1>3, <1>4 DEF FinishCollective
<1>6. Sound(r, i, CollectiveOutcome(r, enter, act))
  BY <1>1, <1>2, <1>3, <1>4, SoundCollective DEF Booked, Op
<1> QED
  BY <1>1, <1>2, <1>5, <1>6, FindingsKept DEF Booked

LEMMA RuleFindings ==
  ASSUME PartnersAnswer, Booked, RequestsServed, Findings, NEW r \in Rank, Rule(r),
         MessageThere(r)
  PROVE  Findings'
<1>1. CASE FinishSend(r) \/ Receive(r) \/ ReceiveSendrecv(r) \/ FinishSendrecv(r)
  BY <1>1, FinishSendFindings, ReceiveFindings, ReceiveSendrecvFindings, FinishSendrecvFindings
<1>2. CASE FinishWait(r) \/ WaitOnDeletedRecord(r) \/ FinishWaitall(r) \/ FinishCollective(r)
  BY <1>2, WaitFindings, WaitallFindings, CollectiveFindings
<1>3. CASE \/ StartSend(r) \/ SendReturns(r) \/ StartRecv(r) \/ FinishRecv(r)
           \/ StartSendrecv(r) \/ Isend(r) \/ Irecv(r) \/ NoRule(r)
           \/ JoinCollective(r) \/ SelfCollective(r)
  <2>1. UNCHANGED <<trace, results>>
    BY <1>3 DEF StartSend, SendReturns, StartRecv, FinishRecv, StartSendrecv, Isend, Irecv,
         NoRule, JoinCollective, SelfCollective
  <2> QED
    BY <2>1, FindingsStay
<1> QED
  BY <1>1, <1>2, <1>3 DEF Rule

LEMMA MessageThereKept ==
  ASSUME Booked, NEW r \in Rank, Rule(r), Books(r), NEW q \in Rank, MessageThere(q)
  PROVE  MessageThere(q)'
<1>1. program' = program
  BY DEF Books, trace
<1>2. SUFFICES ASSUME NEW i, i = pos'[q], i \in Activity(q), program[q][i].kind = "sendrecv",
                      stage'[q] = "reverse"
               PROVE  /\ ~Single(program[q][i])
                      /\ Arrived(q, program[q][i].from, program[q][i].rtag, index[q][i].in)'
  BY <1>1 DEF MessageThere, Op, Single, Arrived
<1>3. LegalOperation(program, q, i, Tag)
  BY <1>2, ReplayPrograms DEF Booked, Measured, LegalProgram
<1>4. PICK d \in Rank, u \in Tag : d = program[q][i].from /\ u = program[q][i].rtag
  BY <1>2, <1>3 DEF LegalOperation, RecvKinds
<1>5. pos[q] = i
  BY <1>2 DEF Books, Moves
<1>6. index'[q][i].in = index[q][i].in
  <2>1. CASE q # r
    BY <2>1 DEF Books
  <2>2. CASE q = r
    <3>1. ~Begins(r)
      BY <1>2, <2>2 DEF Books, Moves, Begins
    <3> QED
      BY <1>5, <2>2, <3>1 DEF Books, Indexed
  <2> QED
    BY <2>1, <2>2
<1>7. ~Single(program[q][i]) /\ index[q][i].in <= Len(sent[d][q][u])
  <2>1. CASE q # r
    <3>1. stage[q] = "reverse"
      BY <1>2, <2>1 DEF Books, Moves
    <3> QED
      BY <1>2, <1>4, <1>5, <3>1 DEF MessageThere, Op, Arrived
  <2>2. CASE q = r
    <3>1. Op(r).kind = "sendrecv" /\ stage[r] = "forward" /\ pos'[r] = pos[r]
      BY <1>2, <1>5, <2>2 DEF Books, Moves, Op
    <3>2. ReceiveSendrecv(r)
      BY <3>1 DEF Rule, StartSend, SendReturns, FinishSend, StartRecv, Receive, FinishRecv,
         StartSendrecv, FinishSendrecv, Isend, Irecv, NoRule, FinishWait,
         WaitOnDeletedRecord, FinishWaitall, JoinCollective, FinishCollective,
         SelfCollective, AtStage
    <3>3. Op(r).to # Op(r).from
      <4>1. ~Advance(r)
        BY <1>2, <2>2 DEF Advance, Booked, Typed
      <4> QED
        BY <3>2, <4>1 DEF ReceiveSendrecv
    <3>4. Arrived(r, d, u, index[r][i].in)
      BY <1>4, <1>5, <2>2, <3>2 DEF ReceiveSendrecv, Op
    <3> QED
      BY <1>5, <2>2, <3>3, <3>4 DEF Single, Op, Arrived
  <2> QED
    BY <2>1, <2>2
<1>8. index[q][i].in \in Nat
  BY <1>2 DEF Booked, Typed, Indices
<1>9. index'[q][i].in <= Len(sent'[d][q][u])
  <2>1. /\ Len(sent[d][q][u]) \in Nat /\ Len(sent'[d][q][u]) \in Nat
        /\ Len(sent[d][q][u]) <= Len(sent'[d][q][u])
    BY SentGrows, TagsOfReplay DEF Booked
  <2>2. PICK k \in Nat, n \in Nat, o \in Nat :
          k = index[q][i].in /\ n = Len(sent[d][q][u]) /\ o = Len(sent'[d][q][u])
    BY <1>8, <2>1
  <2>3. k <= n /\ n <= o
    BY <1>7, <2>1, <2>2, Zenon
  <2>4. k <= o
    BY <2>3
  <2> QED
    BY <1>6, <2>2, <2>4
<1> QED
  BY <1>1, <1>4, <1>7, <1>9 DEF Arrived

-----------------------------------------------------------------------------
(***************************************************************************)
(* The invariant, and what follows.                                        *)
(***************************************************************************)
Understood ==
  Booked /\ RequestsServed /\ Findings /\ \A r \in Rank : MessageThere(r)

LEMMA UnderstoodInit ==
  ASSUME NoTestall PROVE Init => Understood
<1>1. SUFFICES ASSUME Init PROVE Understood
  OBVIOUS
<1>2. Booked
  BY <1>1, BookedInit
<1>3. \A r \in Rank : pos[r] = 0 /\ stage[r] = "apply" /\ remoteNode[r] = <<>>
  BY <1>1 DEF Init
<1>4. RequestsServed
  BY <1>3, ActivityNumbers DEF RequestsServed, Requests, Activity
<1>5. Findings
  <2>1. \A r \in Rank : waiting[r] = [i \in Activity(r) |-> 0]
    BY <1>1 DEF Init
  <2>2. \A r \in Rank : \A i \in Activity(r) : 0 <= time[r][i].leave - time[r][i].enter
    BY <1>2, TimesOfActivity DEF Booked
  <2>3. /\ remoteNode = [r \in Rank |-> remoteNode[r]]
        /\ waiting = [r \in Rank |-> waiting[r]]
    BY <1>1 DEF Init
  <2>4. \A r \in Rank : DOMAIN remoteNode[r] = {}
    BY <1>3
  <2> QED
    BY <2>1, <2>2, <2>3, <2>4 DEF Findings
<1> QED
  BY <1>2, <1>3, <1>4, <1>5 DEF Understood, MessageThere

LEMMA UnderstoodStep ==
  ASSUME TagsApart, PartnersAnswer, Understood, [Next]_replay
  PROVE  Understood'
<1>1. CASE UNCHANGED replay
  <2>1. /\ program' = program /\ time' = time /\ pos' = pos /\ stage' = stage
        /\ sent' = sent /\ posted' = posted /\ index' = index
        /\ openRecv' = openRecv /\ openSend' = openSend /\ records' = records
        /\ UNCHANGED <<trace, results>>
    BY <1>1 DEF replay, trace, handles
  <2>2. Booked'
    BY <2>1, BookedStutters DEF Understood
  <2>3. Findings'
    BY <2>1, FindingsStay DEF Understood
  <2>4. RequestsServed'
    <3>1. RequestsServed
      BY DEF Understood
    <3> QED
      BY <2>1, <3>1, ZenonT(60) DEF RequestsServed, Requests, Served, Arrived, Partner, Expected, Reverse
  <2>5. \A r \in Rank : MessageThere(r)'
    BY <2>1 DEF Understood, MessageThere, Op, Single, Arrived
  <2> QED
    BY <2>2, <2>3, <2>4, <2>5 DEF Understood
<1>2. ASSUME NEW r \in Rank, Rule(r) PROVE Understood'
  <2>1. Books(r) /\ Booked'
    BY <1>2, BookedStep DEF Understood
  <2>2. RequestsServed'
    BY <1>2, <2>1, RequestsServedKept DEF Understood
  <2>3. Findings'
    BY <1>2, RuleFindings DEF Understood
  <2>4. \A q \in Rank : MessageThere(q)'
    BY <1>2, <2>1, MessageThereKept DEF Understood
  <2> QED
    BY <2>1, <2>2, <2>3, <2>4 DEF Understood
<1> QED
  BY <1>1, <1>2 DEF Next, ReplayTerminated

LEMMA UnderstoodAlways ==
  ASSUME NoTestall, TagsApart, PartnersAnswer
  PROVE  Spec => []Understood
BY UnderstoodInit, UnderstoodStep, PTL DEF Spec

\* Whatever the order in which messages, answers and requests are completed
\* (and even where MPI_Wait finds its record deleted), a wait state names the
\* activity its communication was with: the rules of two processes, which see
\* only tags and counts, agree on which message is which.
THEOREM WaitsAreForPartners ==
  ASSUME NoTestall, TagsApart, PartnersAnswer
  PROVE  Spec => []WaitsForPartner
<1>1. Understood => WaitsForPartner
  BY DEF Understood, Findings, Cause, WaitsForPartner
<1> QED
  BY <1>1, UnderstoodAlways, PTL

\* No rule charges an activity more waiting time than it lasted, nor a wait
\* for something that was over before: the bounds of the rules suffice,
\* whatever the times of the partners.
THEOREM WaitingFitsTheActivity ==
  ASSUME NoTestall, TagsApart, PartnersAnswer
  PROVE  Spec => []WaitingIsSpent
<1>1. Understood => WaitingIsSpent
  BY TimesOfActivity DEF Understood, Findings, Cause, WaitingIsSpent
<1> QED
  BY <1>1, UnderstoodAlways, PTL

-----------------------------------------------------------------------------
(***************************************************************************)
(* Blocking calls do not wait for each other in a circle.                  *)
(***************************************************************************)
BlockingOnly ==
  \A p \in Programs : \A r \in Rank : \A i \in Activity(r) :
    p[r][i].kind \in BlockingKinds \cup {"self"}

Enter(n) == time[n[1]][n[2]].enter
Leave(n) == time[n[1]][n[2]].leave

LEMMA NodesAreActivities ==
  /\ \A r \in Rank : \A i \in Activity(r) : <<r, i>> \in Node
  /\ \A n \in Node : n[1] \in Rank /\ n[2] \in Activity(n[1]) /\ n = <<n[1], n[2]>>
BY DEF Node

LEMMA NodeTimes ==
  ASSUME Measured, NEW n \in Node
  PROVE  /\ Enter(n) \in Nat /\ Leave(n) \in Nat /\ Enter(n) < Leave(n)
         /\ n[2] > 0 /\ Before(n) \in Node => Leave(Before(n)) <= Enter(n)
<1>1. n[1] \in Rank /\ n[2] \in Activity(n[1])
  BY NodesAreActivities
<1>2. Before(n)[1] = n[1] /\ Before(n)[2] = n[2] - 1
  BY DEF Before
<1>3. n[2] > 0 => time[n[1]][n[2] - 1].leave <= time[n[1]][n[2]].enter
  BY <1>1 DEF Measured, ValidTiming
<1> QED
  BY <1>1, <1>2, <1>3, TimesOfActivity DEF Enter, Leave

\* Who waits has entered before its partner, or together with the last one of
\* a collective, which does not wait.
LEMMA WaitFacts ==
  ASSUME BlockingOnly, Understood, NEW n \in Node, Waits(n), NEW m, m = WaitedFor(n)
  PROVE  /\ m \in Node /\ Enter(n) <= Enter(m) /\ Enter(m) < Leave(n)
         /\ Enter(n) = Enter(m) => ~Waits(m)
<1>1. PICK r \in Rank : \E i \in Activity(r) : n = <<r, i>>
  BY NodesAreActivities
<1>2. PICK i \in Activity(r) : n[1] = r /\ n[2] = i
  BY <1>1
<1>3. i \in DOMAIN remoteNode[r]
  BY <1>2 DEF Waits
<1>4. PICK c : c = remoteNode[r][i]
  OBVIOUS
<1>5. Cause(r, i, c)
  BY <1>3, <1>4 DEF Understood, Findings
<1>6. PICK q \in Rank : q = c.rank /\ c.act \in Activity(q)
  BY <1>5 DEF Cause
<1>7. PICK j \in Activity(q) : j = c.act /\ m = <<q, j>> /\ m[1] = q /\ m[2] = j
  BY <1>2, <1>4, <1>6 DEF WaitedFor
<1>8. program[r][i].kind \in BlockingKinds
  BY <1>5 DEF BlockingOnly, Cause, Understood, Booked, Measured
<1>9. Measured
  BY DEF Understood, Booked
<1>10. /\ time[r][i].enter \in Nat /\ time[q][j].enter \in Nat /\ time[r][i].leave \in Nat
  BY <1>9, TimesOfActivity
<1>11. CASE program[r][i].kind \in {"send", "recv", "sendrecv"}
  <2>1. time[r][i].enter < time[q][j].enter /\ time[q][j].enter < time[r][i].leave
    BY <1>5, <1>6, <1>7, <1>11 DEF Cause
  <2> QED
    BY <1>2, <1>6, <1>7, <1>10, <2>1, NodesAreActivities DEF Enter, Leave
<1>12. CASE program[r][i].kind = "collective"
  <2>1. /\ SameCollective(program, r, i, q, j) /\ LastOf(c)
        /\ time[r][i].enter <= time[q][j].enter /\ time[q][j].enter < time[r][i].leave
    BY <1>5, <1>6, <1>7, <1>12 DEF Cause
  <2>2. ~Waits(m)
    <3>1. SUFFICES ASSUME j \in DOMAIN remoteNode[q] PROVE FALSE
      BY <1>7 DEF Waits
    <3>2. PICK e : e = remoteNode[q][j] /\ Cause(q, j, e)
      BY <3>1 DEF Understood, Findings
    <3>3. program[q][j].kind = "collective"
      BY <2>1, SameCollectiveFacts
    <3>4. /\ SameCollective(program, q, j, e.rank, e.act) /\ LastOf(e)
          /\ time[q][j].enter <= time[e.rank][e.act].enter
          /\ e.rank \in Rank \ {q} /\ e.act \in Activity(e.rank)
      BY <3>2, <3>3 DEF Cause
    <3>5. \/ time[e.rank][e.act].enter < time[q][j].enter
          \/ time[e.rank][e.act].enter = time[q][j].enter /\ q <= e.rank
      BY <1>6, <1>7, <2>1, <3>4 DEF LastOf
    <3>6. SameCollective(program, e.rank, e.act, q, j)
      BY <3>4, SameCollectiveFacts
    <3>7. \/ time[q][j].enter < time[e.rank][e.act].enter
          \/ time[q][j].enter = time[e.rank][e.act].enter /\ e.rank <= q
      BY <3>4, <3>6 DEF LastOf
    <3>8. time[e.rank][e.act].enter \in Nat
      BY <1>9, <3>4, TimesOfActivity
    <3>9. q \in Nat /\ e.rank \in Nat /\ q # e.rank
      BY <3>4, RankIsNatural
    <3> QED
      BY <1>10, <3>4, <3>5, <3>7, <3>8, <3>9
  <2> QED
    BY <1>2, <1>6, <1>7, <1>10, <2>1, <2>2, NodesAreActivities DEF Enter, Leave
<1> QED
  BY <1>8, <1>11, <1>12 DEF BlockingKinds

LEMMA FiniteBound ==
  ASSUME NEW S, IsFiniteSet(S), NEW f, \A x \in S : f[x] \in Nat
  PROVE  \E b \in Nat : \A x \in S : f[x] <= b
<1> DEFINE Bounded(X) == \E b \in Nat : \A x \in X : f[x] <= b
           Bad == {k \in Nat : \E X \in SUBSET S : Cardinality(X) = k /\ ~Bounded(X)}
<1>1. SUFFICES ASSUME ~Bounded(S) PROVE FALSE
  OBVIOUS
<1>2. Bad \in SUBSET Nat /\ Bad # {}
  BY <1>1, FS_CardinalityType
<1>3. PICK k \in Bad : \A h \in Bad : k <= h
  BY <1>2, LeastNat
<1>4. PICK X \in SUBSET S : Cardinality(X) = k /\ ~Bounded(X)
  OBVIOUS
<1>5. X # {}
  BY <1>4
<1>6. PICK x \in X : TRUE
  BY <1>5
<1>7. /\ IsFiniteSet(X \ {x}) /\ Cardinality(X \ {x}) = k - 1 /\ Cardinality(X \ {x}) \in Nat
  BY <1>4, FS_Subset, FS_RemoveElement, FS_CardinalityType
<1>8. Bounded(X \ {x})
  <2>1. CASE Bounded(X \ {x})
    BY <2>1
  <2>2. CASE ~Bounded(X \ {x})
    <3>1. k - 1 \in Bad
      BY <1>7, <2>2
    <3> QED
      BY <1>3, <3>1
  <2> QED
    BY <2>1, <2>2
<1>9. PICK b \in Nat : \A y \in X \ {x} : f[y] <= b
  BY <1>8
<1>10. PICK c \in Nat : c = f[x]
  OBVIOUS
<1>11. \A y \in X : f[y] <= b + c
  BY <1>9, <1>10
<1> QED
  BY <1>4, <1>11

\* The last one to enter of a set of activities.
LEMMA LatestNode ==
  ASSUME Measured, NEW S \in SUBSET Node, S # {}
  PROVE  \E n \in S : \A m \in S : Enter(m) <= Enter(n)
<1>1. ASSUME NEW r \in Rank
      PROVE  \E b \in Nat : \A i \in Activity(r) : time[r][i].enter <= b
  <2>1. IsFiniteSet(Activity(r))
    <3>1. 0 \in Int /\ LastActivity[r] \in Int
      BY ActivityNumbers
    <3> QED
      BY <3>1, FS_Interval DEF Activity
  <2>2. PICK f : f = [i \in Activity(r) |-> time[r][i].enter]
    OBVIOUS
  <2>3. \A i \in Activity(r) : f[i] \in Nat
    BY <2>2, TimesOfActivity
  <2>4. PICK b \in Nat : \A i \in Activity(r) : f[i] <= b
    BY <2>1, <2>3, FiniteBound
  <2> QED
    BY <2>2, <2>4
<1>2. PICK f : f = [r \in Rank |->
                     CHOOSE b \in Nat : \A i \in Activity(r) : time[r][i].enter <= b]
  OBVIOUS
<1>3. \A r \in Rank : f[r] \in Nat /\ \A i \in Activity(r) : time[r][i].enter <= f[r]
  BY <1>1, <1>2
<1>4. PICK b \in Nat : \A r \in Rank : f[r] <= b
  BY <1>3, RankIsNatural, FiniteBound
<1>5. \A n \in Node : Enter(n) \in Nat /\ Enter(n) <= b
  <2>1. SUFFICES ASSUME NEW n \in Node PROVE Enter(n) \in Nat /\ Enter(n) <= b
    OBVIOUS
  <2>2. Enter(n) \in Nat
    BY NodeTimes
  <2>3. PICK r \in Rank : n[1] = r /\ n[2] \in Activity(r)
    BY NodesAreActivities
  <2>4. Enter(n) <= f[r] /\ f[r] <= b /\ f[r] \in Nat
    BY <1>3, <1>4, <2>3 DEF Enter
  <2> QED
    BY <2>2, <2>4
<1> DEFINE V == {Enter(n) : n \in S}
<1>6. V \in SUBSET Nat /\ V # {} /\ \A v \in V : v <= b
  BY <1>5
<1>7. PICK v \in V : \A w \in V : w <= v
  BY <1>6, GreatestNat
<1> QED
  BY <1>7

\* The first one to leave.
LEMMA EarliestNode ==
  ASSUME Measured, NEW S \in SUBSET Node, S # {}
  PROVE  \E n \in S : \A m \in S : Leave(n) <= Leave(m)
<1> DEFINE V == {Leave(n) : n \in S}
<1>1. V \in SUBSET Nat /\ V # {}
  BY NodeTimes
<1>2. PICK v \in V : \A w \in V : v <= w
  BY <1>1, LeastNat
<1> QED
  BY <1>2

\* Within a set that is not chained through earlier activities, the latest
\* one to enter, or who it waits for, depends on none of the others.
LEMMA LatestIsFree ==
  ASSUME BlockingOnly, Understood, NEW S \in SUBSET Node, S # {},
         \A n \in S : Before(n) \notin S
  PROVE  \E n \in S : DependsOn(n) \cap S = {}
<1>1. Measured
  BY DEF Understood, Booked
<1>2. PICK n \in S : \A m \in S : Enter(m) <= Enter(n)
  BY <1>1, LatestNode
<1>3. CASE ~(Waits(n) /\ WaitedFor(n) \in S)
  BY <1>3 DEF DependsOn
<1>4. CASE Waits(n) /\ WaitedFor(n) \in S
  <2>1. PICK m \in S : m = WaitedFor(n)
    BY <1>4
  <2>2. Enter(n) <= Enter(m) /\ (Enter(n) = Enter(m) => ~Waits(m))
    BY <1>4, <2>1, WaitFacts
  <2>3. Enter(m) <= Enter(n) /\ Enter(n) \in Nat /\ Enter(m) \in Nat
    BY <1>1, <1>2, NodeTimes
  <2>4. ~Waits(m)
    BY <2>2, <2>3
  <2>5. DependsOn(m) \cap S = {}
    BY <2>4 DEF DependsOn
  <2> QED
    BY <2>5
<1> QED
  BY <1>3, <1>4

\* Within a set in which who is waited for does not wait, it is the first one
\* to leave, or who it waits for.
LEMMA EarliestIsFree ==
  ASSUME BlockingOnly, Understood, NEW S \in SUBSET Node, S # {}, ~Chained(S)
  PROVE  \E n \in S : DependsOn(n) \cap S = {}
<1>1. Measured
  BY DEF Understood, Booked
<1>2. PICK n \in S : \A m \in S : Leave(n) <= Leave(m)
  BY <1>1, EarliestNode
<1>3. ASSUME NEW m \in S, Enter(m) < Leave(n), m[2] > 0 PROVE Before(m) \notin S
  <2>1. SUFFICES ASSUME Before(m) \in S PROVE FALSE
    OBVIOUS
  <2>2. Leave(n) <= Leave(Before(m))
    BY <1>2, <2>1
  <2>3. Leave(Before(m)) <= Enter(m)
    BY <1>1, <1>3, <2>1, NodeTimes
  <2>4. Leave(n) \in Nat /\ Enter(m) \in Nat /\ Leave(Before(m)) \in Nat
    BY <1>1, <2>1, NodeTimes
  <2> QED
    BY <1>3, <2>2, <2>3, <2>4
<1>4. n[2] > 0 => Before(n) \notin S
  BY <1>1, <1>3, NodeTimes
<1>5. CASE ~(Waits(n) /\ WaitedFor(n) \in S)
  BY <1>4, <1>5 DEF DependsOn
<1>6. CASE Waits(n) /\ WaitedFor(n) \in S
  <2>1. PICK m \in S : m = WaitedFor(n)
    BY <1>6
  <2>2. ~Waits(m)
    BY <1>6, <2>1 DEF Chained
  <2>3. m[2] > 0 => Before(m) \notin S
    BY <1>3, <1>6, <2>1, WaitFacts
  <2>4. DependsOn(m) \cap S = {}
    BY <2>2, <2>3 DEF DependsOn
  <2> QED
    BY <2>4
<1> QED
  BY <1>5, <1>6

LEMMA BlockingOnlyTestsNothing ==
  ASSUME BlockingOnly PROVE NoTestall
BY DEF BlockingOnly, NoTestall, BlockingKinds

\* In a program of blocking calls the activities and what they waited for
\* form no cycle, except through an activity that is waited for and waits
\* itself (an MPI_Sendrecv with several partners blames the last one only)
\* together with the order of the activities of a rank: the distributed graph
\* of README:10, on which the walk from process to process relies.
THEOREM WaitsAreAcyclic ==
  ASSUME BlockingOnly, TagsApart, PartnersAnswer
  PROVE  Spec => []Acyclic
<1>1. Understood => Acyclic
  BY LatestIsFree, EarliestIsFree DEF Acyclic
<1>2. NoTestall
  BY BlockingOnlyTestsNothing
<1> QED
  BY <1>1, <1>2, UnderstoodAlways, PTL

-----------------------------------------------------------------------------
(***************************************************************************)
(* What the replay has concluded about an activity is a function of the    *)
(* trace: the verdict of the times of its own partners.                    *)
(***************************************************************************)
\* Like PartnersAnswer: two MPI_Sendrecv with each other as only partner
\* receive what the other one sends, not what another one of them sends.
SinglesPair ==
  \A p \in Programs : \A r, q \in Rank : \A i \in Activity(r), j \in Activity(q) :
    Matches(p, r, i, q, j) /\ Single(p[r][i]) => Matches(p, q, j, r, i)

\* The activities of the collective i of rank r, and when they were entered.
Partners(r, i) == [q \in Rank |-> CHOOSE j \in Activity(q) : SameCollective(program, r, i, q, j)]
Enters(r, i) == [q \in Rank |-> time[q][Partners(r, i)[q]].enter]

\* What the times of the activities i of rank r has to do with amount to.
SendVerdict(r, i, o) ==
  \E q \in Rank : \E j \in Activity(q), t \in RecvTypes :
    /\ Matches(program, r, i, q, j)
    /\ o = SendOutcome(time[r][i], q, Buffer(t, q, AnswerAt(q, j)))
RecvVerdict(r, i, o) ==
  \E q \in Rank : \E j \in Activity(q), t \in SendTypes :
    /\ Matches(program, q, j, r, i)
    /\ o = RecvOutcome(time[r][i], q, Buffer(t, q, j))
SendrecvVerdict(r, i, o) ==
  \E q \in Rank, d \in Rank : \E j \in Activity(q), l \in Activity(d) :
  \E t \in SendTypes, u \in RecvTypes :
    /\ Matches(program, q, j, r, i) /\ Matches(program, r, i, d, l)
    /\ o = SendrecvOutcome(time[r][i], q, Buffer(t, q, j), d, Buffer(u, d, AnswerAt(d, l)))
WaitVerdict(o) ==
  \/ o = Nothing
  \/ \E q \in Rank : \E a \in Activity(q), w \in Nat : o = WaitsFor(q, a, w)

\* o is what the rule for activity i of rank r has to conclude.
Verdict(r, i, o) ==
  LET op == program[r][i] IN
  /\ op.kind = "send" => SendVerdict(r, i, o)
  /\ op.kind = "recv" \/ Single(op) => RecvVerdict(r, i, o)
  /\ op.kind = "sendrecv" /\ ~Single(op) => SendrecvVerdict(r, i, o)
  /\ op.kind = "collective" => o = CollectiveOutcome(r, Enters(r, i), Partners(r, i))
  /\ op.kind \in {"wait", "waitall"} => WaitVerdict(o)
  /\ op.kind \notin BlockingKinds \cup {"wait", "waitall"} => o = Nothing

\* The rule for the activity has concluded.
Past(r, i) ==
  \/ i < pos[r]
  \/ i = pos[r] /\ program[r][i].kind = "recv" /\ stage[r] = "reverse"

\* w, b and the remote node in the map f are the verdict, or none if not past.
JudgedAs(r, i, past, w, b, f) ==
  IF past
    THEN \E o : /\ Verdict(r, i, o) /\ w = o.waiting /\ b = o.blame
                /\ IF o.remote = {} THEN i \notin DOMAIN f
                   ELSE i \in DOMAIN f /\ f[i] \in o.remote
    ELSE w = 0 /\ b = 0 /\ i \notin DOMAIN f
Judged(r, i) == JudgedAs(r, i, Past(r, i), waiting[r][i], blamed[r][i], remoteNode[r])

Judgements ==
  /\ blamed = [r \in Rank |-> blamed[r]]
  /\ \A r \in Rank : blamed[r] \in [Activity(r) -> Nat]
  /\ \A r \in Rank : \A i \in Activity(r) : Judged(r, i)

\* A verdict depends on the trace only.
LEMMA VerdictStays ==
  ASSUME UNCHANGED trace, NEW r, NEW i, NEW o
  PROVE  Verdict(r, i, o)' <=> Verdict(r, i, o)
<1>1. program' = program /\ time' = time
  BY DEF trace
<1>2. \A q, j : AnswerAt(q, j)' = AnswerAt(q, j)
  BY LettersStay
<1>3. \A t, q, j : Buffer(t, q, j)' = Buffer(t, q, j)
  BY LettersStay
<1>4. Partners(r, i)' = Partners(r, i)
  BY <1>1 DEF Partners
<1>5. Enters(r, i)' = Enters(r, i)
  BY <1>1, <1>4 DEF Enters
<1>6. SendVerdict(r, i, o)' <=> SendVerdict(r, i, o)
  BY <1>1, <1>2, <1>3 DEF SendVerdict
<1>7. RecvVerdict(r, i, o)' <=> RecvVerdict(r, i, o)
  BY <1>1, <1>3 DEF RecvVerdict
<1>8. SendrecvVerdict(r, i, o)' <=> SendrecvVerdict(r, i, o)
  BY <1>1, <1>2, <1>3 DEF SendrecvVerdict
<1> QED
  BY <1>1, <1>4, <1>5, <1>6, <1>7, <1>8 DEF Verdict

\* Results that stay as they are remain judged.
LEMMA JudgedStays ==
  ASSUME UNCHANGED trace, NEW r, NEW i, Judged(r, i), Past(r, i)' <=> Past(r, i),
         waiting'[r][i] = waiting[r][i], blamed'[r][i] = blamed[r][i],
         i \in DOMAIN remoteNode'[r] <=> i \in DOMAIN remoteNode[r],
         i \in DOMAIN remoteNode[r] => remoteNode'[r][i] = remoteNode[r][i]
  PROVE  Judged(r, i)'
<1>1. CASE Past(r, i)
  <2>1. PICK o : /\ Verdict(r, i, o) /\ waiting[r][i] = o.waiting /\ blamed[r][i] = o.blame
                 /\ IF o.remote = {} THEN i \notin DOMAIN remoteNode[r]
                    ELSE i \in DOMAIN remoteNode[r] /\ remoteNode[r][i] \in o.remote
    BY <1>1 DEF Judged, JudgedAs
  <2>2. Verdict(r, i, o)'
    BY <2>1, VerdictStays
  <2> QED
    BY <1>1, <2>1, <2>2 DEF Judged, JudgedAs
<1>2. CASE ~Past(r, i)
  BY <1>2 DEF Judged, JudgedAs
<1> QED
  BY <1>1, <1>2

\* What becomes of the results when a rule concludes.
LEMMA ResultsOfRule ==
  ASSUME Findings, Judgements, NEW r \in Rank, NEW i \in Activity(r), i = pos[r], NEW o,
         Conclude(r, o), o.blame \in Nat
  PROVE  /\ waiting'[r][i] = o.waiting /\ blamed'[r][i] = o.blame
         /\ o.remote = {} => remoteNode' = remoteNode
         /\ o.remote # {} => i \in DOMAIN remoteNode'[r] /\ remoteNode'[r][i] \in o.remote
         /\ \A q \in Rank : \A j \in Activity(q) : ~(q = r /\ j = i) =>
              /\ waiting'[q][j] = waiting[q][j] /\ blamed'[q][j] = blamed[q][j]
              /\ j \in DOMAIN remoteNode'[q] <=> j \in DOMAIN remoteNode[q]
              /\ j \in DOMAIN remoteNode[q] => remoteNode'[q][j] = remoteNode[q][j]
         /\ blamed' = [q \in Rank |-> blamed'[q]]
         /\ \A q \in Rank : blamed'[q] \in [Activity(q) -> Nat]
<1>1. /\ waiting' = [waiting EXCEPT ![r][i] = o.waiting]
      /\ blamed' = [blamed EXCEPT ![r][i] = o.blame]
  BY DEF Conclude
<1>2. /\ waiting = [q \in Rank |-> waiting[q]] /\ \A q \in Rank : waiting[q] \in [Activity(q) -> Int]
      /\ blamed = [q \in Rank |-> blamed[q]] /\ \A q \in Rank : blamed[q] \in [Activity(q) -> Nat]
      /\ remoteNode = [q \in Rank |-> remoteNode[q]]
  BY DEF Findings, Judgements
<1>3. /\ waiting'[r] = [waiting[r] EXCEPT ![i] = o.waiting]
      /\ \A q \in Rank \ {r} : waiting'[q] = waiting[q]
  BY <1>1, <1>2
<1>4. /\ blamed'[r] = [blamed[r] EXCEPT ![i] = o.blame]
      /\ \A q \in Rank \ {r} : blamed'[q] = blamed[q]
      /\ blamed' = [q \in Rank |-> blamed'[q]]
  BY <1>1, <1>2
<1>5. /\ waiting'[r][i] = o.waiting
      /\ \A q \in Rank : \A j \in Activity(q) : ~(q = r /\ j = i) => waiting'[q][j] = waiting[q][j]
  BY <1>2, <1>3
<1>6. /\ blamed'[r][i] = o.blame
      /\ \A q \in Rank : \A j \in Activity(q) : ~(q = r /\ j = i) => blamed'[q][j] = blamed[q][j]
      /\ \A q \in Rank : blamed'[q] \in [Activity(q) -> Nat]
  BY <1>2, <1>4
<1>7. CASE o.remote = {}
  <2>1. remoteNode' = remoteNode
    BY <1>7 DEF Conclude
  <2> QED
    BY <1>4, <1>5, <1>6, <1>7, <2>1
<1>8. CASE o.remote # {}
  <2>1. PICK n \in o.remote : n = CHOOSE x \in o.remote : TRUE
    BY <1>8
  <2>2. PICK f : f = PutNode(remoteNode[r], i, n)
    OBVIOUS
  <2>3. remoteNode' = [remoteNode EXCEPT ![r] = f]
    BY <1>8, <2>1, <2>2 DEF Conclude
  <2>4. /\ DOMAIN f = {i} \cup DOMAIN remoteNode[r]
        /\ \A j \in DOMAIN f : f[j] = IF j = i THEN n ELSE remoteNode[r][j]
    BY <2>2 DEF PutNode
  <2>5. remoteNode'[r] = f /\ \A q \in Rank \ {r} : remoteNode'[q] = remoteNode[q]
    BY <1>2, <2>3
  <2>6. i \in DOMAIN remoteNode'[r] /\ remoteNode'[r][i] \in o.remote
    BY <2>1, <2>4, <2>5
  <2>7. \A q \in Rank : \A j \in Activity(q) : ~(q = r /\ j = i) =>
          /\ j \in DOMAIN remoteNode'[q] <=> j \in DOMAIN remoteNode[q]
          /\ j \in DOMAIN remoteNode[q] => remoteNode'[q][j] = remoteNode[q][j]
    BY <2>4, <2>5
  <2> QED
    BY <1>4, <1>5, <1>6, <1>8, <2>6, <2>7
<1> QED
  BY <1>7, <1>8

\* A step of a rank is about one activity.
LEMMA PastElsewhere ==
  ASSUME Typed, NEW r \in Rank, Books(r), NEW q \in Rank, NEW j \in Activity(q),
         ~(q = r /\ j = pos[r])
  PROVE  Past(q, j)' <=> Past(q, j)
<1>1. program' = program
  BY DEF Books, trace
<1>2. pos[r] \in Nat /\ j \in Nat
  BY ActivityNumbers DEF Typed, Activity
<1>3. CASE q # r
  BY <1>1, <1>3 DEF Past, Books, Moves
<1>4. CASE q = r
  <2>1. \/ pos'[r] = pos[r] + 1 /\ stage'[r] = "apply"
        \/ pos'[r] = pos[r]
    BY DEF Books, Moves
  <2> QED
    BY <1>1, <1>2, <1>4, <2>1 DEF Past
<1> QED
  BY <1>3, <1>4

\* Where the answer of a receive is sent, for the kinds that send it at once.
LEMMA AnswerActivity ==
  ASSUME Measured, NEW q \in Rank, NEW j \in Activity(q)
  PROVE  /\ AnswerAt(q, j) \in Activity(q)
         /\ program[q][AnswerAt(q, j)].kind \in BlockingKinds => AnswerAt(q, j) = j
         /\ program[q][j].kind # "irecv" => AnswerAt(q, j) = j
<1> DEFINE sync == {h \in Activity(q) : /\ program[q][h].kind \in {"wait", "test"}
                                          /\ Completes(program[q][h], j)}
<1>1. PICK a : a = AnswerAt(q, j)
  OBVIOUS
<1>2. CASE a = j
  BY <1>1, <1>2
<1>3. CASE a # j
  <2>1. program[q][j].kind = "irecv" /\ a \in sync
    BY <1>1, <1>3 DEF AnswerAt, SyncActivity
  <2>2. a \in Activity(q) /\ program[q][a].kind \in {"wait", "test"}
    BY <2>1
  <2>3. program[q][a].kind \notin BlockingKinds
    BY <2>2 DEF BlockingKinds
  <2> QED
    BY <1>1, <2>1, <2>2, <2>3
<1> QED
  BY <1>2, <1>3

\* What a message says.
LEMMA BufferFields ==
  ASSUME Measured, NEW q \in Rank, NEW j \in Activity(q), NEW t
  PROVE  LET m == Buffer(t, q, j) IN
         /\ m.type = t /\ m.act = j
         /\ m.start = time[q][j].enter /\ m.end = time[q][j].leave
         /\ m.start \in Nat /\ m.end \in Nat /\ m.start < m.end
<1>1. time[q][j].enter \in Nat /\ time[q][j].leave \in Nat /\ time[q][j].enter < time[q][j].leave
  BY TimesOfActivity
<1> QED
  BY <1>1 DEF Buffer

\* A conclusion is a pair of times and at most one node.
Decent(o) ==
  /\ o.waiting \in Nat /\ o.blame \in Nat
  /\ o.remote \subseteq RemoteNodes

\* Outcomes without a remote node are decent, ...
LEMMA DecentNothing ==
  Decent(Nothing) /\ \A b \in Nat : Decent(Blame(b))
BY DEF Decent, Nothing, Blame

\* ... those with one, ...
LEMMA DecentWaitsFor ==
  ASSUME NEW q \in Rank, NEW a \in Activity(q), NEW w \in Nat
  PROVE  Decent(WaitsFor(q, a, w))
<1>1. [rank |-> q, act |-> a] \in RemoteNodes
  BY DEF RemoteNodes
<1> QED
  BY <1>1 DEF Decent, WaitsFor

\* ... and so those of the rules, for MPI_Send, ...
LEMMA DecentSend ==
  ASSUME Measured, NEW r \in Rank, NEW i \in Activity(r), NEW o, SendVerdict(r, i, o)
  PROVE  Decent(o)
<1>1. PICK q \in Rank : \E j \in Activity(q), t \in RecvTypes :
        o = SendOutcome(time[r][i], q, Buffer(t, q, AnswerAt(q, j)))
  BY DEF SendVerdict
<1>2. PICK j \in Activity(q), t \in RecvTypes :
        o = SendOutcome(time[r][i], q, Buffer(t, q, AnswerAt(q, j)))
  BY <1>1
<1>3. PICK a \in Activity(q) : a = AnswerAt(q, j)
  BY AnswerActivity
<1>4. PICK m : m = Buffer(t, q, a)
  OBVIOUS
<1>5. m.act \in Activity(q) /\ m.start \in Nat /\ m.end \in Nat
  BY <1>4, BufferFields
<1>6. time[r][i].enter \in Nat /\ time[r][i].leave \in Nat
  BY TimesOfActivity
<1>7. o = SendOutcome(time[r][i], q, m)
  BY <1>2, <1>3, <1>4
<1>8. time[r][i].enter < m.start => Decent(WaitsFor(q, m.act, m.start - time[r][i].enter))
  BY <1>5, <1>6, DecentWaitsFor
<1>9. m.start < time[r][i].enter => Decent(Blame(time[r][i].enter - m.start))
  BY <1>5, <1>6, DecentNothing
<1> QED
  BY <1>7, <1>8, <1>9, DecentNothing DEF SendOutcome

\* ... MPI_Recv, ...
LEMMA DecentRecv ==
  ASSUME Measured, NEW r \in Rank, NEW i \in Activity(r), NEW o, RecvVerdict(r, i, o)
  PROVE  Decent(o)
<1>1. PICK q \in Rank : \E j \in Activity(q), t \in SendTypes :
        o = RecvOutcome(time[r][i], q, Buffer(t, q, j))
  BY DEF RecvVerdict
<1>2. PICK j \in Activity(q), t \in SendTypes : o = RecvOutcome(time[r][i], q, Buffer(t, q, j))
  BY <1>1
<1>3. PICK m : m = Buffer(t, q, j)
  OBVIOUS
<1>4. m.act \in Activity(q) /\ m.start \in Nat /\ m.end \in Nat
  BY <1>3, BufferFields
<1>5. time[r][i].enter \in Nat /\ time[r][i].leave \in Nat
  BY TimesOfActivity
<1>6. o = RecvOutcome(time[r][i], q, m)
  BY <1>2, <1>3
<1>7. time[r][i].enter < m.start => Decent(WaitsFor(q, m.act, m.start - time[r][i].enter))
  BY <1>4, <1>5, DecentWaitsFor
<1>8. m.start < time[r][i].enter => Decent(Blame(time[r][i].enter - m.start))
  BY <1>4, <1>5, DecentNothing
<1> QED
  BY <1>6, <1>7, <1>8, DecentNothing DEF RecvOutcome

\* ... MPI_Sendrecv, ...
LEMMA DecentSendrecv ==
  ASSUME Measured, NEW r \in Rank, NEW i \in Activity(r), NEW o, SendrecvVerdict(r, i, o)
  PROVE  Decent(o)
<1>1. PICK q \in Rank, d \in Rank : \E j \in Activity(q), l \in Activity(d) :
      \E t \in SendTypes, u \in RecvTypes :
        o = SendrecvOutcome(time[r][i], q, Buffer(t, q, j), d, Buffer(u, d, AnswerAt(d, l)))
  BY DEF SendrecvVerdict
<1>2. PICK j \in Activity(q), l \in Activity(d), t \in SendTypes, u \in RecvTypes :
        o = SendrecvOutcome(time[r][i], q, Buffer(t, q, j), d, Buffer(u, d, AnswerAt(d, l)))
  BY <1>1
<1>3. PICK a \in Activity(d) : a = AnswerAt(d, l)
  BY AnswerActivity
<1>4. PICK in, out : in = Buffer(t, q, j) /\ out = Buffer(u, d, a)
  OBVIOUS
<1>5. /\ in.act \in Activity(q) /\ in.start \in Nat /\ in.end \in Nat
      /\ out.act \in Activity(d) /\ out.start \in Nat /\ out.end \in Nat
  BY <1>4, BufferFields
<1>6. PICK my : my = time[r][i]
  OBVIOUS
<1>7. my.enter \in Nat /\ my.leave \in Nat /\ my.enter < my.leave
  BY <1>6, TimesOfActivity
<1>8. o = SendrecvOutcome(my, q, in, d, out)
  BY <1>2, <1>3, <1>4, <1>6
<1>9. my.enter < in.start => Decent(WaitsFor(q, in.act, Min2(in.start, my.leave) - my.enter))
  <2>1. my.enter < in.start => Min2(in.start, my.leave) - my.enter \in Nat
    BY <1>5, <1>7 DEF Min2
  <2> QED
    BY <1>5, <2>1, DecentWaitsFor
<1>10. my.enter < out.start => Decent(WaitsFor(d, out.act, Min2(out.start, my.leave) - my.enter))
  <2>1. my.enter < out.start => Min2(out.start, my.leave) - my.enter \in Nat
    BY <1>5, <1>7 DEF Min2
  <2> QED
    BY <1>5, <2>1, DecentWaitsFor
<1> DEFINE b == (IF my.enter < in.end THEN my.enter - in.start ELSE 0)
                + (IF out.start < my.enter THEN my.enter - out.start ELSE 0)
<1>11. ~(my.enter < in.start) => Decent(Blame(b))
  <2>1. ~(my.enter < in.start) => b \in Nat
    BY <1>5, <1>7
  <2> QED
    BY <2>1, DecentNothing
<1> QED
  BY <1>8, <1>9, <1>10, <1>11 DEF SendrecvOutcome

\* The activities of a collective, when they were entered, and the last one.
LEMMA CollectiveTimes ==
  ASSUME Measured, NEW r \in Rank, NEW i \in Activity(r), program[r][i].kind = "collective"
  PROVE  /\ \A q \in Rank :
              /\ Partners(r, i)[q] \in Activity(q)
              /\ SameCollective(program, r, i, q, Partners(r, i)[q])
              /\ Enters(r, i)[q] = time[q][Partners(r, i)[q]].enter
         /\ Partners(r, i)[r] = i
         /\ Enters(r, i) \in [Rank -> Nat]
         /\ LastEnter(Enters(r, i)) \in Rank
         /\ \A q \in Rank : Enters(r, i)[q] <= Enters(r, i)[LastEnter(Enters(r, i))]
<1>1. PICK act : act = Partners(r, i)
  OBVIOUS
<1>2. ASSUME NEW q \in Rank PROVE act[q] \in Activity(q) /\ SameCollective(program, r, i, q, act[q])
  <2>1. i \in Collectives(program, r)
    BY DEF Collectives
  <2>2. \E j \in Collectives(program, q) : SameCollective(program, r, i, q, j)
    BY <2>1, ReplayPrograms DEF Measured, LegalProgram
  <2>3. \E j \in Activity(q) : SameCollective(program, r, i, q, j)
    BY <2>2 DEF Collectives
  <2> QED
    BY <1>1, <2>3 DEF Partners
<1>3. act[r] = i
  <2>1. SameCollective(program, r, i, r, i)
    BY DEF SameCollective, Collectives
  <2> QED
    BY <1>2, <2>1, SameCollectiveFacts
<1>4. PICK enter : enter = Enters(r, i)
  OBVIOUS
<1>5. enter = [q \in Rank |-> time[q][act[q]].enter]
  BY <1>1, <1>4 DEF Enters
<1>6. ASSUME NEW q \in Rank PROVE enter[q] \in Nat /\ enter[q] <= time[r][i].leave
  <2>1. SameCollective(program, q, act[q], r, i)
    BY <1>2, SameCollectiveFacts
  <2>2. time[q][act[q]].enter < time[r][i].leave
    BY <1>2, <2>1 DEF Measured, ValidTiming
  <2>3. time[q][act[q]].enter \in Nat /\ time[r][i].leave \in Nat
    BY <1>2, TimesOfActivity
  <2> QED
    BY <1>5, <2>2, <2>3
<1>7. enter \in [Rank -> Nat] /\ time[r][i].leave \in Nat
  BY <1>5, <1>6, TimesOfActivity
<1>8. /\ LastEnter(enter) \in Rank
      /\ \A o \in Rank : \/ enter[o] < enter[LastEnter(enter)]
                         \/ enter[o] = enter[LastEnter(enter)] /\ LastEnter(enter) <= o
  BY <1>6, <1>7, LastEnterIsLast
<1>9. \A q \in Rank : enter[q] <= enter[LastEnter(enter)]
  BY <1>7, <1>8
<1> QED
  BY <1>1, <1>2, <1>3, <1>4, <1>5, <1>7, <1>8, <1>9

\* The activities of a collective, one on each rank.
LEMMA PartnersIsFunction ==
  ASSUME NEW r, NEW i
  PROVE  Partners(r, i) = [q \in Rank |-> Partners(r, i)[q]]
BY DEF Partners

\* The ranks have the same idea of a collective.
LEMMA CollectiveAlike ==
  ASSUME Measured, NEW r \in Rank, NEW i \in Activity(r), program[r][i].kind = "collective",
         NEW q \in Rank, NEW j, j = Partners(r, i)[q]
  PROVE  /\ j \in Activity(q) /\ program[q][j].kind = "collective"
         /\ Partners(q, j) = Partners(r, i) /\ Enters(q, j) = Enters(r, i)
<1>1. SameCollective(program, r, i, q, j) /\ j \in Activity(q)
  BY CollectiveTimes
<1>2. program[q][j].kind = "collective"
  BY <1>1, SameCollectiveFacts
<1>3. ASSUME NEW o \in Rank PROVE Partners(q, j)[o] = Partners(r, i)[o]
  <2>1. SameCollective(program, q, j, o, Partners(q, j)[o])
    BY <1>1, <1>2, CollectiveTimes
  <2>2. SameCollective(program, r, i, o, Partners(q, j)[o])
    BY <1>1, <2>1, SameCollectiveFacts
  <2>3. SameCollective(program, r, i, o, Partners(r, i)[o])
    BY CollectiveTimes
  <2>4. \A k : SameCollective(program, r, i, o, k) => k = Partners(r, i)[o]
    BY <2>3, SameCollectiveFacts
  <2> QED
    BY <2>2, <2>4, Zenon
<1>4. Partners(q, j) = Partners(r, i)
  <2>1. Partners(q, j) = [o \in Rank |-> Partners(q, j)[o]]
    BY PartnersIsFunction
  <2>2. Partners(r, i) = [o \in Rank |-> Partners(r, i)[o]]
    BY PartnersIsFunction
  <2> QED
    BY <1>3, <2>1, <2>2
<1> QED
  BY <1>1, <1>2, <1>4 DEF Enters

\* All waiting time of a collective, and that of one rank.
LEMMA WaitingOfAll ==
  ASSUME NEW enter \in [Rank -> Nat], NEW last \in Rank, \A q \in Rank : enter[q] <= enter[last]
  PROVE  /\ AllWaiting(enter, last) \in Nat
         /\ \A q \in Rank : enter[last] - enter[q] <= AllWaiting(enter, last)
<1>1. PICK g : g = [q \in Rank |-> enter[last] - enter[q]]
  OBVIOUS
<1>2. \A q \in Rank : g[q] \in Nat /\ g[q] = enter[last] - enter[q]
  BY <1>1
<1>3. AllWaiting(enter, last) = SumOver(g, Rank)
  <2>1. DOMAIN g = Rank
    BY <1>1
  <2>2. AllWaiting(enter, last) = FoldFunction(+, 0, g)
    BY <1>1 DEF AllWaiting
  <2> QED
    BY <2>1, <2>2 DEF FoldFunction, SumOver
<1>4. SumOver(g, Rank) \in Nat /\ \A q \in Rank : g[q] <= SumOver(g, Rank)
  BY <1>2, RankIsNatural, SumOverNat
<1> QED
  BY <1>2, <1>3, <1>4

\* ... and the collectives.
LEMMA DecentCollective ==
  ASSUME Measured, NEW r \in Rank, NEW i \in Activity(r), program[r][i].kind = "collective"
  PROVE  Decent(CollectiveOutcome(r, Enters(r, i), Partners(r, i)))
<1>1. PICK enter, act : enter = Enters(r, i) /\ act = Partners(r, i)
  OBVIOUS
<1>2. PICK last : last = LastEnter(enter)
  OBVIOUS
<1>3. /\ enter \in [Rank -> Nat] /\ last \in Rank /\ act[last] \in Activity(last)
      /\ \A q \in Rank : enter[q] <= enter[last]
  BY <1>1, <1>2, CollectiveTimes
<1>4. Decent(WaitsFor(last, act[last], enter[last] - enter[r]))
  <2>1. enter[last] - enter[r] \in Nat
    BY <1>3
  <2> QED
    BY <1>3, <2>1, DecentWaitsFor
<1>5. Decent(Blame(AllWaiting(enter, last)))
  BY <1>3, WaitingOfAll, DecentNothing
<1>6. \/ CollectiveOutcome(r, enter, act) = WaitsFor(last, act[last], enter[last] - enter[r])
      \/ CollectiveOutcome(r, enter, act) = Blame(AllWaiting(enter, last))
  BY <1>2 DEF CollectiveOutcome
<1> QED
  BY <1>1, <1>4, <1>5, <1>6

\* Every verdict is one.
LEMMA DecentVerdict ==
  ASSUME Measured, NEW r \in Rank, NEW i \in Activity(r), NEW o, Verdict(r, i, o)
  PROVE  Decent(o)
<1>1. CASE program[r][i].kind = "send"
  BY <1>1, DecentSend DEF Verdict
<1>2. CASE program[r][i].kind = "recv" \/ Single(program[r][i])
  BY <1>2, DecentRecv DEF Verdict
<1>3. CASE program[r][i].kind = "sendrecv" /\ ~Single(program[r][i])
  BY <1>3, DecentSendrecv DEF Verdict
<1>4. CASE program[r][i].kind = "collective"
  BY <1>4, DecentCollective DEF Verdict
<1>5. CASE program[r][i].kind \in {"wait", "waitall"}
  BY <1>5, DecentNothing, DecentWaitsFor DEF Verdict, WaitVerdict
<1>6. CASE program[r][i].kind \notin BlockingKinds \cup {"wait", "waitall"}
  BY <1>6, DecentNothing DEF Verdict
<1> QED
  BY <1>1, <1>2, <1>3, <1>4, <1>5, <1>6 DEF BlockingKinds

\* The activity of a rank that advances is behind it.
LEMMA AdvancedIsPast ==
  ASSUME Typed, NEW r \in Rank, NEW i, i = pos[r], i \in Activity(r), Advance(r)
  PROVE  i < pos'[r]
BY Advances DEF Typed

\* What a rule of rank r for activity i does about its verdict.
Judges(r, i) ==
  \/ /\ ~Past(r, i) /\ Past(r, i)'
     /\ \/ \E o : Conclude(r, o) /\ Verdict(r, i, o)
        \/ UNCHANGED results /\ Verdict(r, i, Nothing)
  \/ UNCHANGED results /\ (Past(r, i)' <=> Past(r, i))

\* MPI_Send concludes from the answer, ...
LEMMA FinishSendJudges ==
  ASSUME PartnersAnswer, Booked, NEW r \in Rank, NEW i, i = pos[r], FinishSend(r)
  PROVE  Judges(r, i)
<1>1. /\ i \in Activity(r) /\ program[r][i].kind = "send" /\ stage[r] = "reverse"
      /\ UNCHANGED trace
  BY DEF FinishSend, AtStage, Op
<1>2. PICK q \in Rank, u \in Tag : q = program[r][i].to /\ u = program[r][i].tag
  BY <1>1, LegalNow DEF Booked, LegalOperation, SendKinds
<1>3. i \in Replied(Asks(program, r, q, u), r)
  BY <1>1, <1>2, OwnSets DEF Replied, SendKinds, Single, Op
<1>4. PICK m : m = sent[q][r][Reverse(u)][index[r][i].revIn]
  OBVIOUS
<1>5. /\ Arrived(r, q, Reverse(u), index[r][i].revIn)
      /\ Conclude(r, SendOutcome(time[r][i], q, m))
  BY <1>2, <1>4 DEF FinishSend, My, Op
<1>6. PICK j \in Activity(q), t \in RecvTypes :
        Matches(program, r, i, q, j) /\ m = Buffer(t, q, AnswerAt(q, j))
  BY <1>3, <1>4, <1>5, MessageOfAnswer
<1>7. SendVerdict(r, i, SendOutcome(time[r][i], q, m))
  BY <1>6 DEF SendVerdict
<1>8. Verdict(r, i, SendOutcome(time[r][i], q, m))
  BY <1>1, <1>7 DEF Verdict, Single, BlockingKinds
<1>9. i < pos'[r]
  BY <1>1, AdvancedIsPast DEF FinishSend, Booked
<1>10. ~Past(r, i) /\ Past(r, i)'
  BY <1>1, <1>9, ActivityNumbers DEF Past, Activity
<1> QED
  BY <1>5, <1>8, <1>10 DEF Judges

\* ... MPI_Recv from the message, ...
LEMMA ReceiveJudges ==
  ASSUME Booked, NEW r \in Rank, Books(r), NEW i, i = pos[r], Receive(r)
  PROVE  Judges(r, i)
<1>1. /\ i \in Activity(r) /\ program[r][i].kind = "recv" /\ stage[r] = "forward"
      /\ UNCHANGED trace
  BY DEF Receive, AtStage, Op
<1>2. PICK q \in Rank, u \in Tag : q = program[r][i].from /\ u = program[r][i].rtag
  BY <1>1, LegalNow DEF Booked, LegalOperation, RecvKinds
<1>3. i \in Begun(ReceivesFrom(program, r, q, u), r)
  BY <1>1, <1>2, OwnSets DEF Begun, RecvKinds, Op
<1>4. PICK m : m = sent[q][r][u][index[r][i].in]
  OBVIOUS
<1>5. Arrived(r, q, u, index[r][i].in)
  BY <1>2 DEF Receive, Op
<1>6. PICK j \in SendsTo(program, q, r, u), t \in SendTypes :
        Matches(program, q, j, r, i) /\ m = Buffer(t, q, j)
  BY <1>3, <1>4, <1>5, MessageOfSend DEF Booked
<1>7. j \in Activity(q) /\ m.type = t
  BY <1>6, KindsOfActivities DEF Buffer
<1>8. Conclude(r, RecvOutcome(time[r][i], q, m)) /\ GoTo(r, "reverse")
  BY <1>2, <1>4, <1>7 DEF Receive, My, Op
<1>9. RecvVerdict(r, i, RecvOutcome(time[r][i], q, m))
  BY <1>6, <1>7 DEF RecvVerdict
<1>10. Verdict(r, i, RecvOutcome(time[r][i], q, m))
  BY <1>1, <1>9 DEF Verdict, Single, BlockingKinds
<1>11. pos'[r] = i /\ stage'[r] = "reverse" /\ program' = program
  BY <1>1, <1>8, GoesTo DEF Booked, trace
<1>12. ~Past(r, i) /\ Past(r, i)'
  BY <1>1, <1>11, ActivityNumbers DEF Past, Activity
<1> QED
  BY <1>8, <1>10, <1>12 DEF Judges

\* ... MPI_Sendrecv from the message, if it has one partner, ...
LEMMA ReceiveSendrecvJudges ==
  ASSUME Booked, NEW r \in Rank, NEW i, i = pos[r], ReceiveSendrecv(r)
  PROVE  Judges(r, i)
<1>1. /\ i \in Activity(r) /\ program[r][i].kind = "sendrecv" /\ stage[r] = "forward"
      /\ UNCHANGED trace
  BY DEF ReceiveSendrecv, AtStage, Op
<1>2. PICK q \in Rank, u \in Tag : q = program[r][i].from /\ u = program[r][i].rtag
  BY <1>1, LegalNow DEF Booked, LegalOperation, RecvKinds
<1>3. CASE program[r][i].to = program[r][i].from
  <2>1. i \in Begun(ReceivesFrom(program, r, q, u), r)
    BY <1>1, <1>2, OwnSets DEF Begun, RecvKinds, Op
  <2>2. PICK m : m = sent[q][r][u][index[r][i].in]
    OBVIOUS
  <2>3. /\ Arrived(r, q, u, index[r][i].in)
        /\ Conclude(r, RecvOutcome(time[r][i], q, m)) /\ Advance(r)
    BY <1>2, <1>3, <2>2 DEF ReceiveSendrecv, My, Op
  <2>4. PICK j \in SendsTo(program, q, r, u), t \in SendTypes :
          Matches(program, q, j, r, i) /\ m = Buffer(t, q, j)
    BY <2>1, <2>2, <2>3, MessageOfSend DEF Booked
  <2>5. j \in Activity(q)
    BY KindsOfActivities
  <2>6. RecvVerdict(r, i, RecvOutcome(time[r][i], q, m))
    BY <2>4, <2>5 DEF RecvVerdict
  <2>7. Verdict(r, i, RecvOutcome(time[r][i], q, m))
    BY <1>1, <1>3, <2>6 DEF Verdict, Single, BlockingKinds
  <2>8. i < pos'[r]
    BY <1>1, <2>3, AdvancedIsPast DEF Booked
  <2>9. ~Past(r, i) /\ Past(r, i)'
    BY <1>1, <2>8, ActivityNumbers DEF Past, Activity
  <2> QED
    BY <2>3, <2>7, <2>9 DEF Judges
<1>4. CASE program[r][i].to # program[r][i].from
  <2>1. UNCHANGED results /\ GoTo(r, "reverse")
    BY <1>4 DEF ReceiveSendrecv, Op
  <2>2. pos'[r] = i /\ program' = program
    BY <2>1, <1>1 DEF GoTo, trace
  <2>3. ~Past(r, i) /\ ~Past(r, i)'
    BY <1>1, <2>2, ActivityNumbers DEF Past, Activity
  <2> QED
    BY <2>1, <2>3 DEF Judges
<1> QED
  BY <1>3, <1>4

\* ... from message and answer if it has two, ...
LEMMA FinishSendrecvJudges ==
  ASSUME PartnersAnswer, Booked, NEW r \in Rank, NEW i, i = pos[r], FinishSendrecv(r),
         MessageThere(r)
  PROVE  Judges(r, i)
<1>1. /\ i \in Activity(r) /\ program[r][i].kind = "sendrecv" /\ stage[r] = "reverse"
      /\ ~Single(program[r][i]) /\ UNCHANGED trace
  BY DEF FinishSendrecv, AtStage, MessageThere, Op
<1>2. PICK q \in Rank, u \in Tag, d \in Rank, v \in Tag :
        /\ q = program[r][i].from /\ u = program[r][i].rtag
        /\ d = program[r][i].to /\ v = program[r][i].tag
  BY <1>1, LegalNow DEF Booked, LegalOperation, RecvKinds, SendKinds
<1>3. /\ i \in Begun(ReceivesFrom(program, r, q, u), r)
      /\ i \in Replied(Asks(program, r, d, v), r)
  BY <1>1, <1>2, OwnSets DEF Begun, RecvKinds, Replied, SendKinds, Op
<1>4. PICK in, out : /\ in = sent[q][r][u][index[r][i].in]
                     /\ out = sent[d][r][Reverse(v)][index[r][i].revIn]
  OBVIOUS
<1>5. /\ Arrived(r, q, u, index[r][i].in)
      /\ Arrived(r, d, Reverse(v), index[r][i].revIn)
      /\ Conclude(r, SendrecvOutcome(time[r][i], q, in, d, out))
  BY <1>1, <1>2, <1>4 DEF FinishSendrecv, My, MessageThere, Op
<1>6. PICK j \in SendsTo(program, q, r, u), t \in SendTypes :
        Matches(program, q, j, r, i) /\ in = Buffer(t, q, j)
  BY <1>3, <1>4, <1>5, MessageOfSend DEF Booked
<1>7. j \in Activity(q)
  BY KindsOfActivities
<1>8. PICK l \in Activity(d), w \in RecvTypes :
        Matches(program, r, i, d, l) /\ out = Buffer(w, d, AnswerAt(d, l))
  BY <1>3, <1>4, <1>5, MessageOfAnswer
<1>9. SendrecvVerdict(r, i, SendrecvOutcome(time[r][i], q, in, d, out))
  BY <1>6, <1>7, <1>8 DEF SendrecvVerdict
<1>10. Verdict(r, i, SendrecvOutcome(time[r][i], q, in, d, out))
  BY <1>1, <1>9 DEF Verdict, BlockingKinds
<1>11. i < pos'[r]
  BY <1>1, AdvancedIsPast DEF FinishSendrecv, Booked
<1>12. ~Past(r, i) /\ Past(r, i)'
  BY <1>1, <1>11, ActivityNumbers DEF Past, Activity
<1> QED
  BY <1>5, <1>10, <1>12 DEF Judges

\* ... a collective from the times of all.
LEMMA CollectiveJudges ==
  ASSUME Booked, NEW r \in Rank, NEW i, i = pos[r], FinishCollective(r)
  PROVE  Judges(r, i)
<1>1. i \in Activity(r) /\ program[r][i].kind = "collective" /\ UNCHANGED trace
  BY DEF FinishCollective, AtStage, Op
<1>2. Conclude(r, CollectiveOutcome(r, Enters(r, i), Partners(r, i)))
  BY DEF FinishCollective, Enters, Partners
<1>3. Verdict(r, i, CollectiveOutcome(r, Enters(r, i), Partners(r, i)))
  BY <1>1 DEF Verdict, Single, BlockingKinds
<1>4. i < pos'[r]
  BY <1>1, AdvancedIsPast DEF FinishCollective, Booked
<1>5. ~Past(r, i) /\ Past(r, i)'
  BY <1>1, <1>4, ActivityNumbers DEF Past, Activity
<1> QED
  BY <1>2, <1>3, <1>5 DEF Judges

\* MPI_Wait concludes from one message, ...
LEMMA WaitOutcomeIsOne ==
  ASSUME Measured, NEW r \in Rank, NEW i \in Activity(r), NEW a, NEW q, NEW m, Letter(r, a, q, m)
  PROVE  WaitVerdict(WaitOutcome(time[r][i], q, m))
<1>1. q \in Rank /\ m.act \in Activity(q) /\ m.start \in Nat /\ m.end \in Nat
  BY LetterTimes DEF Letter
<1>2. PICK my : my = time[r][i]
  OBVIOUS
<1>3. my.enter \in Nat /\ my.leave \in Nat /\ my.enter < my.leave
  BY <1>2, TimesOfActivity
<1>4. PICK p \in Nat : p = IF m.type \in {"SEND", "RECV", "SENDRECV"} THEN m.start ELSE m.end
  BY <1>1
<1>5. CASE my.enter < p
  <2>1. PICK w \in Nat : w = Min2(p, my.leave) - my.enter
    BY <1>3, <1>4, <1>5 DEF Min2
  <2>2. WaitOutcome(my, q, m) = WaitsFor(q, m.act, w)
    BY <1>4, <1>5, <2>1 DEF WaitOutcome
  <2> QED
    BY <1>1, <1>2, <2>2 DEF WaitVerdict
<1>6. CASE ~(my.enter < p)
  <2>1. WaitOutcome(my, q, m) = Nothing
    BY <1>4, <1>6 DEF WaitOutcome
  <2> QED
    BY <1>2, <2>1 DEF WaitVerdict
<1> QED
  BY <1>5, <1>6

\* ... MPI_Waitall from the last one that was late.
LEMMA WaitallOutcomeIsOne ==
  ASSUME Measured, NEW r \in Rank, NEW i \in Activity(r), NEW length \in Nat, NEW partners, NEW ms,
         DOMAIN ms = 1 .. length,
         \A k \in 1 .. length : \E a \in With(r, i) : Letter(r, a, partners[k], ms[k])
  PROVE  WaitVerdict(WaitallOutcome(time[r][i], partners, ms))
<1>1. PICK my : my = time[r][i]
  OBVIOUS
<1>2. my.enter \in Nat /\ my.leave \in Nat /\ my.enter < my.leave
  BY <1>1, TimesOfActivity
<1>3. PICK late : late = Superseding(my, ms)
  OBVIOUS
<1>4. CASE late = {}
  <2>1. WaitallOutcome(my, partners, ms) = Nothing
    BY <1>3, <1>4 DEF WaitallOutcome
  <2> QED
    BY <1>1, <2>1 DEF WaitVerdict
<1>5. CASE late # {}
  <2>1. late \in SUBSET Nat /\ late \subseteq 1 .. length /\ \A k \in late : my.enter < ms[k].end
    BY <1>3 DEF Superseding
  <2>2. \E m \in late : \A k \in late : k <= m
    <3>1. \A k \in late : k <= length
      BY <2>1
    <3> QED
      BY <1>5, <2>1, <3>1, GreatestNat
  <2>3. PICK k \in late : k = CHOOSE m \in late : \A j \in late : j <= m
    BY <2>2
  <2>4. PICK a \in With(r, i) : Letter(r, a, partners[k], ms[k])
    BY <2>1, <2>3
  <2>5. /\ partners[k] \in Rank /\ ms[k].act \in Activity(partners[k])
        /\ ms[k].end \in Nat /\ my.enter < ms[k].end
    BY <2>1, <2>4, LetterTimes DEF Letter
  <2>6. PICK w \in Nat : w = Min2(ms[k].end, my.leave) - my.enter
    BY <1>2, <2>5 DEF Min2
  <2>7. WaitallOutcome(my, partners, ms) = WaitsFor(partners[k], ms[k].act, w)
    BY <1>3, <1>5, <2>3, <2>6 DEF WaitallOutcome
  <2> QED
    BY <1>1, <2>5, <2>7 DEF WaitVerdict
<1> QED
  BY <1>4, <1>5

\* So both come to a verdict, ...
LEMMA WaitJudges ==
  ASSUME PartnersAnswer, Booked, RequestsServed, NEW r \in Rank, NEW i, i = pos[r],
         FinishWait(r) \/ WaitOnDeletedRecord(r)
  PROVE  Judges(r, i)
<1>1. i \in Activity(r) /\ program[r][i].kind = "wait" /\ UNCHANGED trace /\ Advance(r)
  BY DEF FinishWait, WaitOnDeletedRecord, AtStage, Op
<1>2. PICK a \in Requests(program, r) : a = Op(r).reqs[1] /\ a < pos[r] /\ a \in With(r, i)
  BY <1>1, ItsRequests DEF Op
<1>3. PICK q, m : q = Partner(program[r][a]) /\ m = InBox(r, a)
  OBVIOUS
<1>4. \/ Conclude(r, WaitOutcome(time[r][i], q, m))
      \/ UNCHANGED results
  BY <1>2, <1>3 DEF FinishWait, WaitOnDeletedRecord, My
<1>5. a \notin openRecv[r] \/ RecvDone(r, a)
  <2>1. CASE FinishWait(r)
    BY <1>2, <2>1 DEF FinishWait
  <2>2. CASE WaitOnDeletedRecord(r)
    <3>1. a \notin records[r]
      BY <1>2, <2>2 DEF WaitOnDeletedRecord
    <3> QED
      BY <3>1 DEF Booked, BuffersAlive
  <2> QED
    BY <2>1, <2>2
<1>6. Letter(r, a, q, m)
  BY <1>2, <1>3, <1>5, CompletedLetter
<1>7. WaitVerdict(WaitOutcome(time[r][i], q, m)) /\ WaitVerdict(Nothing)
  BY <1>1, <1>6, WaitOutcomeIsOne DEF Booked, WaitVerdict
<1>8. /\ Verdict(r, i, WaitOutcome(time[r][i], q, m))
      /\ Verdict(r, i, Nothing)
  BY <1>1, <1>7 DEF Verdict, Single, BlockingKinds
<1>9. i < pos'[r]
  BY <1>1, AdvancedIsPast DEF Booked
<1>10. ~Past(r, i) /\ Past(r, i)'
  BY <1>1, <1>9, ActivityNumbers DEF Past, Activity
<1> QED
  BY <1>4, <1>8, <1>10 DEF Judges

\* ... whatever the requests are, ...
LEMMA WaitallJudges ==
  ASSUME PartnersAnswer, Booked, RequestsServed, NEW r \in Rank, NEW i, i = pos[r],
         FinishWaitall(r)
  PROVE  Judges(r, i)
<1>1. i \in Activity(r) /\ program[r][i].kind = "waitall" /\ UNCHANGED trace /\ Advance(r)
  BY DEF FinishWaitall, AtStage, Op
<1>2. PICK reqs : reqs = Op(r).reqs
  OBVIOUS
<1>3. PICK partners, ms : /\ partners = [k \in DOMAIN reqs |-> Partner(program[r][reqs[k]])]
                          /\ ms = [k \in DOMAIN reqs |-> InBox(r, reqs[k])]
  OBVIOUS
<1>4. /\ \A k \in DOMAIN reqs : RecvDone(r, reqs[k])
      /\ Conclude(r, WaitallOutcome(time[r][i], partners, ms))
  BY <1>2, <1>3 DEF FinishWaitall, My
<1>5. ASSUME NEW k \in DOMAIN ms
      PROVE  \E a \in With(r, i) : Letter(r, a, partners[k], ms[k])
  <2>1. PICK a \in Requests(program, r) : a = reqs[k] /\ a < pos[r] /\ a \in With(r, i)
    BY <1>1, <1>2, <1>3, ItsRequests DEF Op
  <2>2. partners[k] = Partner(program[r][a]) /\ ms[k] = InBox(r, a)
    BY <1>3, <2>1
  <2>3. RecvDone(r, a)
    BY <1>3, <1>4, <2>1
  <2> QED
    BY <2>1, <2>2, <2>3, CompletedLetter
<1>6. PICK length \in Nat : DOMAIN ms = 1 .. length
  BY <1>1, <1>2, <1>3, ItsRequests DEF Op
<1>7. WaitVerdict(WaitallOutcome(time[r][i], partners, ms))
  BY <1>1, <1>5, <1>6, WaitallOutcomeIsOne DEF Booked
<1>8. Verdict(r, i, WaitallOutcome(time[r][i], partners, ms))
  BY <1>1, <1>7 DEF Verdict, Single, BlockingKinds
<1>9. i < pos'[r]
  BY <1>1, AdvancedIsPast DEF Booked
<1>10. ~Past(r, i) /\ Past(r, i)'
  BY <1>1, <1>9, ActivityNumbers DEF Past, Activity
<1> QED
  BY <1>4, <1>8, <1>10 DEF Judges

\* The rules that conclude nothing have nothing to conclude.
LEMMA SilentJudges ==
  ASSUME Booked, NEW r \in Rank, NEW i, i = pos[r],
         Isend(r) \/ Irecv(r) \/ NoRule(r) \/ SelfCollective(r)
  PROVE  Judges(r, i)
<1>1. /\ i \in Activity(r) /\ program[r][i].kind \in {"isend", "irecv", "test", "testall", "self"}
      /\ UNCHANGED results /\ Advance(r)
  BY DEF Isend, Irecv, NoRule, SelfCollective, AtStage, Op
<1>2. Verdict(r, i, Nothing)
  BY <1>1 DEF Verdict, Single, BlockingKinds
<1>3. i < pos'[r]
  BY <1>1, AdvancedIsPast DEF Booked
<1>4. ~Past(r, i) /\ Past(r, i)'
  BY <1>1, <1>3, ActivityNumbers DEF Past, Activity
<1> QED
  BY <1>1, <1>2, <1>4 DEF Judges

\* Starting a blocking operation concludes nothing.
LEMMA StartJudges ==
  ASSUME Booked, NEW r \in Rank, NEW i, i = pos[r],
         \/ StartSend(r) \/ SendReturns(r) \/ StartRecv(r) \/ StartSendrecv(r)
         \/ JoinCollective(r)
  PROVE  Judges(r, i)
<1>1. /\ i \in Activity(r) /\ UNCHANGED trace /\ UNCHANGED results /\ pos' = pos
      /\ \/ program[r][i].kind # "recv"
         \/ stage[r] = "apply" /\ GoTo(r, "forward")
  BY DEF StartSend, SendReturns, StartRecv, StartSendrecv, JoinCollective, AtStage, GoTo, Op
<1>2. program' = program
  BY <1>1 DEF trace
<1>3. program[r][i].kind = "recv" => stage'[r] = "forward"
  BY <1>1 DEF GoTo, Booked, Typed
<1>4. ~Past(r, i) /\ ~Past(r, i)'
  BY <1>1, <1>2, <1>3, ActivityNumbers DEF Past, Activity
<1> QED
  BY <1>1, <1>4 DEF Judges

\* Nor does the answer of MPI_Recv.
LEMMA FinishRecvJudges ==
  ASSUME Booked, NEW r \in Rank, NEW i, i = pos[r], FinishRecv(r)
  PROVE  Judges(r, i)
<1>1. /\ i \in Activity(r) /\ program[r][i].kind = "recv" /\ stage[r] = "reverse"
      /\ UNCHANGED results /\ Advance(r)
  BY DEF FinishRecv, AtStage, Op
<1>2. i < pos'[r]
  BY <1>1, AdvancedIsPast DEF Booked
<1>3. Past(r, i) /\ Past(r, i)'
  BY <1>1, <1>2 DEF Past
<1> QED
  BY <1>1, <1>3 DEF Judges

\* Every rule comes to its verdict when it is through with the activity.
LEMMA RuleJudges ==
  ASSUME PartnersAnswer, Booked, RequestsServed, NEW r \in Rank, MessageThere(r),
         NEW i, i = pos[r], Rule(r), Books(r)
  PROVE  Judges(r, i)
<1>1. CASE FinishSend(r) \/ Receive(r) \/ ReceiveSendrecv(r) \/ FinishSendrecv(r)
  BY <1>1, FinishSendJudges, ReceiveJudges, ReceiveSendrecvJudges, FinishSendrecvJudges
<1>2. CASE FinishWait(r) \/ WaitOnDeletedRecord(r) \/ FinishWaitall(r) \/ FinishCollective(r)
  BY <1>2, WaitJudges, WaitallJudges, CollectiveJudges
<1>3. CASE Isend(r) \/ Irecv(r) \/ NoRule(r) \/ SelfCollective(r)
  BY <1>3, SilentJudges
<1>4. CASE \/ StartSend(r) \/ SendReturns(r) \/ StartRecv(r) \/ StartSendrecv(r)
           \/ JoinCollective(r) \/ FinishRecv(r)
  BY <1>4, StartJudges, FinishRecvJudges
<1> QED
  BY <1>1, <1>2, <1>3, <1>4 DEF Rule

\* One step keeps the judgements.
LEMMA JudgementsKept ==
  ASSUME Booked, Findings, Judgements, NEW r \in Rank, Books(r), NEW i, i = pos[r], Judges(r, i)
  PROVE  Judgements'
<1>1. UNCHANGED trace /\ i \in Activity(r) /\ Typed /\ Measured
  BY DEF Books, Moves, Booked
<1>2. CASE \E o : ~Past(r, i) /\ Past(r, i)' /\ Conclude(r, o) /\ Verdict(r, i, o)
  <2>1. PICK o : ~Past(r, i) /\ Past(r, i)' /\ Conclude(r, o) /\ Verdict(r, i, o)
    BY <1>2
  <2>2. o.blame \in Nat
    BY <1>1, <2>1, DecentVerdict DEF Decent
  <2>3. /\ waiting'[r][i] = o.waiting /\ blamed'[r][i] = o.blame
        /\ o.remote = {} => remoteNode' = remoteNode
        /\ o.remote # {} => i \in DOMAIN remoteNode'[r] /\ remoteNode'[r][i] \in o.remote
        /\ \A q \in Rank : \A j \in Activity(q) : ~(q = r /\ j = i) =>
             /\ waiting'[q][j] = waiting[q][j] /\ blamed'[q][j] = blamed[q][j]
             /\ j \in DOMAIN remoteNode'[q] <=> j \in DOMAIN remoteNode[q]
             /\ j \in DOMAIN remoteNode[q] => remoteNode'[q][j] = remoteNode[q][j]
        /\ blamed' = [q \in Rank |-> blamed'[q]]
        /\ \A q \in Rank : blamed'[q] \in [Activity(q) -> Nat]
    BY <1>1, <2>1, <2>2, ResultsOfRule
  <2>4. Judged(r, i)'
    <3>1. i \notin DOMAIN remoteNode[r]
      BY <1>1, <2>1 DEF Judgements, Judged, JudgedAs
    <3>2. Verdict(r, i, o)'
      BY <1>1, <2>1, VerdictStays
    <3> QED
      BY <2>1, <2>3, <3>1, <3>2 DEF Judged, JudgedAs
  <2>5. ASSUME NEW q \in Rank, NEW j \in Activity(q), ~(q = r /\ j = i)
        PROVE  Judged(q, j)'
    <3>1. Past(q, j)' <=> Past(q, j)
      BY <1>1, <2>5, PastElsewhere
    <3>2. Judged(q, j)
      BY DEF Judgements
    <3> QED
      BY <1>1, <2>3, <2>5, <3>1, <3>2, JudgedStays
  <2>6. \A q \in Rank : \A j \in Activity(q) : Judged(q, j)'
    BY <2>4, <2>5
  <2> QED
    BY <2>3, <2>6 DEF Judgements
<1>3. CASE /\ UNCHANGED results
           /\ \/ Past(r, i)' <=> Past(r, i)
              \/ ~Past(r, i) /\ Past(r, i)' /\ Verdict(r, i, Nothing)
  <2>1. /\ waiting' = waiting /\ blamed' = blamed /\ remoteNode' = remoteNode
    BY <1>3 DEF results
  <2>2. ASSUME NEW q \in Rank, NEW j \in Activity(q), ~(q = r /\ j = i)
        PROVE  Judged(q, j)'
    <3>1. Past(q, j)' <=> Past(q, j)
      BY <1>1, <2>2, PastElsewhere
    <3>2. Judged(q, j)
      BY DEF Judgements
    <3> QED
      BY <1>1, <2>1, <3>1, <3>2, JudgedStays
  <2>3. CASE Past(r, i)' <=> Past(r, i)
    <3>1. Judged(r, i)
      BY <1>1 DEF Judgements
    <3>2. Judged(r, i)'
      BY <1>1, <2>1, <2>3, <3>1, JudgedStays
    <3>3. \A q \in Rank : \A j \in Activity(q) : Judged(q, j)'
      BY <2>2, <3>2
    <3> QED
      BY <2>1, <3>3 DEF Judgements
  <2>4. CASE ~Past(r, i) /\ Past(r, i)' /\ Verdict(r, i, Nothing)
    <3>1. waiting[r][i] = 0 /\ blamed[r][i] = 0 /\ i \notin DOMAIN remoteNode[r]
      BY <1>1, <2>4 DEF Judgements, Judged, JudgedAs
    <3>2. Verdict(r, i, Nothing)'
      BY <1>1, <2>4, VerdictStays
    <3>3. PICK o : o = Nothing
      OBVIOUS
    <3>4. o.waiting = 0 /\ o.blame = 0 /\ o.remote = {}
      BY <3>3 DEF Nothing
    <3>5. Verdict(r, i, o)'
      BY <3>2, <3>3 DEF Nothing
    <3>6. Judged(r, i)'
      BY <2>1, <2>4, <3>1, <3>4, <3>5 DEF Judged, JudgedAs
    <3>7. \A q \in Rank : \A j \in Activity(q) : Judged(q, j)'
      BY <2>2, <3>6
    <3> QED
      BY <2>1, <3>7 DEF Judgements
  <2> QED
    BY <1>3, <2>3, <2>4
<1> QED
  BY <1>2, <1>3 DEF Judges

\* Nothing is concluded in the beginning.
LEMMA JudgementsInit ==
  ASSUME Init PROVE Judgements
<1>1. blamed = [r \in Rank |-> [i \in Activity(r) |-> 0]]
  BY DEF Init
<1>2. ASSUME NEW r \in Rank, NEW i \in Activity(r) PROVE Judged(r, i)
  <2>1. /\ pos[r] = 0 /\ stage[r] = "apply" /\ waiting[r][i] = 0 /\ blamed[r][i] = 0
        /\ DOMAIN remoteNode[r] = {}
    BY DEF Init
  <2>2. ~Past(r, i)
    BY <2>1, ActivityNumbers DEF Past, Activity
  <2> QED
    BY <2>1, <2>2 DEF Judged, JudgedAs
<1> QED
  BY <1>1, <1>2 DEF Judgements

\* The results are what the trace says, at any time.
LEMMA JudgementsAlways ==
  ASSUME NoTestall, TagsApart, PartnersAnswer
  PROVE  Spec => []Judgements
<1>1. Init => Judgements
  BY JudgementsInit
<1>2. Understood /\ Judgements /\ [Next]_replay => Judgements'
  <2>1. SUFFICES ASSUME Understood, Judgements, [Next]_replay PROVE Judgements'
    OBVIOUS
  <2>2. CASE UNCHANGED replay
    <3>1. /\ UNCHANGED trace /\ program' = program /\ pos' = pos /\ stage' = stage
          /\ waiting' = waiting /\ blamed' = blamed /\ remoteNode' = remoteNode
      BY <2>2 DEF replay, results, trace
    <3>2. ASSUME NEW r \in Rank, NEW i \in Activity(r) PROVE Judged(r, i)'
      <4>1. Past(r, i)' <=> Past(r, i)
        BY <3>1 DEF Past
      <4>2. Judged(r, i)
        BY <2>1 DEF Judgements
      <4> QED
        BY <3>1, <4>1, <4>2, JudgedStays
    <3> QED
      BY <2>1, <3>1, <3>2 DEF Judgements
  <2>3. ASSUME NEW r \in Rank, Rule(r) PROVE Judgements'
    <3>1. PICK i : i = pos[r]
      OBVIOUS
    <3>2. Books(r)
      BY <2>1, <2>3, BookedStep DEF Understood
    <3>3. Judges(r, i)
      BY <2>1, <2>3, <3>1, <3>2, RuleJudges DEF Understood
    <3> QED
      BY <2>1, <3>1, <3>2, <3>3, JudgementsKept DEF Understood
  <2> QED
    BY <2>1, <2>2, <2>3 DEF Next, ReplayTerminated
<1> QED
  BY <1>1, <1>2, UnderstoodAlways, PTL DEF Spec

-----------------------------------------------------------------------------
(***************************************************************************)
(* The verdicts of two partners belong together.                           *)
(***************************************************************************)
\* A message has one sender and one receiver.
LEMMA MatchesOnce ==
  ASSUME NEW p, NEW r \in Rank, NEW i \in Activity(r), NEW q \in Rank, NEW j \in Activity(q),
         Matches(p, r, i, q, j)
  PROVE  /\ \A d \in Rank : \A l \in Activity(d) : Matches(p, r, i, d, l) => d = q /\ l = j
         /\ \A s \in Rank : \A k \in Activity(s) : Matches(p, s, k, q, j) => s = r /\ k = i
<1>1. PICK b \in Nat, c \in Nat : b = LastActivity[r] /\ c = LastActivity[q]
  BY ActivityNumbers
<1>2. PICK tag : tag = p[r][i].tag
  OBVIOUS
<1>3. PICK S \in SUBSET (0 .. b) : S = SendsTo(p, r, q, tag)
  BY <1>1 DEF SendsTo, Activity
<1>4. PICK R \in SUBSET (0 .. c) : R = ReceivesFrom(p, q, r, tag)
  BY <1>1 DEF ReceivesFrom, Activity
<1>5. i \in S /\ j \in R /\ Position(S, i) = Position(R, j) /\ p[r][i].to = q /\ p[q][j].from = r
      /\ p[q][j].rtag = tag
  BY <1>2, <1>3, <1>4 DEF Matches, SendsTo, ReceivesFrom
<1>6. ASSUME NEW d \in Rank, NEW l \in Activity(d), Matches(p, r, i, d, l)
      PROVE  d = q /\ l = j
  <2>1. d = q
    BY <1>5, <1>6 DEF Matches
  <2>2. l \in R /\ Position(S, i) = Position(R, l)
    BY <1>2, <1>3, <1>4, <1>6, <2>1 DEF Matches, ReceivesFrom
  <2> QED
    BY <1>5, <2>1, <2>2, PositionsDiffer
<1>7. ASSUME NEW s \in Rank, NEW k \in Activity(s), Matches(p, s, k, q, j)
      PROVE  s = r /\ k = i
  <2>1. s = r
    BY <1>5, <1>7 DEF Matches
  <2>2. k \in S /\ Position(S, k) = Position(R, j)
    BY <1>2, <1>3, <1>4, <1>5, <1>7, <2>1 DEF Matches, SendsTo
  <2> QED
    BY <1>5, <2>1, <2>2, PositionsDiffer
<1> QED
  BY <1>6, <1>7

\* What is known of an activity when the replay is over.
LEMMA FinallyJudged ==
  ASSUME Booked, Judgements, ReplayFinished, NEW r \in Rank, NEW i \in Activity(r)
  PROVE  \E o : /\ Verdict(r, i, o) /\ waiting[r][i] = o.waiting /\ blamed[r][i] = o.blame
                /\ IF o.remote = {} THEN i \notin DOMAIN remoteNode[r]
                   ELSE i \in DOMAIN remoteNode[r] /\ remoteNode[r][i] \in o.remote
<1>1. Past(r, i)
  BY ActivityNumbers DEF ReplayFinished, ReplayDone, Past, Activity, Booked, Typed
<1>2. Judged(r, i)
  BY DEF Judgements
<1> QED
  BY <1>1, <1>2 DEF Judged, JudgedAs

\* The sender of a message is told by the verdict of the receiver, ...
LEMMA VerdictOfReceiver ==
  ASSUME Measured, NEW r \in Rank, NEW i \in Activity(r), NEW q \in Rank, NEW j \in Activity(q),
         Matches(program, r, i, q, j), NEW o, Verdict(q, j, o)
  PROVE  /\ program[q][j].kind = "recv" \/ Single(program[q][j]) =>
              \E m : /\ m.act = i /\ m.start = time[r][i].enter /\ m.end = time[r][i].leave
                     /\ o = RecvOutcome(time[q][j], r, m)
         /\ program[q][j].kind = "sendrecv" /\ ~Single(program[q][j]) =>
              \E d, in, out :
                     /\ in.act = i /\ in.start = time[r][i].enter /\ in.end = time[r][i].leave
                     /\ out.start \in Nat /\ out.end \in Nat
                     /\ o = SendrecvOutcome(time[q][j], r, in, d, out)
<1>1. ASSUME program[q][j].kind = "recv" \/ Single(program[q][j])
      PROVE  \E m : /\ m.act = i /\ m.start = time[r][i].enter /\ m.end = time[r][i].leave
                    /\ o = RecvOutcome(time[q][j], r, m)
  <2>1. PICK s \in Rank : \E k \in Activity(s), t \in SendTypes :
          /\ Matches(program, s, k, q, j)
          /\ o = RecvOutcome(time[q][j], s, Buffer(t, s, k))
    BY <1>1 DEF Verdict, RecvVerdict
  <2>2. PICK k \in Activity(s), t \in SendTypes :
          /\ Matches(program, s, k, q, j)
          /\ o = RecvOutcome(time[q][j], s, Buffer(t, s, k))
    BY <2>1
  <2>3. s = r /\ k = i
    BY <2>2, MatchesOnce
  <2> QED
    BY <2>2, <2>3, BufferFields
<1>2. ASSUME program[q][j].kind = "sendrecv" /\ ~Single(program[q][j])
      PROVE  \E d, in, out :
                    /\ in.act = i /\ in.start = time[r][i].enter /\ in.end = time[r][i].leave
                    /\ out.start \in Nat /\ out.end \in Nat
                    /\ o = SendrecvOutcome(time[q][j], r, in, d, out)
  <2>1. PICK s \in Rank, d \in Rank : \E k \in Activity(s), l \in Activity(d) :
        \E t \in SendTypes, u \in RecvTypes :
          /\ Matches(program, s, k, q, j)
          /\ o = SendrecvOutcome(time[q][j], s, Buffer(t, s, k), d, Buffer(u, d, AnswerAt(d, l)))
    BY <1>2 DEF Verdict, SendrecvVerdict
  <2>2. PICK k \in Activity(s), l \in Activity(d), t \in SendTypes, u \in RecvTypes :
          /\ Matches(program, s, k, q, j)
          /\ o = SendrecvOutcome(time[q][j], s, Buffer(t, s, k), d, Buffer(u, d, AnswerAt(d, l)))
    BY <2>1
  <2>3. s = r /\ k = i
    BY <2>2, MatchesOnce
  <2>4. PICK a \in Activity(d) : a = AnswerAt(d, l)
    BY AnswerActivity
  <2>5. PICK in, out : in = Buffer(t, s, k) /\ out = Buffer(u, d, a)
    OBVIOUS
  <2>6. /\ in.act = i /\ in.start = time[r][i].enter /\ in.end = time[r][i].leave
        /\ out.start \in Nat /\ out.end \in Nat
    BY <2>3, <2>5, BufferFields
  <2> QED
    BY <2>2, <2>3, <2>4, <2>5, <2>6
<1> QED
  BY <1>1, <1>2

\* ... and the receiver by that of the sender.
LEMMA VerdictOfSender ==
  ASSUME Measured, NEW r \in Rank, NEW i \in Activity(r), NEW q \in Rank, NEW j \in Activity(q),
         Matches(program, r, i, q, j), NEW o, Verdict(r, i, o)
  PROVE  /\ program[r][i].kind = "send" =>
              \E m : /\ m.type \in RecvTypes /\ m.act = AnswerAt(q, j)
                     /\ m.start = time[q][m.act].enter /\ m.end = time[q][m.act].leave
                     /\ o = SendOutcome(time[r][i], q, m)
         /\ program[r][i].kind = "sendrecv" /\ ~Single(program[r][i]) =>
              \E s, in, out :
                     /\ in.start \in Nat /\ in.end \in Nat
                     /\ out.act = AnswerAt(q, j)
                     /\ out.start = time[q][out.act].enter /\ out.end = time[q][out.act].leave
                     /\ o = SendrecvOutcome(time[r][i], s, in, q, out)
<1>1. ASSUME program[r][i].kind = "send"
      PROVE  \E m : /\ m.type \in RecvTypes /\ m.act = AnswerAt(q, j)
                    /\ m.start = time[q][m.act].enter /\ m.end = time[q][m.act].leave
                    /\ o = SendOutcome(time[r][i], q, m)
  <2>1. PICK d \in Rank : \E l \in Activity(d), t \in RecvTypes :
          /\ Matches(program, r, i, d, l)
          /\ o = SendOutcome(time[r][i], d, Buffer(t, d, AnswerAt(d, l)))
    BY <1>1 DEF Verdict, SendVerdict
  <2>2. PICK l \in Activity(d), t \in RecvTypes :
          /\ Matches(program, r, i, d, l)
          /\ o = SendOutcome(time[r][i], d, Buffer(t, d, AnswerAt(d, l)))
    BY <2>1
  <2>3. d = q /\ l = j
    BY <2>2, MatchesOnce
  <2>4. PICK a \in Activity(q) : a = AnswerAt(q, j)
    BY AnswerActivity
  <2>5. PICK m : m = Buffer(t, q, a)
    OBVIOUS
  <2>6. m.type = t /\ m.act = a /\ m.start = time[q][a].enter /\ m.end = time[q][a].leave
    BY <2>5, BufferFields
  <2> QED
    BY <2>2, <2>3, <2>4, <2>5, <2>6
<1>2. ASSUME program[r][i].kind = "sendrecv" /\ ~Single(program[r][i])
      PROVE  \E s, in, out :
                    /\ in.start \in Nat /\ in.end \in Nat
                    /\ out.act = AnswerAt(q, j)
                    /\ out.start = time[q][out.act].enter /\ out.end = time[q][out.act].leave
                    /\ o = SendrecvOutcome(time[r][i], s, in, q, out)
  <2>1. PICK s \in Rank, d \in Rank : \E k \in Activity(s), l \in Activity(d) :
        \E t \in SendTypes, u \in RecvTypes :
          /\ Matches(program, r, i, d, l)
          /\ o = SendrecvOutcome(time[r][i], s, Buffer(t, s, k), d, Buffer(u, d, AnswerAt(d, l)))
    BY <1>2 DEF Verdict, SendrecvVerdict
  <2>2. PICK k \in Activity(s), l \in Activity(d), t \in SendTypes, u \in RecvTypes :
          /\ Matches(program, r, i, d, l)
          /\ o = SendrecvOutcome(time[r][i], s, Buffer(t, s, k), d, Buffer(u, d, AnswerAt(d, l)))
    BY <2>1
  <2>3. d = q /\ l = j
    BY <2>2, MatchesOnce
  <2>4. PICK a \in Activity(q) : a = AnswerAt(q, j)
    BY AnswerActivity
  <2>5. PICK in, out : in = Buffer(t, s, k) /\ out = Buffer(u, q, a)
    OBVIOUS
  <2>6. /\ in.start \in Nat /\ in.end \in Nat
        /\ out.act = a /\ out.start = time[q][a].enter /\ out.end = time[q][a].leave
    BY <2>4, <2>5, BufferFields
  <2> QED
    BY <2>2, <2>3, <2>4, <2>5, <2>6
<1> QED
  BY <1>1, <1>2

\* A receiver that came too late for its sender is blamed, or waits itself.
LEMMA LateReceiver ==
  ASSUME Measured, NEW r \in Rank, NEW i \in Activity(r), NEW q \in Rank, NEW j \in Activity(q),
         Matches(program, r, i, q, j), program[q][j].kind \in {"recv", "sendrecv"},
         time[r][i].enter < time[q][j].enter, time[q][j].enter < time[r][i].leave,
         NEW o, Verdict(q, j, o)
  PROVE  o.remote # {} \/ time[q][j].enter - time[r][i].enter <= o.blame
<1>1. PICK my : my = time[q][j]
  OBVIOUS
<1>2. PICK e \in Nat, l \in Nat : e = time[r][i].enter /\ l = time[r][i].leave
  BY TimesOfActivity
<1>3. my.enter \in Nat /\ my.leave \in Nat /\ e < my.enter /\ my.enter < l
  BY <1>1, <1>2, TimesOfActivity
<1>4. CASE program[q][j].kind = "recv" \/ Single(program[q][j])
  <2>1. PICK m : m.start = e /\ m.end = l /\ o = RecvOutcome(my, r, m)
    BY <1>1, <1>2, <1>4, VerdictOfReceiver
  <2>2. o = Blame(my.enter - e)
    BY <1>3, <2>1 DEF RecvOutcome
  <2> QED
    BY <1>1, <1>2, <1>3, <2>2 DEF Blame, Nothing
<1>5. CASE program[q][j].kind = "sendrecv" /\ ~Single(program[q][j])
  <2>1. PICK d, in, out : /\ in.start = e /\ in.end = l /\ out.start \in Nat /\ out.end \in Nat
                          /\ o = SendrecvOutcome(my, r, in, d, out)
    BY <1>1, <1>2, <1>5, VerdictOfReceiver
  <2>2. CASE my.enter < out.start /\ out.start < my.leave
    <3>1. o = WaitsFor(d, out.act, Min2(out.start, my.leave) - my.enter)
      BY <1>3, <2>1, <2>2 DEF SendrecvOutcome
    <3> QED
      BY <3>1 DEF WaitsFor
  <2>3. CASE ~(my.enter < out.start /\ out.start < my.leave)
    <3>1. PICK b \in Nat : b = IF out.start < my.enter THEN my.enter - out.start ELSE 0
      BY <1>3, <2>1
    <3>2. o = Blame(my.enter - e + b)
      BY <1>3, <2>1, <2>3, <3>1 DEF SendrecvOutcome
    <3>3. o.blame = my.enter - e + b
      BY <3>2 DEF Blame, Nothing
    <3> QED
      BY <1>1, <1>2, <1>3, <3>3
  <2> QED
    BY <2>2, <2>3
<1> QED
  BY <1>4, <1>5

\* A sender that came too late for its receiver is blamed, or waits itself.
LEMMA LateSender ==
  ASSUME SinglesPair, Measured,
         NEW r \in Rank, NEW i \in Activity(r), NEW q \in Rank, NEW j \in Activity(q),
         Matches(program, q, j, r, i), program[q][j].kind \in {"send", "sendrecv"},
         program[r][i].kind \in {"recv", "sendrecv"},
         time[r][i].enter < time[q][j].enter,
         NEW o, Verdict(q, j, o)
  PROVE  o.remote # {} \/ time[q][j].enter - time[r][i].enter <= o.blame
<1>1. PICK my : my = time[q][j]
  OBVIOUS
<1>2. PICK e \in Nat, l \in Nat : e = time[r][i].enter /\ l = time[r][i].leave
  BY TimesOfActivity
<1>3. my.enter < l
  BY <1>1, <1>2 DEF Measured, ValidTiming, CompletedAt
<1>4. my.enter \in Nat /\ my.leave \in Nat /\ e < my.enter
  BY <1>1, <1>2, TimesOfActivity
<1>5. AnswerAt(r, i) = i
  BY AnswerActivity
<1>6. CASE program[q][j].kind = "send"
  <2>1. PICK m : m.type \in RecvTypes /\ m.start = e /\ m.end = l /\ o = SendOutcome(my, r, m)
    BY <1>1, <1>2, <1>5, <1>6, VerdictOfSender
  <2>2. o = Blame(my.enter - e)
    BY <1>3, <1>4, <2>1 DEF SendOutcome
  <2> QED
    BY <1>1, <1>2, <1>4, <2>2 DEF Blame, Nothing
<1>7. CASE Single(program[q][j])
  <2>1. Matches(program, r, i, q, j)
    BY <1>7 DEF SinglesPair, Measured
  <2>2. PICK m : m.start = e /\ m.end = l /\ o = RecvOutcome(my, r, m)
    BY <1>1, <1>2, <1>7, <2>1, VerdictOfReceiver
  <2>3. o = Blame(my.enter - e)
    BY <1>3, <1>4, <2>2 DEF RecvOutcome
  <2> QED
    BY <1>1, <1>2, <1>4, <2>3 DEF Blame, Nothing
<1>8. CASE program[q][j].kind = "sendrecv" /\ ~Single(program[q][j])
  <2>1. PICK s, in, out : /\ out.start = e /\ out.end = l /\ in.start \in Nat /\ in.end \in Nat
                          /\ o = SendrecvOutcome(my, s, in, r, out)
    BY <1>1, <1>2, <1>5, <1>8, VerdictOfSender
  <2>2. CASE my.enter < in.start
    <3>1. o = WaitsFor(s, in.act, Min2(in.start, my.leave) - my.enter)
      BY <1>4, <2>1, <2>2 DEF SendrecvOutcome
    <3> QED
      BY <3>1 DEF WaitsFor
  <2>3. CASE ~(my.enter < in.start)
    <3>1. PICK b \in Nat : b = IF my.enter < in.end THEN my.enter - in.start ELSE 0
      BY <1>4, <2>1, <2>3
    <3>2. o = Blame(b + (my.enter - e))
      BY <1>4, <2>1, <2>3, <3>1 DEF SendrecvOutcome
    <3>3. o.blame = b + (my.enter - e)
      BY <3>2 DEF Blame, Nothing
    <3> QED
      BY <1>1, <1>2, <1>4, <3>3
  <2> QED
    BY <2>2, <2>3
<1> QED
  BY <1>6, <1>7, <1>8 DEF Single

\* The last one of a collective is blamed for the waiting of all others.
LEMMA LateInCollective ==
  ASSUME Measured, NEW r \in Rank, NEW i \in Activity(r), program[r][i].kind = "collective",
         NEW q \in Rank, q = LastEnter(Enters(r, i)), NEW j, j = Partners(r, i)[q],
         NEW o, Verdict(q, j, o)
  PROVE  /\ o = Blame(AllWaiting(Enters(r, i), q))
         /\ Enters(r, i)[q] - Enters(r, i)[r] <= o.blame
<1>1. /\ j \in Activity(q) /\ program[q][j].kind = "collective"
      /\ Partners(q, j) = Partners(r, i) /\ Enters(q, j) = Enters(r, i)
  BY CollectiveAlike
<1>2. o = CollectiveOutcome(q, Enters(r, i), Partners(r, i))
  BY <1>1 DEF Verdict
<1>3. o = Blame(AllWaiting(Enters(r, i), q))
  BY <1>2 DEF CollectiveOutcome
<1>4. PICK enter : enter = Enters(r, i)
  OBVIOUS
<1>5. enter \in [Rank -> Nat] /\ \A p \in Rank : enter[p] <= enter[q]
  BY <1>4, CollectiveTimes
<1>6. enter[q] - enter[r] <= AllWaiting(enter, q)
  BY <1>5, WaitingOfAll
<1> QED
  BY <1>3, <1>4, <1>6 DEF Blame, Nothing

\* The remote node of a wait state is blamed for it, or waits itself.
LEMMA BlameOfWait ==
  ASSUME SinglesPair, Booked, Judgements, ReplayFinished, NEW r \in Rank, NEW i \in Activity(r),
         i \in DOMAIN remoteNode[r], NEW n, n = remoteNode[r][i],
         program[r][i].kind \in BlockingKinds, program[n.rank][n.act].kind \in BlockingKinds
  PROVE  n.act \in DOMAIN remoteNode[n.rank] \/ waiting[r][i] <= blamed[n.rank][n.act]
<1>1. Measured
  BY DEF Booked
<1>2. PICK o : Verdict(r, i, o) /\ waiting[r][i] = o.waiting /\ n \in o.remote
  BY FinallyJudged
<1>3. PICK my : my = time[r][i]
  OBVIOUS
<1>4. my.enter \in Nat /\ my.leave \in Nat /\ my.enter < my.leave
  BY <1>1, <1>3, TimesOfActivity
\* What is left to show of the partner j of rank q.
<1>5. ASSUME NEW q \in Rank, NEW j \in Activity(q), n.rank = q, n.act = j, NEW w \in Int,
             o.waiting <= w,
             \A x : Verdict(q, j, x) => x.remote # {} \/ w <= x.blame
      PROVE  n.act \in DOMAIN remoteNode[n.rank] \/ waiting[r][i] <= blamed[n.rank][n.act]
  <2>1. PICK x : /\ Verdict(q, j, x) /\ blamed[q][j] = x.blame
                 /\ x.remote # {} => j \in DOMAIN remoteNode[q]
    BY FinallyJudged
  <2>2. x.blame \in Nat /\ o.waiting \in Nat
    BY <1>1, <1>2, <2>1, DecentVerdict DEF Decent
  <2> QED
    BY <1>2, <1>5, <2>1, <2>2
\* Its partner was a receive, and late.
<1>6. ASSUME NEW q \in Rank, NEW j \in Activity(q), Matches(program, r, i, q, j),
             n.rank = q, n.act = AnswerAt(q, j),
             my.enter < time[q][n.act].enter, time[q][n.act].enter < my.leave,
             o.waiting <= time[q][n.act].enter - my.enter
      PROVE  n.act \in DOMAIN remoteNode[n.rank] \/ waiting[r][i] <= blamed[n.rank][n.act]
  <2>1. n.act = j
    BY <1>1, <1>6, AnswerActivity
  <2>2. program[q][j].kind \in {"recv", "sendrecv"}
    BY <1>6, <2>1 DEF Matches, RecvKinds, BlockingKinds
  <2>3. PICK e \in Nat : e = time[q][j].enter
    BY <1>1, TimesOfActivity
  <2>4. e - my.enter \in Int /\ o.waiting <= e - my.enter
    BY <1>4, <1>6, <2>1, <2>3
  <2>5. \A x : Verdict(q, j, x) => x.remote # {} \/ e - my.enter <= x.blame
    BY <1>1, <1>3, <1>6, <2>1, <2>2, <2>3, LateReceiver
  <2> QED
    BY <1>5, <1>6, <2>1, <2>4, <2>5
\* Its partner was a send, and late.
<1>7. ASSUME NEW q \in Rank, NEW j \in Activity(q), Matches(program, q, j, r, i),
             program[r][i].kind \in {"recv", "sendrecv"}, n.rank = q, n.act = j,
             my.enter < time[q][j].enter, o.waiting <= time[q][j].enter - my.enter
      PROVE  n.act \in DOMAIN remoteNode[n.rank] \/ waiting[r][i] <= blamed[n.rank][n.act]
  <2>1. program[q][j].kind \in {"send", "sendrecv"}
    BY <1>7 DEF Matches, SendKinds, BlockingKinds
  <2>2. PICK e \in Nat : e = time[q][j].enter
    BY <1>1, TimesOfActivity
  <2>3. e - my.enter \in Int /\ o.waiting <= e - my.enter
    BY <1>4, <1>7, <2>2
  <2>4. \A x : Verdict(q, j, x) => x.remote # {} \/ e - my.enter <= x.blame
    BY <1>1, <1>3, <1>7, <2>1, <2>2, LateSender
  <2> QED
    BY <1>5, <1>7, <2>3, <2>4
<1>8. CASE program[r][i].kind = "send"
  <2>1. PICK q \in Rank : \E j \in Activity(q), t \in RecvTypes :
          /\ Matches(program, r, i, q, j)
          /\ o = SendOutcome(my, q, Buffer(t, q, AnswerAt(q, j)))
    BY <1>2, <1>3, <1>8 DEF Verdict, SendVerdict
  <2>2. PICK j \in Activity(q), t \in RecvTypes :
          /\ Matches(program, r, i, q, j)
          /\ o = SendOutcome(my, q, Buffer(t, q, AnswerAt(q, j)))
    BY <2>1
  <2>3. PICK a \in Activity(q) : a = AnswerAt(q, j)
    BY <1>1, AnswerActivity
  <2>4. PICK m : m = Buffer(t, q, a)
    OBVIOUS
  <2>5. m.act = a /\ m.start = time[q][a].enter /\ m.start \in Nat
    BY <1>1, <2>4, BufferFields
  <2>6. /\ my.enter < m.start /\ m.start < my.leave
        /\ o = WaitsFor(q, a, m.start - my.enter)
    BY <1>2, <2>2, <2>3, <2>4, <2>5 DEF SendOutcome, Nothing, Blame
  <2>7. n.rank = q /\ n.act = a /\ o.waiting = m.start - my.enter
    BY <1>2, <2>6 DEF WaitsFor
  <2> QED
    BY <1>4, <1>6, <2>2, <2>3, <2>5, <2>6, <2>7
<1>9. CASE program[r][i].kind = "recv" \/ Single(program[r][i])
  <2>1. PICK q \in Rank : \E j \in Activity(q), t \in SendTypes :
          Matches(program, q, j, r, i) /\ o = RecvOutcome(my, q, Buffer(t, q, j))
    BY <1>2, <1>3, <1>9 DEF Verdict, RecvVerdict
  <2>2. PICK j \in Activity(q), t \in SendTypes :
          Matches(program, q, j, r, i) /\ o = RecvOutcome(my, q, Buffer(t, q, j))
    BY <2>1
  <2>3. PICK m : m = Buffer(t, q, j)
    OBVIOUS
  <2>4. m.act = j /\ m.start = time[q][j].enter /\ m.start \in Nat
    BY <1>1, <2>3, BufferFields
  <2>5. my.enter < m.start /\ o = WaitsFor(q, j, m.start - my.enter)
    BY <1>2, <2>2, <2>3, <2>4 DEF RecvOutcome, Nothing, Blame
  <2>6. n.rank = q /\ n.act = j /\ o.waiting = m.start - my.enter
    BY <1>2, <2>5 DEF WaitsFor
  <2>7. program[r][i].kind \in {"recv", "sendrecv"}
    BY <1>9 DEF Single
  <2> QED
    BY <1>4, <1>7, <2>2, <2>4, <2>5, <2>6, <2>7
<1>10. CASE program[r][i].kind = "sendrecv" /\ ~Single(program[r][i])
  <2>1. PICK q \in Rank, d \in Rank : \E j \in Activity(q), l \in Activity(d) :
        \E t \in SendTypes, u \in RecvTypes :
          /\ Matches(program, q, j, r, i) /\ Matches(program, r, i, d, l)
          /\ o = SendrecvOutcome(my, q, Buffer(t, q, j), d, Buffer(u, d, AnswerAt(d, l)))
    BY <1>2, <1>3, <1>10 DEF Verdict, SendrecvVerdict
  <2>2. PICK j \in Activity(q), l \in Activity(d), t \in SendTypes, u \in RecvTypes :
          /\ Matches(program, q, j, r, i) /\ Matches(program, r, i, d, l)
          /\ o = SendrecvOutcome(my, q, Buffer(t, q, j), d, Buffer(u, d, AnswerAt(d, l)))
    BY <2>1
  <2>3. PICK a \in Activity(d) : a = AnswerAt(d, l)
    BY <1>1, AnswerActivity
  <2>4. PICK in, out : in = Buffer(t, q, j) /\ out = Buffer(u, d, a)
    OBVIOUS
  <2>5. /\ in.act = j /\ in.start = time[q][j].enter /\ in.start \in Nat
        /\ out.act = a /\ out.start = time[d][a].enter /\ out.start \in Nat
    BY <1>1, <2>4, BufferFields
  <2>6. \/ /\ my.enter < in.start
           /\ o = WaitsFor(q, j, Min2(in.start, my.leave) - my.enter)
        \/ /\ my.enter < out.start /\ out.start < my.leave
           /\ o = WaitsFor(d, a, Min2(out.start, my.leave) - my.enter)
    <3>1. o = SendrecvOutcome(my, q, in, d, out)
      BY <2>2, <2>3, <2>4
    <3>2. \A b : o # Blame(b)
      BY <1>2 DEF Blame, Nothing
    <3> QED
      BY <2>5, <3>1, <3>2 DEF SendrecvOutcome
  <2>7. CASE /\ my.enter < in.start
             /\ o = WaitsFor(q, j, Min2(in.start, my.leave) - my.enter)
    <3>1. n.rank = q /\ n.act = j /\ o.waiting = Min2(in.start, my.leave) - my.enter
      BY <1>2, <2>7 DEF WaitsFor
    <3>2. o.waiting <= in.start - my.enter
      BY <1>4, <2>5, <3>1 DEF Min2
    <3> QED
      BY <1>7, <1>10, <2>2, <2>5, <2>7, <3>1, <3>2
  <2>8. CASE /\ my.enter < out.start /\ out.start < my.leave
             /\ o = WaitsFor(d, a, Min2(out.start, my.leave) - my.enter)
    <3>1. n.rank = d /\ n.act = a /\ o.waiting = Min2(out.start, my.leave) - my.enter
      BY <1>2, <2>8 DEF WaitsFor
    <3>2. o.waiting <= out.start - my.enter
      BY <1>4, <2>5, <3>1 DEF Min2
    <3> QED
      BY <1>6, <2>2, <2>3, <2>5, <2>8, <3>1, <3>2
  <2> QED
    BY <2>6, <2>7, <2>8
<1>11. CASE program[r][i].kind = "collective"
  <2>1. o = CollectiveOutcome(r, Enters(r, i), Partners(r, i))
    BY <1>2, <1>11 DEF Verdict
  <2>2. PICK last \in Rank : last = LastEnter(Enters(r, i))
    BY <1>1, <1>11, CollectiveTimes
  <2>3. PICK j \in Activity(last) : j = Partners(r, i)[last]
    BY <1>1, <1>11, CollectiveTimes
  <2>4. PICK enter \in [Rank -> Nat] : enter = Enters(r, i)
    BY <1>1, <1>11, CollectiveTimes
  <2>5. o = WaitsFor(last, j, enter[last] - enter[r])
    BY <1>2, <2>1, <2>2, <2>3, <2>4 DEF CollectiveOutcome, Blame, Nothing
  <2>6. n.rank = last /\ n.act = j /\ o.waiting = enter[last] - enter[r]
    BY <1>2, <2>5 DEF WaitsFor
  <2>7. enter[last] - enter[r] \in Int /\ o.waiting <= enter[last] - enter[r]
    BY <2>4, <2>6
  <2>8. \A x : Verdict(last, j, x) => enter[last] - enter[r] <= x.blame
    BY <1>1, <1>11, <2>2, <2>3, <2>4, LateInCollective
  <2> QED
    BY <1>5, <2>6, <2>7, <2>8
<1> QED
  BY <1>8, <1>9, <1>10, <1>11 DEF BlockingKinds

\* Who is waited for in a blocking call is blamed at least for this wait,
\* unless it has waited itself: the rules of two processes, each of which
\* sees its own times and those in one message, never come to conclusions
\* that do not fit (SendRule, RecvRule, SendRecvRule, CollectiveRule).
THEOREM TheLateIsBlamed ==
  ASSUME NoTestall, TagsApart, PartnersAnswer, SinglesPair
  PROVE  Spec => []LateIsBlamed
<1>1. Understood /\ Judgements => LateIsBlamed
  <2>1. SUFFICES ASSUME Understood, Judgements, ReplayFinished, NEW r \in Rank,
                        NEW i \in DOMAIN remoteNode[r], NEW n, n = remoteNode[r][i],
                        program[r][i].kind \in BlockingKinds,
                        program[n.rank][n.act].kind \in BlockingKinds
                 PROVE  n.act \in DOMAIN remoteNode[n.rank] \/ waiting[r][i] <= blamed[n.rank][n.act]
    BY DEF LateIsBlamed
  <2>2. i \in Activity(r) /\ Booked
    BY <2>1 DEF Understood, Findings
  <2> QED
    BY <2>1, <2>2, BlameOfWait
<1> QED
  BY <1>1, UnderstoodAlways, JudgementsAlways, PTL


\* Two partners have the same idea of who was late, and by how much.
LEMMA PairAgrees ==
  ASSUME SinglesPair, Booked, Judgements, ReplayFinished,
         NEW s \in Rank, NEW i \in Activity(s), NEW d \in Rank, NEW j \in Activity(d),
         BlockingPair(s, i, d, j)
  PROVE  waiting[s][i] = blamed[d][j] /\ waiting[d][j] = blamed[s][i]
<1>1. Measured /\ Matches(program, s, i, d, j)
  BY DEF Booked, BlockingPair
<1>2. PICK o : Verdict(s, i, o) /\ waiting[s][i] = o.waiting /\ blamed[s][i] = o.blame
  BY FinallyJudged
<1>3. PICK x : Verdict(d, j, x) /\ waiting[d][j] = x.waiting /\ blamed[d][j] = x.blame
  BY FinallyJudged
<1>4. PICK my, your : my = time[s][i] /\ your = time[d][j]
  OBVIOUS
<1>5. /\ my.enter \in Nat /\ my.leave \in Nat /\ my.enter < my.leave
      /\ your.enter \in Nat /\ your.leave \in Nat /\ your.enter < your.leave
  BY <1>1, <1>4, TimesOfActivity
<1>6. CASE program[s][i].kind = "send" /\ program[d][j].kind = "recv"
  <2>1. my.enter < your.leave
    BY <1>1, <1>4, <1>6 DEF Measured, ValidTiming, CompletedAt
  <2>2. AnswerAt(d, j) = j
    BY <1>1, <1>6, AnswerActivity
  <2>3. PICK m : /\ m.type \in RecvTypes /\ m.start = your.enter /\ m.end = your.leave
                 /\ o = SendOutcome(my, d, m)
    BY <1>1, <1>2, <1>4, <1>6, <2>2, VerdictOfSender
  <2>4. PICK c : c.start = my.enter /\ c.end = my.leave /\ x = RecvOutcome(your, s, c)
    BY <1>1, <1>3, <1>4, <1>6, VerdictOfReceiver
  <2>5. CASE my.enter < your.enter /\ your.enter < my.leave
    <3>1. o = WaitsFor(d, m.act, your.enter - my.enter)
      BY <2>3, <2>5 DEF SendOutcome
    <3>2. x = Blame(your.enter - my.enter)
      BY <1>5, <2>4, <2>5 DEF RecvOutcome
    <3> QED
      BY <1>2, <1>3, <3>1, <3>2 DEF WaitsFor, Blame, Nothing
  <2>6. CASE your.enter < my.enter
    <3>1. o = Blame(my.enter - your.enter)
      BY <1>5, <2>1, <2>3, <2>6 DEF SendOutcome
    <3>2. x = WaitsFor(s, c.act, my.enter - your.enter)
      BY <2>4, <2>6 DEF RecvOutcome
    <3> QED
      BY <1>2, <1>3, <3>1, <3>2 DEF WaitsFor, Blame, Nothing
  <2>7. CASE ~(my.enter < your.enter /\ your.enter < my.leave) /\ ~(your.enter < my.enter)
    <3>1. o = Nothing
      BY <2>3, <2>7 DEF SendOutcome
    <3>2. x = Nothing
      BY <2>4, <2>7 DEF RecvOutcome
    <3> QED
      BY <1>2, <1>3, <3>1, <3>2 DEF Nothing
  <2> QED
    BY <2>5, <2>6, <2>7
<1>7. CASE Single(program[s][i]) /\ Single(program[d][j])
  <2>1. Matches(program, d, j, s, i)
    BY <1>1, <1>7 DEF SinglesPair, Measured
  <2>2. program[s][i].kind = "sendrecv" /\ program[d][j].kind = "sendrecv"
    BY <1>7 DEF Single
  <2>3. my.enter < your.leave /\ your.enter < my.leave
    BY <1>1, <1>4, <2>1, <2>2 DEF Measured, ValidTiming, CompletedAt
  <2>4. PICK m : m.start = your.enter /\ m.end = your.leave /\ o = RecvOutcome(my, d, m)
    BY <1>1, <1>2, <1>4, <1>7, <2>1, VerdictOfReceiver
  <2>5. PICK c : c.start = my.enter /\ c.end = my.leave /\ x = RecvOutcome(your, s, c)
    BY <1>1, <1>3, <1>4, <1>7, VerdictOfReceiver
  <2>6. CASE my.enter < your.enter
    <3>1. o = WaitsFor(d, m.act, your.enter - my.enter)
      BY <2>4, <2>6 DEF RecvOutcome
    <3>2. x = Blame(your.enter - my.enter)
      BY <1>5, <2>3, <2>5, <2>6 DEF RecvOutcome
    <3> QED
      BY <1>2, <1>3, <3>1, <3>2 DEF WaitsFor, Blame, Nothing
  <2>7. CASE your.enter < my.enter
    <3>1. o = Blame(my.enter - your.enter)
      BY <1>5, <2>3, <2>4, <2>7 DEF RecvOutcome
    <3>2. x = WaitsFor(s, c.act, my.enter - your.enter)
      BY <2>5, <2>7 DEF RecvOutcome
    <3> QED
      BY <1>2, <1>3, <3>1, <3>2 DEF WaitsFor, Blame, Nothing
  <2>8. CASE ~(my.enter < your.enter) /\ ~(your.enter < my.enter)
    <3>1. o = Nothing
      BY <2>4, <2>8 DEF RecvOutcome
    <3>2. x = Nothing
      BY <2>5, <2>8 DEF RecvOutcome
    <3> QED
      BY <1>2, <1>3, <3>1, <3>2 DEF Nothing
  <2> QED
    BY <1>5, <2>6, <2>7, <2>8
<1> QED
  BY <1>1, <1>6, <1>7 DEF BlockingPair, Matches, Single

\* The n-th collective of every rank is the same.
LEMMA CollectiveOfPartner ==
  ASSUME Measured, NEW r \in Rank, NEW i \in Collectives(program, r), NEW q \in Rank
  PROVE  CollectiveOf(Position(Collectives(program, r), i), q) = Partners(r, i)[q]
<1>1. PICK j : j = Partners(r, i)[q]
  OBVIOUS
<1>2. i \in Activity(r) /\ program[r][i].kind = "collective"
  BY DEF Collectives
<1>3. SameCollective(program, r, i, q, j)
  BY <1>1, <1>2, CollectiveTimes
<1>4. PICK n : n = Position(Collectives(program, r), i)
  OBVIOUS
<1>5. j \in Collectives(program, q) /\ Position(Collectives(program, q), j) = n
  BY <1>3, <1>4 DEF SameCollective
<1>6. ASSUME NEW k \in Collectives(program, q), Position(Collectives(program, q), k) = n
      PROVE  k = j
  <2>1. SameCollective(program, r, i, q, k)
    BY <1>3, <1>4, <1>6 DEF SameCollective
  <2> QED
    BY <1>3, <2>1, SameCollectiveFacts
<1>7. CollectiveOf(n, q) = j
  BY <1>5, <1>6 DEF CollectiveOf
<1> QED
  BY <1>1, <1>4, <1>7

\* The last one of a collective is blamed for what all the others waited.
LEMMA CollectiveAgrees ==
  ASSUME Booked, Judgements, ReplayFinished, NEW r \in Rank, NEW i \in Collectives(program, r),
         NEW w, w = [q \in Rank |-> waiting[q][Partners(r, i)[q]]],
         NEW b, b = [q \in Rank |-> blamed[q][Partners(r, i)[q]]]
  PROVE  SumOver(w, Rank) = SumOver(b, Rank)
<1>1. Measured
  BY DEF Booked
<1>2. i \in Activity(r) /\ program[r][i].kind = "collective"
  BY DEF Collectives
<1>3. PICK enter, act : enter = Enters(r, i) /\ act = Partners(r, i)
  OBVIOUS
<1>4. PICK last : last = LastEnter(enter)
  OBVIOUS
<1>5. /\ enter \in [Rank -> Nat] /\ last \in Rank
      /\ \A q \in Rank : enter[q] <= enter[last]
  BY <1>1, <1>2, <1>3, <1>4, CollectiveTimes
<1>6. ASSUME NEW q \in Rank
      PROVE  \E o : /\ o = CollectiveOutcome(q, enter, act)
                    /\ w[q] = o.waiting /\ b[q] = o.blame
  <2>1. PICK j : j = act[q]
    OBVIOUS
  <2>2. /\ j \in Activity(q) /\ program[q][j].kind = "collective"
        /\ Partners(q, j) = act /\ Enters(q, j) = enter
    BY <1>1, <1>2, <1>3, <2>1, CollectiveAlike
  <2>3. PICK o : Verdict(q, j, o) /\ waiting[q][j] = o.waiting /\ blamed[q][j] = o.blame
    BY <2>2, FinallyJudged
  <2>4. o = CollectiveOutcome(q, enter, act)
    BY <2>2, <2>3 DEF Verdict
  <2> QED
    BY <1>3, <2>1, <2>3, <2>4
<1>7. ASSUME NEW q \in Rank, q # last
      PROVE  w[q] = enter[last] - enter[q] /\ b[q] = 0
  <2>1. PICK o : o = CollectiveOutcome(q, enter, act) /\ w[q] = o.waiting /\ b[q] = o.blame
    BY <1>6
  <2>2. o = WaitsFor(last, act[last], enter[last] - enter[q])
    BY <1>4, <1>7, <2>1 DEF CollectiveOutcome
  <2> QED
    BY <2>1, <2>2 DEF WaitsFor
<1>8. w[last] = enter[last] - enter[last] /\ b[last] = AllWaiting(enter, last)
  <2>1. PICK o : o = CollectiveOutcome(last, enter, act) /\ w[last] = o.waiting /\ b[last] = o.blame
    BY <1>5, <1>6
  <2>2. o = Blame(AllWaiting(enter, last))
    BY <1>4, <2>1 DEF CollectiveOutcome
  <2>3. o.waiting = 0 /\ o.blame = AllWaiting(enter, last)
    BY <2>2 DEF Blame, Nothing
  <2> QED
    BY <1>5, <2>1, <2>3
<1>9. w = [q \in Rank |-> enter[last] - enter[q]]
  BY <1>7, <1>8
<1>10. AllWaiting(enter, last) = SumOver(w, Rank)
  <2>1. FoldFunction(+, 0, w) = SumOver(w, Rank)
    BY <1>9, FoldIsSum
  <2> QED
    BY <1>9, <2>1 DEF AllWaiting
<1>11. SumOver(b, Rank) = b[last]
  <2>1. AllWaiting(enter, last) \in Nat
    BY <1>5, WaitingOfAll
  <2>2. b[last] \in Int
    BY <1>8, <2>1
  <2>3. \A q \in Rank \ {last} : b[q] = 0
    BY <1>7
  <2>4. IsFiniteSet(Rank) /\ last \in Rank
    BY <1>5, RankIsNatural
  <2> QED
    BY <2>2, <2>3, <2>4, SumOverOfOne
<1> QED
  BY <1>8, <1>10, <1>11

\* Between blocking calls no waiting time gets lost: each side decides alone
\* who was late, and the waiting time of one is the blame of the other; the
\* waiting times of a collective add up to the blame of who came last.
THEOREM NoWaitingIsLost ==
  ASSUME NoTestall, TagsApart, PartnersAnswer, SinglesPair
  PROVE  Spec => []WaitingIsBlamed
<1>1. Understood /\ Judgements => WaitingIsBlamed
  <2>1. SUFFICES ASSUME Understood, Judgements, ReplayFinished PROVE WaitingIsBlamed
    BY DEF WaitingIsBlamed
  <2>2. Booked /\ Measured
    BY <2>1 DEF Understood, Booked
  <2>3. ASSUME NEW s \in Rank, NEW d \in Rank, NEW i \in Activity(s), NEW j \in Activity(d),
               BlockingPair(s, i, d, j)
        PROVE  waiting[s][i] = blamed[d][j] /\ waiting[d][j] = blamed[s][i]
    BY <2>1, <2>2, <2>3, PairAgrees
  <2>4. ASSUME NEW r \in Rank, NEW i \in Collectives(program, r),
               NEW n, n = Position(Collectives(program, r), i)
        PROVE  FoldFunction(+, 0, [q \in Rank |-> waiting[q][CollectiveOf(n, q)]])
                 = FoldFunction(+, 0, [q \in Rank |-> blamed[q][CollectiveOf(n, q)]])
    <3>1. \A q \in Rank : CollectiveOf(n, q) = Partners(r, i)[q]
      BY <2>2, <2>4, CollectiveOfPartner
    <3>2. PICK w : w = [q \in Rank |-> waiting[q][Partners(r, i)[q]]]
      OBVIOUS
    <3>3. PICK b : b = [q \in Rank |-> blamed[q][Partners(r, i)[q]]]
      OBVIOUS
    <3>4. SumOver(w, Rank) = SumOver(b, Rank)
      BY <2>1, <2>2, <3>2, <3>3, CollectiveAgrees
    <3>5. FoldFunction(+, 0, w) = FoldFunction(+, 0, b)
      BY <3>2, <3>3, <3>4, FoldIsSum
    <3>6. /\ w = [q \in Rank |-> waiting[q][CollectiveOf(n, q)]]
          /\ b = [q \in Rank |-> blamed[q][CollectiveOf(n, q)]]
      BY <3>1, <3>2, <3>3
    <3> QED
      BY <3>5, <3>6
  <2>5. \A r \in Rank : \A i \in Collectives(program, r) :
          LET n == Position(Collectives(program, r), i)
              Total(f) == FoldFunction(+, 0, [q \in Rank |-> f[q][CollectiveOf(n, q)]])
          IN Total(waiting) = Total(blamed)
    BY <2>4, Zenon
  <2>6. \A s, d \in Rank : \A i \in Activity(s), j \in Activity(d) :
          BlockingPair(s, i, d, j) => /\ waiting[s][i] = blamed[d][j]
                                      /\ waiting[d][j] = blamed[s][i]
    BY <2>3
  <2> QED
    BY <2>5, <2>6, Zenon DEF WaitingIsBlamed
<1> QED
  BY <1>1, UnderstoodAlways, JudgementsAlways, PTL
=============================================================================
