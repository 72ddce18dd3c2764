--------------------------- MODULE MpiReplayProofs ---------------------------
(***************************************************************************)
(* Proofs about the replay for every number of ranks, every legal program  *)
(* without MPI_Testall and every timing: what is counted, and that the     *)
(* k-th message is taken by the k-th receive, in both directions.          *)
(***************************************************************************)
EXTENDS MpiReplay, FiniteSums

-----------------------------------------------------------------------------
(***************************************************************************)
(* Numbers and positions.                                                  *)
(***************************************************************************)
\* The elements of a set of activities up to one of them.
UpTo(S, i) == {j \in S : j <= i}
Below(S, i) == {j \in S : j < i}

LEMMA UpToNext ==
  ASSUME NEW b \in Nat, NEW S \in SUBSET (0 .. b), NEW i \in S
  PROVE  /\ UpTo(S, i) = Below(S, i) \cup {i}
         /\ Cardinality(UpTo(S, i)) = Cardinality(Below(S, i)) + 1
         /\ Cardinality(Below(S, i)) \in Nat
         /\ Position(S, i) = Cardinality(UpTo(S, i))
<1>0. \A j \in S : j \in Nat
  OBVIOUS
<1>1. IsFiniteSet(S)
  <2>1. IsFiniteSet(0 .. b)
    BY FS_Interval, 0 \in Int, b \in Int
  <2> QED
    BY <2>1, FS_Subset
<1>2. IsFiniteSet({j \in S : j < i})
  BY <1>1, FS_Subset
<1>3. {j \in S : j <= i} = {j \in S : j < i} \cup {i}
  <2>1. \A j \in S : j <= i <=> (j < i \/ j = i)
    BY <1>0
  <2> QED
    BY <2>1, Zenon
<1>4. i \notin {j \in S : j < i}
  BY <1>0
<1> QED
  BY <1>2, <1>3, <1>4, FS_AddElement, FS_CardinalityType DEF UpTo, Below, Position

\* No two elements have the same position.
LEMMA PositionsDiffer ==
  ASSUME NEW b \in Nat, NEW S \in SUBSET (0 .. b), NEW i \in S, NEW j \in S,
         Position(S, i) = Position(S, j)
  PROVE  i = j
<1>0. \A k \in S : k \in Nat
  OBVIOUS
<1>1. ASSUME NEW x \in S, NEW y \in S, x < y PROVE Position(S, x) # Position(S, y)
  <2>1. IsFiniteSet(S)
    <3>1. IsFiniteSet(0 .. b)
      BY FS_Interval, 0 \in Int, b \in Int
    <3> QED
      BY <3>1, FS_Subset
  <2>2. IsFiniteSet({k \in S : k <= y})
    BY <2>1, FS_Subset
  <2>3. {k \in S : k <= x} \in SUBSET {k \in S : k <= y}
    <3>1. \A k \in S : k <= x => k <= y
      BY <1>0, <1>1
    <3> QED
      BY <3>1
  <2>4. y \in {k \in S : k <= y} /\ y \notin {k \in S : k <= x}
    BY <1>0, <1>1
  <2> QED
    BY <2>2, <2>3, <2>4, FS_Subset DEF Position
<1>2. i \in Nat /\ j \in Nat
  OBVIOUS
<1> QED
  BY <1>1, <1>2

\* Positions are in the order of the elements, ...
LEMMA PositionsOrder ==
  ASSUME NEW b \in Nat, NEW S \in SUBSET (0 .. b), NEW i \in S, NEW j \in S
  PROVE  Position(S, i) \in Nat /\ (Position(S, i) <= Position(S, j) <=> i <= j)
<1>0. \A k \in S : k \in Nat
  OBVIOUS
<1>1. IsFiniteSet(S)
  <2>1. IsFiniteSet(0 .. b)
    BY FS_Interval, 0 \in Int, b \in Int
  <2> QED
    BY <2>1, FS_Subset
<1>2. ASSUME NEW x \in S PROVE IsFiniteSet(UpTo(S, x)) /\ Position(S, x) = Cardinality(UpTo(S, x))
                               /\ Position(S, x) \in Nat
  <2>1. IsFiniteSet(UpTo(S, x))
    BY <1>1, FS_Subset DEF UpTo
  <2> QED
    BY <2>1, FS_CardinalityType DEF UpTo, Position
<1>3. ASSUME NEW x \in S, NEW y \in S, x <= y PROVE Position(S, x) <= Position(S, y)
  <2>1. UpTo(S, x) \subseteq UpTo(S, y)
    <3>1. \A z \in S : z <= x => z <= y
      BY <1>0, <1>3
    <3> QED
      BY <3>1 DEF UpTo
  <2> QED
    BY <1>2, <2>1, FS_Subset
<1>4. i \in Nat /\ j \in Nat
  OBVIOUS
<1>5. Position(S, i) <= Position(S, j) => i <= j
  <2>1. SUFFICES ASSUME Position(S, i) <= Position(S, j), ~(i <= j) PROVE FALSE
    OBVIOUS
  <2>2. Position(S, i) = Position(S, j)
    BY <1>2, <1>3, <1>4, <2>1
  <2>3. i = j
    BY <2>2, PositionsDiffer
  <2> QED
    BY <1>4, <2>1, <2>3
<1> QED
  BY <1>2, <1>3, <1>5

\* ... from the first to as many as there are.
LEMMA AtPosition ==
  ASSUME NEW b \in Nat, NEW S \in SUBSET (0 .. b), NEW k \in 1 .. Cardinality(S)
  PROVE  \E i \in S : Position(S, i) = k
<1>0. \A i \in S : i \in Nat /\ i <= b
  OBVIOUS
<1>1. IsFiniteSet(S) /\ Cardinality(S) \in Nat
  <2>1. IsFiniteSet(0 .. b)
    BY FS_Interval, 0 \in Int, b \in Int
  <2> QED
    BY <2>1, FS_Subset, FS_CardinalityType
<1>2. \A m \in Nat : IsFiniteSet(UpTo(S, m)) /\ Cardinality(UpTo(S, m)) \in Nat
  BY <1>1, FS_Subset, FS_CardinalityType DEF UpTo
<1> DEFINE T == {m \in Nat : Cardinality(UpTo(S, m)) >= k}
<1>3. b \in T
  <2>1. UpTo(S, b) = S
    BY <1>0 DEF UpTo
  <2> QED
    BY <1>1, <2>1
<1>4. PICK m \in T : \A n \in T : m <= n
  BY <1>3, LeastNat
<1>5. Cardinality(Below(S, m)) < k
  <2>1. CASE m = 0
    <3>1. \A i \in S : ~(i < m)
      BY <1>0, <2>1
    <3>2. Below(S, m) = {}
      BY <3>1 DEF Below
    <3> QED
      BY <3>2, FS_EmptySet
  <2>2. CASE m # 0
    <3>1. m - 1 \in Nat /\ m - 1 \notin T
      BY <1>4, <2>2
    <3>2. \A i \in S : i < m <=> i <= m - 1
      BY <1>0, <3>1
    <3>3. Below(S, m) = UpTo(S, m - 1)
      BY <3>2 DEF Below, UpTo
    <3> QED
      BY <1>2, <3>1, <3>3
  <2> QED
    BY <2>1, <2>2
<1>6. m \in S
  <2>1. SUFFICES ASSUME m \notin S PROVE FALSE
    OBVIOUS
  <2>2. \A i \in S : i <= m <=> i < m
    BY <1>0, <2>1
  <2>3. UpTo(S, m) = Below(S, m)
    BY <2>2 DEF Below, UpTo
  <2> QED
    BY <1>2, <1>4, <1>5, <2>3
<1>7. /\ Cardinality(UpTo(S, m)) = Cardinality(Below(S, m)) + 1
      /\ Cardinality(Below(S, m)) \in Nat
      /\ Position(S, m) = Cardinality(UpTo(S, m))
  BY <1>6, UpToNext
<1> QED
  BY <1>4, <1>5, <1>6, <1>7

\* If elements at the same position are alike, so are those of the subsets
\* they make.
SamePlaces(S, R, P, Q) ==
  \A i \in P, j \in Q : Position(P, i) = Position(Q, j) => Position(S, i) = Position(R, j)
Alike(S, R, P, Q) ==
  \A i \in S, j \in R : Position(S, i) = Position(R, j) => (i \in P <=> j \in Q)
LEMMA AlikePositions ==
  ASSUME NEW b \in Nat, NEW S \in SUBSET (0 .. b), NEW c \in Nat, NEW R \in SUBSET (0 .. c),
         Cardinality(S) = Cardinality(R), NEW P \in SUBSET S, NEW Q \in SUBSET R,
         Alike(S, R, P, Q)
  PROVE  Cardinality(P) = Cardinality(Q) /\ SamePlaces(S, R, P, Q)
<1>1. \A i \in S : \E j \in R : Position(R, j) = Position(S, i)
  <2>1. SUFFICES ASSUME NEW i \in S PROVE Position(S, i) \in 1 .. Cardinality(R)
    BY AtPosition
  <2>2. /\ Cardinality(Below(S, i)) \in Nat
        /\ Position(S, i) = Cardinality(Below(S, i)) + 1
        /\ Position(S, i) = Cardinality(UpTo(S, i))
    BY UpToNext
  <2>3. IsFiniteSet(S)
    <3>1. IsFiniteSet(0 .. b)
      BY FS_Interval, 0 \in Int, b \in Int
    <3> QED
      BY <3>1, FS_Subset
  <2>4. Cardinality(UpTo(S, i)) <= Cardinality(S) /\ Cardinality(S) \in Nat
    BY <2>3, FS_Subset, FS_CardinalityType DEF UpTo
  <2> QED
    BY <2>2, <2>4
<1>2. \A j \in R : \E i \in S : Position(R, j) = Position(S, i)
  <2>1. SUFFICES ASSUME NEW j \in R PROVE Position(R, j) \in 1 .. Cardinality(S)
    BY AtPosition
  <2>2. /\ Cardinality(Below(R, j)) \in Nat
        /\ Position(R, j) = Cardinality(Below(R, j)) + 1
        /\ Position(R, j) = Cardinality(UpTo(R, j))
    BY UpToNext
  <2>3. IsFiniteSet(R)
    <3>1. IsFiniteSet(0 .. c)
      BY FS_Interval, 0 \in Int, c \in Int
    <3> QED
      BY <3>1, FS_Subset
  <2>4. Cardinality(UpTo(R, j)) <= Cardinality(R) /\ Cardinality(R) \in Nat
    BY <2>3, FS_Subset, FS_CardinalityType DEF UpTo
  <2> QED
    BY <2>2, <2>4
<1>3. PICK f \in [S -> R] : \A i \in S : Position(R, f[i]) = Position(S, i)
  <2> DEFINE g == [i \in S |-> CHOOSE j \in R : Position(R, j) = Position(S, i)]
  <2>1. g \in [S -> R] /\ \A i \in S : Position(R, g[i]) = Position(S, i)
    BY <1>1
  <2> QED
    BY <2>1
<1>4. ASSUME NEW i \in S, NEW j \in S PROVE f[i] <= f[j] <=> i <= j
  <2>1. Position(S, i) <= Position(S, j) <=> i <= j
    BY PositionsOrder
  <2>2. f[i] \in R /\ f[j] \in R
    OBVIOUS
  <2>3. Position(R, f[i]) <= Position(R, f[j]) <=> f[i] <= f[j]
    BY <2>2, PositionsOrder
  <2> QED
    BY <1>3, <2>1, <2>3
<1>5. ASSUME NEW i \in S, NEW j \in S, f[i] = f[j] PROVE i = j
  BY <1>3, <1>5, PositionsDiffer
<1>6. ASSUME NEW j \in R PROVE \E i \in S : f[i] = j
  <2>1. PICK i \in S : Position(R, j) = Position(S, i)
    BY <1>2
  <2>2. f[i] \in R /\ Position(R, f[i]) = Position(R, j)
    BY <1>3, <2>1
  <2> QED
    BY <2>2, PositionsDiffer
<1>7. \A i \in S : i \in P <=> f[i] \in Q
  BY <1>3 DEF Alike
<1>8. ASSUME NEW X \in SUBSET S, NEW Y \in SUBSET R, \A i \in S : i \in X <=> f[i] \in Y
      PROVE  Cardinality(X) = Cardinality(Y)
  <2> DEFINE h == [i \in X |-> f[i]]
  <2>1. h \in [X -> Y]
    BY <1>8
  <2>2. h \in Bijection(X, Y)
    <3>1. \A x, y \in X : h[x] = h[y] => x = y
      BY <1>5
    <3>2. \A y \in Y : \E x \in X : h[x] = y
      BY <1>6, <1>8
    <3> HIDE DEF h
    <3>3. h \in Injection(X, Y)
      BY <2>1, <3>1 DEF Injection, IsInjective
    <3>4. h \in Surjection(X, Y)
      BY <2>1, <3>2, Zenon DEF Surjection
    <3> QED
      BY <3>3, <3>4, Zenon DEF Bijection
  <2>3. ExistsBijection(X, Y)
    BY <2>2 DEF ExistsBijection
  <2>4. IsFiniteSet(X)
    <3>1. IsFiniteSet(0 .. b)
      BY FS_Interval, 0 \in Int, b \in Int
    <3> QED
      BY <3>1, FS_Subset
  <2> QED
    BY <2>3, <2>4, FS_Bijection
<1>9. ASSUME NEW i \in P, NEW j \in Q, Position(P, i) = Position(Q, j)
      PROVE  Position(S, i) = Position(R, j)
  <2>1. i \in S /\ f[i] \in Q
    BY <1>7
  <2>2. \A x \in S : x \in UpTo(P, i) <=> f[x] \in UpTo(Q, f[i])
    BY <1>4, <1>7, <2>1 DEF UpTo
  <2>3. UpTo(P, i) \in SUBSET S /\ UpTo(Q, f[i]) \in SUBSET R
    BY DEF UpTo
  <2>4. Cardinality(UpTo(P, i)) = Cardinality(UpTo(Q, f[i]))
    BY <1>8, <2>2, <2>3
  <2>5. Position(P, i) = Position(Q, f[i])
    BY <2>4 DEF UpTo, Position
  <2>6. Q \in SUBSET (0 .. c)
    OBVIOUS
  <2>7. f[i] = j
    BY <1>9, <2>1, <2>5, <2>6, PositionsDiffer
  <2> QED
    BY <1>3, <2>1, <2>7
<1> QED
  BY <1>7, <1>8, <1>9 DEF SamePlaces

-----------------------------------------------------------------------------
(***************************************************************************)
(* What the theorems assume of the programs.                               *)
(***************************************************************************)

\* Records are removed by MPI_Testall while the trace is read, on one side.
NoTestall ==
  \A p \in Programs : \A r \in Rank : \A i \in Activity(r) : p[r][i].kind # "testall"

\* An answer has the tag of the program plus ReverseTag.
TagsApart == \A t, u \in Tag : Reverse(t) # u

\* An MPI_Sendrecv with a single partner neither asks for an answer nor gives
\* one: nor does its partner, which is an MPI_Sendrecv of this kind as well.
Single(op) == op.kind = "sendrecv" /\ op.to = op.from
PartnersAnswer ==
  \A p \in Programs : \A s, d \in Rank : \A i \in Activity(s), j \in Activity(d) :
    Matches(p, s, i, d, j) => (Single(p[s][i]) <=> Single(p[d][j]))

\* The activities that get an answer, and those that give one.
Asks(p, s, d, tag) == {i \in SendsTo(p, s, d, tag) : ~Single(p[s][i])}
Answers(p, d, s, tag) == {i \in ReceivesFrom(p, d, s, tag) : ~Single(p[d][i])}

LEMMA AnswersMatch ==
  ASSUME PartnersAnswer, NEW p \in Programs, NEW s \in Rank, NEW d \in Rank, NEW tag \in Tag
  PROVE  /\ Cardinality(Asks(p, s, d, tag)) = Cardinality(Answers(p, d, s, tag))
         /\ \A i \in Asks(p, s, d, tag), j \in Answers(p, d, s, tag) :
              Position(Asks(p, s, d, tag), i) = Position(Answers(p, d, s, tag), j)
                => Matches(p, s, i, d, j)
<1>1. PICK b \in Nat, c \in Nat : b = LastActivity[s] /\ c = LastActivity[d]
  BY ActivityNumbers
<1>2. PICK S \in SUBSET (0 .. b) : S = SendsTo(p, s, d, tag)
  BY <1>1 DEF SendsTo, Activity
<1>3. PICK R \in SUBSET (0 .. c) : R = ReceivesFrom(p, d, s, tag)
  BY <1>1 DEF ReceivesFrom, Activity
<1>4. PICK P \in SUBSET S : P = Asks(p, s, d, tag)
  BY <1>2 DEF Asks
<1>5. PICK Q \in SUBSET R : Q = Answers(p, d, s, tag)
  BY <1>3 DEF Answers
<1>6. ASSUME NEW i \in S, NEW j \in R, Position(S, i) = Position(R, j)
      PROVE  Matches(p, s, i, d, j)
  BY <1>2, <1>3, <1>6 DEF Matches, SendsTo, ReceivesFrom
<1>7. Alike(S, R, P, Q)
  BY <1>2, <1>3, <1>4, <1>5, <1>6
     DEF PartnersAnswer, Asks, Answers, SendsTo, ReceivesFrom, Alike
<1>8. Cardinality(S) = Cardinality(R)
  BY <1>2, <1>3, ReplayPrograms DEF LegalProgram
<1>9. Cardinality(P) = Cardinality(Q) /\ SamePlaces(S, R, P, Q)
  BY <1>7, <1>8, AlikePositions
<1> QED
  BY <1>4, <1>5, <1>6, <1>9 DEF SamePlaces

-----------------------------------------------------------------------------
(***************************************************************************)
(* The inductive invariant.                                                *)
(***************************************************************************)
Indices == [out : Nat, in : Nat, revOut : Nat, revIn : Nat]

Typed ==
  /\ pos \in [Rank -> Nat] /\ \A r \in Rank : pos[r] <= LastActivity[r] + 1
  /\ stage \in [Rank -> {"apply", "forward", "reverse"}]
  /\ sent \in [Rank -> [Rank -> [ReplayTag -> Seq(Message)]]]
  /\ posted \in [Rank -> [Rank -> [ReplayTag -> Nat]]]
  /\ index = [r \in Rank |-> index[r]]
  /\ \A r \in Rank : index[r] \in [Activity(r) -> Indices]

Measured == program \in Programs /\ ValidTiming(program, time)

LEMMA SentIsSequence ==
  ASSUME Typed, NEW q \in Rank, NEW d \in Rank, NEW tag \in ReplayTag
  PROVE  sent[q][d][tag] \in Seq(Message)
<1>1. sent \in [Rank -> [Rank -> [ReplayTag -> Seq(Message)]]]
  BY DEF Typed
<1>2. sent[q] \in [Rank -> [ReplayTag -> Seq(Message)]]
  BY <1>1
<1>3. sent[q][d] \in [ReplayTag -> Seq(Message)]
  BY <1>2
<1> QED
  BY <1>3

\* The elements of S that rank r has begun with, and has replied to.
Begun(S, r) == {i \in S : i < pos[r] \/ (i = pos[r] /\ stage[r] # "apply")}
Replied(S, r) == {i \in S : i < pos[r] \/ (i = pos[r] /\ stage[r] = "reverse")}

\* The activity whose times an answer has.
AnswerAt(r, i) == IF program[r][i].kind = "irecv" THEN SyncActivity(r, i) ELSE i

\* The k-th message is that of the k-th send begun, the k-th answer that of
\* the k-th receive replied to; receives are posted and numbered likewise.
ForwardMail(r, q, tag) ==
  LET S == SendsTo(program, r, q, tag)
      ms == sent[r][q][tag]
  IN /\ Len(ms) = Cardinality(Begun(S, r))
     /\ \A k \in 1 .. Len(ms) : \E i \in S, t \in SendTypes :
          Position(S, i) = k /\ ms[k] = Buffer(t, r, i)
ReverseMail(r, q, tag) ==
  LET S == Answers(program, r, q, tag)
      ms == sent[r][q][Reverse(tag)]
  IN /\ Len(ms) = Cardinality(Replied(S, r))
     /\ \A k \in 1 .. Len(ms) : \E i \in S, t \in RecvTypes :
          Position(S, i) = k /\ ms[k] = Buffer(t, r, AnswerAt(r, i))
ForwardPosts(r, q, tag) ==
  LET S == ReceivesFrom(program, r, q, tag) IN
  /\ posted[r][q][tag] = Cardinality(Begun(S, r))
  /\ \A i \in Begun(S, r) : index[r][i].in = Position(S, i)
ReversePosts(r, q, tag) ==
  LET S == Asks(program, r, q, tag) IN
  /\ posted[r][q][Reverse(tag)] = Cardinality(Replied(S, r))
  /\ \A i \in Replied(S, r) : index[r][i].revIn = Position(S, i)
Ledger(r) ==
  \A q \in Rank, tag \in Tag :
    /\ ForwardMail(r, q, tag) /\ ReverseMail(r, q, tag)
    /\ ForwardPosts(r, q, tag) /\ ReversePosts(r, q, tag)

-----------------------------------------------------------------------------
(***************************************************************************)
(* Messages, receives and indices: one entry changes.                      *)
(***************************************************************************)
LEMMA SentAfter ==
  ASSUME Typed, NEW r \in Rank, NEW d \in Rank, NEW tag \in ReplayTag, NEW m \in Message,
         SendMessage(r, d, tag, m)
  PROVE  /\ sent' \in [Rank -> [Rank -> [ReplayTag -> Seq(Message)]]]
         /\ sent'[r][d][tag] = Append(sent[r][d][tag], m)
         /\ \A q \in Rank, u \in ReplayTag :
              q # d \/ u # tag => sent'[r][q][u] = sent[r][q][u]
         /\ \A q \in Rank \ {r} : sent'[q] = sent[q]
<1>1. /\ sent \in [Rank -> [Rank -> [ReplayTag -> Seq(Message)]]]
      /\ sent[r] \in [Rank -> [ReplayTag -> Seq(Message)]]
      /\ sent[r][d] \in [ReplayTag -> Seq(Message)]
      /\ sent[r][d][tag] \in Seq(Message)
  BY DEF Typed
<1>2. PICK ms \in Seq(Message) : ms = Append(sent[r][d][tag], m)
  <2>1. PICK q \in Seq(Message) : q = sent[r][d][tag]
    BY <1>1
  <2>2. Append(q, m) \in Seq(Message)
    BY <2>1
  <2> QED
    BY <2>1, <2>2
<1>3. sent' = [sent EXCEPT ![r] = [sent[r] EXCEPT ![d] = [sent[r][d] EXCEPT ![tag] = ms]]]
  BY <1>2 DEF SendMessage
<1>4. PICK f \in [ReplayTag -> Seq(Message)] : f = [sent[r][d] EXCEPT ![tag] = ms]
  BY <1>1, <1>2
<1>5. PICK g \in [Rank -> [ReplayTag -> Seq(Message)]] : g = [sent[r] EXCEPT ![d] = f]
  BY <1>1, <1>4
<1>6. sent' = [sent EXCEPT ![r] = g]
  BY <1>3, <1>4, <1>5
<1>7. /\ f[tag] = ms /\ \A u \in ReplayTag : u # tag => f[u] = sent[r][d][u]
      /\ g[d] = f /\ \A q \in Rank : q # d => g[q] = sent[r][q]
      /\ sent'[r] = g /\ \A q \in Rank \ {r} : sent'[q] = sent[q]
  BY <1>1, <1>4, <1>5, <1>6
<1>8. sent' \in [Rank -> [Rank -> [ReplayTag -> Seq(Message)]]]
  BY <1>1, <1>5, <1>6
<1> QED
  BY <1>2, <1>7, <1>8

LEMMA PostedAfter ==
  ASSUME Typed, NEW r \in Rank, NEW d \in Rank, NEW tag \in ReplayTag,
         PostReceive(r, d, tag)
  PROVE  /\ posted' \in [Rank -> [Rank -> [ReplayTag -> Nat]]]
         /\ posted'[r][d][tag] = posted[r][d][tag] + 1
         /\ \A q \in Rank, u \in ReplayTag :
              q # d \/ u # tag => posted'[r][q][u] = posted[r][q][u]
         /\ \A q \in Rank \ {r} : posted'[q] = posted[q]
<1>1. /\ posted \in [Rank -> [Rank -> [ReplayTag -> Nat]]]
      /\ posted[r] \in [Rank -> [ReplayTag -> Nat]]
      /\ posted[r][d] \in [ReplayTag -> Nat]
      /\ posted[r][d][tag] \in Nat
  BY DEF Typed
<1>2. PICK n \in Nat : n = posted[r][d][tag] + 1
  BY <1>1
<1>3. posted' = [posted EXCEPT ![r] = [posted[r] EXCEPT ![d] = [posted[r][d] EXCEPT ![tag] = n]]]
  BY <1>2 DEF PostReceive
<1>4. PICK f \in [ReplayTag -> Nat] : f = [posted[r][d] EXCEPT ![tag] = n]
  BY <1>1, <1>2
<1>5. PICK g \in [Rank -> [ReplayTag -> Nat]] : g = [posted[r] EXCEPT ![d] = f]
  BY <1>1, <1>4
<1>6. posted' = [posted EXCEPT ![r] = g]
  BY <1>3, <1>4, <1>5
<1>7. /\ f[tag] = n /\ \A u \in ReplayTag : u # tag => f[u] = posted[r][d][u]
      /\ g[d] = f /\ \A q \in Rank : q # d => g[q] = posted[r][q]
      /\ posted'[r] = g /\ \A q \in Rank \ {r} : posted'[q] = posted[q]
  BY <1>1, <1>4, <1>5, <1>6
<1>8. posted' \in [Rank -> [Rank -> [ReplayTag -> Nat]]]
  BY <1>1, <1>5, <1>6
<1> QED
  BY <1>2, <1>7, <1>8

\* The indices of the activity at hand become x.
IndexBecomes(r, x) ==
  /\ index' = [q \in Rank |-> index'[q]]
  /\ index'[r] \in [Activity(r) -> Indices]
  /\ index'[r][pos[r]] = x
  /\ \A i \in Activity(r) : i # pos[r] => index'[r][i] = index[r][i]
  /\ \A q \in Rank \ {r} : index'[q] = index[q]

LEMMA IndexAfter ==
  ASSUME Typed, NEW r \in Rank, pos[r] \in Activity(r), NEW x \in Indices,
         index' = [index EXCEPT ![r][pos[r]] = x]
  PROVE  IndexBecomes(r, x)
<1>1. index = [q \in Rank |-> index[q]] /\ index[r] \in [Activity(r) -> Indices]
  BY DEF Typed
<1>2. PICK f \in [Activity(r) -> Indices] : f = [index[r] EXCEPT ![pos[r]] = x]
  BY <1>1
<1>3. index' = [index EXCEPT ![r] = f]
  BY <1>2
<1>4. index'[r] = f /\ \A q \in Rank \ {r} : index'[q] = index[q]
  BY <1>1, <1>3
<1>5. f[pos[r]] = x /\ \A i \in Activity(r) : i # pos[r] => f[i] = index[r][i]
  BY <1>1, <1>2
<1>6. index' = [q \in Rank |-> index'[q]]
  <2>1. DOMAIN index' = Rank
    BY <1>1, <1>3
  <2> QED
    BY <1>1, <1>3, <2>1
<1> QED
  BY <1>4, <1>5, <1>6 DEF IndexBecomes

LEMMA OneIndex ==
  ASSUME Typed, NEW r \in Rank, pos[r] \in Activity(r), NEW k \in Nat
  PROVE  /\ SetIndex(r, "out", k) =>
              IndexBecomes(r, [index[r][pos[r]] EXCEPT !.out = k])
         /\ SetIndex(r, "in", k) =>
              IndexBecomes(r, [index[r][pos[r]] EXCEPT !.in = k])
         /\ SetIndex(r, "revOut", k) =>
              IndexBecomes(r, [index[r][pos[r]] EXCEPT !.revOut = k])
         /\ SetIndex(r, "revIn", k) =>
              IndexBecomes(r, [index[r][pos[r]] EXCEPT !.revIn = k])
<1>1. index[r][pos[r]] \in Indices
  BY DEF Typed
<1>2. /\ [index[r][pos[r]] EXCEPT !.out = k] \in Indices
      /\ [index[r][pos[r]] EXCEPT !.in = k] \in Indices
      /\ [index[r][pos[r]] EXCEPT !.revOut = k] \in Indices
      /\ [index[r][pos[r]] EXCEPT !.revIn = k] \in Indices
  BY <1>1 DEF Indices
<1>3. /\ SetIndex(r, "out", k) =>
           index' = [index EXCEPT ![r][pos[r]] = [index[r][pos[r]] EXCEPT !.out = k]]
      /\ SetIndex(r, "in", k) =>
           index' = [index EXCEPT ![r][pos[r]] = [index[r][pos[r]] EXCEPT !.in = k]]
      /\ SetIndex(r, "revOut", k) =>
           index' = [index EXCEPT ![r][pos[r]] = [index[r][pos[r]] EXCEPT !.revOut = k]]
      /\ SetIndex(r, "revIn", k) =>
           index' = [index EXCEPT ![r][pos[r]] = [index[r][pos[r]] EXCEPT !.revIn = k]]
  BY DEF SetIndex
<1> QED
  BY <1>2, <1>3, IndexAfter

-----------------------------------------------------------------------------
(***************************************************************************)
(* A step of a rank begins with an activity, replies to it, or leaves it,  *)
(* and keeps its books accordingly.                                        *)
(***************************************************************************)
Begins(r) == stage[r] = "apply"
Replies(r) ==
  /\ stage[r] # "reverse"
  /\ pos'[r] = pos[r] + 1 \/ stage'[r] = "reverse"
Moves(r) ==
  /\ pos[r] \in Activity(r)
  /\ pos' \in [Rank -> Nat]
  /\ stage' \in [Rank -> {"apply", "forward", "reverse"}]
  /\ \/ pos'[r] = pos[r] + 1 /\ stage'[r] = "apply"
     \/ pos'[r] = pos[r] /\ stage[r] = "apply" /\ stage'[r] = "forward"
     \/ pos'[r] = pos[r] /\ stage[r] = "forward" /\ stage'[r] = "reverse"
  /\ \A q \in Rank \ {r} : pos'[q] = pos[q] /\ stage'[q] = stage[q]

LEMMA BegunAfter ==
  ASSUME Typed, NEW r \in Rank, Moves(r), NEW S \in SUBSET Activity(r)
  PROVE  /\ Begins(r) /\ pos[r] \in S =>
              /\ Begun(S, r)' = Begun(S, r) \cup {pos[r]}
              /\ Cardinality(Begun(S, r)') = Cardinality(Begun(S, r)) + 1
              /\ Position(S, pos[r]) = Cardinality(Begun(S, r)) + 1
         /\ ~(Begins(r) /\ pos[r] \in S) => Begun(S, r)' = Begun(S, r)
<1>1. /\ LastActivity[r] \in Nat /\ Activity(r) = 0 .. LastActivity[r]
      /\ pos[r] \in Nat /\ pos'[r] \in Nat
  BY ActivityNumbers DEF Typed, Activity, Moves
<1>2. PICK i \in Nat : i = pos[r]
  BY <1>1
<1>3. \A j \in S : j \in Nat
  BY <1>1
<1>4. ASSUME Begins(r), i \in S
      PROVE  /\ Begun(S, r)' = Begun(S, r) \cup {pos[r]}
             /\ Cardinality(Begun(S, r)') = Cardinality(Begun(S, r)) + 1
             /\ Position(S, pos[r]) = Cardinality(Begun(S, r)) + 1
  <2>1. Begun(S, r) = Below(S, i)
    BY <1>2, <1>3, <1>4 DEF Below, Begun, Begins
  <2>2. \A j \in S : (j < pos'[r] \/ (j = pos'[r] /\ stage'[r] # "apply")) <=> j <= i
    <3>1. \/ pos'[r] = i + 1 /\ stage'[r] = "apply"
          \/ pos'[r] = i /\ stage'[r] # "apply"
      BY <1>2, <1>4 DEF Moves, Begins
    <3> QED
      BY <1>2, <1>3, <3>1
  <2>3. Begun(S, r)' = UpTo(S, i)
    BY <2>2 DEF Begun, UpTo
  <2>4. S \in SUBSET (0 .. LastActivity[r])
    BY <1>1
  <2>5. PICK b \in Nat : b = LastActivity[r] /\ S \in SUBSET (0 .. b)
    BY <1>1, <2>4
  <2>6. /\ UpTo(S, i) = Below(S, i) \cup {i}
        /\ Cardinality(UpTo(S, i)) = Cardinality(Below(S, i)) + 1
        /\ Position(S, i) = Cardinality(UpTo(S, i))
    BY <1>4, <2>5, UpToNext
  <2> QED
    BY <1>2, <2>1, <2>3, <2>6
<1>5. ASSUME ~(Begins(r) /\ i \in S)
      PROVE  Begun(S, r)' = Begun(S, r)
  <2>1. \A j \in S : (j < pos'[r] \/ (j = pos'[r] /\ stage'[r] # "apply"))
                       <=> (j < i \/ (j = i /\ stage[r] # "apply"))
    BY <1>1, <1>2, <1>3, <1>5 DEF Moves, Begins
  <2> QED
    BY <1>2, <2>1 DEF Begun
<1> QED
  BY <1>2, <1>4, <1>5

LEMMA RepliedAfter ==
  ASSUME Typed, NEW r \in Rank, Moves(r), NEW S \in SUBSET Activity(r)
  PROVE  /\ Replies(r) /\ pos[r] \in S =>
              /\ Replied(S, r)' = Replied(S, r) \cup {pos[r]}
              /\ Cardinality(Replied(S, r)') = Cardinality(Replied(S, r)) + 1
              /\ Position(S, pos[r]) = Cardinality(Replied(S, r)) + 1
         /\ ~(Replies(r) /\ pos[r] \in S) => Replied(S, r)' = Replied(S, r)
<1>1. /\ LastActivity[r] \in Nat /\ Activity(r) = 0 .. LastActivity[r]
      /\ pos[r] \in Nat /\ pos'[r] \in Nat
  BY ActivityNumbers DEF Typed, Activity, Moves
<1>2. PICK i \in Nat : i = pos[r]
  BY <1>1
<1>3. \A j \in S : j \in Nat
  BY <1>1
<1>4. ASSUME Replies(r), i \in S
      PROVE  /\ Replied(S, r)' = Replied(S, r) \cup {pos[r]}
             /\ Cardinality(Replied(S, r)') = Cardinality(Replied(S, r)) + 1
             /\ Position(S, pos[r]) = Cardinality(Replied(S, r)) + 1
  <2>1. Replied(S, r) = Below(S, i)
    BY <1>2, <1>3, <1>4 DEF Below, Replied, Replies
  <2>2. \A j \in S : (j < pos'[r] \/ (j = pos'[r] /\ stage'[r] = "reverse")) <=> j <= i
    <3>1. \/ pos'[r] = i + 1 /\ stage'[r] = "apply"
          \/ pos'[r] = i /\ stage'[r] = "reverse"
      BY <1>2, <1>4 DEF Moves, Replies
    <3> QED
      BY <1>2, <1>3, <3>1
  <2>3. Replied(S, r)' = UpTo(S, i)
    BY <2>2 DEF Replied, UpTo
  <2>4. S \in SUBSET (0 .. LastActivity[r])
    BY <1>1
  <2>5. PICK b \in Nat : b = LastActivity[r] /\ S \in SUBSET (0 .. b)
    BY <1>1, <2>4
  <2>6. /\ UpTo(S, i) = Below(S, i) \cup {i}
        /\ Cardinality(UpTo(S, i)) = Cardinality(Below(S, i)) + 1
        /\ Position(S, i) = Cardinality(UpTo(S, i))
    BY <1>4, <2>5, UpToNext
  <2> QED
    BY <1>2, <2>1, <2>3, <2>6
<1>5. ASSUME ~(Replies(r) /\ i \in S)
      PROVE  Replied(S, r)' = Replied(S, r)
  <2>1. \A j \in S : (j < pos'[r] \/ (j = pos'[r] /\ stage'[r] = "reverse"))
                       <=> (j < i \/ (j = i /\ stage[r] = "reverse"))
    BY <1>1, <1>2, <1>3, <1>5 DEF Moves, Replies
  <2> QED
    BY <1>2, <2>1 DEF Replied
<1> QED
  BY <1>2, <1>4, <1>5

\* What a step of rank r does to the books about partner q and a tag.
ForwardBooked(r, q, tag) ==
  LET i == pos[r] IN
  /\ IF Begins(r) /\ i \in SendsTo(program, r, q, tag)
       THEN \E t \in SendTypes : sent'[r][q][tag] = Append(sent[r][q][tag], Buffer(t, r, i))
       ELSE sent'[r][q][tag] = sent[r][q][tag]
  /\ IF Begins(r) /\ i \in ReceivesFrom(program, r, q, tag)
       THEN /\ posted'[r][q][tag] = posted[r][q][tag] + 1
            /\ index'[r][i].in = posted[r][q][tag] + 1
       ELSE posted'[r][q][tag] = posted[r][q][tag]
ReverseBooked(r, q, tag) ==
  LET i == pos[r] IN
  /\ IF Replies(r) /\ i \in Answers(program, r, q, tag)
       THEN \E t \in RecvTypes : sent'[r][q][Reverse(tag)] =
              Append(sent[r][q][Reverse(tag)], Buffer(t, r, AnswerAt(r, i)))
       ELSE sent'[r][q][Reverse(tag)] = sent[r][q][Reverse(tag)]
  /\ IF Replies(r) /\ i \in Asks(program, r, q, tag)
       THEN /\ posted'[r][q][Reverse(tag)] = posted[r][q][Reverse(tag)] + 1
            /\ index'[r][i].revIn = posted[r][q][Reverse(tag)] + 1
       ELSE posted'[r][q][Reverse(tag)] = posted[r][q][Reverse(tag)]
Indexed(r) ==
  LET i == pos[r] IN
  /\ \A j \in Activity(r) : j # i => index'[r][j] = index[r][j]
  /\ ~Begins(r) => index'[r][i].in = index[r][i].in
  /\ ~Replies(r) => index'[r][i].revIn = index[r][i].revIn

\* Times are not changed, and so are what an activity sends.
LEMMA LettersStay ==
  ASSUME UNCHANGED trace
  PROVE  /\ \A t, r, i : Buffer(t, r, i)' = Buffer(t, r, i)
         /\ \A r, i : AnswerAt(r, i)' = AnswerAt(r, i)
BY DEF trace, Buffer, AnswerAt, SyncActivity

LEMMA KindsStay ==
  ASSUME UNCHANGED trace
  PROVE  \A r, q, tag : /\ SendsTo(program, r, q, tag)' = SendsTo(program, r, q, tag)
                        /\ ReceivesFrom(program, r, q, tag)' = ReceivesFrom(program, r, q, tag)
                        /\ Asks(program, r, q, tag)' = Asks(program, r, q, tag)
                        /\ Answers(program, r, q, tag)' = Answers(program, r, q, tag)
BY DEF trace, SendsTo, ReceivesFrom, Asks, Answers

LEMMA KindsOfActivities ==
  ASSUME NEW r, NEW q, NEW tag
  PROVE  /\ SendsTo(program, r, q, tag) \in SUBSET Activity(r)
         /\ ReceivesFrom(program, r, q, tag) \in SUBSET Activity(r)
         /\ Asks(program, r, q, tag) \in SUBSET Activity(r)
         /\ Answers(program, r, q, tag) \in SUBSET Activity(r)
BY DEF SendsTo, ReceivesFrom, Asks, Answers

LEMMA ForwardMailKept ==
  ASSUME Typed, sent' \in [Rank -> [Rank -> [ReplayTag -> Seq(Message)]]],
         UNCHANGED trace, NEW r \in Rank, Moves(r), NEW q \in Rank, NEW tag \in Tag,
         ForwardBooked(r, q, tag), ForwardMail(r, q, tag)
  PROVE  ForwardMail(r, q, tag)'
<1> DEFINE S == SendsTo(program, r, q, tag)
<1>1. S' = S /\ S \in SUBSET Activity(r)
  BY KindsStay, KindsOfActivities
<1>3. PICK ms \in Seq(Message) : ms = sent[r][q][tag]
  <2>1. tag \in ReplayTag
    BY DEF ReplayTag
  <2> QED
    BY <2>1, SentIsSequence
<1>4. /\ Len(ms) = Cardinality(Begun(S, r))
      /\ \A k \in 1 .. Len(ms) : \E i \in S, t \in SendTypes :
           Position(S, i) = k /\ ms[k] = Buffer(t, r, i)
  BY <1>3 DEF ForwardMail
<1> HIDE DEF S
<1>5. SUFFICES /\ Len(sent'[r][q][tag]) = Cardinality(Begun(S, r)')
               /\ \A k \in 1 .. Len(sent'[r][q][tag]) : \E i \in S, t \in SendTypes :
                    Position(S, i) = k /\ sent'[r][q][tag][k] = Buffer(t, r, i)
  <2>1. program' = program /\ time' = time
    BY DEF trace
  <2> QED
    BY <2>1 DEF S, ForwardMail, Begun, Buffer
<1>6. CASE Begins(r) /\ pos[r] \in S
  <2>1. /\ Cardinality(Begun(S, r)') = Cardinality(Begun(S, r)) + 1
        /\ Position(S, pos[r]) = Cardinality(Begun(S, r)) + 1
    BY <1>1, <1>6, BegunAfter
  <2>2. PICK t \in SendTypes : sent'[r][q][tag] = Append(ms, Buffer(t, r, pos[r]))
    BY <1>3, <1>6 DEF ForwardBooked, S
  <2>3. PICK b : b = Buffer(t, r, pos[r])
    OBVIOUS
  <2>4. /\ Len(Append(ms, b)) = Len(ms) + 1 /\ Append(ms, b)[Len(ms) + 1] = b
        /\ \A k \in 1 .. Len(ms) : Append(ms, b)[k] = ms[k]
    BY <1>3, SMTT(60)
  <2>5. Len(ms) \in Nat
    BY <1>3
  <2>6. \A k \in 1 .. Len(ms) + 1 : \E i \in S, u \in SendTypes :
          Position(S, i) = k /\ Append(ms, b)[k] = Buffer(u, r, i)
    <3> SUFFICES ASSUME NEW k \in 1 .. Len(ms) + 1
                 PROVE  \E i \in S, u \in SendTypes :
                          Position(S, i) = k /\ Append(ms, b)[k] = Buffer(u, r, i)
      OBVIOUS
    <3>1. CASE k = Len(ms) + 1
      BY <1>4, <1>6, <2>1, <2>3, <2>4, <3>1
    <3>2. CASE k # Len(ms) + 1
      <4>1. k \in 1 .. Len(ms)
        BY <2>5, <3>2
      <4> QED
        BY <1>4, <2>4, <4>1
    <3> QED
      BY <3>1, <3>2
  <2> QED
    BY <1>4, <2>1, <2>2, <2>3, <2>4, <2>6
<1>7. CASE ~(Begins(r) /\ pos[r] \in S)
  <2>1. Begun(S, r)' = Begun(S, r)
    BY <1>1, <1>7, BegunAfter
  <2>2. sent'[r][q][tag] = ms
    BY <1>3, <1>7 DEF ForwardBooked, S
  <2> QED
    BY <1>4, <2>1, <2>2
<1> QED
  BY <1>6, <1>7

LEMMA ReverseMailKept ==
  ASSUME Typed, sent' \in [Rank -> [Rank -> [ReplayTag -> Seq(Message)]]],
         UNCHANGED trace, NEW r \in Rank, Moves(r), NEW q \in Rank, NEW tag \in Tag,
         ReverseBooked(r, q, tag), ReverseMail(r, q, tag)
  PROVE  ReverseMail(r, q, tag)'
<1> DEFINE S == Answers(program, r, q, tag)
<1>1. S' = S /\ S \in SUBSET Activity(r)
  BY KindsStay, KindsOfActivities
<1>3. PICK ms \in Seq(Message) : ms = sent[r][q][Reverse(tag)]
  <2>1. Reverse(tag) \in ReplayTag
    BY DEF ReplayTag
  <2> QED
    BY <2>1, SentIsSequence
<1>4. /\ Len(ms) = Cardinality(Replied(S, r))
      /\ \A k \in 1 .. Len(ms) : \E i \in S, t \in RecvTypes :
           Position(S, i) = k /\ ms[k] = Buffer(t, r, AnswerAt(r, i))
  BY <1>3 DEF ReverseMail
<1> HIDE DEF S
<1>5. SUFFICES /\ Len(sent'[r][q][Reverse(tag)]) = Cardinality(Replied(S, r)')
               /\ \A k \in 1 .. Len(sent'[r][q][Reverse(tag)]) : \E i \in S, t \in RecvTypes :
                    /\ Position(S, i) = k
                    /\ sent'[r][q][Reverse(tag)][k] = Buffer(t, r, AnswerAt(r, i))
  <2>1. program' = program /\ time' = time
    BY DEF trace
  <2>2. \A i : AnswerAt(r, i)' = AnswerAt(r, i)
    BY LettersStay
  <2> QED
    BY <2>1, <2>2, ZenonT(60) DEF S, ReverseMail, Reverse, Replied, Buffer
<1>6. CASE Replies(r) /\ pos[r] \in S
  <2>1. /\ Cardinality(Replied(S, r)') = Cardinality(Replied(S, r)) + 1
        /\ Position(S, pos[r]) = Cardinality(Replied(S, r)) + 1
    BY <1>1, <1>6, RepliedAfter
  <2>2. PICK t \in RecvTypes :
          sent'[r][q][Reverse(tag)] = Append(ms, Buffer(t, r, AnswerAt(r, pos[r])))
    BY <1>3, <1>6 DEF ReverseBooked, S
  <2>3. PICK b : b = Buffer(t, r, AnswerAt(r, pos[r]))
    OBVIOUS
  <2>4. /\ Len(Append(ms, b)) = Len(ms) + 1 /\ Append(ms, b)[Len(ms) + 1] = b
        /\ \A k \in 1 .. Len(ms) : Append(ms, b)[k] = ms[k]
    BY <1>3, SMTT(60)
  <2>5. Len(ms) \in Nat
    BY <1>3
  <2>6. \A k \in 1 .. Len(ms) + 1 : \E i \in S, u \in RecvTypes :
          Position(S, i) = k /\ Append(ms, b)[k] = Buffer(u, r, AnswerAt(r, i))
    <3> SUFFICES ASSUME NEW k \in 1 .. Len(ms) + 1
                 PROVE  \E i \in S, u \in RecvTypes :
                          Position(S, i) = k /\ Append(ms, b)[k] = Buffer(u, r, AnswerAt(r, i))
      OBVIOUS
    <3>1. CASE k = Len(ms) + 1
      BY <1>4, <1>6, <2>1, <2>3, <2>4, <3>1
    <3>2. CASE k # Len(ms) + 1
      <4>1. k \in 1 .. Len(ms)
        BY <2>5, <3>2
      <4> QED
        BY <1>4, <2>4, <4>1
    <3> QED
      BY <3>1, <3>2
  <2>7. PICK ns : ns = Append(ms, b)
    OBVIOUS
  <2>8. sent'[r][q][Reverse(tag)] = ns
    BY <2>2, <2>3, <2>7
  <2>9. /\ Len(ns) = Cardinality(Replied(S, r)')
        /\ \A k \in 1 .. Len(ns) : \E i \in S, u \in RecvTypes :
             Position(S, i) = k /\ ns[k] = Buffer(u, r, AnswerAt(r, i))
    BY <1>4, <2>1, <2>4, <2>6, <2>7
  <2> QED
    BY <2>8, <2>9
<1>7. CASE ~(Replies(r) /\ pos[r] \in S)
  <2>1. Replied(S, r)' = Replied(S, r)
    BY <1>1, <1>7, RepliedAfter
  <2>2. sent'[r][q][Reverse(tag)] = ms
    BY <1>3, <1>7 DEF ReverseBooked, S
  <2> QED
    BY <1>4, <2>1, <2>2
<1> QED
  BY <1>6, <1>7

LEMMA ForwardPostsKept ==
  ASSUME Typed, UNCHANGED trace, NEW r \in Rank, Moves(r), Indexed(r),
         NEW q \in Rank, NEW tag \in Tag,
         ForwardBooked(r, q, tag), ForwardPosts(r, q, tag)
  PROVE  ForwardPosts(r, q, tag)'
<1> DEFINE S == ReceivesFrom(program, r, q, tag)
<1>1. S' = S /\ S \in SUBSET Activity(r)
  BY KindsStay, KindsOfActivities
<1>2. /\ posted[r][q][tag] = Cardinality(Begun(S, r))
      /\ \A i \in Begun(S, r) : index[r][i].in = Position(S, i)
  BY DEF ForwardPosts
<1> HIDE DEF S
<1>3. SUFFICES /\ posted'[r][q][tag] = Cardinality(Begun(S, r)')
               /\ \A i \in Begun(S, r)' : index'[r][i].in = Position(S, i)
  <2>1. Begun(ReceivesFrom(program, r, q, tag), r)' = Begun(S, r)'
    BY <1>1 DEF S, Begun
  <2> QED
    BY <1>1, <2>1 DEF S, ForwardPosts
<1>4. Begun(S, r) \subseteq Activity(r)
  BY <1>1 DEF Begun
<1>5. \A j \in Activity(r) : j # pos[r] => index'[r][j] = index[r][j]
  BY DEF Indexed
<1>6. CASE Begins(r) /\ pos[r] \in S
  <2>1. /\ Begun(S, r)' = Begun(S, r) \cup {pos[r]}
        /\ Cardinality(Begun(S, r)') = Cardinality(Begun(S, r)) + 1
        /\ Position(S, pos[r]) = Cardinality(Begun(S, r)) + 1
    BY <1>1, <1>6, BegunAfter
  <2>2. /\ posted'[r][q][tag] = posted[r][q][tag] + 1
        /\ index'[r][pos[r]].in = posted[r][q][tag] + 1
    BY <1>6 DEF ForwardBooked, S
  <2> QED
    BY <1>2, <1>4, <1>5, <2>1, <2>2
<1>7. CASE ~(Begins(r) /\ pos[r] \in S)
  <2>1. Begun(S, r)' = Begun(S, r)
    BY <1>1, <1>7, BegunAfter
  <2>2. posted'[r][q][tag] = posted[r][q][tag]
    BY <1>7 DEF ForwardBooked, S
  <2>3. pos[r] \in Begun(S, r) => index'[r][pos[r]].in = index[r][pos[r]].in
    <3>1. SUFFICES ASSUME pos[r] \in Begun(S, r) PROVE ~Begins(r)
      BY DEF Indexed
    <3>2. pos[r] \in Nat
      BY DEF Typed
    <3> QED
      BY <3>1, <3>2 DEF Begun, Begins
  <2> QED
    BY <1>2, <1>4, <1>5, <2>1, <2>2, <2>3
<1> QED
  BY <1>6, <1>7

LEMMA ReversePostsKept ==
  ASSUME Typed, UNCHANGED trace, NEW r \in Rank, Moves(r), Indexed(r),
         NEW q \in Rank, NEW tag \in Tag,
         ReverseBooked(r, q, tag), ReversePosts(r, q, tag)
  PROVE  ReversePosts(r, q, tag)'
<1> DEFINE S == Asks(program, r, q, tag)
<1>1. S' = S /\ S \in SUBSET Activity(r)
  BY KindsStay, KindsOfActivities
<1>2. /\ posted[r][q][Reverse(tag)] = Cardinality(Replied(S, r))
      /\ \A i \in Replied(S, r) : index[r][i].revIn = Position(S, i)
  BY DEF ReversePosts
<1> HIDE DEF S
<1>3. SUFFICES /\ posted'[r][q][Reverse(tag)] = Cardinality(Replied(S, r)')
               /\ \A i \in Replied(S, r)' : index'[r][i].revIn = Position(S, i)
  <2>1. Replied(Asks(program, r, q, tag), r)' = Replied(S, r)'
    BY <1>1 DEF S, Replied
  <2> QED
    BY <1>1, <2>1 DEF S, ReversePosts, Reverse
<1>4. Replied(S, r) \subseteq Activity(r)
  BY <1>1 DEF Replied
<1>5. \A j \in Activity(r) : j # pos[r] => index'[r][j] = index[r][j]
  BY DEF Indexed
<1>6. CASE Replies(r) /\ pos[r] \in S
  <2>1. /\ Replied(S, r)' = Replied(S, r) \cup {pos[r]}
        /\ Cardinality(Replied(S, r)') = Cardinality(Replied(S, r)) + 1
        /\ Position(S, pos[r]) = Cardinality(Replied(S, r)) + 1
    BY <1>1, <1>6, RepliedAfter
  <2>2. /\ posted'[r][q][Reverse(tag)] = posted[r][q][Reverse(tag)] + 1
        /\ index'[r][pos[r]].revIn = posted[r][q][Reverse(tag)] + 1
    BY <1>6 DEF ReverseBooked, S
  <2> QED
    BY <1>2, <1>4, <1>5, <2>1, <2>2
<1>7. CASE ~(Replies(r) /\ pos[r] \in S)
  <2>1. Replied(S, r)' = Replied(S, r)
    BY <1>1, <1>7, RepliedAfter
  <2>2. posted'[r][q][Reverse(tag)] = posted[r][q][Reverse(tag)]
    BY <1>7 DEF ReverseBooked, S
  <2>3. pos[r] \in Replied(S, r) => index'[r][pos[r]].revIn = index[r][pos[r]].revIn
    <3>1. SUFFICES ASSUME pos[r] \in Replied(S, r) PROVE ~Replies(r)
      BY DEF Indexed
    <3>2. pos[r] \in Nat
      BY DEF Typed
    <3> QED
      BY <3>1, <3>2 DEF Replied, Replies
  <2> QED
    BY <1>2, <1>4, <1>5, <2>1, <2>2, <2>3
<1> QED
  BY <1>6, <1>7

\* The books of the other ranks are not touched.
LEMMA OthersKept ==
  ASSUME UNCHANGED trace, NEW q \in Rank,
         pos'[q] = pos[q], stage'[q] = stage[q],
         sent'[q] = sent[q], posted'[q] = posted[q], index'[q] = index[q], Ledger(q)
  PROVE  Ledger(q)'
<1>0. program' = program /\ time' = time
  BY DEF trace
<1>1. \A i : AnswerAt(q, i)' = AnswerAt(q, i)
  BY LettersStay
<1>2. SUFFICES ASSUME NEW d \in Rank, NEW tag \in Tag
               PROVE  /\ ForwardMail(q, d, tag)' /\ ReverseMail(q, d, tag)'
                      /\ ForwardPosts(q, d, tag)' /\ ReversePosts(q, d, tag)'
  BY DEF Ledger
<1>3. /\ ForwardMail(q, d, tag) /\ ReverseMail(q, d, tag)
      /\ ForwardPosts(q, d, tag) /\ ReversePosts(q, d, tag)
  BY DEF Ledger
<1>4. ForwardMail(q, d, tag)'
  BY <1>0, <1>3, SMTT(60) DEF ForwardMail, Begun, Buffer
<1>5. ReverseMail(q, d, tag)'
  <2> DEFINE S == Answers(program, q, d, tag)
  <2>1. /\ Len(sent[q][d][Reverse(tag)]) = Cardinality(Replied(S, q))
        /\ \A k \in 1 .. Len(sent[q][d][Reverse(tag)]) : \E i \in S, t \in RecvTypes :
             /\ Position(S, i) = k
             /\ sent[q][d][Reverse(tag)][k] = Buffer(t, q, AnswerAt(q, i))
    BY <1>3 DEF ReverseMail
  <2>2. /\ Len(sent'[q][d][Reverse(tag)]) = Cardinality(Replied(S, q)')
        /\ \A k \in 1 .. Len(sent'[q][d][Reverse(tag)]) : \E i \in S, t \in RecvTypes :
             /\ Position(S, i) = k
             /\ sent'[q][d][Reverse(tag)][k] = Buffer(t, q, AnswerAt(q, i))
    <3>1. Replied(S, q)' = Replied(S, q)
      BY <1>0 DEF Replied
    <3> QED
      BY <2>1, <3>1
  <2> QED
    BY <1>0, <1>1, <2>2 DEF ReverseMail, Reverse, Replied, Buffer
<1>6. ForwardPosts(q, d, tag)'
  BY <1>0, <1>3 DEF ForwardPosts, Begun
<1>7. ReversePosts(q, d, tag)'
  BY <1>0, <1>3 DEF ReversePosts, Reverse, Replied
<1> QED
  BY <1>4, <1>5, <1>6, <1>7

\* A step of rank r with all its bookkeeping.
Books(r) ==
  /\ UNCHANGED trace
  /\ sent' \in [Rank -> [Rank -> [ReplayTag -> Seq(Message)]]]
  /\ posted' \in [Rank -> [Rank -> [ReplayTag -> Nat]]]
  /\ index' = [q \in Rank |-> index'[q]]
  /\ index'[r] \in [Activity(r) -> Indices]
  /\ \A q \in Rank \ {r} : sent'[q] = sent[q] /\ posted'[q] = posted[q] /\ index'[q] = index[q]
  /\ Moves(r) /\ Indexed(r)
  /\ \A q \in Rank, tag \in Tag : ForwardBooked(r, q, tag) /\ ReverseBooked(r, q, tag)

LEMMA LedgerKept ==
  ASSUME Typed, NEW r \in Rank, Books(r), \A q \in Rank : Ledger(q)
  PROVE  Typed' /\ \A q \in Rank : Ledger(q)'
<1>1. Typed'
  <2>1. \A q \in Rank : pos'[q] <= LastActivity[q] + 1
    <3>1. pos'[r] <= LastActivity[r] + 1
      BY ActivityNumbers DEF Books, Moves, Typed, Activity
    <3>2. \A q \in Rank \ {r} : pos'[q] <= LastActivity[q] + 1
      BY DEF Books, Moves, Typed
    <3> QED
      BY <3>1, <3>2
  <2>2. \A q \in Rank : index'[q] \in [Activity(q) -> Indices]
    BY DEF Books, Typed
  <2> QED
    BY <2>1, <2>2 DEF Books, Moves, Typed
<1>2. Ledger(r)'
  <2>1. SUFFICES ASSUME NEW q \in Rank, NEW tag \in Tag
                 PROVE  /\ ForwardMail(r, q, tag)' /\ ReverseMail(r, q, tag)'
                        /\ ForwardPosts(r, q, tag)' /\ ReversePosts(r, q, tag)'
    BY DEF Ledger
  <2>2. /\ ForwardMail(r, q, tag) /\ ReverseMail(r, q, tag)
        /\ ForwardPosts(r, q, tag) /\ ReversePosts(r, q, tag)
        /\ ForwardBooked(r, q, tag) /\ ReverseBooked(r, q, tag)
        /\ UNCHANGED trace /\ Moves(r) /\ Indexed(r)
        /\ sent' \in [Rank -> [Rank -> [ReplayTag -> Seq(Message)]]]
    BY DEF Ledger, Books
  <2> QED
    BY <2>2, ForwardMailKept, ReverseMailKept, ForwardPostsKept, ReversePostsKept
<1>3. ASSUME NEW q \in Rank \ {r} PROVE Ledger(q)'
  BY OthersKept DEF Books, Moves
<1> QED
  BY <1>1, <1>2, <1>3

-----------------------------------------------------------------------------
(***************************************************************************)
(* Every rule keeps its books.                                             *)
(***************************************************************************)
\* The sets the activity at hand belongs to.
LEMMA OwnSets ==
  ASSUME NEW r, pos[r] \in Activity(r), NEW q, NEW tag
  PROVE  /\ pos[r] \in SendsTo(program, r, q, tag)
              <=> Op(r).kind \in SendKinds /\ Op(r).to = q /\ Op(r).tag = tag
         /\ pos[r] \in ReceivesFrom(program, r, q, tag)
              <=> Op(r).kind \in RecvKinds /\ Op(r).from = q /\ Op(r).rtag = tag
         /\ pos[r] \in Asks(program, r, q, tag)
              <=> pos[r] \in SendsTo(program, r, q, tag) /\ ~Single(Op(r))
         /\ pos[r] \in Answers(program, r, q, tag)
              <=> pos[r] \in ReceivesFrom(program, r, q, tag) /\ ~Single(Op(r))
BY DEF SendsTo, ReceivesFrom, Asks, Answers, Op

LEMMA LegalNow ==
  ASSUME Measured, NEW r \in Rank, pos[r] \in Activity(r)
  PROVE  LegalOperation(program, r, pos[r], Tag)
BY ReplayPrograms DEF Measured, LegalProgram

\* Tags of both directions.
LEMMA TagsOfReplay ==
  /\ \A tag \in Tag : tag \in ReplayTag /\ Reverse(tag) \in ReplayTag
  /\ \A t, u \in Tag : Reverse(t) = Reverse(u) => t = u
<1>1. \A tag \in Tag : tag \in ReplayTag /\ Reverse(tag) \in ReplayTag
  BY DEF ReplayTag
<1>2. \A t, u \in Tag : Reverse(t) = Reverse(u) => t = u
  BY ReplayTags DEF Reverse
<1> QED
  BY <1>1, <1>2

LEMMA LettersAreMessages ==
  ASSUME Measured, NEW r \in Rank, NEW i \in Activity(r), NEW t \in SendTypes \cup RecvTypes
  PROVE  Buffer(t, r, i) \in Message
<1>1. i \in Nat
  BY ActivityNumbers DEF Activity
<1>2. time[r][i].enter \in Nat /\ time[r][i].leave \in Nat
  BY DEF Measured, ValidTiming
<1> QED
  BY <1>1, <1>2 DEF Buffer, Message

\* The step is the next call of the rule, or leaves the rule.
LEMMA Advances ==
  ASSUME Typed, NEW r \in Rank, pos[r] \in Activity(r), Advance(r)
  PROVE  Moves(r) /\ pos'[r] = pos[r] + 1 /\ stage'[r] = "apply"
<1>1. pos[r] \in Nat /\ pos \in [Rank -> Nat]
      /\ stage \in [Rank -> {"apply", "forward", "reverse"}]
  BY DEF Typed
<1>2. /\ pos'[r] = pos[r] + 1 /\ stage'[r] = "apply"
      /\ \A q \in Rank \ {r} : pos'[q] = pos[q] /\ stage'[q] = stage[q]
      /\ pos' \in [Rank -> Nat] /\ stage' \in [Rank -> {"apply", "forward", "reverse"}]
  BY <1>1 DEF Advance
<1> QED
  BY <1>2 DEF Moves

LEMMA GoesTo ==
  ASSUME Typed, NEW r \in Rank, pos[r] \in Activity(r), NEW s, GoTo(r, s),
         \/ stage[r] = "apply" /\ s = "forward"
         \/ stage[r] = "forward" /\ s = "reverse"
  PROVE  Moves(r) /\ pos'[r] = pos[r] /\ stage'[r] = s
<1>1. pos \in [Rank -> Nat] /\ stage \in [Rank -> {"apply", "forward", "reverse"}]
  BY DEF Typed
<1>2. /\ pos'[r] = pos[r] /\ stage'[r] = s
      /\ \A q \in Rank \ {r} : pos'[q] = pos[q] /\ stage'[q] = stage[q]
      /\ pos' \in [Rank -> Nat] /\ stage' \in [Rank -> {"apply", "forward", "reverse"}]
  BY <1>1 DEF GoTo
<1> QED
  BY <1>2 DEF Moves

\* Nothing is exchanged, and nothing was to be.
LEMMA Silent ==
  ASSUME Typed, NEW r \in Rank, Moves(r), UNCHANGED <<trace, sent, posted, index>>,
         \/ Op(r).kind \notin SendKinds \cup RecvKinds
         \/ ~Begins(r) /\ (~Replies(r) \/ Single(Op(r)))
  PROVE  Books(r)
<1>1. Indexed(r)
  BY DEF Indexed
<1>2. ASSUME NEW q \in Rank, NEW tag \in Tag
      PROVE  ForwardBooked(r, q, tag) /\ ReverseBooked(r, q, tag)
  <2>1. pos[r] \in Activity(r)
    BY DEF Moves
  <2>2. /\ ~(Begins(r) /\ pos[r] \in SendsTo(program, r, q, tag))
        /\ ~(Begins(r) /\ pos[r] \in ReceivesFrom(program, r, q, tag))
        /\ ~(Replies(r) /\ pos[r] \in Asks(program, r, q, tag))
        /\ ~(Replies(r) /\ pos[r] \in Answers(program, r, q, tag))
    BY <2>1, OwnSets
  <2> QED
    BY <2>2 DEF ForwardBooked, ReverseBooked
<1> QED
  BY <1>1, <1>2 DEF Books, Typed

\* What the activity at hand sends and posts, for each partner and tag.
SentOnly(r) ==
  /\ sent' \in [Rank -> [Rank -> [ReplayTag -> Seq(Message)]]]
  /\ \A q \in Rank \ {r} : sent'[q] = sent[q]
PostedOnly(r) ==
  /\ posted' \in [Rank -> [Rank -> [ReplayTag -> Nat]]]
  /\ \A q \in Rank \ {r} : posted'[q] = posted[q]
SendsForward(r) ==
  /\ SentOnly(r)
  /\ \A q \in Rank, tag \in Tag :
       /\ IF pos[r] \in SendsTo(program, r, q, tag)
            THEN \E t \in SendTypes :
                   sent'[r][q][tag] = Append(sent[r][q][tag], Buffer(t, r, pos[r]))
            ELSE sent'[r][q][tag] = sent[r][q][tag]
       /\ sent'[r][q][Reverse(tag)] = sent[r][q][Reverse(tag)]
SendsBack(r) ==
  /\ SentOnly(r)
  /\ \A q \in Rank, tag \in Tag :
       /\ IF pos[r] \in Answers(program, r, q, tag)
            THEN \E t \in RecvTypes : sent'[r][q][Reverse(tag)] =
                   Append(sent[r][q][Reverse(tag)], Buffer(t, r, AnswerAt(r, pos[r])))
            ELSE sent'[r][q][Reverse(tag)] = sent[r][q][Reverse(tag)]
       /\ sent'[r][q][tag] = sent[r][q][tag]
PostsForward(r) ==
  /\ PostedOnly(r)
  /\ \A q \in Rank, tag \in Tag :
       /\ IF pos[r] \in ReceivesFrom(program, r, q, tag)
            THEN posted'[r][q][tag] = posted[r][q][tag] + 1
            ELSE posted'[r][q][tag] = posted[r][q][tag]
       /\ posted'[r][q][Reverse(tag)] = posted[r][q][Reverse(tag)]
PostsBack(r) ==
  /\ PostedOnly(r)
  /\ \A q \in Rank, tag \in Tag :
       /\ IF pos[r] \in Asks(program, r, q, tag)
            THEN posted'[r][q][Reverse(tag)] = posted[r][q][Reverse(tag)] + 1
            ELSE posted'[r][q][Reverse(tag)] = posted[r][q][Reverse(tag)]
       /\ posted'[r][q][tag] = posted[r][q][tag]

LEMMA SentForward ==
  ASSUME TagsApart, Typed, Measured, NEW r \in Rank, pos[r] \in Activity(r),
         Op(r).kind \in SendKinds, NEW t \in SendTypes,
         SendMessage(r, Op(r).to, Op(r).tag, Buffer(t, r, pos[r]))
  PROVE  SendsForward(r)
<1>1. PICK d \in Rank, u \in Tag : d = Op(r).to /\ u = Op(r).tag
  BY LegalNow DEF LegalOperation, Op
<1>2. PICK m \in Message : m = Buffer(t, r, pos[r])
  BY LettersAreMessages
<1>3. u \in ReplayTag /\ SendMessage(r, d, u, m)
  BY <1>1, <1>2, TagsOfReplay
<1>4. SentOnly(r)
  BY <1>3, SentAfter DEF SentOnly
<1>6. /\ sent'[r][d][u] = Append(sent[r][d][u], m)
      /\ \A q \in Rank, w \in ReplayTag :
           q # d \/ w # u => sent'[r][q][w] = sent[r][q][w]
  BY <1>3, SentAfter
<1>5. ASSUME NEW q \in Rank, NEW tag \in Tag
      PROVE  /\ IF pos[r] \in SendsTo(program, r, q, tag)
                  THEN sent'[r][q][tag] = Append(sent[r][q][tag], m)
                  ELSE sent'[r][q][tag] = sent[r][q][tag]
             /\ sent'[r][q][Reverse(tag)] = sent[r][q][Reverse(tag)]
  <2>1. /\ tag \in ReplayTag /\ Reverse(tag) \in ReplayTag /\ Reverse(tag) # u
    BY TagsOfReplay DEF TagsApart
  <2>2. pos[r] \in SendsTo(program, r, q, tag) <=> q = d /\ tag = u
    BY <1>1, OwnSets
  <2> QED
    BY <1>6, <2>1, <2>2
<1> QED
  BY <1>2, <1>4, <1>5 DEF SendsForward

LEMMA SentBack ==
  ASSUME TagsApart, Typed, Measured, NEW r \in Rank, pos[r] \in Activity(r),
         Op(r).kind \in RecvKinds, ~Single(Op(r)), NEW t \in RecvTypes,
         AnswerAt(r, pos[r]) \in Activity(r),
         SendMessage(r, Op(r).from, Reverse(Op(r).rtag), Buffer(t, r, AnswerAt(r, pos[r])))
  PROVE  SendsBack(r)
<1>1. PICK d \in Rank, u \in Tag : d = Op(r).from /\ u = Op(r).rtag
  BY LegalNow DEF LegalOperation, Op
<1>2. PICK m \in Message : m = Buffer(t, r, AnswerAt(r, pos[r]))
  BY LettersAreMessages
<1>3. Reverse(u) \in ReplayTag /\ SendMessage(r, d, Reverse(u), m)
  BY <1>1, <1>2, TagsOfReplay
<1>4. SentOnly(r)
  BY <1>3, SentAfter DEF SentOnly
<1>6. /\ sent'[r][d][Reverse(u)] = Append(sent[r][d][Reverse(u)], m)
      /\ \A q \in Rank, w \in ReplayTag :
           q # d \/ w # Reverse(u) => sent'[r][q][w] = sent[r][q][w]
  BY <1>3, SentAfter
<1>5. ASSUME NEW q \in Rank, NEW tag \in Tag
      PROVE  /\ IF pos[r] \in Answers(program, r, q, tag)
                  THEN sent'[r][q][Reverse(tag)] = Append(sent[r][q][Reverse(tag)], m)
                  ELSE sent'[r][q][Reverse(tag)] = sent[r][q][Reverse(tag)]
             /\ sent'[r][q][tag] = sent[r][q][tag]
  <2>1. /\ tag \in ReplayTag /\ Reverse(tag) \in ReplayTag /\ tag # Reverse(u)
        /\ Reverse(tag) = Reverse(u) => tag = u
    BY TagsOfReplay DEF TagsApart
  <2>2. pos[r] \in Answers(program, r, q, tag) <=> q = d /\ tag = u
    BY <1>1, OwnSets
  <2> QED
    BY <1>6, <2>1, <2>2
<1> QED
  BY <1>2, <1>4, <1>5 DEF SendsBack

LEMMA PostedForward ==
  ASSUME TagsApart, Typed, Measured, NEW r \in Rank, pos[r] \in Activity(r),
         Op(r).kind \in RecvKinds, PostReceive(r, Op(r).from, Op(r).rtag)
  PROVE  /\ PostsForward(r)
         /\ NextPosted(r, Op(r).from, Op(r).rtag) \in Nat
         /\ \A q \in Rank, tag \in Tag :
              pos[r] \in ReceivesFrom(program, r, q, tag) =>
                NextPosted(r, Op(r).from, Op(r).rtag) = posted[r][q][tag] + 1
<1>1. PICK d \in Rank, u \in Tag : d = Op(r).from /\ u = Op(r).rtag
  BY LegalNow DEF LegalOperation, Op
<1>2. u \in ReplayTag /\ PostReceive(r, d, u)
  BY <1>1, TagsOfReplay
<1>3. PostedOnly(r)
  BY <1>2, PostedAfter DEF PostedOnly
<1>4. ASSUME NEW q \in Rank, NEW tag \in Tag
      PROVE  /\ IF pos[r] \in ReceivesFrom(program, r, q, tag)
                  THEN posted'[r][q][tag] = posted[r][q][tag] + 1
                  ELSE posted'[r][q][tag] = posted[r][q][tag]
             /\ posted'[r][q][Reverse(tag)] = posted[r][q][Reverse(tag)]
  <2>1. /\ tag \in ReplayTag /\ Reverse(tag) \in ReplayTag /\ Reverse(tag) # u
    BY TagsOfReplay DEF TagsApart
  <2>2. pos[r] \in ReceivesFrom(program, r, q, tag) <=> q = d /\ tag = u
    BY <1>1, OwnSets
  <2> QED
    BY <1>2, <2>1, <2>2, PostedAfter
<1>5. posted[r][d][u] \in Nat
  BY <1>2 DEF Typed
<1>6. \A q \in Rank, tag \in Tag :
        pos[r] \in ReceivesFrom(program, r, q, tag) => q = d /\ tag = u
  BY <1>1, OwnSets
<1> QED
  BY <1>1, <1>3, <1>4, <1>5, <1>6 DEF PostsForward, NextPosted

LEMMA PostedBack ==
  ASSUME TagsApart, Typed, Measured, NEW r \in Rank, pos[r] \in Activity(r),
         Op(r).kind \in SendKinds, ~Single(Op(r)), PostReceive(r, Op(r).to, Reverse(Op(r).tag))
  PROVE  /\ PostsBack(r)
         /\ NextPosted(r, Op(r).to, Reverse(Op(r).tag)) \in Nat
         /\ \A q \in Rank, tag \in Tag :
              pos[r] \in Asks(program, r, q, tag) =>
                NextPosted(r, Op(r).to, Reverse(Op(r).tag)) = posted[r][q][Reverse(tag)] + 1
<1>1. PICK d \in Rank, u \in Tag : d = Op(r).to /\ u = Op(r).tag
  BY LegalNow DEF LegalOperation, Op
<1>2. Reverse(u) \in ReplayTag /\ PostReceive(r, d, Reverse(u))
  BY <1>1, TagsOfReplay
<1>3. PostedOnly(r)
  BY <1>2, PostedAfter DEF PostedOnly
<1>4. ASSUME NEW q \in Rank, NEW tag \in Tag
      PROVE  /\ IF pos[r] \in Asks(program, r, q, tag)
                  THEN posted'[r][q][Reverse(tag)] = posted[r][q][Reverse(tag)] + 1
                  ELSE posted'[r][q][Reverse(tag)] = posted[r][q][Reverse(tag)]
             /\ posted'[r][q][tag] = posted[r][q][tag]
  <2>1. /\ tag \in ReplayTag /\ Reverse(tag) \in ReplayTag /\ tag # Reverse(u)
        /\ Reverse(tag) = Reverse(u) => tag = u
    BY TagsOfReplay DEF TagsApart
  <2>2. pos[r] \in Asks(program, r, q, tag) <=> q = d /\ tag = u
    BY <1>1, OwnSets
  <2> QED
    BY <1>2, <2>1, <2>2, PostedAfter
<1>5. posted[r][d][Reverse(u)] \in Nat
  BY <1>2 DEF Typed
<1>6. \A q \in Rank, tag \in Tag :
        pos[r] \in Asks(program, r, q, tag) => q = d /\ tag = u
  BY <1>1, OwnSets
<1> QED
  BY <1>1, <1>3, <1>4, <1>5, <1>6 DEF PostsBack, NextPosted

LEMMA NextSentIsNat ==
  ASSUME Typed, NEW r \in Rank, NEW d \in Rank, NEW tag \in ReplayTag
  PROVE  NextSent(r, d, tag) \in Nat
<1>1. sent[r][d][tag] \in Seq(Message)
  BY DEF Typed
<1> QED
  BY <1>1 DEF NextSent

LEMMA StartSendBooks ==
  ASSUME TagsApart, Typed, Measured, NEW r \in Rank, StartSend(r)
  PROVE  Books(r)
<1>1. /\ pos[r] \in Activity(r) /\ Op(r).kind = "send" /\ stage[r] = "apply"
      /\ GoTo(r, "forward") /\ UNCHANGED <<trace, posted>>
  BY DEF StartSend, AtStage
<1>2. Moves(r) /\ pos'[r] = pos[r] /\ stage'[r] = "forward"
  BY <1>1, GoesTo
<1>3. Begins(r) /\ ~Replies(r)
  BY <1>1, <1>2 DEF Begins, Replies, Typed
<1>4. SendsForward(r)
  BY <1>1, SentForward DEF StartSend, SendKinds, SendTypes
<1>5. PICK k \in Nat : SetIndex(r, "out", k)
  <2>1. Op(r).to \in Rank /\ Op(r).tag \in ReplayTag
    BY <1>1, LegalNow, TagsOfReplay DEF LegalOperation, Op, SendKinds
  <2> QED
    BY <2>1, NextSentIsNat DEF StartSend
<1>6. IndexBecomes(r, [index[r][pos[r]] EXCEPT !.out = k])
  BY <1>1, <1>5, OneIndex
<1>7. Indexed(r)
  BY <1>1, <1>6 DEF IndexBecomes, Indexed, Typed, Indices
<1>8. ASSUME NEW q \in Rank, NEW tag \in Tag
      PROVE  ForwardBooked(r, q, tag) /\ ReverseBooked(r, q, tag)
  <2>1. pos[r] \notin ReceivesFrom(program, r, q, tag)
    BY <1>1, OwnSets DEF RecvKinds
  <2> QED
    BY <1>1, <1>3, <1>4, <2>1 DEF ForwardBooked, ReverseBooked, SendsForward
<1> QED
  BY <1>1, <1>2, <1>4, <1>6, <1>7, <1>8
     DEF Books, SendsForward, SentOnly, IndexBecomes, Typed

LEMMA SendReturnsBooks ==
  ASSUME TagsApart, Typed, Measured, NEW r \in Rank, SendReturns(r)
  PROVE  Books(r)
<1>1. /\ pos[r] \in Activity(r) /\ Op(r).kind = "send" /\ stage[r] = "forward"
      /\ GoTo(r, "reverse") /\ UNCHANGED <<trace, sent>>
  BY DEF SendReturns, AtStage
<1>2. Moves(r) /\ pos'[r] = pos[r] /\ stage'[r] = "reverse"
  BY <1>1, GoesTo
<1>3. ~Begins(r) /\ Replies(r)
  BY <1>1, <1>2 DEF Begins, Replies
<1>4. PICK k \in Nat : /\ SetIndex(r, "revIn", k)
                       /\ k = NextPosted(r, Op(r).to, Reverse(Op(r).tag))
                       /\ PostsBack(r)
                       /\ \A q \in Rank, tag \in Tag : pos[r] \in Asks(program, r, q, tag) =>
                            k = posted[r][q][Reverse(tag)] + 1
  BY <1>1, PostedBack DEF SendReturns, SendKinds, Single
<1>5. IndexBecomes(r, [index[r][pos[r]] EXCEPT !.revIn = k])
  BY <1>1, <1>4, OneIndex
<1>6. index[r][pos[r]] \in Indices
  BY <1>1 DEF Typed
<1>7. Indexed(r) /\ index'[r][pos[r]].revIn = k
  BY <1>1, <1>3, <1>5, <1>6 DEF IndexBecomes, Indexed, Indices
<1>8. ASSUME NEW q \in Rank, NEW tag \in Tag
      PROVE  ForwardBooked(r, q, tag) /\ ReverseBooked(r, q, tag)
  <2>1. pos[r] \notin Answers(program, r, q, tag)
    BY <1>1, OwnSets DEF RecvKinds
  <2> QED
    BY <1>1, <1>3, <1>4, <1>7, <2>1 DEF ForwardBooked, ReverseBooked, PostsBack
<1> QED
  BY <1>1, <1>2, <1>4, <1>5, <1>7, <1>8
     DEF Books, PostsBack, PostedOnly, IndexBecomes, Typed

LEMMA StartRecvBooks ==
  ASSUME TagsApart, Typed, Measured, NEW r \in Rank, StartRecv(r)
  PROVE  Books(r)
<1>1. /\ pos[r] \in Activity(r) /\ Op(r).kind = "recv" /\ stage[r] = "apply"
      /\ GoTo(r, "forward") /\ UNCHANGED <<trace, sent>>
  BY DEF StartRecv, AtStage
<1>2. Moves(r) /\ pos'[r] = pos[r] /\ stage'[r] = "forward"
  BY <1>1, GoesTo
<1>3. Begins(r) /\ ~Replies(r)
  BY <1>1, <1>2 DEF Begins, Replies, Typed
<1>4. PICK k \in Nat : /\ SetIndex(r, "in", k)
                       /\ PostsForward(r)
                       /\ \A q \in Rank, tag \in Tag :
                            pos[r] \in ReceivesFrom(program, r, q, tag) =>
                              k = posted[r][q][tag] + 1
  BY <1>1, PostedForward DEF StartRecv, RecvKinds
<1>5. IndexBecomes(r, [index[r][pos[r]] EXCEPT !.in = k])
  BY <1>1, <1>4, OneIndex
<1>6. index[r][pos[r]] \in Indices
  BY <1>1 DEF Typed
<1>7. Indexed(r) /\ index'[r][pos[r]].in = k
  BY <1>1, <1>3, <1>5, <1>6 DEF IndexBecomes, Indexed, Indices
<1>8. ASSUME NEW q \in Rank, NEW tag \in Tag
      PROVE  ForwardBooked(r, q, tag) /\ ReverseBooked(r, q, tag)
  <2>1. pos[r] \notin SendsTo(program, r, q, tag)
    BY <1>1, OwnSets DEF SendKinds
  <2> QED
    BY <1>1, <1>3, <1>4, <1>7, <2>1 DEF ForwardBooked, ReverseBooked, PostsForward
<1> QED
  BY <1>1, <1>2, <1>4, <1>5, <1>7, <1>8
     DEF Books, PostsForward, PostedOnly, IndexBecomes, Typed

\* The message that is there is the one of the matching send.
LEMMA MessageOfSend ==
  ASSUME Typed, Measured, \A q \in Rank : Ledger(q), NEW r \in Rank, NEW q \in Rank, NEW tag \in Tag,
         NEW j \in Begun(ReceivesFrom(program, r, q, tag), r),
         Arrived(r, q, tag, index[r][j].in)
  PROVE  \E i \in SendsTo(program, q, r, tag), t \in SendTypes :
           /\ Matches(program, q, i, r, j)
           /\ sent[q][r][tag][index[r][j].in] = Buffer(t, q, i)
<1> DEFINE R == ReceivesFrom(program, r, q, tag)
           S == SendsTo(program, q, r, tag)
<1>1. index[r][j].in = Position(R, j)
  BY DEF Ledger, ForwardPosts
<1>2. R \in SUBSET (0 .. LastActivity[r]) /\ j \in R
  BY KindsOfActivities DEF Activity, Begun
<1>3. Position(R, j) \in Nat \ {0}
  <2>1. PICK b \in Nat : b = LastActivity[r]
    BY ActivityNumbers
  <2>2. PICK T \in SUBSET (0 .. b) : T = R
    BY <1>2, <2>1
  <2>3. j \in T
    BY <1>2, <2>2
  <2>4. /\ Cardinality(UpTo(T, j)) = Cardinality(Below(T, j)) + 1
        /\ Cardinality(Below(T, j)) \in Nat
        /\ Position(T, j) = Cardinality(UpTo(T, j))
    BY <2>3, UpToNext
  <2>5. Position(T, j) \in Nat \ {0}
    BY <2>4
  <2> QED
    BY <2>2, <2>5
<1>4. PICK k \in Nat \ {0} : k = Position(R, j)
  BY <1>3
<1>5. PICK ms \in Seq(Message) : ms = sent[q][r][tag]
  BY TagsOfReplay, SentIsSequence
<1>6. k \in 1 .. Len(ms)
  BY <1>1, <1>4, <1>5 DEF Arrived
<1>7. PICK i \in S, t \in SendTypes : Position(S, i) = k /\ ms[k] = Buffer(t, q, i)
  BY <1>5, <1>6 DEF Ledger, ForwardMail
<1>8. Matches(program, q, i, r, j)
  BY <1>2, <1>4, <1>7 DEF Matches, SendsTo, ReceivesFrom
<1> QED
  BY <1>1, <1>4, <1>5, <1>7, <1>8

LEMMA ReceiveBooks ==
  ASSUME TagsApart, Typed, Measured, \A q \in Rank : Ledger(q), NEW r \in Rank, Receive(r)
  PROVE  Books(r) /\ stage'[r] = "reverse"
<1>1. /\ pos[r] \in Activity(r) /\ Op(r).kind = "recv" /\ stage[r] = "forward"
      /\ UNCHANGED <<trace, posted>>
  BY DEF Receive, AtStage
<1>2. PICK q \in Rank, u \in Tag : q = Op(r).from /\ u = Op(r).rtag
  BY <1>1, LegalNow DEF LegalOperation, Op, RecvKinds
<1>3. pos[r] \in Begun(ReceivesFrom(program, r, q, u), r)
  BY <1>1, <1>2, OwnSets DEF RecvKinds, Begun
<1>4. PICK i \in Activity(q), t \in SendTypes :
        sent[q][r][u][index[r][pos[r]].in] = Buffer(t, q, i)
  <2>1. Arrived(r, q, u, index[r][pos[r]].in)
    BY <1>2 DEF Receive
  <2>2. SendsTo(program, q, r, u) \subseteq Activity(q)
    BY KindsOfActivities
  <2> QED
    BY <1>3, <2>1, <2>2, MessageOfSend
<1>5. sent[q][r][u][index[r][pos[r]].in].type \in SendTypes
  BY <1>4 DEF Buffer
<1>6. /\ SendMessage(r, q, Reverse(u), Buffer("RECV", r, pos[r]))
      /\ SetIndex(r, "revOut", NextSent(r, q, Reverse(u)))
      /\ GoTo(r, "reverse")
  BY <1>2, <1>5 DEF Receive
<1>7. Moves(r) /\ pos'[r] = pos[r] /\ stage'[r] = "reverse"
  BY <1>1, <1>6, GoesTo
<1>8. ~Begins(r) /\ Replies(r)
  BY <1>1, <1>7 DEF Begins, Replies
<1>9. SendsBack(r)
  <2>1. AnswerAt(r, pos[r]) = pos[r]
    BY <1>1 DEF AnswerAt, Op
  <2>2. Op(r).kind \in RecvKinds /\ ~Single(Op(r)) /\ "RECV" \in RecvTypes
    BY <1>1 DEF RecvKinds, Single, RecvTypes
  <2> QED
    BY <1>1, <1>2, <1>6, <2>1, <2>2, SentBack
<1>10. PICK k \in Nat : SetIndex(r, "revOut", k)
  BY <1>6, TagsOfReplay, NextSentIsNat
<1>11. IndexBecomes(r, [index[r][pos[r]] EXCEPT !.revOut = k])
  BY <1>1, <1>10, OneIndex
<1>12. index[r][pos[r]] \in Indices
  BY <1>1 DEF Typed
<1>13. Indexed(r)
  BY <1>1, <1>11, <1>12 DEF IndexBecomes, Indexed, Indices
<1>14. ASSUME NEW d \in Rank, NEW tag \in Tag
      PROVE  ForwardBooked(r, d, tag) /\ ReverseBooked(r, d, tag)
  <2>1. pos[r] \notin Asks(program, r, d, tag)
    BY <1>1, OwnSets DEF SendKinds
  <2> QED
    BY <1>1, <1>8, <1>9, <2>1 DEF ForwardBooked, ReverseBooked, SendsBack
<1> QED
  BY <1>1, <1>7, <1>9, <1>11, <1>13, <1>14
     DEF Books, SendsBack, SentOnly, IndexBecomes, Typed

LEMMA StartSendrecvBooks ==
  ASSUME TagsApart, Typed, Measured, NEW r \in Rank, StartSendrecv(r)
  PROVE  Books(r)
<1>1. /\ pos[r] \in Activity(r) /\ Op(r).kind = "sendrecv" /\ stage[r] = "apply"
      /\ GoTo(r, "forward") /\ UNCHANGED trace
  BY DEF StartSendrecv, AtStage
<1>2. Moves(r) /\ pos'[r] = pos[r] /\ stage'[r] = "forward"
  BY <1>1, GoesTo
<1>3. Begins(r) /\ ~Replies(r)
  BY <1>1, <1>2 DEF Begins, Replies, Typed
<1>4. SendsForward(r)
  BY <1>1, SentForward DEF StartSendrecv, SendKinds, SendTypes
<1>5. PICK k \in Nat : /\ k = NextPosted(r, Op(r).from, Op(r).rtag)
                       /\ PostsForward(r)
                       /\ \A q \in Rank, tag \in Tag :
                            pos[r] \in ReceivesFrom(program, r, q, tag) =>
                              k = posted[r][q][tag] + 1
  BY <1>1, PostedForward DEF StartSendrecv, RecvKinds
<1>6. PICK o \in Nat : o = NextSent(r, Op(r).to, Op(r).tag)
  <2>1. Op(r).to \in Rank /\ Op(r).tag \in ReplayTag
    BY <1>1, LegalNow, TagsOfReplay DEF LegalOperation, Op, SendKinds
  <2> QED
    BY <2>1, NextSentIsNat
<1>7. index[r][pos[r]] \in Indices
  BY <1>1 DEF Typed
<1>8. PICK x \in Indices : x = [index[r][pos[r]] EXCEPT !.out = o, !.in = k]
  BY <1>7 DEF Indices
<1>9. index' = [index EXCEPT ![r][pos[r]] = x]
  BY <1>5, <1>6, <1>8 DEF StartSendrecv
<1>10. IndexBecomes(r, x)
  BY <1>1, <1>9, IndexAfter
<1>11. x.in = k /\ x.revIn = index[r][pos[r]].revIn
  BY <1>7, <1>8 DEF Indices
<1>12. Indexed(r) /\ index'[r][pos[r]].in = k
  BY <1>3, <1>10, <1>11 DEF IndexBecomes, Indexed
<1>13. ASSUME NEW q \in Rank, NEW tag \in Tag
      PROVE  ForwardBooked(r, q, tag) /\ ReverseBooked(r, q, tag)
  BY <1>3, <1>4, <1>5, <1>12 DEF ForwardBooked, ReverseBooked, SendsForward, PostsForward
<1> QED
  BY <1>1, <1>2, <1>4, <1>5, <1>10, <1>12, <1>13
     DEF Books, SendsForward, SentOnly, PostsForward, PostedOnly, IndexBecomes

LEMMA ReceiveSendrecvBooks ==
  ASSUME TagsApart, Typed, Measured, NEW r \in Rank, ReceiveSendrecv(r)
  PROVE  Books(r)
<1>1. /\ pos[r] \in Activity(r) /\ Op(r).kind = "sendrecv" /\ stage[r] = "forward"
      /\ UNCHANGED trace
  BY DEF ReceiveSendrecv, AtStage
<1>2. CASE Op(r).to = Op(r).from
  <2>1. Advance(r) /\ UNCHANGED <<sent, posted, index>>
    BY <1>2 DEF ReceiveSendrecv
  <2>2. Moves(r)
    BY <1>1, <2>1, Advances
  <2>3. ~Begins(r) /\ Single(Op(r))
    BY <1>1, <1>2 DEF Begins, Single
  <2> QED
    BY <1>1, <2>1, <2>2, <2>3, Silent
<1>3. CASE Op(r).to # Op(r).from
  <2>1. /\ SendMessage(r, Op(r).from, Reverse(Op(r).rtag), Buffer("SENDRECV", r, pos[r]))
        /\ PostReceive(r, Op(r).to, Reverse(Op(r).tag))
        /\ index' = [index EXCEPT ![r][pos[r]] =
                      [@ EXCEPT !.revOut = NextSent(r, Op(r).from, Reverse(Op(r).rtag)),
                                !.revIn = NextPosted(r, Op(r).to, Reverse(Op(r).tag))]]
        /\ GoTo(r, "reverse")
    BY <1>3 DEF ReceiveSendrecv
  <2>2. Moves(r) /\ pos'[r] = pos[r] /\ stage'[r] = "reverse"
    BY <1>1, <2>1, GoesTo
  <2>3. ~Begins(r) /\ Replies(r)
    BY <1>1, <2>2 DEF Begins, Replies
  <2>4. /\ Op(r).kind \in SendKinds /\ Op(r).kind \in RecvKinds /\ ~Single(Op(r))
        /\ "SENDRECV" \in RecvTypes
    BY <1>1, <1>3 DEF SendKinds, RecvKinds, Single, RecvTypes
  <2>5. SendsBack(r)
    <3>1. AnswerAt(r, pos[r]) = pos[r]
      BY <1>1 DEF AnswerAt, Op
    <3> QED
      BY <1>1, <2>1, <2>4, <3>1, SentBack
  <2>6. PICK k \in Nat : /\ k = NextPosted(r, Op(r).to, Reverse(Op(r).tag))
                         /\ PostsBack(r)
                         /\ \A q \in Rank, tag \in Tag :
                              pos[r] \in Asks(program, r, q, tag) =>
                                k = posted[r][q][Reverse(tag)] + 1
    BY <1>1, <2>1, <2>4, PostedBack
  <2>7. PICK o \in Nat : o = NextSent(r, Op(r).from, Reverse(Op(r).rtag))
    <3>1. Op(r).from \in Rank /\ Reverse(Op(r).rtag) \in ReplayTag
      BY <1>1, <2>4, LegalNow, TagsOfReplay DEF LegalOperation, Op
    <3> QED
      BY <3>1, NextSentIsNat
  <2>8. index[r][pos[r]] \in Indices
    BY <1>1 DEF Typed
  <2>9. PICK x \in Indices : x = [index[r][pos[r]] EXCEPT !.revOut = o, !.revIn = k]
    BY <2>8 DEF Indices
  <2>10. index' = [index EXCEPT ![r][pos[r]] = x]
    BY <2>1, <2>6, <2>7, <2>9
  <2>11. IndexBecomes(r, x)
    BY <1>1, <2>10, IndexAfter
  <2>12. x.revIn = k /\ x.in = index[r][pos[r]].in
    BY <2>8, <2>9 DEF Indices
  <2>13. Indexed(r) /\ index'[r][pos[r]].revIn = k
    BY <2>3, <2>11, <2>12 DEF IndexBecomes, Indexed
  <2>14. ASSUME NEW q \in Rank, NEW tag \in Tag
        PROVE  ForwardBooked(r, q, tag) /\ ReverseBooked(r, q, tag)
    BY <2>3, <2>5, <2>6, <2>13 DEF ForwardBooked, ReverseBooked, SendsBack, PostsBack
  <2> QED
    BY <1>1, <2>2, <2>5, <2>6, <2>11, <2>13, <2>14
       DEF Books, SendsBack, SentOnly, PostsBack, PostedOnly, IndexBecomes
<1> QED
  BY <1>2, <1>3

LEMMA IsendBooks ==
  ASSUME TagsApart, Typed, Measured, NEW r \in Rank, Isend(r)
  PROVE  Books(r)
<1>1. /\ pos[r] \in Activity(r) /\ Op(r).kind = "isend" /\ stage[r] = "apply"
      /\ Advance(r) /\ UNCHANGED trace
  BY DEF Isend, AtStage
<1>2. Moves(r) /\ pos'[r] = pos[r] + 1
  BY <1>1, Advances
<1>3. Begins(r) /\ Replies(r)
  BY <1>1, <1>2 DEF Begins, Replies
<1>4. SendsForward(r)
  BY <1>1, SentForward DEF Isend, SendKinds, SendTypes
<1>5. PICK k \in Nat : /\ k = NextPosted(r, Op(r).to, Reverse(Op(r).tag))
                       /\ PostsBack(r)
                       /\ \A q \in Rank, tag \in Tag :
                            pos[r] \in Asks(program, r, q, tag) =>
                              k = posted[r][q][Reverse(tag)] + 1
  BY <1>1, PostedBack DEF Isend, SendKinds, Single
<1>6. PICK o \in Nat : o = NextSent(r, Op(r).to, Op(r).tag)
  <2>1. Op(r).to \in Rank /\ Op(r).tag \in ReplayTag
    BY <1>1, LegalNow, TagsOfReplay DEF LegalOperation, Op, SendKinds
  <2> QED
    BY <2>1, NextSentIsNat
<1>7. index[r][pos[r]] \in Indices
  BY <1>1 DEF Typed
<1>8. PICK x \in Indices : x = [index[r][pos[r]] EXCEPT !.out = o, !.revIn = k]
  BY <1>7 DEF Indices
<1>9. index' = [index EXCEPT ![r][pos[r]] = x]
  BY <1>5, <1>6, <1>8 DEF Isend
<1>10. IndexBecomes(r, x)
  BY <1>1, <1>9, IndexAfter
<1>11. x.revIn = k
  BY <1>7, <1>8 DEF Indices
<1>12. Indexed(r) /\ index'[r][pos[r]].revIn = k
  BY <1>3, <1>10, <1>11 DEF IndexBecomes, Indexed
<1>13. ASSUME NEW q \in Rank, NEW tag \in Tag
      PROVE  ForwardBooked(r, q, tag) /\ ReverseBooked(r, q, tag)
  <2>1. /\ pos[r] \notin ReceivesFrom(program, r, q, tag)
        /\ pos[r] \notin Answers(program, r, q, tag)
    BY <1>1, OwnSets DEF RecvKinds
  <2> QED
    BY <1>3, <1>4, <1>5, <1>12, <2>1 DEF ForwardBooked, ReverseBooked, SendsForward, PostsBack
<1> QED
  BY <1>1, <1>2, <1>4, <1>5, <1>10, <1>12, <1>13
     DEF Books, SendsForward, SentOnly, PostsBack, PostedOnly, IndexBecomes

LEMMA IrecvBooks ==
  ASSUME TagsApart, Typed, Measured, NEW r \in Rank, Irecv(r)
  PROVE  Books(r)
<1>1. /\ pos[r] \in Activity(r) /\ Op(r).kind = "irecv" /\ stage[r] = "apply"
      /\ Advance(r) /\ UNCHANGED trace
  BY DEF Irecv, AtStage
<1>2. Moves(r) /\ pos'[r] = pos[r] + 1
  BY <1>1, Advances
<1>3. Begins(r) /\ Replies(r)
  BY <1>1, <1>2 DEF Begins, Replies
<1>4. SendsBack(r)
  <2>1. AnswerAt(r, pos[r]) = SyncActivity(r, pos[r])
    BY <1>1 DEF AnswerAt, Op
  <2>2. SyncActivity(r, pos[r]) \in Activity(r)
    BY <1>1 DEF SyncActivity
  <2>3. /\ Op(r).kind \in RecvKinds /\ ~Single(Op(r)) /\ "IRECV" \in RecvTypes
    BY <1>1 DEF RecvKinds, Single, RecvTypes
  <2>4. SendMessage(r, Op(r).from, Reverse(Op(r).rtag),
                    Buffer("IRECV", r, SyncActivity(r, pos[r])))
    BY DEF Irecv
  <2> QED
    BY <1>1, <2>1, <2>2, <2>3, <2>4, SentBack
<1>5. PICK k \in Nat : /\ k = NextPosted(r, Op(r).from, Op(r).rtag)
                       /\ PostsForward(r)
                       /\ \A q \in Rank, tag \in Tag :
                            pos[r] \in ReceivesFrom(program, r, q, tag) =>
                              k = posted[r][q][tag] + 1
  BY <1>1, PostedForward DEF Irecv, RecvKinds
<1>6. PICK o \in Nat : o = NextSent(r, Op(r).from, Reverse(Op(r).rtag))
  <2>1. Op(r).from \in Rank /\ Reverse(Op(r).rtag) \in ReplayTag
    BY <1>1, LegalNow, TagsOfReplay DEF LegalOperation, Op, RecvKinds
  <2> QED
    BY <2>1, NextSentIsNat
<1>7. index[r][pos[r]] \in Indices
  BY <1>1 DEF Typed
<1>8. PICK x \in Indices : x = [index[r][pos[r]] EXCEPT !.in = k, !.revOut = o]
  BY <1>7 DEF Indices
<1>9. index' = [index EXCEPT ![r][pos[r]] = x]
  BY <1>5, <1>6, <1>8 DEF Irecv
<1>10. IndexBecomes(r, x)
  BY <1>1, <1>9, IndexAfter
<1>11. x.in = k
  BY <1>7, <1>8 DEF Indices
<1>12. Indexed(r) /\ index'[r][pos[r]].in = k
  BY <1>3, <1>10, <1>11 DEF IndexBecomes, Indexed
<1>13. ASSUME NEW q \in Rank, NEW tag \in Tag
      PROVE  ForwardBooked(r, q, tag) /\ ReverseBooked(r, q, tag)
  <2>1. /\ pos[r] \notin SendsTo(program, r, q, tag)
        /\ pos[r] \notin Asks(program, r, q, tag)
    BY <1>1, OwnSets DEF SendKinds
  <2> QED
    BY <1>3, <1>4, <1>5, <1>12, <2>1 DEF ForwardBooked, ReverseBooked, SendsBack, PostsForward
<1> QED
  BY <1>1, <1>2, <1>4, <1>5, <1>10, <1>12, <1>13
     DEF Books, SendsBack, SentOnly, PostsForward, PostedOnly, IndexBecomes

-----------------------------------------------------------------------------
(***************************************************************************)
(* Requests and their records.                                             *)
(***************************************************************************)
HandlesTyped ==
  /\ openRecv \in [Rank -> SUBSET Nat]
  /\ openSend \in [Rank -> SUBSET Nat]
  /\ records \in [Rank -> SUBSET Nat]

\* A rule leaves the requests alone, opens those of the activity at hand, or
\* closes some; a record goes only with both its requests.
Opens(r) ==
  /\ pos[r] \in Activity(r) /\ Op(r).kind \in {"isend", "irecv"} /\ pos[r] \in records[r]
  /\ openRecv' \in {openRecv, [openRecv EXCEPT ![r] = @ \cup {pos[r]}]}
  /\ openSend' \in {openSend, [openSend EXCEPT ![r] = @ \cup {pos[r]}]}
  /\ Advance(r) /\ UNCHANGED records
Closes(r, A, B, T) ==
  /\ pos[r] \in Activity(r) /\ T \subseteq A \cap B /\ \A i \in A : RecvDone(r, i)
  /\ openRecv' = [openRecv EXCEPT ![r] = @ \ A]
  /\ openSend' = [openSend EXCEPT ![r] = @ \ B]
  /\ records' = [records EXCEPT ![r] = @ \ T]

\* Only what was asked for before is given up.
Former(r, T) ==
  \/ T \subseteq openRecv[r]
  \/ Op(r).kind = "wait" /\ T = {Op(r).reqs[1]}
  \/ Op(r).kind = "waitall" /\ T \subseteq {Op(r).reqs[k] : k \in DOMAIN Op(r).reqs}

LEMMA HandleSteps ==
  ASSUME HandlesTyped, NEW r \in Rank, Rule(r)
  PROVE  \/ UNCHANGED handles
         \/ Opens(r)
         \/ \E A, B, T : Closes(r, A, B, T) /\ Former(r, T)
<1>1. ASSUME TestAllPendingRequests(r), pos[r] \in Activity(r)
      PROVE  \E A, B, T : Closes(r, A, B, T) /\ Former(r, T)
  <2>1. PICK A \in SUBSET openRecv[r], B \in SUBSET openSend[r] :
          /\ \A i \in A : RecvDone(r, i)
          /\ openRecv' = [openRecv EXCEPT ![r] = @ \ A]
          /\ openSend' = [openSend EXCEPT ![r] = @ \ B]
          /\ records' = [records EXCEPT ![r] = @ \ (A \cap B)]
    BY <1>1 DEF TestAllPendingRequests
  <2>2. Closes(r, A, B, A \cap B) /\ Former(r, A \cap B)
    BY <1>1, <2>1 DEF Closes, Former
  <2> QED
    BY <2>2
<1>2. ASSUME FinishWait(r) PROVE \E A, B, T : Closes(r, A, B, T) /\ Former(r, T)
  <2>1. PICK S : S = {Op(r).reqs[1]}
    OBVIOUS
  <2>2. Closes(r, S, S, S)
    BY <1>2, <2>1 DEF FinishWait, AtStage, CloseRequests, Closes
  <2>3. Op(r).kind = "wait"
    BY <1>2 DEF FinishWait, AtStage
  <2>4. Former(r, S)
    BY <2>1, <2>3 DEF Former
  <2> QED
    BY <2>2, <2>4
<1>3. ASSUME FinishWaitall(r) PROVE \E A, B, T : Closes(r, A, B, T) /\ Former(r, T)
  <2>1. PICK S : S = {Op(r).reqs[k] : k \in DOMAIN Op(r).reqs}
    OBVIOUS
  <2>2. PICK kept : kept = {Op(r).reqs[k] :
          k \in Superseding(My(r), [k \in DOMAIN Op(r).reqs |-> InBox(r, Op(r).reqs[k])])}
    OBVIOUS
  <2>3. CloseRequests(r, S) /\ records' = [records EXCEPT ![r] = @ \ (S \ kept)]
    BY <1>3, <2>1, <2>2 DEF FinishWaitall
  <2>4. \A i \in S : RecvDone(r, i)
    BY <1>3, <2>1 DEF FinishWaitall
  <2>5. Closes(r, S, S, S \ kept)
    BY <1>3, <2>3, <2>4 DEF FinishWaitall, AtStage, CloseRequests, Closes
  <2>6. Former(r, S \ kept)
    BY <1>3, <2>1 DEF FinishWaitall, AtStage, Former
  <2> QED
    BY <2>5, <2>6
<1>4. CASE StartSend(r) \/ SendReturns(r) \/ FinishSend(r)
           \/ StartRecv(r) \/ Receive(r) \/ FinishRecv(r)
  BY <1>4 DEF StartSend, SendReturns, FinishSend, StartRecv, Receive, FinishRecv
<1>5. CASE StartSendrecv(r) \/ ReceiveSendrecv(r) \/ FinishSendrecv(r)
           \/ NoRule(r) \/ WaitOnDeletedRecord(r) \/ FinishCollective(r)
  BY <1>5 DEF StartSendrecv, ReceiveSendrecv, FinishSendrecv, NoRule, WaitOnDeletedRecord,
              FinishCollective
<1>6. CASE Isend(r) \/ Irecv(r)
  <2>1. Opens(r)
    BY <1>6 DEF Isend, Irecv, AtStage, OpenRequests, Opens
  <2> QED
    BY <2>1
<1>7. CASE JoinCollective(r) \/ SelfCollective(r)
  BY <1>1, <1>7 DEF JoinCollective, SelfCollective, AtStage
<1> QED
  BY <1>2, <1>3, <1>4, <1>5, <1>6, <1>7 DEF Rule

LEMMA HandlesKept ==
  ASSUME HandlesTyped, BuffersAlive, NEW r \in Rank, Rule(r)
  PROVE  HandlesTyped' /\ BuffersAlive'
<1>1. CASE UNCHANGED handles
  BY <1>1 DEF handles, HandlesTyped, BuffersAlive
<1>2. CASE Opens(r)
  <2>1. pos[r] \in Nat
    BY <1>2, ActivityNumbers DEF Opens, Activity
  <2> QED
    BY <1>2, <2>1 DEF Opens, HandlesTyped, BuffersAlive
<1>3. ASSUME NEW A, NEW B, NEW T, Closes(r, A, B, T) PROVE HandlesTyped' /\ BuffersAlive'
  BY <1>3 DEF Closes, HandlesTyped, BuffersAlive
<1> QED
  BY <1>1, <1>2, <1>3, HandleSteps

\* The buffers of a record outlive the requests that use them: in whatever
\* order the rules, MPI_Wait[all], the tests at a collective and the removal
\* of records while reading complete and give up requests, none is open whose
\* record was freed (MpiStream::removePendingMPIRequest,
\* testAllPendingMPIRequests).
THEOREM BuffersOutliveRequests == Spec => []BuffersAlive
<1>1. Init => HandlesTyped /\ BuffersAlive
  <2>1. SUFFICES ASSUME Init PROVE HandlesTyped /\ BuffersAlive
    OBVIOUS
  <2>2. \A r \in Rank : RecordsRead(program, r) \in SUBSET Nat
    BY ActivityNumbers DEF RecordsRead, Requests, Activity
  <2> QED
    BY <2>1, <2>2 DEF Init, HandlesTyped, BuffersAlive
<1>2. HandlesTyped /\ BuffersAlive /\ [Next]_replay => HandlesTyped' /\ BuffersAlive'
  <2>1. SUFFICES ASSUME HandlesTyped, BuffersAlive, [Next]_replay
                 PROVE  HandlesTyped' /\ BuffersAlive'
    OBVIOUS
  <2>2. CASE UNCHANGED replay
    BY <2>1, <2>2 DEF replay, handles, HandlesTyped, BuffersAlive
  <2>3. CASE Next
    BY <2>1, <2>2, <2>3, HandlesKept DEF Next, ReplayTerminated
  <2> QED
    BY <2>1, <2>2, <2>3
<1> QED
  BY <1>1, <1>2, PTL DEF Spec

\* The record of a request is there when its rule is applied.
RecordsThere ==
  \A r \in Rank :
    /\ \A i \in openRecv[r] : i < pos[r]
    /\ \A i \in Requests(program, r) : i >= pos[r] => i \in records[r]

LEMMA RuleBooks ==
  ASSUME TagsApart, Typed, Measured, \A q \in Rank : Ledger(q), RecordsThere,
         NEW r \in Rank, Rule(r)
  PROVE  Books(r)
<1>1. CASE StartSend(r) \/ SendReturns(r) \/ StartRecv(r) \/ Receive(r)
  BY <1>1, StartSendBooks, SendReturnsBooks, StartRecvBooks, ReceiveBooks
<1>2. CASE StartSendrecv(r) \/ ReceiveSendrecv(r) \/ Isend(r) \/ Irecv(r)
  BY <1>2, StartSendrecvBooks, ReceiveSendrecvBooks, IsendBooks, IrecvBooks
<1>3. CASE FinishSend(r) \/ FinishRecv(r) \/ FinishSendrecv(r)
  <2>1. /\ pos[r] \in Activity(r) /\ stage[r] = "reverse" /\ Advance(r)
        /\ UNCHANGED <<trace, sent, posted, index>>
    BY <1>3 DEF FinishSend, FinishRecv, FinishSendrecv, AtStage
  <2>2. Moves(r)
    BY <2>1, Advances
  <2>3. ~Begins(r) /\ ~Replies(r)
    BY <2>1 DEF Begins, Replies
  <2> QED
    BY <2>1, <2>2, <2>3, Silent
<1>4. CASE NoRule(r)
  <2>1. /\ pos[r] \in Activity(r) /\ Advance(r) /\ UNCHANGED <<trace, sent, posted, index>>
    BY <1>4 DEF NoRule, AtStage
  <2>2. pos[r] \in Nat
    BY DEF Typed
  <2>3. Op(r).kind \in {"isend", "irecv"} => pos[r] \in records[r]
    BY <2>1, <2>2 DEF RecordsThere, Requests, Op
  <2>4. Op(r).kind \notin SendKinds \cup RecvKinds
    BY <1>4, <2>3 DEF NoRule, AtStage, SendKinds, RecvKinds
  <2> QED
    BY <2>1, <2>4, Advances, Silent
<1>5. CASE FinishWait(r) \/ WaitOnDeletedRecord(r) \/ FinishWaitall(r)
           \/ FinishCollective(r) \/ SelfCollective(r)
  <2>1. /\ pos[r] \in Activity(r) /\ Advance(r) /\ UNCHANGED <<trace, sent, posted, index>>
    BY <1>5 DEF FinishWait, WaitOnDeletedRecord, FinishWaitall, FinishCollective,
                SelfCollective, AtStage
  <2>2. Op(r).kind \notin SendKinds \cup RecvKinds
    BY <1>5 DEF FinishWait, WaitOnDeletedRecord, FinishWaitall, FinishCollective,
                SelfCollective, AtStage, SendKinds, RecvKinds
  <2> QED
    BY <2>1, <2>2, Advances, Silent
<1>6. CASE JoinCollective(r)
  <2>1. /\ pos[r] \in Activity(r) /\ GoTo(r, "forward") /\ stage[r] = "apply"
        /\ UNCHANGED <<trace, sent, posted, index>>
    BY <1>6 DEF JoinCollective, AtStage
  <2>2. Op(r).kind \notin SendKinds \cup RecvKinds
    BY <1>6 DEF JoinCollective, AtStage, SendKinds, RecvKinds
  <2> QED
    BY <2>1, <2>2, GoesTo, Silent
<1> QED
  BY <1>1, <1>2, <1>3, <1>4, <1>5, <1>6 DEF Rule

LEMMA RecordsThereKept ==
  ASSUME Typed, Measured, HandlesTyped, RecordsThere, NEW r \in Rank, Rule(r), Books(r)
  PROVE  RecordsThere'
<1>1. /\ pos[r] \in Nat /\ pos'[r] \in Nat /\ pos[r] <= pos'[r]
      /\ \A q \in Rank \ {r} : pos'[q] = pos[q]
      /\ pos[r] \in Activity(r)
  BY DEF Books, Moves, Typed
<1>2. \A q \in Rank : Requests(program, q)' = Requests(program, q)
  BY DEF Books, trace, Requests
<1>3. \A q \in Rank : Requests(program, q) \subseteq Nat
  BY ActivityNumbers DEF Requests, Activity
<1>4. SUFFICES \A q \in Rank :
                 /\ \A i \in openRecv'[q] : i < pos'[q]
                 /\ \A i \in Requests(program, q) : i >= pos'[q] => i \in records'[q]
  BY <1>2 DEF RecordsThere, Books, trace
<1>5. \A q \in Rank : openRecv[q] \subseteq Nat
  BY DEF HandlesTyped
<1>6. CASE UNCHANGED handles
  BY <1>1, <1>3, <1>5, <1>6 DEF handles, RecordsThere
<1>7. CASE Opens(r)
  <2>1. pos'[r] = pos[r] + 1
    BY <1>1, <1>7, Advances DEF Opens
  <2>2. /\ openRecv'[r] \subseteq openRecv[r] \cup {pos[r]}
        /\ \A q \in Rank \ {r} : openRecv'[q] = openRecv[q]
        /\ records' = records
    BY <1>7 DEF Opens, HandlesTyped
  <2> QED
    BY <1>1, <1>3, <1>5, <2>1, <2>2 DEF RecordsThere
<1>8. ASSUME NEW A, NEW B, NEW T, Closes(r, A, B, T), Former(r, T)
      PROVE  \A q \in Rank :
               /\ \A i \in openRecv'[q] : i < pos'[q]
               /\ \A i \in Requests(program, q) : i >= pos'[q] => i \in records'[q]
  <2>1. \A i \in T : i \in Nat /\ i < pos[r]
    <3>1. CASE T \subseteq openRecv[r]
      BY <1>5, <3>1 DEF RecordsThere
    <3>2. LegalOperation(program, r, pos[r], Tag) /\ Activity(r) \subseteq Nat
      BY <1>1, LegalNow, ActivityNumbers DEF Activity
    <3>3. CASE Op(r).kind = "wait" /\ T = {Op(r).reqs[1]}
      <4>1. 1 \in DOMAIN Op(r).reqs
        BY <3>2, <3>3 DEF LegalOperation, Op, Completing
      <4> QED
        BY <3>2, <3>3, <4>1 DEF LegalOperation, Op, Completing
    <3>4. CASE /\ Op(r).kind = "waitall"
               /\ T \subseteq {Op(r).reqs[k] : k \in DOMAIN Op(r).reqs}
      BY <3>2, <3>4 DEF LegalOperation, Op, Completing
    <3> QED
      BY <1>8, <3>1, <3>3, <3>4 DEF Former
  <2>2. /\ openRecv'[r] \subseteq openRecv[r] /\ records'[r] = records[r] \ T
        /\ \A q \in Rank \ {r} : openRecv'[q] = openRecv[q] /\ records'[q] = records[q]
    BY <1>8 DEF Closes, HandlesTyped
  <2> QED
    BY <1>1, <1>3, <1>5, <2>1, <2>2 DEF RecordsThere
<1> QED
  BY <1>6, <1>7, <1>8, HandleSteps

-----------------------------------------------------------------------------
(***************************************************************************)
(* The replay leaves no message behind.                                    *)
(***************************************************************************)
\* The inductive invariant of the exchange.
Booked ==
  /\ Typed /\ Measured /\ HandlesTyped /\ BuffersAlive /\ RecordsThere
  /\ \A q \in Rank : Ledger(q)

LEMMA NothingBegun ==
  ASSUME NEW r \in Rank, pos[r] = 0, stage[r] = "apply", NEW S \in SUBSET Activity(r)
  PROVE  Begun(S, r) = {} /\ Replied(S, r) = {}
<1>1. \A i \in S : i \in Nat
  BY ActivityNumbers DEF Activity
<1> QED
  BY <1>1 DEF Begun, Replied

LEMMA BookedInit ==
  ASSUME NoTestall, Init
  PROVE  Booked
<1>1. Measured
  BY DEF Init, Measured
<1>2. Typed
  <2>1. \A r \in Rank : LastActivity[r] \in Nat
    BY ActivityNumbers
  <2>2. NoIndex \in Indices
    BY DEF NoIndex, Indices
  <2>3. /\ pos = [r \in Rank |-> 0] /\ stage = [r \in Rank |-> "apply"]
        /\ index = [r \in Rank |-> [i \in Activity(r) |-> NoIndex]]
    BY DEF Init
  <2>4. sent \in [Rank -> [Rank -> [ReplayTag -> Seq(Message)]]]
    <3>1. PICK e \in Seq(Message) : e = <<>>
      <4>1. <<>> \in Seq(Message)
        OBVIOUS
      <4> QED
        BY <4>1, Zenon
    <3>2. [s \in Rank |-> [d \in Rank |-> [tag \in ReplayTag |-> e]]]
            \in [Rank -> [Rank -> [ReplayTag -> Seq(Message)]]]
      OBVIOUS
    <3> QED
      BY <3>1, <3>2 DEF Init
  <2>5. posted \in [Rank -> [Rank -> [ReplayTag -> Nat]]]
    BY DEF Init
  <2> QED
    BY <2>1, <2>2, <2>3, <2>4, <2>5 DEF Typed
<1>3. \A r \in Rank : RecordsRead(program, r) = Requests(program, r)
  BY <1>1 DEF NoTestall, Measured, RecordsRead, Requests
<1>4. \A r \in Rank : Requests(program, r) \in SUBSET Nat
  BY ActivityNumbers DEF Requests, Activity
<1>5. HandlesTyped /\ BuffersAlive /\ RecordsThere
  BY <1>3, <1>4 DEF Init, HandlesTyped, BuffersAlive, RecordsThere
<1>6. ASSUME NEW r \in Rank, NEW q \in Rank, NEW tag \in Tag
      PROVE  /\ ForwardMail(r, q, tag) /\ ReverseMail(r, q, tag)
             /\ ForwardPosts(r, q, tag) /\ ReversePosts(r, q, tag)
  <2>1. pos[r] = 0 /\ stage[r] = "apply"
    BY DEF Init
  <2>2. /\ Begun(SendsTo(program, r, q, tag), r) = {}
        /\ Begun(ReceivesFrom(program, r, q, tag), r) = {}
        /\ Replied(Asks(program, r, q, tag), r) = {}
        /\ Replied(Answers(program, r, q, tag), r) = {}
    BY <2>1, NothingBegun, KindsOfActivities
  <2>3. /\ sent[r][q][tag] = <<>> /\ sent[r][q][Reverse(tag)] = <<>>
        /\ posted[r][q][tag] = 0 /\ posted[r][q][Reverse(tag)] = 0
    BY TagsOfReplay DEF Init
  <2>4. Cardinality({}) = 0
    BY FS_EmptySet
  <2> QED
    BY <2>2, <2>3, <2>4 DEF ForwardMail, ReverseMail, ForwardPosts, ReversePosts
<1> QED
  BY <1>1, <1>2, <1>5, <1>6 DEF Booked, Ledger

LEMMA BookedStep ==
  ASSUME TagsApart, Booked, NEW r \in Rank, Rule(r)
  PROVE  Books(r) /\ Booked'
<1>1. /\ Typed /\ Measured /\ HandlesTyped /\ BuffersAlive /\ RecordsThere
      /\ \A q \in Rank : Ledger(q)
  BY DEF Booked
<1>2. Books(r)
  BY <1>1, RuleBooks
<1>3. Typed' /\ \A q \in Rank : Ledger(q)'
  BY <1>1, <1>2, LedgerKept
<1>4. Measured'
  BY <1>1, <1>2 DEF Books, trace, Measured
<1>5. HandlesTyped' /\ BuffersAlive'
  BY <1>1, HandlesKept
<1>6. RecordsThere'
  BY <1>1, <1>2, RecordsThereKept
<1> QED
  BY <1>2, <1>3, <1>4, <1>5, <1>6 DEF Booked

LEMMA BookedStutters ==
  ASSUME Booked, UNCHANGED <<program, time, pos, stage, sent, posted, index>>,
         UNCHANGED <<openRecv, openSend, records>>
  PROVE  Booked'
<1>1. /\ program' = program /\ time' = time /\ pos' = pos /\ stage' = stage
      /\ sent' = sent /\ posted' = posted /\ index' = index
      /\ openRecv' = openRecv /\ openSend' = openSend /\ records' = records
  OBVIOUS
<1>2. Typed' /\ Measured'
  BY <1>1 DEF Booked, Typed, Measured
<1>3. HandlesTyped' /\ BuffersAlive' /\ RecordsThere'
  BY <1>1 DEF Booked, HandlesTyped, BuffersAlive, RecordsThere, Requests
<1>4. \A q \in Rank : Ledger(q)'
  BY <1>1, OthersKept DEF Booked, trace
<1> QED
  BY <1>2, <1>3, <1>4 DEF Booked

LEMMA BookedAlways ==
  ASSUME NoTestall, TagsApart
  PROVE  Spec => []Booked
<1>1. Init => Booked
  BY BookedInit
<1>2. Booked /\ [Next]_replay => Booked'
  <2>1. SUFFICES ASSUME Booked, [Next]_replay PROVE Booked'
    OBVIOUS
  <2>2. CASE UNCHANGED replay
    BY <2>1, <2>2, BookedStutters DEF replay, trace, handles
  <2>3. CASE \E r \in Rank : Rule(r)
    BY <2>1, <2>3, BookedStep
  <2> QED
    BY <2>1, <2>2, <2>3 DEF Next, ReplayTerminated
<1> QED
  BY <1>1, <1>2, PTL DEF Spec

\* Whatever the order in which the processes send, post, answer and complete,
\* no message of the replay, in either direction, is left over for a receive
\* of the next interval (the rules leave nothing in a communicator that the
\* next call of GraphEngine::analyse would match).  Programs with MPI_Testall
\* are left out, as are tags the answers of which are tags of the program.
THEOREM ReplayLeavesNothing ==
  ASSUME NoTestall, TagsApart, PartnersAnswer
  PROVE  Spec => []NothingLeft
<1>1. Booked => NothingLeft
  <2>1. SUFFICES ASSUME Booked, ReplayFinished, NEW s \in Rank, NEW d \in Rank, NEW tag \in Tag
                 PROVE  /\ Len(sent[s][d][tag]) = posted[d][s][tag]
                        /\ Len(sent[s][d][Reverse(tag)]) = posted[d][s][Reverse(tag)]
    BY DEF NothingLeft, ReplayTag
  <2>2. ASSUME NEW r \in Rank, NEW S \in SUBSET Activity(r)
        PROVE  Begun(S, r) = S /\ Replied(S, r) = S
    <3>1. /\ pos[r] \in Nat /\ LastActivity[r] \in Nat /\ pos[r] > LastActivity[r]
          /\ Activity(r) = 0 .. LastActivity[r]
      BY <2>1, ActivityNumbers DEF Booked, Typed, ReplayFinished, ReplayDone, Activity
    <3>2. \A i \in S : i < pos[r]
      BY <3>1
    <3> QED
      BY <3>2 DEF Begun, Replied
  <2>3. /\ ForwardMail(s, d, tag) /\ ReverseMail(s, d, tag)
        /\ ForwardPosts(d, s, tag) /\ ReversePosts(d, s, tag)
    BY <2>1 DEF Booked, Ledger
  <2>4. Len(sent[s][d][tag]) = Cardinality(SendsTo(program, s, d, tag))
    BY <2>2, <2>3, KindsOfActivities DEF ForwardMail
  <2>5. Len(sent[s][d][Reverse(tag)]) = Cardinality(Answers(program, s, d, tag))
    BY <2>2, <2>3, KindsOfActivities DEF ReverseMail
  <2>6. posted[d][s][tag] = Cardinality(ReceivesFrom(program, d, s, tag))
    BY <2>2, <2>3, KindsOfActivities DEF ForwardPosts
  <2>7. posted[d][s][Reverse(tag)] = Cardinality(Asks(program, d, s, tag))
    BY <2>2, <2>3, KindsOfActivities DEF ReversePosts
  <2>8. program \in Programs
    BY <2>1 DEF Booked, Measured
  <2>9. Cardinality(SendsTo(program, s, d, tag)) = Cardinality(ReceivesFrom(program, d, s, tag))
    BY <2>8, ReplayPrograms DEF LegalProgram
  <2>10. Cardinality(Asks(program, d, s, tag)) = Cardinality(Answers(program, s, d, tag))
    BY <2>8, AnswersMatch
  <2> QED
    BY <2>4, <2>5, <2>6, <2>7, <2>9, <2>10
<1> QED
  BY <1>1, BookedAlways, PTL
=============================================================================
