------------------------- MODULE TraceWriterProofs -------------------------
(***************************************************************************)
(* Proofs about the trace writer: in its second pass over the events it    *)
(* meets the node of every event at this event, and the idle times of the  *)
(* device it counts on the way are the times the device was idle.          *)
(***************************************************************************)
EXTENDS TraceWriter, FiniteSums, SequenceTheorems

-----------------------------------------------------------------------------
(***************************************************************************)
(* What the events of a program have to be like.                           *)
(***************************************************************************)

\* Stream s is inside a filtered region after the i-th event.
Inside(s, i) ==
  \E m \in 1 .. i : /\ program[m].stream = s /\ IsFiltered(m) /\ Opens(m)
                    /\ \A k \in (m + 1) .. i : program[k].stream = s => ~IsFiltered(k)

\* The i-th event has a node, in the list of stream s.
NodeOf(s, i) == program[i].stream = s /\ IsNode(i) /\ ~Inside(s, i - 1)

\* An interval may end after the i-th event.
EndsInterval(i) == program[i].kind = "collective" /\ Closes(i)

\* No region of a paradigm is filtered, and no team begins or ends in a
\* filtered region: the run filter has programs that do not fit.
FiltersFit ==
  \A i \in Events : /\ IsNode(i) => ~IsFiltered(i)
                    /\ program[i].rec \in {"fork", "join"} => ~Inside(program[i].stream, i - 1)

\* A thread other than that of MPI, once it has had nodes, has an event without
\* a node in an interval only if it has one with a node there.
Together(i, j) ==
  \A k \in Events : (i <= k /\ k < j) \/ (j <= k /\ k < i) => ~EndsInterval(k)
StreamsStayBusy ==
  \A s \in Streams \ {MpiStream} : \A i \in Events :
    /\ program[i].stream = s /\ (Opens(i) \/ Closes(i))
    /\ \E j \in 1 .. i - 1 : NodeOf(s, j)
    => \E j \in Events : NodeOf(s, j) /\ Together(i, j)

-----------------------------------------------------------------------------
(***************************************************************************)
(* The invariant.                                                          *)
(***************************************************************************)
InList(s, i) == \E p \in DOMAIN nodes[s] : nodes[s][p] = i

\* The list of a stream has every node once.
ListFits(s) ==
  /\ nodes[s] \in Seq(1 .. pos)
  /\ \A p, q \in DOMAIN nodes[s] : nodes[s][p] = nodes[s][q] => p = q
  /\ \A p \in DOMAIN nodes[s] : program[nodes[s][p]].stream = s /\ nodes[s][p] \in made

\* It has the nodes of this interval, and no other that is still to be met.
Complete(s) ==
  /\ \A p \in DOMAIN nodes[s] : nodes[s][p] > written => NodeOf(s, nodes[s][p])
  /\ \A i \in 1 .. pos : NodeOf(s, i) =>
       \/ InList(s, i)
       \/ i <= written /\ (s = MpiStream \/ \E k \in i .. written : EndsInterval(k))

Sorted(s) ==
  ~Swapped => \A p, q \in DOMAIN nodes[s] : p < q => nodes[s][p] < nodes[s][q]

\* What an interval begins with is the atomic node of the last collective.
Begins(s) ==
  phase \in {"read", "mark", "locations"} => \A p \in DOMAIN nodes[s] :
     /\ nodes[s][p] <= written <=> nodes[s][p] \in atomic
     /\ nodes[s][p] <= written => p = 1 /\ s = MpiStream

\* The iterator of a stream is at the first node still to be met.
Pointed(s) ==
  phase = "write" /\ nodes[s] # <<>> =>
     /\ writer[s].curr <= Len(nodes[s]) + 1
     /\ \A p \in DOMAIN nodes[s] : p < writer[s].curr <=> nodes[s][p] <= written

\* It has left its first place only if the stream has had nodes.
Moved(s) ==
  /\ s = MpiStream /\ nodes[s] = <<>> => writer[s].curr = 1
  /\ s # MpiStream /\ writer[s].curr > 1 => \E i \in 1 .. written : NodeOf(s, i)

StreamInv(s) == ListFits(s) /\ Complete(s) /\ Sorted(s) /\ Begins(s) /\ Pointed(s) /\ Moved(s)

Places ==
  /\ pos \in 0 .. Len(program) /\ written \in 0 .. pos
  /\ phase \in {"read", "mark", "locations", "write", "done"}
  /\ phase = "read" => pos < Len(program)
  /\ phase \in {"mark", "locations", "write"} /\ pos < Len(program) =>
       pos > 0 /\ EndsInterval(pos) /\ nodes[MpiStream] # <<>>
  /\ atomic \subseteq 1 .. written
  /\ made \subseteq 1 .. pos
  /\ nodes = [s \in Streams |-> nodes[s]]

\* The two passes are in and out of filtered regions at the same events.
FiltersAgree ==
  /\ filtering = {s \in Streams : Inside(s, pos)}
  /\ \A s \in Streams : writer[s].filtering = Inside(s, written)

StatusOf(s) ==
  /\ writer[s] = [curr |-> writer[s].curr, onPath |-> writer[s].onPath, stack |-> writer[s].stack,
                  last |-> writer[s].last, open |-> writer[s].open, filtering |-> writer[s].filtering]
  /\ writer[s].curr \in Nat \ {0}
Statuses == writer = [s \in Streams |-> writer[s]] /\ \A s \in Streams : StatusOf(s)

Trace == program \in Programs /\ time \in Times(program)
Fits == Trace /\ FiltersFit /\ StreamsStayBusy

Meeting == Places /\ FiltersAgree /\ Statuses /\ \A s \in Streams : StreamInv(s)

WriterInv ==
  /\ Fits
  /\ strayed \in BOOLEAN
  /\ strayed => Swapped /\ phase = "write"
  /\ ~strayed => Meeting

-----------------------------------------------------------------------------
(***************************************************************************)
(* Facts about the operators.                                              *)
(***************************************************************************)
\* Min is the least element of a set of numbers.
LEMMA MinIsLeast ==
  ASSUME NEW T \in SUBSET Nat, T # {}
  PROVE  Min(T) \in T /\ \A n \in T : Min(T) <= n
BY LeastNat, Zenon DEF Min

\* The events of a trace, and which of them end an interval.
LEMMA TraceFacts ==
  ASSUME Trace
  PROVE  /\ Len(program) \in Nat \ {0} /\ Events = 1 .. Len(program)
         /\ \A i \in Events : program[i].stream \in Streams
         /\ \A i \in Events : EndsInterval(i) => program[i].stream = MpiStream
         /\ \A i \in Events : time[i] \in Nat
         /\ \A i, j \in Events : i <= j => time[i] <= time[j]
         /\ MpiStream \in Streams
<1>1. /\ program \in Seq([stream : Streams, rec : STRING, kind : STRING, region : STRING])
      /\ program # <<>>
  BY TraceAssumption DEF Trace, Streams
<1>2. /\ \A i \in DOMAIN program : program[i].kind = "collective" => program[i].stream = MpiStream
      /\ time \in [DOMAIN program -> Nat]
      /\ \A i, j \in DOMAIN program : i <= j => time[i] <= time[j]
      /\ MpiStream \in Streams
  BY TraceAssumption DEF Trace, Streams
<1>3. Len(program) \in Nat \ {0} /\ Events = 1 .. Len(program)
  BY <1>1 DEF Events
<1>4. \A i \in Events : program[i].stream \in Streams
  <2>1. PICK E : E = [stream : Streams, rec : STRING, kind : STRING, region : STRING]
    OBVIOUS
  <2>2. program \in Seq(E)
    BY <1>1, <2>1
  <2>3. \A i \in Events : program[i] \in E
    BY <1>3, <2>2
  <2> QED
    BY <2>1, <2>3
<1> QED
  BY <1>2, <1>3, <1>4 DEF Events, EndsInterval

\* The elements of a list of events are events.
LEMMA ElementsOfList ==
  ASSUME NEW n \in Nat, NEW L \in Seq(1 .. n) PROVE \A p \in DOMAIN L : L[p] \in 1 .. n
OBVIOUS

\* An event moves its stream into or out of a filtered region, or not.
LEMMA InsideAfter ==
  ASSUME NEW s, NEW i \in Nat \ {0}
  PROVE  Inside(s, i) <=> IF program[i].stream = s /\ IsFiltered(i) THEN Opens(i)
                                                                   ELSE Inside(s, i - 1)
<1>1. CASE program[i].stream = s /\ IsFiltered(i)
  <2>1. ASSUME Opens(i) PROVE Inside(s, i)
    BY <1>1, <2>1 DEF Inside
  <2>2. ASSUME NEW m \in 1 .. i, program[m].stream = s /\ IsFiltered(m) /\ Opens(m),
               \A k \in (m + 1) .. i : program[k].stream = s => ~IsFiltered(k)
        PROVE  Opens(i)
    <3>1. m = i
      BY <1>1, <2>2
    <3> QED
      BY <2>2, <3>1
  <2> QED
    BY <1>1, <2>1, <2>2 DEF Inside
<1>2. CASE ~(program[i].stream = s /\ IsFiltered(i))
  <2>1. ASSUME Inside(s, i - 1) PROVE Inside(s, i)
    <3>1. PICK m \in 1 .. i - 1 : /\ program[m].stream = s /\ IsFiltered(m) /\ Opens(m)
                                  /\ \A k \in (m + 1) .. i - 1 : program[k].stream = s => ~IsFiltered(k)
      BY <2>1 DEF Inside
    <3>2. \A k \in (m + 1) .. i : k = i \/ k \in (m + 1) .. i - 1
      OBVIOUS
    <3>3. m \in 1 .. i
      OBVIOUS
    <3> QED
      BY <1>2, <3>1, <3>2, <3>3 DEF Inside
  <2>2. ASSUME Inside(s, i) PROVE Inside(s, i - 1)
    <3>1. PICK m \in 1 .. i : /\ program[m].stream = s /\ IsFiltered(m) /\ Opens(m)
                              /\ \A k \in (m + 1) .. i : program[k].stream = s => ~IsFiltered(k)
      BY <2>2 DEF Inside
    <3>2. m \in 1 .. i - 1
      BY <1>2, <3>1
    <3>3. \A k \in (m + 1) .. i - 1 : k \in (m + 1) .. i
      OBVIOUS
    <3> QED
      BY <3>1, <3>2, <3>3 DEF Inside
  <2> QED
    BY <1>2, <2>1, <2>2
<1> QED
  BY <1>1, <1>2

\* Where Inserted puts a node: behind the first one, if there is one.
LEMMA InsertedPlace ==
  ASSUME NEW n \in Nat, NEW L \in Seq(1 .. n), NEW i \in Nat
  PROVE  \E k \in 1 .. Len(L) + 1 :
           /\ L # <<>> => k > 1
           /\ Inserted(L, i) \in Seq(Nat) /\ Len(Inserted(L, i)) = Len(L) + 1
           /\ \A p \in 1 .. Len(L) + 1 :
                Inserted(L, i)[p] = IF p < k THEN L[p] ELSE IF p = k THEN i ELSE L[p - 1]
<1> DEFINE larger == {p \in DOMAIN L \ {1} : Less(i, L[p])}
<1>1. CASE L = <<>> \/ Less(Last(L), i) \/ larger = {}
  <2>1. Inserted(L, i) = Append(L, i)
    BY <1>1 DEF Inserted
  <2>2. Append(L, i) \in Seq(Nat) /\ Len(Append(L, i)) = Len(L) + 1
    OBVIOUS
  <2>3. \A p \in 1 .. Len(L) + 1 : Append(L, i)[p] = IF p < Len(L) + 1 THEN L[p] ELSE i
    OBVIOUS
  <2>4. PICK k \in 1 .. Len(L) + 1 : k = Len(L) + 1
    OBVIOUS
  <2>5. L # <<>> => k > 1
    BY <2>4
  <2> QED
    BY <2>1, <2>2, <2>3, <2>4, <2>5
<1>2. CASE ~(L = <<>> \/ Less(Last(L), i) \/ larger = {})
  <2>1. Inserted(L, i) = InsertAt(L, Min(larger), i)
    BY <1>2 DEF Inserted
  <2>2. PICK k : k = Min(larger)
    OBVIOUS
  <2>3. k \in larger
    BY <1>2, <2>2, MinIsLeast
  <2>4. k \in 2 .. Len(L)
    BY <2>3
  <2>5. InsertAt(L, k, i) = SubSeq(L, 1, k - 1) \o <<i>> \o SubSeq(L, k, Len(L))
    BY DEF InsertAt
  <2>6. InsertAt(L, k, i) \in Seq(Nat) /\ Len(InsertAt(L, k, i)) = Len(L) + 1
    BY <2>4, <2>5
  <2>7. \A p \in 1 .. Len(L) + 1 :
          InsertAt(L, k, i)[p] = IF p < k THEN L[p] ELSE IF p = k THEN i ELSE L[p - 1]
    BY <2>4, <2>5
  <2>8. k \in 1 .. Len(L) + 1 /\ k > 1
    BY <2>4
  <2> HIDE DEF larger
  <2> QED
    BY <2>1, <2>2, <2>6, <2>7, <2>8
<1> QED
  BY <1>1, <1>2

\* Inserted adds the node to the list, once, and keeps the others.
LEMMA InsertedList ==
  ASSUME NEW n \in Nat, NEW L \in Seq(1 .. n), NEW i \in Nat, i > n,
         \A p, q \in DOMAIN L : L[p] = L[q] => p = q,
         NEW M, M = Inserted(L, i)
  PROVE  /\ M \in Seq(1 .. i) /\ M # <<>>
         /\ \A p, q \in DOMAIN M : M[p] = M[q] => p = q
         /\ \A p \in DOMAIN M : M[p] = i \/ \E q \in DOMAIN L : M[p] = L[q]
         /\ \E p \in DOMAIN M : M[p] = i
         /\ \A q \in DOMAIN L : \E p \in DOMAIN M : M[p] = L[q]
         /\ L # <<>> => M[1] = L[1]
<1>1. PICK k \in 1 .. Len(L) + 1 :
        /\ L # <<>> => k > 1
        /\ M \in Seq(Nat) /\ Len(M) = Len(L) + 1
        /\ \A p \in 1 .. Len(L) + 1 : M[p] = IF p < k THEN L[p] ELSE IF p = k THEN i ELSE L[p - 1]
  <2>1. \E k \in 1 .. Len(L) + 1 :
          /\ L # <<>> => k > 1
          /\ Inserted(L, i) \in Seq(Nat) /\ Len(Inserted(L, i)) = Len(L) + 1
          /\ \A p \in 1 .. Len(L) + 1 :
               Inserted(L, i)[p] = IF p < k THEN L[p] ELSE IF p = k THEN i ELSE L[p - 1]
    BY InsertedPlace
  <2> QED
    BY <2>1
<1>2. DOMAIN M = 1 .. Len(L) + 1 /\ DOMAIN L = 1 .. Len(L) /\ Len(L) \in Nat
  BY <1>1
<1>3. \A p \in DOMAIN L : L[p] \in 1 .. n
  BY <1>2
<1>4. ASSUME NEW p \in DOMAIN M
      PROVE  /\ p = k => M[p] = i
             /\ p < k => p \in DOMAIN L /\ M[p] = L[p]
             /\ p > k => p - 1 \in DOMAIN L /\ M[p] = L[p - 1]
  <2>1. M[p] = IF p < k THEN L[p] ELSE IF p = k THEN i ELSE L[p - 1]
    BY <1>1, <1>2
  <2>2. p \in 1 .. Len(L) + 1
    BY <1>2
  <2> QED
    BY <1>2, <2>1, <2>2
<1>5. ASSUME NEW q \in DOMAIN L
      PROVE  /\ q < k => q \in DOMAIN M /\ M[q] = L[q]
             /\ q >= k => q + 1 \in DOMAIN M /\ M[q + 1] = L[q]
  BY <1>1, <1>2, SMTT(60)
<1>6. \A p \in DOMAIN M : M[p] = i \/ \E q \in DOMAIN L : M[p] = L[q]
  BY <1>2, <1>4, SMTT(60)
<1>7. \A p \in DOMAIN M : M[p] \in 1 .. i
  BY <1>3, <1>6
<1>8. M \in Seq(1 .. i)
  <2>1. M = [p \in 1 .. Len(M) |-> M[p]] /\ Len(M) \in Nat /\ DOMAIN M = 1 .. Len(M)
    BY <1>1
  <2> QED
    BY <1>7, <2>1
<1>9. \A q \in DOMAIN L : \E p \in DOMAIN M : M[p] = L[q]
  <2> SUFFICES ASSUME NEW q \in DOMAIN L PROVE \E p \in DOMAIN M : M[p] = L[q]
    OBVIOUS
  <2>1. CASE q < k
    BY <1>5, <2>1
  <2>2. CASE q >= k
    BY <1>5, <2>2
  <2> QED
    BY <1>2, <2>1, <2>2
<1>10. \E p \in DOMAIN M : M[p] = i
  BY <1>2, <1>4
<1>11. ASSUME NEW p \in DOMAIN M, NEW q \in DOMAIN M, M[p] = M[q] PROVE p = q
  <2>1. \A x \in DOMAIN L : L[x] # i
    BY <1>3
  <2>2. CASE p = k \/ q = k
    BY <1>2, <1>4, <1>11, <2>1, <2>2
  <2>3. CASE p < k /\ q < k
    BY <1>4, <1>11, <2>3
  <2>4. CASE p > k /\ q > k
    <3>1. p - 1 = q - 1
      BY <1>4, <1>11, <2>4
    <3> QED
      BY <1>2, <3>1
  <2>5. CASE p < k /\ q > k
    <3>1. p = q - 1
      BY <1>4, <1>11, <2>5
    <3> QED
      BY <1>2, <2>5, <3>1
  <2>6. CASE p > k /\ q < k
    <3>1. p - 1 = q
      BY <1>4, <1>11, <2>6
    <3> QED
      BY <1>2, <2>6, <3>1
  <2> QED
    BY <1>2, <2>2, <2>3, <2>4, <2>5, <2>6
<1>12. L # <<>> => M[1] = L[1]
  BY <1>1, <1>2, <1>4
<1>13. M # <<>>
  BY <1>1, <1>2
<1> QED
  BY <1>6, <1>8, <1>9, <1>10, <1>11, <1>12, <1>13

\* An event that is not before the last node of its stream, not even at the
\* same time by the order of the paradigms, is put behind it.
LEMMA AppendedInOrder ==
  ASSUME Trace, NEW i \in Events, NEW L \in Seq(1 .. i - 1), i \notin atomic,
         L # <<>> => \/ time[Last(L)] < time[i]
                     \/ ParadigmOf(Last(L)) <= ParadigmOf(i)
  PROVE  Inserted(L, i) = Append(L, i)
<1>1. CASE L = <<>>
  BY <1>1 DEF Inserted
<1>2. CASE L # <<>>
  <2>1. PICK l \in 1 .. i - 1 : l = Last(L)
    BY <1>2, TraceFacts DEF Last
  <2>2. i \in 1 .. Len(program) /\ l \in Events /\ l < i /\ time[l] <= time[i]
        /\ time[l] \in Nat /\ time[i] \in Nat
    BY <2>1, TraceFacts
  <2>3. ParadigmOf(l) \in Nat /\ ParadigmOf(i) \in Nat
    BY DEF ParadigmOf
  <2>4. Less(l, i)
    BY <1>2, <2>1, <2>2, <2>3 DEF Less
  <2> QED
    BY <2>1, <2>4 DEF Inserted
<1> QED
  BY <1>1, <1>2

\* What is defined by the trace alone stays as it is.
LEMMA ProgramStays ==
  ASSUME UNCHANGED <<program, time>>
  PROVE  /\ Fits => Fits'
         /\ \A s, i : NodeOf(s, i)' <=> NodeOf(s, i)
         /\ \A s, i : Inside(s, i)' <=> Inside(s, i)
         /\ \A i : EndsInterval(i)' <=> EndsInterval(i)
         /\ Events' = Events
<1>1. \A i : /\ EndsInterval(i)' <=> EndsInterval(i)
             /\ IsNode(i)' <=> IsNode(i)
             /\ IsFiltered(i)' <=> IsFiltered(i)
             /\ Opens(i)' <=> Opens(i)
             /\ Closes(i)' <=> Closes(i)
  BY DEF EndsInterval, IsNode, IsFiltered, Opens, Closes
<1>2. \A s, i : Inside(s, i)' <=> Inside(s, i)
  BY <1>1 DEF Inside
<1>3. \A s, i : NodeOf(s, i)' <=> NodeOf(s, i)
  BY <1>1, <1>2 DEF NodeOf
<1>4. Events' = Events
  BY DEF Events
<1>5. \A i, j : Together(i, j)' <=> Together(i, j)
  BY <1>1, <1>4 DEF Together
<1>6. Trace => Trace'
  BY DEF Trace
<1>7. FiltersFit => FiltersFit'
  BY <1>1, <1>2, <1>4 DEF FiltersFit
<1>8. StreamsStayBusy => StreamsStayBusy'
  BY <1>1, <1>3, <1>4, <1>5 DEF StreamsStayBusy
<1> QED
  BY <1>1, <1>2, <1>3, <1>4, <1>6, <1>7, <1>8 DEF Fits

\* Once events are out of order they are.
LEMMA SwappedStays ==
  ASSUME UNCHANGED <<program, time>>, made \subseteq made', Swapped
  PROVE  Swapped'
BY DEF Swapped, ParadigmOf

\* Nothing of a list but its marks changes.
LEMMA ListsStay ==
  ASSUME UNCHANGED <<program, time, pos, written, nodes, made>>, NEW s \in Streams,
         ListFits(s), Complete(s), Sorted(s)
  PROVE  ListFits(s)' /\ Complete(s)' /\ Sorted(s)'
<1>1. ListFits(s)'
  BY DEF ListFits
<1>2. Complete(s)'
  BY ProgramStays DEF Complete, InList
<1>3. Swapped => Swapped'
  BY SwappedStays
<1>4. Sorted(s)'
  BY <1>3 DEF Sorted
<1> QED
  BY <1>1, <1>2, <1>4

\* A step that moves neither pass keeps both in or out of filtered regions.
LEMMA FiltersStay ==
  ASSUME UNCHANGED <<program, time, pos, written, filtering>>, FiltersAgree,
         \A s \in Streams : writer'[s].filtering = writer[s].filtering
  PROVE  FiltersAgree'
<1>1. \A s : /\ Inside(s, pos)' <=> Inside(s, pos)
             /\ Inside(s, written)' <=> Inside(s, written)
  BY ProgramStays DEF Inside
<1>2. {s \in Streams : Inside(s, pos)'} = {s \in Streams : Inside(s, pos)}
  BY <1>1
<1>3. filtering' = {s \in Streams : Inside(s, pos)'}
  BY <1>2 DEF FiltersAgree
<1>4. \A s \in Streams : writer'[s].filtering = Inside(s, written)'
  <2>1. \A s : Inside(s, written)' = Inside(s, written)
    BY <1>1 DEF Inside
  <2>2. \A s \in Streams : writer[s].filtering = Inside(s, written)
    BY DEF FiltersAgree
  <2> QED
    BY <2>1, <2>2, Zenon
<1> QED
  BY <1>3, <1>4 DEF FiltersAgree

-----------------------------------------------------------------------------
(***************************************************************************)
(* Reading.                                                                *)
(***************************************************************************)
\* The reader makes a node for exactly the events with NodeOf.
LEMMA ReaderSeesNodes ==
  ASSUME Fits, Meeting, NEW i, i = pos + 1, i \in Events, NEW s, s = program[i].stream
  PROVE  NodeOf(s, i) <=> IsNode(i) /\ ReaderSees(i)
<1>1. s \in Streams /\ pos \in Nat /\ i - 1 = pos
  BY TraceFacts DEF Fits, Meeting, Places
<1>2. s \in filtering <=> Inside(s, i - 1)
  BY <1>1 DEF Meeting, FiltersAgree
<1>3. IsNode(i) => ~IsFiltered(i)
  BY DEF Fits, FiltersFit
<1> QED
  BY <1>2, <1>3 DEF NodeOf, ReaderSees

\* The node of the event read last goes to the end, unless nodes are exchanged.
LEMMA ReadSorted ==
  ASSUME Fits, Meeting, NEW i \in Events, i = pos + 1, NEW s \in Streams,
         s = program[i].stream, made' = made \cup {i}, UNCHANGED <<program, time>>,
         ~Swapped', ListFits(s), Sorted(s), i \notin atomic
  PROVE  Inserted(nodes[s], i) = Append(nodes[s], i)
<1>1. nodes[s] \in Seq(1 .. i - 1) /\ i \in 1 .. Len(program)
  <2>1. i - 1 = pos
    BY DEF Meeting, Places
  <2> QED
    BY <2>1, TraceFacts DEF ListFits, Fits
<1>2. ASSUME nodes[s] # <<>>
      PROVE  \/ time[Last(nodes[s])] < time[i]
             \/ ParadigmOf(Last(nodes[s])) <= ParadigmOf(i)
  <2>1. PICK l \in 1 .. i - 1 : l = Last(nodes[s])
    BY <1>1, <1>2 DEF Last
  <2>2. program[l].stream = s /\ l \in made
    <3>1. Len(nodes[s]) \in DOMAIN nodes[s]
      BY <1>1, <1>2
    <3> QED
      BY <2>1, <3>1 DEF ListFits, Last
  <2>3. l < i /\ time[l] <= time[i] /\ time[l] \in Nat /\ time[i] \in Nat
    BY <1>1, <2>1, TraceFacts DEF Fits
  <2>4. ~(time[l] = time[i] /\ ParadigmOf(l) > ParadigmOf(i))
    BY <2>2, <2>3 DEF Swapped, ParadigmOf
  <2>5. ParadigmOf(l) \in Nat /\ ParadigmOf(i) \in Nat
    BY DEF ParadigmOf
  <2> QED
    BY <2>1, <2>3, <2>4, <2>5
<1>3. Trace
  BY DEF Fits
<1> QED
  BY <1>1, <1>2, <1>3, AppendedInOrder

\* The list that gets a node.
LEMMA ReadAddsNode ==
  ASSUME Fits, Meeting, NEW i, i = pos + 1, i \in Events, NEW s, s = program[i].stream,
         UNCHANGED <<program, time, written, atomic, writer>>, pos' = i, made' = made \cup {i},
         NodeOf(s, i), nodes'[s] = Inserted(nodes[s], i),
         phase = "read", phase' \in {"read", "mark"}
  PROVE  StreamInv(s)' /\ nodes'[s] # <<>>
<1>1. /\ s \in Streams /\ pos \in Nat /\ written \in 0 .. pos
      /\ ListFits(s) /\ Complete(s) /\ Sorted(s) /\ Begins(s) /\ Moved(s)
      /\ atomic \subseteq 1 .. written
  BY TraceFacts DEF Fits, Meeting, Places, StreamInv
<1>2. PICK L \in Seq(1 .. pos) : L = nodes[s]
  BY <1>1 DEF ListFits
<1>3. PICK M : M = nodes'[s]
  OBVIOUS
<1>4. i \in Nat /\ i > pos /\ i \notin atomic
  BY <1>1
<1>5. \A p, q \in DOMAIN L : L[p] = L[q] => p = q
  BY <1>1, <1>2 DEF ListFits
<1>6. /\ M \in Seq(1 .. i) /\ M # <<>>
      /\ \A p, q \in DOMAIN M : M[p] = M[q] => p = q
      /\ \A p \in DOMAIN M : M[p] = i \/ \E q \in DOMAIN L : M[p] = L[q]
      /\ \E p \in DOMAIN M : M[p] = i
      /\ \A q \in DOMAIN L : \E p \in DOMAIN M : M[p] = L[q]
      /\ L # <<>> => M[1] = L[1]
  <2>1. M = Inserted(L, i)
    BY <1>2, <1>3
  <2> QED
    BY <1>1, <1>4, <1>5, <2>1, InsertedList
<1>7. \A x, y : NodeOf(x, y)' <=> NodeOf(x, y)
  BY ProgramStays
<1>8. ListFits(s)'
  <2>1. \A q \in DOMAIN L : program[L[q]].stream = s /\ L[q] \in made
    BY <1>1, <1>2 DEF ListFits
  <2>2. \A p \in DOMAIN M : program[M[p]].stream = s /\ M[p] \in made'
    BY <1>6, <2>1
  <2>3. nodes'[s] = M /\ pos' = i /\ program' = program
    BY <1>3
  <2>4. \A p, q \in DOMAIN M : M[p] = M[q] => p = q
    BY <1>6
  <2>5. M \in Seq(1 .. i)
    BY <1>6
  <2> QED
    BY <2>2, <2>3, <2>4, <2>5, ZenonT(60) DEF ListFits
<1>9. Complete(s)'
  <2>1. ASSUME NEW p \in DOMAIN M, M[p] > written PROVE NodeOf(s, M[p])
    <3>1. CASE M[p] = i
      BY <3>1
    <3>2. ASSUME NEW q \in DOMAIN L, M[p] = L[q] PROVE NodeOf(s, M[p])
      BY <1>1, <1>2, <2>1, <3>2 DEF Complete
    <3> QED
      BY <1>6, <3>1, <3>2
  <2>2. ASSUME NEW j \in 1 .. i, NodeOf(s, j)
        PROVE  \/ \E p \in DOMAIN M : M[p] = j
               \/ j <= written /\ (s = MpiStream \/ \E k \in j .. written : EndsInterval(k))
    <3>1. CASE j = i
      BY <1>6, <3>1
    <3>2. CASE j # i
      <4>1. j \in 1 .. pos
        BY <1>1, <3>2
      <4>2. \/ \E p \in DOMAIN L : L[p] = j
            \/ j <= written /\ (s = MpiStream \/ \E k \in j .. written : EndsInterval(k))
        BY <1>1, <1>2, <2>2, <4>1 DEF Complete, InList
      <4> QED
        BY <1>6, <4>2
    <3> QED
      BY <3>1, <3>2
  <2>3. \A k : EndsInterval(k)' <=> EndsInterval(k)
    BY ProgramStays
  <2> QED
    BY <1>3, <1>7, <2>1, <2>2, <2>3 DEF Complete, InList
<1>10. Sorted(s)'
  <2>1. SUFFICES ASSUME ~Swapped' PROVE \A p, q \in DOMAIN M : p < q => M[p] < M[q]
    BY <1>3 DEF Sorted
  <2>2. ~Swapped
    BY <2>1, SwappedStays
  <2>3. M = Append(L, i)
    BY <1>1, <1>2, <1>3, <1>4, <2>1, ReadSorted
  <2>4. \A p, q \in DOMAIN L : p < q => L[p] < L[q]
    BY <1>1, <1>2, <2>2 DEF Sorted
  <2>5. \A p \in DOMAIN L : M[p] = L[p] /\ L[p] < i /\ L[p] \in Nat
    <3>1. \A p \in DOMAIN L : M[p] = L[p]
      BY <2>3
    <3>2. \A p \in DOMAIN L : L[p] \in 1 .. pos
      BY <1>1, ElementsOfList
    <3> QED
      BY <1>1, <1>4, <3>1, <3>2
  <2>6. \A p \in DOMAIN M : (p \in DOMAIN L \/ p = Len(L) + 1) /\ M[Len(L) + 1] = i
    BY <1>2, <2>3
  <2>7. DOMAIN L = 1 .. Len(L) /\ Len(L) \in Nat
    BY <1>2
  <2> QED
    BY <1>4, <2>4, <2>5, <2>6, <2>7
<1>11. Begins(s)'
  <2>1. \A q \in DOMAIN L : /\ L[q] <= written <=> L[q] \in atomic
                            /\ L[q] <= written => q = 1 /\ s = MpiStream
    BY <1>1, <1>2 DEF Begins
  <2>2. ASSUME NEW p \in DOMAIN M
        PROVE  /\ M[p] <= written <=> M[p] \in atomic
               /\ M[p] <= written => p = 1 /\ s = MpiStream
    <3>1. CASE M[p] = i
      BY <1>1, <1>4, <3>1
    <3>2. CASE M[p] # i
      <4>1. PICK q \in DOMAIN L : M[p] = L[q]
        BY <1>6, <3>2
      <4>2. 1 \in DOMAIN M /\ L # <<>>
        BY <1>2, <1>6, <4>1
      <4> QED
        BY <1>6, <2>1, <4>1, <4>2
    <3> QED
      BY <3>1, <3>2
  <2> QED
    BY <1>3, <2>2 DEF Begins
<1>12. Pointed(s)' /\ Moved(s)'
  <2>1. Moved(s)'
    BY <1>1, <1>3, <1>6, <1>7 DEF Moved
  <2> QED
    BY <2>1 DEF Pointed
<1> QED
  BY <1>3, <1>6, <1>8, <1>9, <1>10, <1>11, <1>12 DEF StreamInv

\* Any other list.
LEMMA ReadLeavesList ==
  ASSUME Fits, Meeting, NEW i, i = pos + 1, i \in Events, NEW s \in Streams,
         UNCHANGED <<program, time, written, atomic, writer>>, pos' = i, made \subseteq made',
         ~NodeOf(s, i), nodes'[s] = nodes[s],
         phase = "read", phase' \in {"read", "mark"}
  PROVE  StreamInv(s)'
<1>1. /\ pos \in Nat /\ written \in 0 .. pos
      /\ ListFits(s) /\ Complete(s) /\ Sorted(s) /\ Begins(s) /\ Moved(s)
  BY DEF Meeting, Places, StreamInv
<1>2. /\ \A x, y : NodeOf(x, y)' <=> NodeOf(x, y)
      /\ \A y : EndsInterval(y)' <=> EndsInterval(y)
  BY ProgramStays
<1>3. ListFits(s)'
  <2>1. 1 .. pos \subseteq 1 .. i
    BY <1>1
  <2>2. nodes[s] \in Seq(1 .. i)
    BY <1>1, <2>1, SeqMonotonic DEF ListFits
  <2> QED
    BY <1>1, <2>2 DEF ListFits
<1>4. Complete(s)'
  <2>1. \A j \in 1 .. i : j = i \/ j \in 1 .. pos
    BY <1>1
  <2> QED
    BY <1>1, <1>2, <2>1 DEF Complete, InList
<1>5. Sorted(s)'
  BY <1>1, SwappedStays DEF Sorted
<1>6. Begins(s)' /\ Pointed(s)' /\ Moved(s)'
  BY <1>1, <1>2 DEF Begins, Pointed, Moved
<1> QED
  BY <1>3, <1>4, <1>5, <1>6 DEF StreamInv

\* Reading an event enters or leaves a filtered region with it.
LEMMA ReadKeepsFilters ==
  ASSUME Fits, Meeting, NEW i, i = pos + 1, i \in Events,
         UNCHANGED <<program, time, written, writer>>, pos' = i,
         filtering' = FilterAfter(filtering, i)
  PROVE  FiltersAgree'
<1>1. pos \in Nat /\ i \in Nat \ {0} /\ i - 1 = pos /\ program[i].stream \in Streams
  BY TraceFacts DEF Fits, Meeting, Places
<1>2. /\ filtering = {s \in Streams : Inside(s, pos)}
      /\ \A s \in Streams : writer[s].filtering = Inside(s, written)
  BY DEF Meeting, FiltersAgree
<1>3. \A s : Inside(s, i) <=> IF program[i].stream = s /\ IsFiltered(i) THEN Opens(i)
                                                                      ELSE Inside(s, pos)
  BY <1>1, InsideAfter
<1>4. filtering' = {s \in Streams : Inside(s, i)}
  BY <1>1, <1>2, <1>3 DEF FilterAfter
<1>5. \A s : /\ Inside(s, i)' <=> Inside(s, i)
             /\ Inside(s, written)' <=> Inside(s, written)
  BY ProgramStays DEF Inside
<1>6. \A s : Inside(s, written)' = Inside(s, written)
  BY <1>5 DEF Inside
<1>7. {s \in Streams : Inside(s, i)'} = {s \in Streams : Inside(s, i)}
  BY <1>5
<1>8. filtering' = {s \in Streams : Inside(s, pos)'}
  BY <1>4, <1>7 DEF Inside
<1>9. \A s \in Streams : writer'[s].filtering = Inside(s, written)'
  BY <1>2, <1>6, Zenon
<1> QED
  BY <1>8, <1>9 DEF FiltersAgree

\* Read keeps the invariant.
LEMMA ReadKeepsInv ==
  ASSUME WriterInv, Read PROVE WriterInv'
<1>1. PICK i : i = pos + 1
  OBVIOUS
<1>2. PICK s : s = program[i].stream
  OBVIOUS
<1>3. /\ phase = "read" /\ pos' = i /\ filtering' = FilterAfter(filtering, i)
      /\ UNCHANGED <<program, time, written, atomic, writer, strayed>>
      /\ phase' \in {"read", "mark"}
  BY <1>1 DEF Read, writerVars
<1>4. Fits /\ Meeting /\ ~strayed
  BY <1>3 DEF WriterInv
<1>5. /\ pos \in Nat /\ i \in Events /\ written \in 0 .. pos /\ pos < Len(program)
      /\ Events = 1 .. Len(program) /\ Len(program) \in Nat
      /\ atomic \subseteq 1 .. written /\ made \subseteq 1 .. pos
      /\ nodes = [x \in Streams |-> nodes[x]]
  BY <1>1, <1>3, <1>4, TraceFacts DEF Fits, Meeting, Places
<1>6. s \in Streams
  BY <1>2, <1>4, <1>5, TraceFacts DEF Fits
<1>7. IF NodeOf(s, i)
      THEN nodes' = [nodes EXCEPT ![s] = Inserted(@, i)] /\ made' = made \cup {i}
      ELSE UNCHANGED <<nodes, made>>
  BY <1>1, <1>2, <1>4, <1>5, ReaderSeesNodes DEF Read
<1>8. made \subseteq made' /\ made' \subseteq 1 .. i
  BY <1>1, <1>5, <1>7
<1>9. ASSUME NEW x \in Streams PROVE StreamInv(x)'
  <2>1. CASE NodeOf(s, i) /\ x = s
    <3>1. nodes'[s] = Inserted(nodes[s], i)
      BY <1>5, <1>6, <1>7, <2>1
    <3>2. made' = made \cup {i}
      BY <1>7, <2>1
    <3> QED
      BY <1>1, <1>2, <1>3, <1>4, <1>5, <2>1, <3>1, <3>2, ReadAddsNode
  <2>2. CASE ~(NodeOf(s, i) /\ x = s)
    <3>1. ~NodeOf(x, i)
      BY <1>2, <2>2 DEF NodeOf
    <3>2. nodes'[x] = nodes[x]
      BY <1>5, <1>7, <2>2
    <3> QED
      BY <1>1, <1>3, <1>4, <1>5, <1>8, <3>1, <3>2, ReadLeavesList
  <2> QED
    BY <2>1, <2>2
<1>10. Places'
  <2>1. i < Len(program) \/ phase' = "mark"
    BY <1>1, <1>5 DEF Read
  <2>2. ASSUME phase' = "mark", i < Len(program)
        PROVE  EndsInterval(i) /\ nodes'[MpiStream] # <<>>
    <3>1. program[i].kind = "collective" /\ Closes(i) /\ i \in made'
      BY <1>1, <1>5, <2>2 DEF Read
    <3>2. i \notin made
      BY <1>1, <1>5
    <3>3. NodeOf(s, i) /\ s = MpiStream
      BY <1>2, <1>4, <1>5, <1>7, <3>1, <3>2, TraceFacts DEF Fits, EndsInterval
    <3>4. nodes'[s] = Inserted(nodes[s], i) /\ made' = made \cup {i}
      BY <1>5, <1>6, <1>7, <3>3
    <3>5. nodes'[s] # <<>>
      BY <1>1, <1>2, <1>3, <1>4, <1>5, <3>3, <3>4, ReadAddsNode
    <3> QED
      BY <3>1, <3>3, <3>5 DEF EndsInterval
  <2>3. nodes' = [x \in Streams |-> nodes'[x]]
    BY <1>5, <1>7
  <2>4. EndsInterval(pos)' <=> EndsInterval(i)
    BY <1>3 DEF EndsInterval, Closes
  <2>5. i \in 1 .. Len(program) /\ written \in 0 .. i
    BY <1>1, <1>5
  <2> QED
    BY <1>3, <1>5, <1>8, <2>1, <2>2, <2>3, <2>4, <2>5 DEF Places
<1>11. FiltersAgree'
  BY <1>1, <1>3, <1>4, <1>5, ReadKeepsFilters
<1>12. Statuses'
  BY <1>3, <1>4 DEF Meeting, Statuses, StatusOf
<1> QED
  BY <1>3, <1>4, <1>9, <1>10, <1>11, <1>12, ProgramStays DEF WriterInv, Meeting

-----------------------------------------------------------------------------
(***************************************************************************)
(* Between reading and writing.                                            *)
(***************************************************************************)
\* The outcome of an analysis changes nothing the invariant is about.
LEMMA MarkKeepsInv ==
  ASSUME WriterInv, Mark PROVE WriterInv'
<1>1. /\ phase = "mark" /\ phase' = "locations"
      /\ UNCHANGED <<program, time, pos, nodes, made, atomic, filtering, written, writer, strayed>>
  BY DEF Mark, readerVars, writerVars
<1>2. Fits /\ Meeting /\ ~strayed
  BY <1>1 DEF WriterInv
<1>3. ASSUME NEW s \in Streams PROVE StreamInv(s)'
  <2>1. ListFits(s) /\ Complete(s) /\ Sorted(s) /\ Begins(s) /\ Moved(s)
    BY <1>2 DEF Meeting, StreamInv
  <2>2. Begins(s)' /\ Pointed(s)'
    BY <1>1, <2>1 DEF Begins, Pointed
  <2>3. Moved(s)'
    BY <1>1, <2>1, ProgramStays DEF Moved
  <2> QED
    BY <1>1, <2>1, <2>2, <2>3, ListsStay DEF StreamInv
<1>4. Places'
  BY <1>1, <1>2, ProgramStays DEF Meeting, Places, EndsInterval, Closes
<1>5. FiltersAgree'
  BY <1>1, <1>2, FiltersStay DEF Meeting
<1>6. Statuses'
  BY <1>1, <1>2 DEF Meeting, Statuses, StatusOf
<1> QED
  BY <1>1, <1>2, <1>3, <1>4, <1>5, <1>6, ProgramStays DEF WriterInv, Meeting

\* The iterator of the stream of MPI begins behind the atomic node.
LEMMA SkipsAtomic ==
  ASSUME Meeting, NEW s \in Streams, phase = "locations", nodes[s] # <<>>
  PROVE  /\ Skip(s) \in 1 .. Len(nodes[s]) + 1
         /\ \A p \in DOMAIN nodes[s] : p < Skip(s) <=> nodes[s][p] <= written
<1>1. ListFits(s) /\ Begins(s) /\ pos \in Nat
  BY DEF Meeting, Places, StreamInv
<1>2. PICK L \in Seq(1 .. pos) : L = nodes[s]
  BY <1>1 DEF ListFits
<1>3. DOMAIN L = 1 .. Len(L) /\ Len(L) \in Nat \ {0}
  BY <1>2
<1>4. \A p \in DOMAIN L : /\ L[p] <= written <=> L[p] \in atomic
                          /\ L[p] <= written => p = 1 /\ s = MpiStream
  BY <1>1, <1>2 DEF Begins
<1>5. CASE s # MpiStream
  <2>1. Skip(s) = 1
    BY <1>5 DEF Skip
  <2> QED
    BY <1>2, <1>3, <1>4, <1>5, <2>1
<1>6. CASE s = MpiStream
  <2> DEFINE T == {p \in 1 .. (Len(L) + 1) : p \in DOMAIN L => L[p] \notin atomic}
  <2>1. Skip(s) = Min(T)
    BY <1>2, <1>6 DEF Skip
  <2>2. T \in SUBSET Nat /\ Len(L) + 1 \in T
    BY <1>3
  <2>3. PICK m : m = Min(T)
    OBVIOUS
  <2>4. m \in T /\ \A n \in T : m <= n
    BY <2>2, <2>3, MinIsLeast
  <2>5. \A p \in DOMAIN L : p < m => p \notin T
    BY <1>3, <2>4
  <2>6. \A p \in DOMAIN L : p < m => L[p] \in atomic
    BY <1>3, <2>5
  <2>7. m \in 1 .. Len(L) + 1 /\ (m \in DOMAIN L => L[m] \notin atomic)
    BY <2>4
  <2>8. \A p \in DOMAIN L : L[p] \in atomic => p < m
    BY <1>3, <1>4, <2>7
  <2> QED
    BY <1>2, <1>4, <2>1, <2>3, <2>6, <2>7, <2>8
<1> QED
  BY <1>5, <1>6

\* WriteLocations sets the iterators, and keeps the invariant.
LEMMA LocationsKeepInv ==
  ASSUME WriterInv, WriteLocations PROVE WriterInv'
<1>1. /\ phase = "locations" /\ phase' = "write"
      /\ UNCHANGED <<program, time, pos, nodes, made, atomic, filtering, written, strayed>>
  BY DEF WriteLocations, readerVars
<1>2. Fits /\ Meeting /\ ~strayed
  BY <1>1 DEF WriterInv
<1>3. ASSUME NEW s \in Streams
      PROVE  /\ writer'[s].filtering = writer[s].filtering
             /\ StatusOf(s)'
             /\ nodes[s] = <<>> => writer'[s].curr = writer[s].curr
             /\ nodes[s] # <<>> => writer'[s].curr = Skip(s)
  <2>1. StatusOf(s)
    BY <1>2 DEF Meeting, Statuses
  <2>2. CASE nodes[s] = <<>>
    <3>1. writer'[s] = [writer[s] EXCEPT !.open = {}]
      BY <2>2 DEF WriteLocations
    <3> QED
      BY <2>1, <2>2, <3>1 DEF StatusOf
  <2>3. CASE nodes[s] # <<>>
    <3>1. PICK o, c : writer'[s] = [writer[s] EXCEPT !.open = o, !.curr = Skip(s), !.onPath = c]
      BY <2>3 DEF WriteLocations
    <3>2. Skip(s) \in Nat \ {0}
      <4>1. Skip(s) \in 1 .. Len(nodes[s]) + 1 /\ ListFits(s)
        BY <1>1, <1>2, <2>3, SkipsAtomic DEF Meeting, StreamInv
      <4> QED
        BY <4>1
    <3> QED
      BY <2>1, <2>3, <3>1, <3>2 DEF StatusOf
  <2> QED
    BY <2>2, <2>3
<1>4. ASSUME NEW s \in Streams PROVE StreamInv(s)'
  <2>1. ListFits(s) /\ Complete(s) /\ Sorted(s) /\ Moved(s) /\ StatusOf(s)
    BY <1>2 DEF Meeting, Statuses, StreamInv
  <2>2. Begins(s)'
    BY <1>1 DEF Begins
  <2>3. Pointed(s)'
    <3>1. nodes[s] # <<>> => /\ Skip(s) <= Len(nodes[s]) + 1
                             /\ \A p \in DOMAIN nodes[s] : p < Skip(s) <=> nodes[s][p] <= written
      BY <1>1, <1>2, <2>1, SkipsAtomic DEF ListFits
    <3> QED
      BY <1>1, <1>3, <3>1 DEF Pointed
  <2>4. Moved(s)'
    <3>1. s # MpiStream /\ nodes[s] # <<>> => writer'[s].curr = 1
      BY <1>3 DEF Skip
    <3>2. \A i : NodeOf(s, i)' <=> NodeOf(s, i)
      BY <1>1, ProgramStays
    <3> QED
      BY <1>1, <1>3, <2>1, <3>1, <3>2 DEF Moved
  <2> QED
    BY <1>1, <2>1, <2>2, <2>3, <2>4, ListsStay DEF StreamInv
<1>5. Places'
  BY <1>1, <1>2, ProgramStays DEF Meeting, Places, EndsInterval, Closes
<1>6. FiltersAgree'
  BY <1>1, <1>2, <1>3, FiltersStay DEF Meeting
<1>7. Statuses'
  <2>1. writer' = [s \in Streams |-> writer'[s]]
    BY DEF WriteLocations
  <2> QED
    BY <1>3, <2>1 DEF Statuses
<1> QED
  BY <1>1, <1>2, <1>4, <1>5, <1>6, <1>7, ProgramStays DEF WriterInv, Meeting

\* IntermediateBegin leaves the atomic node of the collective at most.
LEMMA BeginKeepsInv ==
  ASSUME WriterInv, IntermediateBegin PROVE WriterInv'
<1>1. /\ phase = "write" /\ phase' = "read" /\ ~strayed
      /\ written = pos /\ pos < Len(program)
      /\ UNCHANGED <<program, time, pos, made, filtering, written, writer, strayed>>
  BY DEF IntermediateBegin, writerVars
<1>2. PICK begin : begin = Last(nodes[MpiStream])
  OBVIOUS
<1>3. /\ nodes' = [s \in Streams |-> IF s = MpiStream THEN <<begin>> ELSE <<>>]
      /\ atomic' = atomic \cup {begin}
  BY <1>2 DEF IntermediateBegin
<1>4. Fits /\ Meeting
  BY <1>1 DEF WriterInv
<1>5. /\ pos \in 1 .. Len(program) /\ Len(program) \in Nat /\ EndsInterval(pos)
      /\ nodes[MpiStream] # <<>> /\ MpiStream \in Streams
      /\ atomic \subseteq 1 .. pos /\ made \subseteq 1 .. pos
  BY <1>1, <1>4, TraceFacts DEF Fits, Meeting, Places
<1>6. begin \in 1 .. pos /\ program[begin].stream = MpiStream /\ begin \in made
  <2>1. PICK L \in Seq(1 .. pos) : L = nodes[MpiStream]
    BY <1>4, <1>5 DEF Meeting, StreamInv, ListFits
  <2>2. Len(L) \in DOMAIN L /\ begin = L[Len(L)]
    BY <1>2, <1>5, <2>1 DEF Last
  <2>3. \A p \in DOMAIN L : program[L[p]].stream = MpiStream /\ L[p] \in made
    BY <1>4, <1>5, <2>1 DEF Meeting, StreamInv, ListFits
  <2> QED
    BY <1>5, <2>2, <2>3
<1>7. /\ \A s, i : NodeOf(s, i)' <=> NodeOf(s, i)
      /\ \A i : EndsInterval(i)' <=> EndsInterval(i)
  BY <1>1, ProgramStays
<1>8. ASSUME NEW s \in Streams, s = MpiStream PROVE StreamInv(s)'
  <2>1. nodes'[s] = <<begin>>
    BY <1>3, <1>8
  <2>2. ListFits(s)'
    BY <1>1, <1>5, <1>6, <1>8, <2>1 DEF ListFits
  <2>3. Complete(s)'
    BY <1>1, <1>5, <1>6, <1>8, <2>1 DEF Complete
  <2>4. Sorted(s)' /\ Begins(s)' /\ Pointed(s)' /\ Moved(s)'
    BY <1>1, <1>3, <1>5, <1>6, <1>8, <2>1 DEF Sorted, Begins, Pointed, Moved
  <2> QED
    BY <2>2, <2>3, <2>4 DEF StreamInv
<1>9. ASSUME NEW s \in Streams, s # MpiStream PROVE StreamInv(s)'
  <2>1. nodes'[s] = <<>>
    BY <1>3, <1>9
  <2>2. ListFits(s)' /\ Sorted(s)' /\ Begins(s)' /\ Pointed(s)'
    BY <1>1, <2>1 DEF ListFits, Sorted, Begins, Pointed
  <2>3. \A i \in 1 .. pos : pos \in i .. pos
    BY <1>5
  <2>4. Complete(s)'
    BY <1>1, <1>5, <1>7, <2>1, <2>3 DEF Complete
  <2>5. Moved(s)'
    BY <1>1, <1>4, <1>7, <1>9 DEF Meeting, StreamInv, Moved
  <2> QED
    BY <2>2, <2>4, <2>5 DEF StreamInv
<1>10. Places'
  <2>1. pos \in 0 .. Len(program) /\ written \in 0 .. pos
    BY <1>1, <1>5
  <2>2. nodes' = [s \in Streams |-> nodes'[s]]
    BY <1>3
  <2>3. atomic' \subseteq 1 .. written
    BY <1>1, <1>3, <1>5, <1>6
  <2> QED
    BY <1>1, <1>5, <2>1, <2>2, <2>3 DEF Places
<1>11. FiltersAgree'
  BY <1>1, <1>4, FiltersStay DEF Meeting
<1>12. Statuses'
  BY <1>1, <1>4 DEF Meeting, Statuses, StatusOf
<1> QED
  BY <1>1, <1>4, <1>8, <1>9, <1>10, <1>11, <1>12, ProgramStays DEF WriterInv, Meeting

\* FinalizeStreams keeps the invariant.
LEMMA FinalizeKeepsInv ==
  ASSUME WriterInv, FinalizeStreams PROVE WriterInv'
<1>1. /\ phase = "write" /\ phase' = "done" /\ ~strayed
      /\ UNCHANGED <<program, time, pos, nodes, made, atomic, filtering, written, writer, strayed>>
  BY DEF FinalizeStreams, readerVars
<1>2. Fits /\ Meeting
  BY <1>1 DEF WriterInv
<1>3. ASSUME NEW s \in Streams PROVE StreamInv(s)'
  <2>1. ListFits(s) /\ Complete(s) /\ Sorted(s) /\ Moved(s)
    BY <1>2 DEF Meeting, StreamInv
  <2>2. Begins(s)' /\ Pointed(s)'
    BY <1>1 DEF Begins, Pointed
  <2>3. Moved(s)'
    BY <1>1, <2>1, ProgramStays DEF Moved
  <2> QED
    BY <1>1, <2>1, <2>2, <2>3, ListsStay DEF StreamInv
<1>4. Places'
  BY <1>1, <1>2 DEF Meeting, Places
<1>5. FiltersAgree'
  BY <1>1, <1>2, FiltersStay DEF Meeting
<1>6. Statuses'
  BY <1>1, <1>2 DEF Meeting, Statuses, StatusOf
<1> QED
  BY <1>1, <1>2, <1>3, <1>4, <1>5, <1>6, ProgramStays DEF WriterInv, Meeting

\* So does a step that changes nothing.
LEMMA NothingKeepsInv ==
  ASSUME WriterInv, UNCHANGED vars PROVE WriterInv'
<1>1. UNCHANGED <<program, time, phase, pos, nodes, made, atomic, filtering, written, writer, strayed>>
  BY DEF vars, readerVars, writerVars
<1>2. Fits /\ Fits'
  BY <1>1, ProgramStays DEF WriterInv
<1>3. Swapped => Swapped'
  BY <1>1, SwappedStays
<1>4. ASSUME Meeting PROVE Meeting'
  <2>1. ASSUME NEW s \in Streams PROVE StreamInv(s)'
    <3>1. ListFits(s) /\ Complete(s) /\ Sorted(s) /\ Begins(s) /\ Pointed(s) /\ Moved(s)
      BY <1>4 DEF Meeting, StreamInv
    <3>2. Begins(s)' /\ Pointed(s)'
      BY <1>1, <3>1 DEF Begins, Pointed
    <3>3. Moved(s)'
      BY <1>1, <3>1, ProgramStays DEF Moved
    <3> QED
      BY <1>1, <3>1, <3>2, <3>3, ListsStay DEF StreamInv
  <2>2. Places'
    BY <1>1, <1>4, ProgramStays DEF Meeting, Places, EndsInterval, Closes
  <2>3. FiltersAgree'
    BY <1>1, <1>4, FiltersStay DEF Meeting
  <2>4. Statuses'
    BY <1>1, <1>4 DEF Meeting, Statuses, StatusOf
  <2> QED
    BY <2>1, <2>2, <2>3, <2>4 DEF Meeting
<1> QED
  BY <1>1, <1>2, <1>3, <1>4 DEF WriterInv

\* The invariant holds initially.
LEMMA InitWriterInv ==
  ASSUME Init, FiltersFit, StreamsStayBusy PROVE WriterInv
<1>1. /\ pos = 0 /\ written = 0 /\ phase = "read" /\ made = {} /\ atomic = {} /\ filtering = {}
      /\ nodes = [s \in Streams |-> <<>>] /\ strayed = FALSE
      /\ writer = [s \in Streams |-> [curr |-> 1, onPath |-> FALSE, stack |-> <<>>, last |-> 0,
                                      open |-> {}, filtering |-> FALSE]]
      /\ Trace
  BY DEF Init, Trace
<1>2. Fits
  BY <1>1 DEF Fits
<1>3. Places
  BY <1>1, TraceFacts DEF Places
<1>4. \A s : ~Inside(s, 0)
  BY DEF Inside
<1>5. FiltersAgree
  <2>1. filtering = {s \in Streams : Inside(s, pos)}
    BY <1>1, <1>4
  <2>2. \A s \in Streams : writer[s].filtering = FALSE
    BY <1>1
  <2>3. \A s : Inside(s, written) = FALSE
    BY <1>1, <1>4 DEF Inside
  <2> QED
    BY <2>1, <2>2, <2>3, Zenon DEF FiltersAgree
<1>6. Statuses
  BY <1>1 DEF Statuses, StatusOf
<1>7. ASSUME NEW s \in Streams PROVE StreamInv(s)
  <2>1. nodes[s] = <<>> /\ writer[s].curr = 1
    BY <1>1
  <2> QED
    BY <1>1, <2>1 DEF StreamInv, ListFits, Complete, Sorted, Begins, Pointed, Moved
<1> QED
  BY <1>1, <1>2, <1>3, <1>5, <1>6, <1>7 DEF WriterInv, Meeting

-----------------------------------------------------------------------------
(***************************************************************************)
(* Writing.                                                                *)
(***************************************************************************)
\* The writer looks for a node at exactly the events with NodeOf.
LEMMA WriterSeesNodes ==
  ASSUME Fits, Meeting, NEW i, i = written + 1, i \in Events, NEW s, s = program[i].stream
  PROVE  /\ NodeOf(s, i) <=> IsNode(i) /\ WriterSees(i)
         /\ NodeOf(s, i) => Opens(i) \/ Closes(i)
         /\ WriterSees(i) => ~IsFiltered(i)
         /\ s \in Streams
<1>1. s \in Streams /\ written \in Nat /\ i - 1 = written
  BY TraceFacts DEF Fits, Meeting, Places
<1>2. writer[s].filtering <=> Inside(s, i - 1)
  BY <1>1 DEF Meeting, FiltersAgree, Inside
<1>3. /\ IsNode(i) => ~IsFiltered(i)
      /\ program[i].rec \in {"fork", "join"} => ~Inside(s, i - 1)
  BY DEF Fits, FiltersFit
<1>4. NodeOf(s, i) <=> IsNode(i) /\ WriterSees(i)
  BY <1>2, <1>3 DEF NodeOf, WriterSees
<1>5. WriterSees(i) => ~IsFiltered(i)
  BY DEF WriterSees, IsFiltered
<1> QED
  BY <1>1, <1>4, <1>5 DEF NodeOf, IsNode

\* The iterator is where the event that comes next is.
LEMMA NextNode ==
  ASSUME Fits, Meeting, phase = "write", NEW i, i = written + 1, i \in 1 .. pos, NEW s \in Streams
  PROVE  /\ NodeOf(s, i) => /\ writer[s].curr \in DOMAIN nodes[s]
                            /\ ~Swapped => nodes[s][writer[s].curr] = i
         /\ ~NodeOf(s, i) => \A p \in DOMAIN nodes[s] : nodes[s][p] # i
<1>1. /\ pos \in Nat /\ written \in Nat
      /\ ListFits(s) /\ Complete(s) /\ Sorted(s) /\ Pointed(s) /\ StatusOf(s)
  BY DEF Meeting, Statuses, Places, StreamInv
<1>2. PICK L \in Seq(1 .. pos) : L = nodes[s]
  BY <1>1 DEF ListFits
<1>3. DOMAIN L = 1 .. Len(L) /\ Len(L) \in Nat /\ \A p \in DOMAIN L : L[p] \in 1 .. pos
  BY <1>1, <1>2, ElementsOfList
<1>4. PICK c \in Nat \ {0} : c = writer[s].curr
  BY <1>1 DEF StatusOf
<1>5. L # <<>> => /\ c <= Len(L) + 1
                  /\ \A p \in DOMAIN L : p < c <=> L[p] <= written
  BY <1>1, <1>2, <1>4 DEF Pointed
<1>6. ASSUME NodeOf(s, i)
      PROVE  c \in DOMAIN L /\ (~Swapped => L[c] = i)
  <2>1. PICK p \in DOMAIN L : L[p] = i
    BY <1>1, <1>2, <1>6 DEF Complete, InList
  <2>2. L # <<>> /\ ~(p < c)
    BY <1>1, <1>3, <1>5, <2>1
  <2>3. c \in DOMAIN L /\ (p = c \/ c < p)
    BY <1>3, <2>2
  <2>4. ASSUME ~Swapped PROVE L[c] = i
    <3>1. SUFFICES ASSUME c < p PROVE FALSE
      BY <2>1, <2>3
    <3>2. L[c] < L[p]
      BY <1>1, <1>2, <2>3, <2>4, <3>1 DEF Sorted
    <3>3. ~(L[c] <= written)
      BY <1>3, <1>5, <2>2, <2>3
    <3> QED
      BY <1>1, <1>3, <2>1, <2>3, <3>2, <3>3
  <2> QED
    BY <2>3, <2>4
<1>7. ASSUME ~NodeOf(s, i), NEW p \in DOMAIN L PROVE L[p] # i
  BY <1>1, <1>2, <1>3, <1>7 DEF Complete
<1> QED
  BY <1>2, <1>4, <1>6, <1>7

\* The iterator of a stream is not one of an earlier interval when the stream
\* has an event.
LEMMA IteratorIsFresh ==
  ASSUME Fits, Meeting, phase = "write", NEW i, i = written + 1, i \in 1 .. pos,
         NEW s \in Streams, s = program[i].stream, Opens(i) \/ Closes(i)
  PROVE  writer[s].curr <= Len(nodes[s]) + 1
<1>1. /\ pos \in 0 .. Len(program) /\ written \in Nat
      /\ ListFits(s) /\ Complete(s) /\ Pointed(s) /\ Moved(s) /\ StatusOf(s)
      /\ pos < Len(program) => EndsInterval(pos)
  BY DEF Meeting, Statuses, Places, StreamInv
<1>2. CASE nodes[s] # <<>>
  BY <1>1, <1>2 DEF Pointed
<1>3. CASE nodes[s] = <<>> /\ s = MpiStream
  BY <1>1, <1>3 DEF Moved
<1>4. CASE nodes[s] = <<>> /\ s # MpiStream
  <2>1. SUFFICES ASSUME writer[s].curr > 1 PROVE FALSE
    BY <1>1, <1>4 DEF StatusOf
  <2>2. PICK h \in 1 .. written : NodeOf(s, h)
    BY <1>1, <1>4, <2>1 DEF Moved
  <2>3. i \in Events /\ h \in 1 .. i - 1 /\ Events = 1 .. Len(program) /\ Len(program) \in Nat
    BY <1>1, <2>2, TraceFacts DEF Fits
  <2>4. PICK j \in Events : NodeOf(s, j) /\ Together(i, j)
    BY <1>4, <2>2, <2>3 DEF Fits, StreamsStayBusy
  <2>5. CASE j <= pos
    <3>1. ~InList(s, j)
      BY <1>4 DEF InList
    <3>2. PICK k \in j .. written : EndsInterval(k)
      BY <1>1, <1>4, <2>3, <2>4, <2>5, <3>1 DEF Complete
    <3>3. k \in Events /\ j <= k /\ k < i
      BY <1>1, <2>3, <2>4, <3>2
    <3> QED
      BY <2>4, <3>2, <3>3 DEF Together
  <2>6. CASE j > pos
    <3>1. pos < Len(program) /\ pos \in Events /\ i <= pos /\ pos < j
      BY <1>1, <2>3, <2>4, <2>6
    <3> QED
      BY <1>1, <2>4, <3>1 DEF Together
  <2> QED
    BY <1>1, <2>3, <2>4, <2>5, <2>6
<1> QED
  BY <1>2, <1>3, <1>4

\* What an event does to the status of its stream.
Passes(s, i) ==
  /\ writer' = [writer EXCEPT ![s] = writer'[s]] /\ StatusOf(s)'
  /\ writer'[s].filtering = IF IsFiltered(i) THEN Opens(i) ELSE writer[s].filtering
  /\ \/ ~NodeOf(s, i) /\ writer'[s].curr = writer[s].curr
     \/ NodeOf(s, i) /\ nodes[s][writer[s].curr] = i /\ writer'[s].curr = writer[s].curr + 1

\* An event of a region.
LEMMA NextEvent ==
  ASSUME Fits, Meeting, ~strayed, phase = "write", NEW i, i = written + 1, i \in 1 .. pos,
         NEW s, s = program[i].stream, Opens(i) \/ Closes(i), WriterSees(i), ProcessNextEvent(i)
  PROVE  /\ strayed' \in BOOLEAN
         /\ strayed' => Swapped
         /\ ~strayed' => Passes(s, i)
<1>1. /\ i \in Events /\ s \in Streams /\ ListFits(s) /\ StatusOf(s)
      /\ writer = [x \in Streams |-> writer[x]]
      /\ pos \in Nat
  BY TraceFacts DEF Fits, Meeting, Statuses, Places, StreamInv
<1>2. PICK W, L : W = writer[s] /\ L = nodes[s]
  OBVIOUS
<1>3. /\ NodeOf(s, i) <=> IsNode(i)
      /\ ~IsFiltered(i)
  BY <1>1, WriterSeesNodes
<1>4. /\ NodeOf(s, i) => /\ W.curr \in DOMAIN L
                         /\ ~Swapped => L[W.curr] = i
      /\ W.curr <= Len(L) + 1
  BY <1>1, <1>2, NextNode, IteratorIsFresh
<1>5. DOMAIN L = 1 .. Len(L) /\ Len(L) \in Nat /\ W.curr \in Nat \ {0}
  <2>1. L \in Seq(1 .. pos)
    BY <1>1, <1>2 DEF ListFits
  <2>2. W.curr \in Nat \ {0}
    BY <1>1, <1>2 DEF StatusOf
  <2> QED
    BY <2>1, <2>2
<1>6. /\ W = [curr |-> W.curr, onPath |-> W.onPath, stack |-> W.stack,
              last |-> W.last, open |-> W.open, filtering |-> W.filtering]
  BY <1>1, <1>2 DEF StatusOf
<1>7. ASSUME NEW onPath, writer' = [writer EXCEPT ![s] = OtherEvent(W, i, onPath)], ~IsNode(i)
      PROVE  Passes(s, i)
  <2>1. writer'[s] = OtherEvent(W, i, onPath)
    BY <1>1, <1>7
  <2>2. PICK o, t, k, e : OtherEvent(W, i, onPath)
                            = [W EXCEPT !.onPath = o, !.last = t, !.stack = k, !.open = e]
    BY DEF OtherEvent
  <2>3. /\ writer'[s].curr = W.curr /\ writer'[s].filtering = W.filtering
        /\ StatusOf(s)'
    BY <1>5, <1>6, <2>1, <2>2 DEF StatusOf
  <2> QED
    BY <1>1, <1>2, <1>3, <1>7, <2>1, <2>3 DEF Passes
<1>8. ASSUME writer' = [writer EXCEPT ![s] = NodeEvent(W, L, i)], IsNode(i), L[W.curr] = i
      PROVE  Passes(s, i)
  <2>1. writer'[s] = NodeEvent(W, L, i)
    BY <1>1, <1>8
  <2>2. PICK o, t, k, e : NodeEvent(W, L, i)
                            = [W EXCEPT !.curr = W.curr + 1, !.onPath = o, !.last = t,
                                        !.stack = k, !.open = e]
    BY DEF NodeEvent
  <2>3. writer'[s] = [curr |-> W.curr + 1, onPath |-> o, stack |-> k,
                      last |-> t, open |-> e, filtering |-> W.filtering]
    BY <1>6, <2>1, <2>2
  <2>4. writer'[s].curr = W.curr + 1 /\ writer'[s].filtering = W.filtering
    BY <2>3
  <2>5. W.curr + 1 \in Nat \ {0}
    BY <1>5
  <2>6. StatusOf(s)'
    BY <2>3, <2>5 DEF StatusOf
  <2> QED
    BY <1>1, <1>2, <1>3, <1>8, <2>1, <2>4, <2>6 DEF Passes
<1>9. CASE /\ W.curr = Len(L) + 1
           /\ writer' = [writer EXCEPT ![s] = OtherEvent(W, i, FALSE)]
           /\ strayed' = (strayed \/ IsNode(i))
  <2>1. ~IsNode(i)
    BY <1>3, <1>4, <1>5, <1>9
  <2> QED
    BY <1>7, <1>9, <2>1
<1>10. CASE /\ W.curr \in DOMAIN L
            /\ writer' = [writer EXCEPT ![s] = IF IsNode(i) THEN NodeEvent(W, L, i)
                                               ELSE OtherEvent(W, i, Counts(L[W.curr]))]
            /\ strayed' = (strayed \/ (IsNode(i) /\ L[W.curr] # i))
  <2>1. strayed' \in BOOLEAN /\ (strayed' <=> IsNode(i) /\ L[W.curr] # i)
    BY <1>10
  <2>2. CASE IsNode(i)
    <3>1. strayed' => Swapped
      BY <1>3, <1>4, <2>1, <2>2
    <3>2. ~strayed' => Passes(s, i)
      BY <1>8, <1>10, <2>1, <2>2
    <3> QED
      BY <2>1, <3>1, <3>2
  <2>3. CASE ~IsNode(i)
    BY <1>7, <1>10, <2>1, <2>3
  <2> QED
    BY <2>2, <2>3
<1>11. CASE /\ W.curr > Len(L) + 1 \/ (/\ W.curr \in DOMAIN L /\ IsNode(i)
                                       /\ program[L[W.curr]].region # program[i].region)
            /\ strayed' = TRUE
  <2>1. IsNode(i) /\ L[W.curr] # i
    BY <1>4, <1>5, <1>11
  <2> QED
    BY <1>3, <1>4, <1>11, <2>1
<1> QED
  BY <1>2, <1>9, <1>10, <1>11 DEF ProcessNextEvent

\* Unless nodes are exchanged, the writer passes over an event in step.
LEMMA NextWritten ==
  ASSUME WriterInv, Write, NEW i, i = written + 1, NEW s, s = program[i].stream
  PROVE  /\ strayed' \in BOOLEAN
         /\ strayed' => Swapped
         /\ ~strayed' => Passes(s, i)
<1>1. /\ Fits /\ Meeting /\ strayed = FALSE /\ phase = "write" /\ written < pos
      /\ Region(i) \/ TeamEnd(i) \/ Transfer(i) \/ WinDestroy(i)
  BY DEF WriterInv, Write
<1>2. /\ i \in 1 .. pos /\ i \in Events /\ s \in Streams
      /\ StatusOf(s) /\ writer = [x \in Streams |-> writer[x]]
  BY <1>1, TraceFacts DEF Fits, Meeting, Statuses, Places
<1>3. /\ NodeOf(s, i) <=> IsNode(i) /\ WriterSees(i)
      /\ WriterSees(i) => ~IsFiltered(i)
  BY <1>1, <1>2, WriterSeesNodes
<1>4. PICK W : W = writer[s]
  OBVIOUS
<1>5. /\ W = [curr |-> W.curr, onPath |-> W.onPath, stack |-> W.stack,
              last |-> W.last, open |-> W.open, filtering |-> W.filtering]
      /\ W.curr \in Nat \ {0}
  BY <1>2, <1>4 DEF StatusOf
<1>6. ASSUME program[i].rec \notin {"enter", "leave", "fork", "join"}
      PROVE  ~IsNode(i) /\ ~IsFiltered(i)
  BY <1>6 DEF IsNode, Opens, Closes, IsFiltered
<1>7. CASE Region(i)
  <2>1. Opens(i) \/ Closes(i)
    BY <1>7 DEF Region, Opens, Closes
  <2>2. CASE WriterSees(i)
    BY <1>1, <1>2, <1>7, <2>1, <2>2, NextEvent DEF Region
  <2>3. CASE ~WriterSees(i)
    <3>1. /\ writer' = [writer EXCEPT ![s].filtering = IF IsFiltered(i) THEN Opens(i) ELSE @]
          /\ strayed' = strayed
      BY <1>7, <2>3 DEF Region
    <3>2. writer'[s] = [W EXCEPT !.filtering = IF IsFiltered(i) THEN Opens(i) ELSE W.filtering]
      BY <1>2, <1>4, <3>1
    <3>3. /\ writer'[s].curr = W.curr
          /\ writer'[s].filtering = IF IsFiltered(i) THEN Opens(i) ELSE W.filtering
          /\ StatusOf(s)'
      BY <1>5, <3>2 DEF StatusOf
    <3>4. writer' = [writer EXCEPT ![s] = writer'[s]]
      BY <1>2, <3>1
    <3>5. Passes(s, i)
      BY <1>3, <1>4, <2>3, <3>3, <3>4 DEF Passes
    <3> QED
      BY <1>1, <3>1, <3>5
  <2> QED
    BY <2>2, <2>3
<1>8. CASE TeamEnd(i) \/ WinDestroy(i)
  <2>1. writer' = [writer EXCEPT ![s].last = time[i]] /\ strayed' = strayed
    BY <1>8 DEF TeamEnd, WinDestroy
  <2>2. writer'[s] = [W EXCEPT !.last = time[i]]
    BY <1>2, <1>4, <2>1
  <2>3. writer'[s].curr = W.curr /\ writer'[s].filtering = W.filtering /\ StatusOf(s)'
    BY <1>5, <2>2 DEF StatusOf
  <2>4. writer' = [writer EXCEPT ![s] = writer'[s]]
    BY <1>2, <2>1
  <2>5. ~IsNode(i) /\ ~IsFiltered(i)
    BY <1>6, <1>8 DEF TeamEnd, WinDestroy
  <2>6. Passes(s, i)
    BY <1>3, <1>4, <2>3, <2>4, <2>5 DEF Passes
  <2> QED
    BY <1>1, <2>1, <2>6
<1>9. CASE Transfer(i)
  <2>1. writer' = writer /\ strayed' = strayed
    BY <1>9 DEF Transfer
  <2>2. writer' = [writer EXCEPT ![s] = writer'[s]] /\ StatusOf(s)'
    BY <1>2, <2>1 DEF StatusOf
  <2>3. ~IsNode(i) /\ ~IsFiltered(i)
    BY <1>6, <1>9 DEF Transfer
  <2>4. Passes(s, i)
    BY <1>3, <2>1, <2>2, <2>3 DEF Passes
  <2> QED
    BY <1>1, <2>1, <2>4
<1> QED
  BY <1>1, <1>7, <1>8, <1>9

\* Write keeps the invariant.
LEMMA WriteKeepsInv ==
  ASSUME WriterInv, Write PROVE WriterInv'
<1>1. PICK i : i = written + 1
  OBVIOUS
<1>2. PICK s : s = program[i].stream
  OBVIOUS
<1>3. /\ Fits /\ Meeting /\ phase = "write" /\ written < pos /\ written' = i
      /\ UNCHANGED <<program, time, phase, pos, nodes, made, atomic, filtering>>
  BY <1>1 DEF WriterInv, Write, readerVars
<1>4. /\ written \in Nat /\ pos \in Nat /\ i \in 1 .. pos /\ i \in Events /\ i - 1 = written
      /\ s \in Streams
  BY <1>1, <1>2, <1>3, TraceFacts DEF Fits, Meeting, Places
<1>5. strayed' \in BOOLEAN /\ (strayed' => Swapped) /\ (~strayed' => Passes(s, i))
  BY <1>1, <1>2, NextWritten
<1>6. strayed' => Swapped'
  BY <1>3, <1>5, SwappedStays
<1>7. /\ \A x, y : NodeOf(x, y)' <=> NodeOf(x, y)
      /\ \A x, y : Inside(x, y)' <=> Inside(x, y)
      /\ \A y : EndsInterval(y)' <=> EndsInterval(y)
  BY <1>3, ProgramStays
<1>8. ASSUME Passes(s, i) PROVE Meeting'
  <2>1. /\ writer = [x \in Streams |-> writer[x]] /\ \A x \in Streams : StatusOf(x)
        /\ writer' = [writer EXCEPT ![s] = writer'[s]] /\ StatusOf(s)'
    BY <1>3, <1>8 DEF Meeting, Statuses, Passes
  <2>2. \A x \in Streams : x # s => writer'[x] = writer[x]
    BY <1>4, <2>1
  <2>3. Statuses'
    <3>1. \A x \in Streams : StatusOf(x)'
      BY <2>1, <2>2 DEF StatusOf
    <3>2. writer' = [x \in Streams |-> writer'[x]]
      BY <1>4, <2>1
    <3> QED
      BY <3>1, <3>2 DEF Statuses
  <2>4. Places'
    <3>1. i \in 0 .. pos /\ 1 .. written \subseteq 1 .. i
      BY <1>1, <1>4
    <3> QED
      BY <1>3, <1>7, <3>1 DEF Meeting, Places
  <2>5. ASSUME NEW x \in Streams PROVE writer'[x].filtering = Inside(x, i)
    <3>1. Inside(x, i) <=> IF program[i].stream = x /\ IsFiltered(i) THEN Opens(i)
                                                                    ELSE Inside(x, i - 1)
      BY <1>4, InsideAfter
    <3>2. writer[x].filtering = Inside(x, written)
      BY <1>3 DEF Meeting, FiltersAgree
    <3>3. CASE x = s
      <4>1. CASE IsFiltered(i)
        <5>1. Inside(x, i) <=> Opens(i)
          BY <1>2, <3>1, <3>3, <4>1
        <5>2. Inside(x, i) = Opens(i)
          <6>1. CASE Opens(i)
            <7>1. Inside(x, i) = TRUE
              BY <5>1, <6>1 DEF Inside
            <7>2. Opens(i) = TRUE
              BY <6>1 DEF Opens
            <7> QED
              BY <7>1, <7>2, Zenon
          <6>2. CASE ~Opens(i)
            <7>1. Inside(x, i) = FALSE
              BY <5>1, <6>2 DEF Inside
            <7>2. Opens(i) = FALSE
              BY <6>2 DEF Opens
            <7> QED
              BY <7>1, <7>2, Zenon
          <6> QED
            BY <6>1, <6>2
        <5>3. writer'[x].filtering = Opens(i)
          BY <1>8, <3>3, <4>1 DEF Passes
        <5> QED
          BY <5>2, <5>3, Zenon
      <4>2. CASE ~IsFiltered(i)
        <5>1. Inside(x, i) <=> Inside(x, written)
          BY <1>4, <3>1, <4>2
        <5>2. Inside(x, i) = Inside(x, written)
          BY <5>1 DEF Inside
        <5>3. writer'[x].filtering = writer[x].filtering
          BY <1>8, <3>3, <4>2 DEF Passes
        <5> QED
          BY <3>2, <5>2, <5>3, Zenon
      <4> QED
        BY <4>1, <4>2
    <3>4. CASE x # s
      <4>1. Inside(x, i) = Inside(x, written)
        BY <1>2, <1>4, <3>1, <3>4 DEF Inside
      <4> QED
        BY <2>2, <3>2, <3>4, <4>1, Zenon
    <3> QED
      BY <3>3, <3>4
  <2>6. FiltersAgree'
    <3>1. filtering' = {x \in Streams : Inside(x, pos)'}
      <4>1. {x \in Streams : Inside(x, pos)'} = {x \in Streams : Inside(x, pos)}
        BY <1>3, <1>7 DEF Inside
      <4> QED
        BY <1>3, <4>1 DEF Meeting, FiltersAgree
    <3>2. \A x : Inside(x, written)' = Inside(x, i)
      BY <1>3, <1>7 DEF Inside
    <3> QED
      BY <2>5, <3>1, <3>2, Zenon DEF FiltersAgree
  <2>7. ASSUME NEW x \in Streams PROVE StreamInv(x)'
    <3>1. /\ ListFits(x) /\ Complete(x) /\ Sorted(x) /\ Pointed(x) /\ Moved(x)
          /\ StatusOf(x)
      BY <1>3, <2>1 DEF Meeting, StreamInv
    <3>2. ListFits(x)' /\ Sorted(x)' /\ Begins(x)'
      BY <1>3, <3>1, SwappedStays DEF ListFits, Sorted, Begins
    <3>3. PICK L \in Seq(1 .. pos) : L = nodes[x]
      BY <3>1 DEF ListFits
    <3>4. DOMAIN L = 1 .. Len(L) /\ Len(L) \in Nat /\ \A p \in DOMAIN L : L[p] \in 1 .. pos
      BY <1>4, <3>3, ElementsOfList
    <3>5. Complete(x)'
      <4>1. \A p \in DOMAIN L : L[p] > i => NodeOf(x, L[p])
        BY <1>1, <1>4, <3>1, <3>3, <3>4 DEF Complete
      <4>2. \A j \in 1 .. pos : NodeOf(x, j) =>
              \/ InList(x, j)
              \/ j <= i /\ (x = MpiStream \/ \E k \in j .. i : EndsInterval(k))
        <5>1. \A j \in 1 .. pos : j .. written \subseteq j .. i /\ (j <= written => j <= i)
          BY <1>1, <1>4
        <5> QED
          BY <3>1, <5>1 DEF Complete
      <4> QED
        BY <1>3, <1>7, <3>3, <4>1, <4>2 DEF Complete, InList
    <3>6. /\ ~NodeOf(x, i) => (\A p \in DOMAIN L : L[p] # i) /\ writer'[x].curr = writer[x].curr
          /\ NodeOf(x, i) => /\ x = s /\ writer[x].curr \in DOMAIN L /\ L[writer[x].curr] = i
                             /\ writer'[x].curr = writer[x].curr + 1
      <4>1. NodeOf(x, i) => x = s
        BY <1>2 DEF NodeOf
      <4>2. /\ ~NodeOf(x, i) => \A p \in DOMAIN L : L[p] # i
            /\ NodeOf(x, i) => writer[x].curr \in DOMAIN L
        BY <1>1, <1>3, <1>4, <3>3, NextNode
      <4> QED
        BY <1>8, <2>2, <3>3, <4>1, <4>2 DEF Passes
    <3>7. PICK c \in Nat \ {0} : c = writer[x].curr
      BY <3>1 DEF StatusOf
    <3>8. PICK d : d = writer'[x].curr
      OBVIOUS
    <3>9. Pointed(x)'
      <4>1. SUFFICES ASSUME L # <<>>
                     PROVE  d <= Len(L) + 1 /\ \A p \in DOMAIN L : p < d <=> L[p] <= i
        BY <1>3, <3>3, <3>8 DEF Pointed
      <4>2. c <= Len(L) + 1 /\ \A p \in DOMAIN L : p < c <=> L[p] <= written
        BY <1>3, <3>1, <3>3, <3>7, <4>1 DEF Pointed
      <4>3. CASE ~NodeOf(x, i)
        <5>1. d = c /\ \A p \in DOMAIN L : L[p] # i
          BY <3>6, <3>7, <3>8, <4>3
        <5> QED
          BY <1>1, <1>4, <3>4, <4>2, <5>1
      <4>4. CASE NodeOf(x, i)
        <5>1. d = c + 1 /\ c \in DOMAIN L /\ L[c] = i
          BY <3>6, <3>7, <3>8, <4>4
        <5>2. ASSUME NEW p \in DOMAIN L PROVE p < d <=> L[p] <= i
          <6>1. L[p] = i => p = c
            BY <3>1, <3>3, <5>1 DEF ListFits
          <6>2. p < c <=> L[p] <= written
            BY <4>2
          <6> QED
            BY <1>1, <1>4, <3>4, <5>1, <6>1, <6>2
        <5> QED
          BY <3>4, <5>1, <5>2
      <4> QED
        BY <4>3, <4>4
    <3>10. Moved(x)'
      <4>1. x = MpiStream /\ nodes[x] = <<>> => d = 1
        <5>1. nodes[x] = <<>> => ~NodeOf(x, i)
          BY <3>3, <3>4, <3>6
        <5> QED
          BY <3>1, <3>6, <3>8, <5>1 DEF Moved
      <4>2. x # MpiStream /\ d > 1 => \E y \in 1 .. i : NodeOf(x, y)
        <5>1. 1 .. written \subseteq 1 .. i /\ i \in 1 .. i
          BY <1>1, <1>4
        <5> QED
          BY <3>1, <3>6, <3>8, <5>1 DEF Moved
      <4> QED
        BY <1>3, <1>7, <3>8, <4>1, <4>2 DEF Moved
    <3> QED
      BY <3>2, <3>5, <3>9, <3>10 DEF StreamInv
  <2> QED
    BY <2>3, <2>4, <2>6, <2>7 DEF Meeting
<1> QED
  BY <1>3, <1>5, <1>6, <1>8, ProgramStays DEF WriterInv

-----------------------------------------------------------------------------
(***************************************************************************)
(* The theorems.                                                           *)
(***************************************************************************)
\* The invariant is one, for traces that satisfy the two hypotheses.
LEMMA WriterInvariant ==
  Spec /\ FiltersFit /\ StreamsStayBusy => []WriterInv
<1>1. Init /\ FiltersFit /\ StreamsStayBusy => WriterInv
  BY InitWriterInv
<1>2. WriterInv /\ [Next]_vars => WriterInv'
  BY ReadKeepsInv, MarkKeepsInv, LocationsKeepInv, WriteKeepsInv, BeginKeepsInv,
     FinalizeKeepsInv, NothingKeepsInv DEF Next, Finished
<1> QED
  BY <1>1, <1>2, PTL DEF Spec

\* In its second pass over the events the writer finds the node of an event as
\* the next one of its stream, in every interval and whatever the analysis has
\* put into the graph, and at the end of an interval all nodes are used up: it
\* pairs them with the events by nothing but their number.  Three things can
\* spoil this: nodes of two paradigms at one time, which the comparison of
\* nodes exchanges (Swapped), filtered regions of a paradigm, and a stream the
\* iterator of which is left from an earlier interval.
THEOREM WriterMeetsItsNodes ==
  Spec /\ FiltersFit /\ StreamsStayBusy => []WriterMeetsNodes
<1>1. WriterInv => WriterMeetsNodes
  <2>1. SUFFICES ASSUME WriterInv, phase = "write", written = pos, ~strayed,
                        NEW s \in Streams, nodes[s] # <<>>
                 PROVE  writer[s].curr = Len(nodes[s]) + 1
    BY DEF WriterMeetsNodes, WriterInv
  <2>2. ListFits(s) /\ Pointed(s) /\ StatusOf(s) /\ pos \in Nat
    BY <2>1 DEF WriterInv, Meeting, Statuses, Places, StreamInv
  <2>3. PICK L \in Seq(1 .. pos) : L = nodes[s]
    BY <2>2 DEF ListFits
  <2>4. /\ DOMAIN L = 1 .. Len(L) /\ Len(L) \in Nat /\ L # <<>>
        /\ \A p \in DOMAIN L : L[p] \in 1 .. pos
    BY <2>1, <2>2, <2>3, ElementsOfList
  <2>5. PICK c \in Nat \ {0} : c = writer[s].curr
    BY <2>2 DEF StatusOf
  <2>6. c <= Len(L) + 1 /\ \A p \in DOMAIN L : p < c <=> L[p] <= written
    BY <2>1, <2>2, <2>3, <2>4, <2>5 DEF Pointed
  <2>7. Len(L) \in DOMAIN L /\ L[Len(L)] <= written
    BY <2>1, <2>2, <2>4
  <2>8. c = Len(L) + 1
    BY <2>4, <2>6, <2>7
  <2> QED
    BY <2>3, <2>5, <2>8
<1> QED
  BY <1>1, WriterInvariant, PTL

-----------------------------------------------------------------------------
(***************************************************************************)
(* The use of the device: what a trace has to be like.                     *)
(***************************************************************************)

\* Tasks of the devices that have begun, or ended, by the i-th event.
Tasks(recs, i) ==
  Cardinality({j \in 1 .. i : program[j].stream \in Devices /\ program[j].rec \in recs})
Kernels(i) == Tasks({"enter"}, i) - Tasks({"leave"}, i)
Transfers(i) == Tasks({"get"}, i) - Tasks({"complete"}, i)

CallsDevice(i) == IsNode(i) /\ ParadigmOf(i) = 1
OnDevice(i, recs) == program[i].stream \in Devices /\ program[i].rec \in recs

\* Regions on the stream of a device are kernels, and only these are; and
\* transfers are on such streams, too.
TasksOnDevices ==
  \A i \in Events :
    /\ OnDevice(i, {"enter", "leave"}) <=> IsNode(i) /\ program[i].kind = "kernel"
    /\ program[i].rec \in {"get", "complete"} => program[i].stream \in Devices

\* No call of the device is in a filtered region.
CallsAreSeen ==
  \A i \in Events : CallsDevice(i) => ~IsFiltered(i) /\ ~Inside(program[i].stream, i - 1)

\* The program has called the device before data is transferred.
CallsComeFirst ==
  \A i \in Events : program[i].rec \in {"get", "complete"} => \E j \in 1 .. i : CallsDevice(j)

\* A task ends after it has begun, and before the device is used for the last time.
TasksEnd ==
  \A i \in Events :
    /\ Kernels(i) >= 0 /\ Transfers(i) >= 0
    /\ (\A j \in DeviceEvents : j <= i) => Kernels(i) = 0 /\ Transfers(i) = 0

\* No window of a device is destroyed while the device is in use.
WindowsStay ==
  \A i \in Events : OnDevice(i, {"winDestroy"}) =>
    \A j, k \in DeviceEvents : ~(j < i /\ i < k)

DeviceTrace == TasksOnDevices /\ CallsAreSeen /\ CallsComeFirst /\ TasksEnd /\ WindowsStay

-----------------------------------------------------------------------------
(***************************************************************************)
(* The invariant of the device: a clock for each of the three times.  A    *)
(* clock has been stopped at value, or runs since start.                   *)
(***************************************************************************)
First == Min(DeviceEvents)
Final == Max(DeviceEvents)

StepLength == [i \in 1 .. (Len(program) - 1) |-> time[i + 1] - time[i]]
KernelFree == {i \in Events : Kernels(i) = 0}
Idle == {i \in Events : Kernels(i) = 0 /\ Transfers(i) = 0}
Transferring == {i \in Events : Transfers(i) > 0}

\* The time of the steps in Q, from the first use of the device to event n.
TimeOf(Q, n) == SumOver(StepLength, {i \in Q : First <= i /\ i < n})

Clock(value, start, Q, n) ==
  /\ value \in Int /\ start \in Nat
  /\ n \in Q => start <= time[n] /\ value + time[n] - start = TimeOf(Q, n)
  /\ n \notin Q => value = TimeOf(Q, n)

Counted(S, D, n) ==
  /\ Clock(S.computeIdle, D.computeIdleStart, KernelFree, n)
  /\ Clock(S.transfer, D.transferStart, Transferring, n)
  /\ Clock(S.idle, D.idleStart, Idle, n)

\* The device has counted the tasks.
Refers(D, n) == D.refs = Kernels(n) + Transfers(n) /\ D.computeRefs = Kernels(n)

Unused(D, S) ==
  /\ D.refs = -1 /\ D.computeRefs = -1 /\ D.last = 0 /\ D.transferStart \in Nat
  /\ S.idle = 0 /\ S.computeIdle = 0 /\ S.transfer = 0

\* The idle times are complete once the last event is counted.
Concluded(D, S) ==
  /\ D.last = 0
  /\ S.idle = TimeOf(Idle, Final) /\ S.computeIdle = TimeOf(KernelFree, Final)
  /\ S.transfer = TimeOf(Transferring, Final)

\* The device before, in and after its use, when n events are written.
DeviceState(D, S, n) ==
  \/ Unused(D, S) /\ \A j \in DeviceEvents : n < j
  \/ /\ DeviceEvents # {} /\ First <= n /\ n < Final
     /\ Refers(D, n) /\ Counted(S, D, n)
  \/ /\ DeviceEvents # {} /\ Final <= n
     /\ Concluded(D, S) \/ (D.last = time[Final] /\ Counted(S, D, Final))

IsDevice(D) ==
  D = [refs |-> D.refs, computeRefs |-> D.computeRefs, idleStart |-> D.idleStart,
       computeIdleStart |-> D.computeIdleStart, first |-> D.first, last |-> D.last,
       transferStart |-> D.transferStart]
IsStats(S) == S = [idle |-> S.idle, computeIdle |-> S.computeIdle, transfer |-> S.transfer]

\* The writer knows which streams are inside a filtered region.
FieldsOf(s) ==
  writer[s] = [curr |-> writer[s].curr, onPath |-> writer[s].onPath, stack |-> writer[s].stack,
               last |-> writer[s].last, open |-> writer[s].open, filtering |-> writer[s].filtering]
WriterFilters ==
  /\ writer = [s \in Streams |-> writer[s]]
  /\ \A s \in Streams : FieldsOf(s) /\ (writer[s].filtering <=> Inside(s, written))

DeviceInv ==
  /\ Trace /\ DeviceTrace
  /\ pos \in 0 .. Len(program) /\ written \in 0 .. pos
  /\ phase = "read" => pos < Len(program)
  /\ strayed \in BOOLEAN
  /\ strayed => phase = "write"
  /\ phase = "done" => written = Len(program)
  /\ ~strayed => /\ WriterFilters
                 /\ IsDevice(device) /\ IsStats(stats)
                 /\ DeviceState(device, stats, written)
  /\ phase = "done" /\ DeviceEvents # {} => Concluded(device, stats)

-----------------------------------------------------------------------------
(***************************************************************************)
(* Facts about the operators of the device.                                *)
(***************************************************************************)
\* Max is the greatest element of a set of numbers.
LEMMA MaxIsGreatest ==
  ASSUME NEW T \in SUBSET Nat, T # {}, NEW b \in Nat, \A n \in T : n <= b
  PROVE  Max(T) \in T /\ \A n \in T : n <= Max(T)
<1>1. \E m \in T : \A n \in T : n <= m
  BY GreatestNat
<1>2. \A m, n \in T : n <= m <=> m >= n
  OBVIOUS
<1> QED
  BY <1>1, <1>2 DEF Max

\* The total of a set of steps is a sum as FiniteSums has it.
LEMMA TotalIsSum ==
  ASSUME NEW S \in SUBSET (1 .. (Len(program) - 1)), Len(program) \in Nat
  PROVE  MapThenSumSet(LAMBDA i : time[i + 1] - time[i], S) = SumOver(StepLength, S)
<1>1. IsFiniteSet(S)
  <2>1. IsFiniteSet(1 .. (Len(program) - 1))
    BY FS_Interval
  <2> QED
    BY <2>1, FS_Subset
<1>2. PICK g : g = StepLength
  OBVIOUS
<1> DEFINE Part(s) == time[AnyOf(s) + 1] - time[AnyOf(s)]
           Rule(j) == j = [s \in SUBSET S |-> IF s = {} THEN 0 ELSE Part(s) + j[s \ {AnyOf(s)}]]
<1>3. PICK i : i = CHOOSE j : Rule(j)
  OBVIOUS
<1>4. MapThenSumSet(LAMBDA j : time[j + 1] - time[j], S) = (CHOOSE j : Rule(j))[S]
  BY DEF MapThenSumSet, MapThenFoldSet, AnyOf
<1>5. ASSUME NEW s \in SUBSET S, s # {} PROVE Part(s) = g[AnyOf(s)]
  <2>1. PICK x : x = AnyOf(s)
    OBVIOUS
  <2>2. x \in 1 .. (Len(program) - 1)
    BY <1>5, <2>1, AnyOfIsThere
  <2> QED
    BY <1>2, <2>1, <2>2 DEF StepLength
<1>6. ASSUME NEW j
      PROVE  [s \in SUBSET S |-> IF s = {} THEN 0 ELSE Part(s) + j[s \ {AnyOf(s)}]]
               = [s \in SUBSET S |-> IF s = {} THEN 0 ELSE g[AnyOf(s)] + j[s \ {AnyOf(s)}]]
  <2>1. \A s \in SUBSET S : (IF s = {} THEN 0 ELSE Part(s) + j[s \ {AnyOf(s)}])
                              = IF s = {} THEN 0 ELSE g[AnyOf(s)] + j[s \ {AnyOf(s)}]
    BY <1>5
  <2> HIDE DEF Part
  <2> QED
    BY <2>1
<1>7. PICK iter : AddsUp(iter, g, S)
  BY <1>1, AddsUpExists
<1>8. Rule(iter)
  BY <1>6, <1>7 DEF AddsUp
<1>9. Rule(i)
  <2> HIDE DEF Rule
  <2> QED
    BY <1>3, <1>8
<1>10. AddsUp(i, g, S)
  BY <1>6, <1>9 DEF AddsUp
<1>11. SumOver(g, S) = i[S]
  BY <1>1, <1>10, SumOverIs
<1>12. MapThenSumSet(LAMBDA j : time[j + 1] - time[j], S) = i[S]
  BY <1>3, <1>4, Zenon
<1> QED
  BY <1>2, <1>11, <1>12, Zenon

\* The events that use the device are events; a nonempty set of them has a
\* first and a last one.
LEMMA DeviceEventsFacts ==
  ASSUME Trace, DeviceEvents # {}
  PROVE  /\ First \in DeviceEvents /\ Final \in DeviceEvents
         /\ First \in Events /\ Final \in Events /\ First \in Nat \ {0} /\ Final \in Nat
         /\ \A i \in DeviceEvents : First <= i /\ i <= Final
<1>1. Len(program) \in Nat /\ Events = 1 .. Len(program)
  BY TraceFacts
<1>2. DeviceEvents \subseteq Events
  BY DEF DeviceEvents
<1>3. DeviceEvents \in SUBSET Nat /\ \A i \in DeviceEvents : i <= Len(program)
  BY <1>1, <1>2
<1>4. First \in DeviceEvents /\ \A i \in DeviceEvents : First <= i
  BY <1>3, MinIsLeast DEF First
<1>5. Final \in DeviceEvents /\ \A i \in DeviceEvents : i <= Final
  BY <1>1, <1>3, MaxIsGreatest DEF Final
<1> QED
  BY <1>1, <1>2, <1>4, <1>5

\* An event is counted once.
LEMMA TasksAfter ==
  ASSUME NEW recs, NEW i \in Nat \ {0}
  PROVE  /\ Tasks(recs, i) = Tasks(recs, i - 1) + IF OnDevice(i, recs) THEN 1 ELSE 0
         /\ Tasks(recs, i) \in Nat /\ Tasks(recs, i - 1) \in Nat
<1>1. PICK A : A = {j \in 1 .. i : program[j].stream \in Devices /\ program[j].rec \in recs}
  OBVIOUS
<1>2. PICK B : B = {j \in 1 .. (i - 1) : program[j].stream \in Devices /\ program[j].rec \in recs}
  OBVIOUS
<1>3. 1 .. i = 1 .. (i - 1) \cup {i} /\ i \notin 1 .. (i - 1) /\ i - 1 \in Nat
  OBVIOUS
<1>4. A = IF OnDevice(i, recs) THEN B \cup {i} ELSE B
  <2>1. CASE OnDevice(i, recs)
    BY <1>1, <1>2, <1>3, <2>1 DEF OnDevice
  <2>2. CASE ~OnDevice(i, recs)
    BY <1>1, <1>2, <1>3, <2>2 DEF OnDevice
  <2> QED
    BY <2>1, <2>2
<1>5. IsFiniteSet(B) /\ i \notin B
  <2>1. IsFiniteSet(1 .. (i - 1))
    BY <1>3, FS_Interval
  <2>2. B \subseteq 1 .. (i - 1)
    BY <1>2
  <2> QED
    BY <1>3, <2>1, <2>2, FS_Subset
<1>6. Cardinality(B) \in Nat /\ Cardinality(B \cup {i}) = Cardinality(B) + 1
  BY <1>5, FS_CardinalityType, FS_AddElement
<1>7. Tasks(recs, i) = Cardinality(A) /\ Tasks(recs, i - 1) = Cardinality(B)
  BY <1>1, <1>2 DEF Tasks
<1> QED
  BY <1>4, <1>6, <1>7

\* What an event makes of the number of tasks.
LEMMA TasksOfEvent ==
  ASSUME Trace, DeviceTrace, NEW i \in Events
  PROVE  /\ Kernels(i) \in Nat /\ Transfers(i) \in Nat
         /\ Kernels(i - 1) \in Int /\ Transfers(i - 1) \in Int
         /\ OnDevice(i, {"enter"}) => Kernels(i) = Kernels(i - 1) + 1 /\ Transfers(i) = Transfers(i - 1)
         /\ OnDevice(i, {"leave"}) => Kernels(i) = Kernels(i - 1) - 1 /\ Transfers(i) = Transfers(i - 1)
         /\ OnDevice(i, {"get"}) => Kernels(i) = Kernels(i - 1) /\ Transfers(i) = Transfers(i - 1) + 1
         /\ OnDevice(i, {"complete"}) => Kernels(i) = Kernels(i - 1) /\ Transfers(i) = Transfers(i - 1) - 1
         /\ ~OnDevice(i, {"enter", "leave", "get", "complete"}) =>
              Kernels(i) = Kernels(i - 1) /\ Transfers(i) = Transfers(i - 1)
<1>1. i \in Nat \ {0}
  BY TraceFacts
<1>2. Kernels(i) >= 0 /\ Transfers(i) >= 0
  BY DEF DeviceTrace, TasksEnd
<1>3. /\ OnDevice(i, {"enter"}) => ~OnDevice(i, {"leave"}) /\ ~OnDevice(i, {"get"}) /\ ~OnDevice(i, {"complete"})
      /\ OnDevice(i, {"leave"}) => ~OnDevice(i, {"get"}) /\ ~OnDevice(i, {"complete"})
      /\ OnDevice(i, {"get"}) => ~OnDevice(i, {"complete"})
      /\ \/ OnDevice(i, {"enter", "leave", "get", "complete"})
         \/ /\ ~OnDevice(i, {"enter"}) /\ ~OnDevice(i, {"leave"})
            /\ ~OnDevice(i, {"get"}) /\ ~OnDevice(i, {"complete"})
  BY DEF OnDevice
<1> DEFINE Step(recs) == IF OnDevice(i, recs) THEN 1 ELSE 0
<1>4. /\ Kernels(i) = Kernels(i - 1) + Step({"enter"}) - Step({"leave"})
      /\ Transfers(i) = Transfers(i - 1) + Step({"get"}) - Step({"complete"})
      /\ Kernels(i) \in Int /\ Kernels(i - 1) \in Int /\ Transfers(i) \in Int /\ Transfers(i - 1) \in Int
  <2>1. /\ Tasks({"enter"}, i) = Tasks({"enter"}, i - 1) + Step({"enter"})
        /\ Tasks({"enter"}, i) \in Nat /\ Tasks({"enter"}, i - 1) \in Nat
    BY <1>1, TasksAfter
  <2>2. /\ Tasks({"leave"}, i) = Tasks({"leave"}, i - 1) + Step({"leave"})
        /\ Tasks({"leave"}, i) \in Nat /\ Tasks({"leave"}, i - 1) \in Nat
    BY <1>1, TasksAfter
  <2>3. /\ Tasks({"get"}, i) = Tasks({"get"}, i - 1) + Step({"get"})
        /\ Tasks({"get"}, i) \in Nat /\ Tasks({"get"}, i - 1) \in Nat
    BY <1>1, TasksAfter
  <2>4. /\ Tasks({"complete"}, i) = Tasks({"complete"}, i - 1) + Step({"complete"})
        /\ Tasks({"complete"}, i) \in Nat /\ Tasks({"complete"}, i - 1) \in Nat
    BY <1>1, TasksAfter
  <2>5. \A recs : Step(recs) \in Nat
    OBVIOUS
  <2> HIDE DEF Step
  <2> QED
    BY <2>1, <2>2, <2>3, <2>4, <2>5 DEF Kernels, Transfers
<1>5. /\ OnDevice(i, {"enter"}) => Step({"enter"}) = 1 /\ Step({"leave"}) = 0 /\ Step({"get"}) = 0 /\ Step({"complete"}) = 0
      /\ OnDevice(i, {"leave"}) => Step({"enter"}) = 0 /\ Step({"leave"}) = 1 /\ Step({"get"}) = 0 /\ Step({"complete"}) = 0
      /\ OnDevice(i, {"get"}) => Step({"enter"}) = 0 /\ Step({"leave"}) = 0 /\ Step({"get"}) = 1 /\ Step({"complete"}) = 0
      /\ OnDevice(i, {"complete"}) => Step({"enter"}) = 0 /\ Step({"leave"}) = 0 /\ Step({"get"}) = 0 /\ Step({"complete"}) = 1
      /\ ~OnDevice(i, {"enter", "leave", "get", "complete"}) =>
           Step({"enter"}) = 0 /\ Step({"leave"}) = 0 /\ Step({"get"}) = 0 /\ Step({"complete"}) = 0
  BY <1>3
<1> HIDE DEF Step
<1> QED
  BY <1>2, <1>4, <1>5

\* The events of tasks use the device; other events do not change their number.
LEMMA TasksUseDevice ==
  ASSUME Trace, DeviceTrace, NEW i \in Events
  PROVE  /\ OnDevice(i, {"enter", "leave", "get", "complete"}) => i \in DeviceEvents
         /\ i \notin DeviceEvents => /\ Kernels(i) = Kernels(i - 1) /\ Transfers(i) = Transfers(i - 1)
                                     /\ ~CallsDevice(i)
<1>1. OnDevice(i, {"enter", "leave"}) => CallsDevice(i)
  BY DEF DeviceTrace, TasksOnDevices, CallsDevice, ParadigmOf
<1>2. OnDevice(i, {"enter", "leave", "get", "complete"}) =>
        OnDevice(i, {"enter", "leave"}) \/ program[i].rec \in {"get", "complete"}
  BY DEF OnDevice
<1>3. i \in DeviceEvents <=> CallsDevice(i) \/ program[i].rec \in {"get", "complete"}
  BY DEF DeviceEvents, CallsDevice
<1> QED
  BY <1>1, <1>2, <1>3, TasksOfEvent

\* Before the first use of the device there is no task.
LEMMA NoTasksBefore ==
  ASSUME Trace, DeviceTrace, NEW n \in Nat, n <= Len(program), \A j \in DeviceEvents : n < j
  PROVE  Kernels(n) = 0 /\ Transfers(n) = 0
<1>1. \A j \in 1 .. n : j \in Events /\ j \notin DeviceEvents
  BY TraceFacts
<1>2. \A j \in 1 .. n : ~OnDevice(j, {"enter", "leave", "get", "complete"})
  BY <1>1, TasksUseDevice
<1>3. ASSUME NEW recs \in SUBSET {"enter", "leave", "get", "complete"} PROVE Tasks(recs, n) = 0
  <2>1. {j \in 1 .. n : program[j].stream \in Devices /\ program[j].rec \in recs} = {}
    BY <1>2 DEF OnDevice
  <2> QED
    BY <2>1, FS_EmptySet DEF Tasks
<1>4. Tasks({"enter"}, n) = 0 /\ Tasks({"leave"}, n) = 0 /\ Tasks({"get"}, n) = 0 /\ Tasks({"complete"}, n) = 0
  BY <1>3
<1> QED
  BY <1>4 DEF Kernels, Transfers

-----------------------------------------------------------------------------
(***************************************************************************)
(* Clocks.                                                                 *)
(***************************************************************************)
\* The time of the steps up to an event, and up to the next one.
LEMMA TimeOfStep ==
  ASSUME Trace, DeviceEvents # {}, NEW Q \in SUBSET Events, NEW n \in Nat, First <= n, n + 1 \in Events
  PROVE  /\ TimeOf(Q, n) \in Int
         /\ TimeOf(Q, n + 1) = TimeOf(Q, n) + IF n \in Q THEN time[n + 1] - time[n] ELSE 0
<1>1. Len(program) \in Nat /\ Events = 1 .. Len(program) /\ First \in Nat \ {0}
  BY TraceFacts, DeviceEventsFacts
<1>2. PICK g : g = StepLength
  OBVIOUS
<1>3. \A i \in 1 .. (Len(program) - 1) : g[i] \in Int /\ g[i] = time[i + 1] - time[i]
  <2>1. ASSUME NEW i \in 1 .. (Len(program) - 1) PROVE time[i + 1] \in Nat /\ time[i] \in Nat
    <3>1. i \in Events /\ i + 1 \in Events
      BY <1>1
    <3> QED
      BY <3>1, TraceFacts
  <2>2. \A i \in 1 .. (Len(program) - 1) : g[i] = time[i + 1] - time[i]
    BY <1>2 DEF StepLength
  <2> QED
    BY <2>1, <2>2
<1>4. PICK A : A = {i \in Q : First <= i /\ i < n}
  OBVIOUS
<1>5. PICK B : B = {i \in Q : First <= i /\ i < n + 1}
  OBVIOUS
<1>6. A \subseteq 1 .. (n - 1) /\ n \in 1 .. (Len(program) - 1) /\ 1 .. (n - 1) \subseteq 1 .. (Len(program) - 1)
  <2>1. PICK f \in Nat \ {0}, l \in Nat : f = First /\ l = Len(program)
    BY <1>1
  <2>2. n \in 1 .. (l - 1) /\ 1 .. (n - 1) \subseteq 1 .. (l - 1)
    BY <1>1, <2>1
  <2>3. A \subseteq Nat /\ \A i \in A : f <= i /\ i < n
    <3>1. Q \subseteq Nat
      BY <1>1
    <3>2. A = {i \in Q : f <= i /\ i < n}
      BY <1>4, <2>1
    <3> QED
      BY <3>1, <3>2
  <2>4. A \subseteq 1 .. (n - 1)
    BY <2>1, <2>3
  <2> QED
    BY <2>1, <2>2, <2>4
<1>7. IsFiniteSet(A) /\ n \notin A
  <2>1. IsFiniteSet(1 .. (n - 1))
    BY FS_Interval
  <2>2. IsFiniteSet(A)
    BY <1>6, <2>1, FS_Subset
  <2>3. n \notin A
    BY <1>6
  <2> QED
    BY <2>2, <2>3
<1>8. B = IF n \in Q THEN A \cup {n} ELSE A
  <2>1. \A i \in Q : i < n + 1 <=> i < n \/ i = n
    BY <1>1
  <2>2. \A i \in Q : i \in B <=> i \in A \/ i = n
    BY <1>1, <1>4, <1>5, <2>1
  <2>3. A \subseteq Q /\ B \subseteq Q
    BY <1>4, <1>5
  <2>4. CASE n \in Q
    BY <2>2, <2>3, <2>4
  <2>5. CASE n \notin Q
    BY <2>2, <2>3, <2>5
  <2> QED
    BY <2>4, <2>5
<1>9. \A i \in A \cup {n} : g[i] \in Int
  BY <1>3, <1>6
<1>10. SumOver(g, A \cup {n}) = g[n] + SumOver(g, A)
  BY <1>7, <1>9, SumOverAdd
<1>11. SumOver(g, A) \in Int
  <2>1. \A i \in A : g[i] \in Int
    BY <1>9
  <2> QED
    BY <1>7, <2>1, SumOverTyped
<1>12. TimeOf(Q, n) = SumOver(g, A) /\ TimeOf(Q, n + 1) = SumOver(g, B)
  BY <1>2, <1>4, <1>5 DEF TimeOf
<1>13. PICK a, b, c :
         a \in Int /\ a = SumOver(g, A) /\ b = SumOver(g, B) /\ c = SumOver(g, A \cup {n})
  BY <1>11
<1>14. g[n] \in Int /\ g[n] = time[n + 1] - time[n]
  BY <1>3, <1>6
<1>15. c = g[n] + a
  BY <1>10, <1>13, Zenon
<1>16. a \in Int /\ TimeOf(Q, n) = a /\ TimeOf(Q, n + 1) = b
  BY <1>12, <1>13, Zenon
<1>17. CASE n \in Q
  <2>1. b = c
    BY <1>8, <1>13, <1>17
  <2> QED
    BY <1>14, <1>15, <1>16, <1>17, <2>1
<1>18. CASE n \notin Q
  <2>1. b = a
    BY <1>8, <1>13, <1>18
  <2> QED
    BY <1>16, <1>18, <2>1
<1> QED
  BY <1>17, <1>18

\* No time has passed at the first use of the device.
LEMMA TimeOfNothing ==
  ASSUME NEW Q \in SUBSET Events, DeviceEvents # {}, Trace PROVE TimeOf(Q, First) = 0
<1>1. PICK g : g = StepLength
  OBVIOUS
<1>2. {i \in Q : First <= i /\ i < First} = {}
  <2>1. Q \subseteq Nat /\ First \in Nat
    BY TraceFacts, DeviceEventsFacts
  <2>2. PICK f \in Nat : f = First
    BY <2>1
  <2>3. \A i \in Q : ~(f <= i /\ i < f)
    BY <2>1
  <2> QED
    BY <2>2, <2>3
<1>3. SumOver(g, {}) = 0
  BY SumOverEmpty
<1> QED
  BY <1>1, <1>2, <1>3 DEF TimeOf

\* What the event after the n-th may do to a clock.
Ticks(v, start, w, restart, Q, n) ==
  /\ w \in Int /\ restart \in Nat
  /\ n \in Q /\ n + 1 \in Q => w = v /\ restart = start
  /\ n \in Q /\ n + 1 \notin Q => w = v + time[n + 1] - start
  /\ n \notin Q /\ n + 1 \in Q => w = v /\ restart = time[n + 1]
  /\ n \notin Q /\ n + 1 \notin Q => w = v

\* Then the clock is right after that event.
LEMMA ClockTicks ==
  ASSUME Trace, DeviceEvents # {}, NEW Q \in SUBSET Events, NEW n \in Nat, First <= n, n + 1 \in Events,
         NEW v, NEW start, NEW w, NEW restart, Clock(v, start, Q, n), Ticks(v, start, w, restart, Q, n)
  PROVE  Clock(w, restart, Q, n + 1)
<1>1. /\ TimeOf(Q, n) \in Int
      /\ TimeOf(Q, n + 1) = TimeOf(Q, n) + IF n \in Q THEN time[n + 1] - time[n] ELSE 0
  BY TimeOfStep
<1>2. n \in Events /\ n \in Nat \ {0}
  <2>1. Events = 1 .. Len(program) /\ Len(program) \in Nat /\ First \in Nat \ {0}
    BY TraceFacts, DeviceEventsFacts
  <2> QED
    BY <2>1
<1>3. time[n] \in Nat /\ time[n + 1] \in Nat /\ time[n] <= time[n + 1]
  BY <1>2, TraceFacts
<1>4. PICK a \in Int, b \in Int : a = TimeOf(Q, n) /\ b = TimeOf(Q, n + 1)
  BY <1>1, <1>3
<1>5. PICK s \in Nat, t \in Nat : s = time[n] /\ t = time[n + 1]
  BY <1>3
<1>6. s <= t /\ b = a + IF n \in Q THEN t - s ELSE 0
  BY <1>1, <1>3, <1>4, <1>5
<1>7. /\ v \in Int /\ start \in Nat /\ w \in Int /\ restart \in Nat
      /\ n \in Q => start <= s /\ v + s - start = a
      /\ n \notin Q => v = a
  BY <1>4, <1>5 DEF Clock, Ticks
<1>8. /\ n \in Q /\ n + 1 \in Q => w = v /\ restart = start
      /\ n \in Q /\ n + 1 \notin Q => w = v + t - start
      /\ n \notin Q /\ n + 1 \in Q => w = v /\ restart = t
      /\ n \notin Q /\ n + 1 \notin Q => w = v
  BY <1>5 DEF Ticks
<1>9. /\ n + 1 \in Q => restart <= t /\ w + t - restart = b
      /\ n + 1 \notin Q => w = b
  <2>1. CASE n \in Q
    BY <1>6, <1>7, <1>8, <2>1
  <2>2. CASE n \notin Q
    BY <1>6, <1>7, <1>8, <2>2
  <2> QED
    BY <2>1, <2>2
<1> QED
  BY <1>4, <1>5, <1>7, <1>9 DEF Clock

\* A clock at the first use of the device.
LEMMA ClockStarts ==
  ASSUME Trace, DeviceEvents # {}, NEW Q \in SUBSET Events, NEW start \in Nat, First \in Q => start = time[First]
  PROVE  Clock(0, start, Q, First)
<1>1. time[First] \in Nat
  BY TraceFacts, DeviceEventsFacts
<1>2. PICK t \in Nat : t = time[First]
  BY <1>1
<1>3. TimeOf(Q, First) = 0
  BY TimeOfNothing
<1> QED
  BY <1>2, <1>3 DEF Clock

-----------------------------------------------------------------------------
(***************************************************************************)
(* What an event makes of the device, D, and of the statistics, S.         *)
(***************************************************************************)
BeginKernel(D, i) == TaskEnter(D, i, TRUE)
EndKernel(D, i) == TaskLeave(D, i, TRUE)
BeginTransfer(D, i) == TaskEnter(D, i, FALSE)
EndTransfer(D, i) == TaskLeave(D, i, FALSE)
KernelBegins(S, D, i) == EnterStats(S, D, i, TRUE)
KernelEnds(S, D, i) == LeaveStats(S, D, i, TRUE)
TransferBegins(S, D, i) == EnterStats(S, D, i, FALSE)
TransferEnds(S, D, i) == LeaveStats(S, D, i, FALSE)

Effect(D, S, i) ==
  /\ OnDevice(i, {"enter"}) =>
       /\ D = BeginKernel(ApiEvent(device, i), i)
       /\ S = KernelBegins(stats, ApiEvent(device, i), i)
  /\ OnDevice(i, {"leave"}) =>
       /\ D = EndKernel(ApiEvent(device, i), i)
       /\ S = KernelEnds(stats, ApiEvent(device, i), i)
  /\ OnDevice(i, {"get"}) =>
       D = BeginTransfer(device, i) /\ S = TransferBegins(stats, device, i)
  /\ OnDevice(i, {"complete"}) =>
       D = EndTransfer(device, i) /\ S = TransferEnds(stats, device, i)
  /\ OnDevice(i, {"winDestroy"}) =>
       D = FinalDevice(device) /\ S = FinalStats(stats, device)
  /\ CallsDevice(i) /\ ~OnDevice(i, {"enter", "leave"}) => D = ApiEvent(device, i) /\ S = stats
  /\ ~CallsDevice(i) /\ ~OnDevice(i, {"get", "complete", "winDestroy"}) =>
       D = device /\ S = stats

\* The writer sees the events of the device.
LEMMA WriteEffect ==
  ASSUME DeviceInv, Write, ~strayed', NEW i, i = written + 1
  PROVE  i \in Events /\ written \in Nat /\ i - 1 = written /\ Effect(device', stats', i)
<1>1. /\ written < pos /\ Trace /\ DeviceTrace /\ strayed = FALSE
      /\ Region(i) \/ TeamEnd(i) \/ Transfer(i) \/ WinDestroy(i)
  BY DEF Write, DeviceInv
<1>2. i \in Events /\ i - 1 = written /\ written \in Nat
  BY <1>1, TraceFacts DEF DeviceInv
<1>3. PICK s \in Streams : s = program[i].stream
  BY <1>1, <1>2, TraceFacts
<1>4. OnDevice(i, {"enter", "leave"}) <=> IsNode(i) /\ program[i].kind = "kernel"
  BY <1>1, <1>2 DEF DeviceTrace, TasksOnDevices
<1>5. OnDevice(i, {"enter", "leave"}) => CallsDevice(i)
  BY <1>4 DEF CallsDevice, ParadigmOf
<1>6. CASE Region(i)
  <2>1. ~OnDevice(i, {"get", "complete", "winDestroy"})
    BY <1>6 DEF Region, OnDevice
  <2>2. /\ OnDevice(i, {"enter"}) <=> program[i].stream \in Devices /\ program[i].rec = "enter"
        /\ OnDevice(i, {"leave"}) <=> program[i].stream \in Devices /\ program[i].rec = "leave"
        /\ ~OnDevice(i, {"get"}) /\ ~OnDevice(i, {"complete"}) /\ ~OnDevice(i, {"winDestroy"})
        /\ OnDevice(i, {"enter", "leave"}) <=> OnDevice(i, {"enter"}) \/ OnDevice(i, {"leave"})
    BY <2>1 DEF OnDevice
  <2>3. CASE WriterSees(i)
    <3>1. DeviceEvent(i)
      BY <1>1, <1>6, <2>3 DEF Region, ProcessNextEvent
    <3>2. PICK begun : begun = IF CallsDevice(i) THEN ApiEvent(device, i) ELSE device
      OBVIOUS
    <3>3. /\ OnDevice(i, {"enter"}) =>
               device' = BeginKernel(begun, i) /\ stats' = KernelBegins(stats, begun, i)
          /\ OnDevice(i, {"leave"}) =>
               device' = EndKernel(begun, i) /\ stats' = KernelEnds(stats, begun, i)
          /\ ~OnDevice(i, {"enter", "leave"}) => device' = begun /\ stats' = stats
      <4>1. PICK b : b = IF IsNode(i) /\ ParadigmOf(i) = 1 THEN ApiEvent(device, i) ELSE device
        OBVIOUS
      <4>2. b = begun
        BY <3>2, <4>1 DEF CallsDevice
      <4>3. CASE OnDevice(i, {"enter"})
        BY <2>2, <3>1, <4>1, <4>2, <4>3 DEF DeviceEvent, BeginKernel, KernelBegins, EndKernel, KernelEnds
      <4>4. CASE OnDevice(i, {"leave"})
        BY <2>2, <3>1, <4>1, <4>2, <4>4 DEF DeviceEvent, BeginKernel, KernelBegins, EndKernel, KernelEnds
      <4>5. CASE ~OnDevice(i, {"enter", "leave"})
        BY <2>2, <3>1, <4>1, <4>2, <4>5 DEF DeviceEvent, BeginKernel, KernelBegins, EndKernel, KernelEnds
      <4> QED
        BY <2>2, <4>3, <4>4, <4>5
    <3>4. CASE CallsDevice(i)
      <4>1. begun = ApiEvent(device, i)
        BY <3>2, <3>4
      <4> QED
        BY <1>2, <2>2, <3>3, <3>4, <4>1 DEF Effect
    <3>5. CASE ~CallsDevice(i)
      <4>1. begun = device /\ ~OnDevice(i, {"enter", "leave"})
        BY <1>5, <3>2, <3>5
      <4> QED
        BY <1>2, <2>2, <3>3, <3>5, <4>1 DEF Effect
    <3> QED
      BY <3>4, <3>5
  <2>4. CASE ~WriterSees(i)
    <3>1. device' = device /\ stats' = stats
      BY <1>6, <2>4 DEF Region
    <3>2. ~CallsDevice(i)
      <4>1. SUFFICES ASSUME CallsDevice(i) PROVE FALSE
        OBVIOUS
      <4>2. ~IsFiltered(i) /\ ~Inside(s, written)
        BY <1>1, <1>2, <1>3, <4>1 DEF DeviceTrace, CallsAreSeen
      <4>3. ~writer[s].filtering
        BY <1>1, <1>3, <4>2 DEF DeviceInv, WriterFilters
      <4> QED
        BY <1>3, <2>4, <4>2, <4>3 DEF WriterSees
    <3> QED
      BY <1>2, <1>5, <2>2, <3>1, <3>2 DEF Effect
  <2> QED
    BY <2>3, <2>4
<1>7. CASE TeamEnd(i)
  <2>1. /\ ~OnDevice(i, {"enter"}) /\ ~OnDevice(i, {"leave"}) /\ ~OnDevice(i, {"get"})
        /\ ~OnDevice(i, {"complete"}) /\ ~OnDevice(i, {"winDestroy"}) /\ ~CallsDevice(i)
        /\ device' = device /\ stats' = stats
    BY <1>7 DEF TeamEnd, OnDevice, CallsDevice, IsNode, Opens, Closes
  <2> QED
    BY <1>2, <2>1 DEF Effect
<1>8. CASE Transfer(i)
  <2>1. program[i].stream \in Devices
    BY <1>1, <1>2, <1>8 DEF Transfer, DeviceTrace, TasksOnDevices
  <2>2. /\ ~OnDevice(i, {"enter"}) /\ ~OnDevice(i, {"leave"}) /\ ~OnDevice(i, {"winDestroy"})
        /\ ~CallsDevice(i)
        /\ OnDevice(i, {"get", "complete", "winDestroy"})
        /\ OnDevice(i, {"get"}) <=> program[i].rec = "get"
        /\ OnDevice(i, {"complete"}) <=> program[i].rec = "complete"
    BY <1>8, <2>1 DEF Transfer, OnDevice, CallsDevice, IsNode, Opens, Closes
  <2>3. CASE program[i].rec = "get"
    BY <1>2, <1>8, <2>2, <2>3 DEF Effect, Transfer, BeginTransfer, TransferBegins, EndTransfer, TransferEnds
  <2>4. CASE program[i].rec = "complete"
    BY <1>2, <1>8, <2>2, <2>4 DEF Effect, Transfer, BeginTransfer, TransferBegins, EndTransfer, TransferEnds
  <2> QED
    BY <1>8, <2>3, <2>4 DEF Transfer
<1>9. CASE WinDestroy(i)
  <2>1. /\ ~OnDevice(i, {"enter"}) /\ ~OnDevice(i, {"leave"}) /\ ~OnDevice(i, {"get"})
        /\ ~OnDevice(i, {"complete"}) /\ ~CallsDevice(i)
        /\ OnDevice(i, {"winDestroy"}) <=> program[i].stream \in Devices
        /\ OnDevice(i, {"get", "complete", "winDestroy"}) <=> program[i].stream \in Devices
    BY <1>9 DEF WinDestroy, OnDevice, CallsDevice, IsNode, Opens, Closes
  <2>2. CASE program[i].stream \in Devices
    BY <1>2, <1>9, <2>1, <2>2 DEF Effect, WinDestroy
  <2>3. CASE program[i].stream \notin Devices
    BY <1>2, <1>9, <2>1, <2>3 DEF Effect, WinDestroy
  <2> QED
    BY <2>2, <2>3
<1> QED
  BY <1>1, <1>6, <1>7, <1>8, <1>9

\* What changes when a task begins or ends: E and R are the device and the
\* statistics after it.
KernelBegun(D, S, E, R, i) ==
  /\ IsDevice(E) /\ IsStats(R)
  /\ E.refs = D.refs + 1 /\ E.computeRefs = D.computeRefs + 1
  /\ E.idleStart = D.idleStart /\ E.computeIdleStart = D.computeIdleStart
  /\ E.transferStart = D.transferStart /\ E.last = time[i]
  /\ D.refs = 0 => R.idle = S.idle + time[i] - D.idleStart
  /\ D.refs # 0 => R.idle = S.idle
  /\ D.computeRefs = 0 => R.computeIdle = S.computeIdle + time[i] - D.computeIdleStart
  /\ D.computeRefs # 0 => R.computeIdle = S.computeIdle
  /\ R.transfer = S.transfer

TransferBegun(D, S, E, R, i) ==
  /\ IsDevice(E) /\ IsStats(R)
  /\ E.refs = D.refs + 1 /\ E.computeRefs = D.computeRefs
  /\ E.idleStart = D.idleStart /\ E.computeIdleStart = D.computeIdleStart
  /\ D.refs + 1 - D.computeRefs = 1 => E.transferStart = time[i]
  /\ D.refs + 1 - D.computeRefs # 1 => E.transferStart = D.transferStart
  /\ E.last = time[i]
  /\ D.refs = 0 => R.idle = S.idle + time[i] - D.idleStart
  /\ D.refs # 0 => R.idle = S.idle
  /\ R.computeIdle = S.computeIdle /\ R.transfer = S.transfer

KernelEnded(D, S, E, R, i) ==
  /\ IsDevice(E) /\ IsStats(R)
  /\ E.refs = D.refs - 1 /\ E.computeRefs = D.computeRefs - 1
  /\ D.refs = 1 => E.idleStart = time[i]
  /\ D.refs # 1 => E.idleStart = D.idleStart
  /\ D.computeRefs = 1 => E.computeIdleStart = time[i]
  /\ D.computeRefs # 1 => E.computeIdleStart = D.computeIdleStart
  /\ E.transferStart = D.transferStart /\ E.last = time[i]
  /\ R.idle = S.idle /\ R.computeIdle = S.computeIdle /\ R.transfer = S.transfer

TransferEnded(D, S, E, R, i) ==
  /\ IsDevice(E) /\ IsStats(R)
  /\ E.refs = D.refs - 1 /\ E.computeRefs = D.computeRefs
  /\ D.refs = 1 => E.idleStart = time[i]
  /\ D.refs # 1 => E.idleStart = D.idleStart
  /\ E.computeIdleStart = D.computeIdleStart
  /\ E.transferStart = D.transferStart /\ E.last = time[i]
  /\ R.idle = S.idle /\ R.computeIdle = S.computeIdle
  /\ D.refs - D.computeRefs = 1
                  => R.transfer = S.transfer + time[i] - D.transferStart
  /\ D.refs - D.computeRefs # 1
                  => R.transfer = S.transfer

\* A kernel begins.
LEMMA KernelBeginFields ==
  ASSUME NEW D, IsDevice(D), NEW S, IsStats(S), NEW i
  PROVE  KernelBegun(D, S, BeginKernel(D, i), KernelBegins(S, D, i), i)
<1>0. PICK E, R : E = BeginKernel(D, i) /\ R = KernelBegins(S, D, i)
  OBVIOUS
<1>1. /\ IsDevice(E)
      /\ E.refs = D.refs + 1 /\ E.computeRefs = D.computeRefs + 1
      /\ E.idleStart = D.idleStart /\ E.computeIdleStart = D.computeIdleStart
      /\ E.transferStart = D.transferStart /\ E.last = time[i]
  BY <1>0 DEF BeginKernel, TaskEnter, IsDevice
<1>2. /\ IsStats(R)
      /\ D.refs = 0 => R.idle = S.idle + time[i] - D.idleStart
      /\ D.refs # 0 => R.idle = S.idle
      /\ D.computeRefs = 0 => R.computeIdle = S.computeIdle + time[i] - D.computeIdleStart
      /\ D.computeRefs # 0 => R.computeIdle = S.computeIdle
      /\ R.transfer = S.transfer
  BY <1>0 DEF KernelBegins, EnterStats, IsStats
<1> QED
  BY <1>0, <1>1, <1>2 DEF KernelBegun

\* A transfer begins.
LEMMA TransferBeginFields ==
  ASSUME NEW D, IsDevice(D), NEW S, IsStats(S), NEW i
  PROVE  TransferBegun(D, S, BeginTransfer(D, i), TransferBegins(S, D, i), i)
<1>0. PICK E, R : E = BeginTransfer(D, i) /\ R = TransferBegins(S, D, i)
  OBVIOUS
<1>1. /\ IsDevice(E)
      /\ E.refs = D.refs + 1 /\ E.computeRefs = D.computeRefs
      /\ E.idleStart = D.idleStart /\ E.computeIdleStart = D.computeIdleStart
      /\ D.refs + 1 - D.computeRefs = 1 => E.transferStart = time[i]
      /\ D.refs + 1 - D.computeRefs # 1 => E.transferStart = D.transferStart
      /\ E.last = time[i]
  BY <1>0 DEF BeginTransfer, TaskEnter, IsDevice
<1>2. /\ IsStats(R)
      /\ D.refs = 0 => R.idle = S.idle + time[i] - D.idleStart
      /\ D.refs # 0 => R.idle = S.idle
      /\ R.computeIdle = S.computeIdle /\ R.transfer = S.transfer
  BY <1>0 DEF TransferBegins, EnterStats, IsStats
<1> QED
  BY <1>0, <1>1, <1>2 DEF TransferBegun

\* A kernel ends.
LEMMA KernelEndFields ==
  ASSUME NEW D, IsDevice(D), NEW S, IsStats(S), NEW i
  PROVE  KernelEnded(D, S, EndKernel(D, i), KernelEnds(S, D, i), i)
<1>0. PICK E, R : E = EndKernel(D, i) /\ R = KernelEnds(S, D, i)
  OBVIOUS
<1>1. /\ IsDevice(E)
      /\ E.refs = D.refs - 1 /\ E.computeRefs = D.computeRefs - 1
      /\ D.refs = 1 => E.idleStart = time[i]
      /\ D.refs # 1 => E.idleStart = D.idleStart
      /\ D.computeRefs = 1 => E.computeIdleStart = time[i]
      /\ D.computeRefs # 1 => E.computeIdleStart = D.computeIdleStart
      /\ E.transferStart = D.transferStart /\ E.last = time[i]
  BY <1>0 DEF EndKernel, TaskLeave, IsDevice
<1>2. IsStats(R) /\ R.idle = S.idle /\ R.computeIdle = S.computeIdle /\ R.transfer = S.transfer
  BY <1>0 DEF KernelEnds, LeaveStats, IsStats
<1> QED
  BY <1>0, <1>1, <1>2 DEF KernelEnded

\* A transfer ends.
LEMMA TransferEndFields ==
  ASSUME NEW D, IsDevice(D), NEW S, IsStats(S), NEW i
  PROVE  TransferEnded(D, S, EndTransfer(D, i), TransferEnds(S, D, i), i)
<1>0. PICK E, R : E = EndTransfer(D, i) /\ R = TransferEnds(S, D, i)
  OBVIOUS
<1>1. /\ IsDevice(E)
      /\ E.refs = D.refs - 1 /\ E.computeRefs = D.computeRefs
      /\ D.refs = 1 => E.idleStart = time[i]
      /\ D.refs # 1 => E.idleStart = D.idleStart
      /\ E.computeIdleStart = D.computeIdleStart
      /\ E.transferStart = D.transferStart /\ E.last = time[i]
  BY <1>0 DEF EndTransfer, TaskLeave, IsDevice
<1>2. /\ IsStats(R) /\ R.idle = S.idle /\ R.computeIdle = S.computeIdle
      /\ D.refs - D.computeRefs = 1
                      => R.transfer = S.transfer + time[i] - D.transferStart
      /\ D.refs - D.computeRefs # 1
                      => R.transfer = S.transfer
  BY <1>0 DEF TransferEnds, LeaveStats, IsStats
<1> QED
  BY <1>0, <1>1, <1>2 DEF TransferEnded

\* A call of the device begins its use, and is the last one so far.
LEMMA ApiEventFields ==
  ASSUME NEW D, IsDevice(D), NEW i, NEW E, E = ApiEvent(D, i), D.refs \in Int
  PROVE  /\ IsDevice(E)
         /\ D.refs >= 0 => /\ E.refs = D.refs /\ E.computeRefs = D.computeRefs
                           /\ E.idleStart = D.idleStart /\ E.computeIdleStart = D.computeIdleStart
                           /\ E.transferStart = D.transferStart
                           /\ program[i].kind = "kernel" => E = D
         /\ D.refs < 0 => /\ E.refs = 0 /\ E.computeRefs = 0
                          /\ E.idleStart = time[i] /\ E.computeIdleStart = time[i]
                          /\ E.transferStart = D.transferStart
         /\ program[i].kind # "kernel" => E.last = time[i]
<1>1. PICK B : B = IF D.refs < 0
                   THEN [D EXCEPT !.refs = 0, !.computeRefs = 0, !.idleStart = time[i],
                                  !.computeIdleStart = time[i], !.first = time[i]]
                   ELSE D
  OBVIOUS
<1>2. /\ IsDevice(B) /\ B.transferStart = D.transferStart
      /\ D.refs >= 0 => B = D
      /\ D.refs < 0 => /\ B.refs = 0 /\ B.computeRefs = 0
                       /\ B.idleStart = time[i] /\ B.computeIdleStart = time[i]
  <2>1. CASE D.refs < 0
    <3>1. B = [D EXCEPT !.refs = 0, !.computeRefs = 0, !.idleStart = time[i],
                        !.computeIdleStart = time[i], !.first = time[i]]
      BY <1>1, <2>1
    <3>2. B = [refs |-> 0, computeRefs |-> 0, idleStart |-> time[i], computeIdleStart |-> time[i],
               first |-> time[i], last |-> D.last, transferStart |-> D.transferStart]
      BY <3>1 DEF IsDevice
    <3> QED
      BY <2>1, <3>2 DEF IsDevice
  <2>2. CASE D.refs >= 0
    BY <1>1, <2>2
  <2> QED
    BY <2>1, <2>2
<1>3. E = IF program[i].kind = "kernel" THEN B ELSE [B EXCEPT !.last = time[i]]
  BY <1>1 DEF ApiEvent
<1>4. /\ IsDevice(E) /\ E.refs = B.refs /\ E.computeRefs = B.computeRefs /\ E.idleStart = B.idleStart
      /\ E.computeIdleStart = B.computeIdleStart /\ E.transferStart = B.transferStart
      /\ program[i].kind # "kernel" => E.last = time[i]
      /\ program[i].kind = "kernel" => E = B
  BY <1>2, <1>3 DEF IsDevice
<1> QED
  BY <1>2, <1>4

\* The end of the idle times.
LEMMA FinalFields ==
  ASSUME NEW D, IsDevice(D), NEW S, IsStats(S),
         NEW E, E = FinalDevice(D), NEW R, R = FinalStats(S, D)
  PROVE  /\ IsDevice(E) /\ IsStats(R) /\ E.last = 0 /\ R.transfer = S.transfer
         /\ E.refs = D.refs /\ E.computeRefs = D.computeRefs /\ E.transferStart = D.transferStart
         /\ D.last = 0 => R = S
         /\ D.last # 0 => /\ R.idle = S.idle + D.last - D.idleStart
                          /\ R.computeIdle = S.computeIdle + D.last - D.computeIdleStart
<1>1. /\ IsDevice(E) /\ E.last = 0 /\ E.refs = D.refs /\ E.computeRefs = D.computeRefs
      /\ E.transferStart = D.transferStart
  BY DEF FinalDevice, IsDevice
<1>2. /\ IsStats(R) /\ R.transfer = S.transfer
      /\ D.last = 0 => R = S
      /\ D.last # 0 => /\ R.idle = S.idle + D.last - D.idleStart
                       /\ R.computeIdle = S.computeIdle + D.last - D.computeIdleStart
  BY DEF FinalStats, IsStats
<1> QED
  BY <1>1, <1>2

-----------------------------------------------------------------------------
(***************************************************************************)
(* The device is used for the first time, and on.                          *)
(***************************************************************************)
\* The sets of steps are sets of events.
LEMMA StepsAreEvents ==
  /\ KernelFree \in SUBSET Events /\ Idle \in SUBSET Events /\ Transferring \in SUBSET Events
BY DEF KernelFree, Idle, Transferring

\* An event that uses the device is no end of a window.
LEMMA UseIsNoEnd ==
  ASSUME NEW i \in DeviceEvents PROVE ~OnDevice(i, {"winDestroy"})
BY DEF DeviceEvents, IsNode, Opens, Closes, OnDevice

\* The first event is a call, that of a kernel or of the program.
LEMMA FirstIsCall ==
  ASSUME Trace, DeviceTrace, DeviceEvents # {}
  PROVE  CallsDevice(First) /\ ~OnDevice(First, {"get"}) /\ ~OnDevice(First, {"complete"})
<1>1. First \in DeviceEvents /\ First \in Events /\ First \in Nat \ {0} /\ \A j \in DeviceEvents : First <= j
  BY DeviceEventsFacts
<1>2. Events = 1 .. Len(program) /\ Len(program) \in Nat
  BY TraceFacts
<1>3. CallsDevice(First)
  <2>1. CASE program[First].rec \in {"get", "complete"}
    <3>1. PICK j \in 1 .. First : CallsDevice(j)
      BY <1>1, <2>1 DEF DeviceTrace, CallsComeFirst
    <3>2. j \in Events
      BY <1>1, <1>2
    <3>3. j \in DeviceEvents
      BY <3>1, <3>2 DEF DeviceEvents, CallsDevice
    <3>4. j = First
      BY <1>1, <3>3
    <3> QED
      BY <3>1, <3>4
  <2>2. CASE program[First].rec \notin {"get", "complete"}
    BY <1>1, <2>2 DEF DeviceEvents, CallsDevice
  <2> QED
    BY <2>1, <2>2
<1>4. program[First].rec \in {"enter", "leave", "fork", "join"}
  BY <1>3 DEF CallsDevice, IsNode, Opens, Closes
<1> QED
  BY <1>3, <1>4 DEF OnDevice

\* The first use of the device starts the clocks.
LEMMA FirstUse ==
  ASSUME Trace, DeviceTrace, DeviceEvents # {}, Unused(device, stats), IsDevice(device), IsStats(stats),
         NEW i, i = First, NEW D, NEW S, Effect(D, S, i)
  PROVE  IsDevice(D) /\ IsStats(S) /\ Refers(D, i) /\ Counted(S, D, i) /\ D.last = time[i]
<1>1. i \in Events /\ i \in Nat \ {0} /\ i \in DeviceEvents /\ \A j \in DeviceEvents : i <= j
  BY DeviceEventsFacts
<1>2. Len(program) \in Nat /\ Events = 1 .. Len(program) /\ time[i] \in Nat
  BY <1>1, TraceFacts
<1>3. Kernels(i - 1) = 0 /\ Transfers(i - 1) = 0
  <2>1. i - 1 \in Nat /\ i - 1 <= Len(program) /\ \A j \in DeviceEvents : i - 1 < j
    <3>1. DeviceEvents \subseteq Events
      BY DEF DeviceEvents
    <3> QED
      BY <1>1, <1>2, <3>1
  <2> QED
    BY <2>1, NoTasksBefore
<1>4. CallsDevice(i) /\ ~OnDevice(i, {"get"}) /\ ~OnDevice(i, {"complete"})
  BY FirstIsCall
<1>5. PICK t \in Nat : t = time[i]
  BY <1>2
<1>6. device.refs \in Int /\ device.refs < 0 /\ device.transferStart \in Nat
      /\ stats.idle = 0 /\ stats.computeIdle = 0 /\ stats.transfer = 0
  BY DEF Unused
<1>7. PICK B : B = ApiEvent(device, i)
  OBVIOUS
<1>8. /\ IsDevice(B) /\ B.refs = 0 /\ B.computeRefs = 0 /\ B.idleStart = t /\ B.computeIdleStart = t
      /\ B.transferStart = device.transferStart
      /\ program[i].kind # "kernel" => B.last = t
  BY <1>5, <1>6, <1>7, ApiEventFields
<1>9. /\ i \in KernelFree <=> Kernels(i) = 0
      /\ i \in Idle <=> Kernels(i) = 0 /\ Transfers(i) = 0
      /\ i \in Transferring <=> Transfers(i) > 0
  BY <1>1 DEF KernelFree, Idle, Transferring
<1>10. ASSUME S.computeIdle = 0, S.transfer = 0, S.idle = 0, Transfers(i) = 0,
              D.transferStart \in Nat, D.computeIdleStart = t, D.idleStart = t
       PROVE  Counted(S, D, i)
  <2>1. i \notin Transferring
    BY <1>9, <1>10
  <2>2. Clock(0, D.computeIdleStart, KernelFree, First)
    BY <1>5, <1>10, ClockStarts, StepsAreEvents
  <2>3. Clock(0, D.idleStart, Idle, First)
    BY <1>5, <1>10, ClockStarts, StepsAreEvents
  <2>4. Clock(0, D.transferStart, Transferring, First)
    BY <1>10, <2>1, ClockStarts, StepsAreEvents
  <2> QED
    BY <1>10, <2>2, <2>3, <2>4 DEF Counted
<1>11. CASE OnDevice(i, {"enter"})
  <2>1. Kernels(i) = 1 /\ Transfers(i) = 0
    BY <1>1, <1>3, <1>11, TasksOfEvent
  <2>2. D = BeginKernel(B, i) /\ S = KernelBegins(stats, B, i)
    BY <1>7, <1>11 DEF Effect
  <2>3. /\ IsDevice(D) /\ IsStats(S)
        /\ D.refs = 1 /\ D.computeRefs = 1 /\ D.idleStart = t /\ D.computeIdleStart = t
        /\ D.transferStart = device.transferStart /\ D.last = t
        /\ S.idle = 0 + t - t /\ S.computeIdle = 0 + t - t /\ S.transfer = 0
    <3>1. IsDevice(B) /\ D = BeginKernel(B, i) /\ S = KernelBegins(stats, B, i)
      BY <1>8, <2>2
    <3>2. /\ IsDevice(D) /\ IsStats(S)
          /\ D.refs = B.refs + 1 /\ D.computeRefs = B.computeRefs + 1
          /\ D.idleStart = B.idleStart /\ D.computeIdleStart = B.computeIdleStart
          /\ D.transferStart = B.transferStart /\ D.last = time[i]
          /\ B.refs = 0 => S.idle = stats.idle + time[i] - B.idleStart
          /\ B.computeRefs = 0 => S.computeIdle = stats.computeIdle + time[i] - B.computeIdleStart
          /\ S.transfer = stats.transfer
      <4>1. KernelBegun(B, stats, D, S, i)
        BY <3>1, KernelBeginFields
      <4> QED
        BY <4>1 DEF KernelBegun
    <3> QED
      BY <1>5, <1>6, <1>8, <3>2
  <2>4. Counted(S, D, i)
    BY <1>6, <1>10, <2>1, <2>3
  <2> QED
    BY <1>5, <2>1, <2>3, <2>4 DEF Refers
<1>12. ~OnDevice(i, {"leave"})
  BY <1>1, <1>3, TasksOfEvent
<1>13. CASE ~OnDevice(i, {"enter"})
  <2>1. ~OnDevice(i, {"enter", "leave"}) /\ ~OnDevice(i, {"enter", "leave", "get", "complete"})
    BY <1>4, <1>12, <1>13 DEF OnDevice
  <2>2. Kernels(i) = 0 /\ Transfers(i) = 0
    BY <1>1, <1>3, <2>1, TasksOfEvent
  <2>3. D = B /\ S = stats
    BY <1>4, <1>7, <2>1 DEF Effect
  <2>4. program[i].kind # "kernel"
    BY <1>1, <1>4, <2>1 DEF DeviceTrace, TasksOnDevices, CallsDevice
  <2>5. Counted(S, D, i)
    BY <1>6, <1>8, <1>10, <2>2, <2>3
  <2> QED
    BY <1>5, <1>8, <2>2, <2>3, <2>4, <2>5 DEF Refers
<1> QED
  BY <1>11, <1>13

\* Any further event leaves the clocks right.
LEMMA NextUse ==
  ASSUME Trace, DeviceTrace, DeviceEvents # {}, IsDevice(device), IsStats(stats),
         NEW n \in Nat, First <= n, NEW i \in Events, i = n + 1, ~OnDevice(i, {"winDestroy"}),
         Refers(device, n), Counted(stats, device, n), NEW D, NEW S, Effect(D, S, i)
  PROVE  /\ IsDevice(D) /\ IsStats(S) /\ Refers(D, i) /\ Counted(S, D, i)
         /\ i \in DeviceEvents => D.last = time[i]
<1>1. n \in Events /\ time[i] \in Nat /\ i - 1 = n
  <2>1. Events = 1 .. Len(program) /\ Len(program) \in Nat /\ First \in Nat \ {0}
    BY TraceFacts, DeviceEventsFacts
  <2> QED
    BY <2>1, TraceFacts
<1>2. PICK t \in Nat : t = time[i]
  BY <1>1
<1>3. PICK k \in Nat, c \in Nat : k = Kernels(n) /\ c = Transfers(n)
  BY <1>1, TasksOfEvent
<1>4. PICK l \in Nat, d \in Nat : l = Kernels(i) /\ d = Transfers(i)
  BY TasksOfEvent
<1>5. /\ n \in KernelFree <=> k = 0
      /\ n \in Idle <=> k = 0 /\ c = 0
      /\ n \in Transferring <=> c > 0
      /\ n + 1 \in KernelFree <=> l = 0
      /\ n + 1 \in Idle <=> l = 0 /\ d = 0
      /\ n + 1 \in Transferring <=> d > 0
  BY <1>1, <1>3, <1>4 DEF KernelFree, Idle, Transferring
<1>6. device.refs = k + c /\ device.computeRefs = k
  BY <1>3 DEF Refers
<1>7. PICK v \in Int, a \in Nat, w \in Int, b \in Nat, x \in Int, e \in Nat :
        /\ v = stats.computeIdle /\ a = device.computeIdleStart
        /\ w = stats.transfer /\ b = device.transferStart
        /\ x = stats.idle /\ e = device.idleStart
  BY DEF Counted, Clock
<1>8. ASSUME Ticks(v, a, S.computeIdle, D.computeIdleStart, KernelFree, n),
             Ticks(w, b, S.transfer, D.transferStart, Transferring, n),
             Ticks(x, e, S.idle, D.idleStart, Idle, n)
      PROVE  Counted(S, D, i)
  <2>1. Clock(v, a, KernelFree, n) /\ Clock(w, b, Transferring, n) /\ Clock(x, e, Idle, n)
    BY <1>7, Zenon DEF Counted
  <2>2. Clock(S.computeIdle, D.computeIdleStart, KernelFree, n + 1)
    BY <1>8, <2>1, ClockTicks, StepsAreEvents
  <2>3. Clock(S.transfer, D.transferStart, Transferring, n + 1)
    BY <1>8, <2>1, ClockTicks, StepsAreEvents
  <2>4. Clock(S.idle, D.idleStart, Idle, n + 1)
    BY <1>8, <2>1, ClockTicks, StepsAreEvents
  <2> QED
    BY <2>2, <2>3, <2>4 DEF Counted
<1>9. OnDevice(i, {"enter"}) \/ OnDevice(i, {"leave"}) => program[i].kind = "kernel"
  <2>1. OnDevice(i, {"enter"}) \/ OnDevice(i, {"leave"}) => OnDevice(i, {"enter", "leave"})
    BY DEF OnDevice
  <2> QED
    BY <2>1 DEF DeviceTrace, TasksOnDevices
<1>10. PICK B : B = ApiEvent(device, i)
  OBVIOUS
<1>11. /\ IsDevice(B) /\ B.refs = k + c /\ B.computeRefs = k
       /\ B.idleStart = e /\ B.computeIdleStart = a /\ B.transferStart = b
       /\ program[i].kind = "kernel" => B = device
       /\ program[i].kind # "kernel" => B.last = t
  <2>1. device.refs \in Int /\ device.refs >= 0
    BY <1>6
  <2> QED
    BY <1>2, <1>6, <1>7, <1>10, <2>1, ApiEventFields
<1>12. CASE OnDevice(i, {"enter"})
  <2>1. l = k + 1 /\ d = c
    BY <1>1, <1>3, <1>4, <1>12, TasksOfEvent
  <2>2. B = device /\ D = BeginKernel(B, i) /\ S = KernelBegins(stats, B, i)
    BY <1>9, <1>10, <1>11, <1>12 DEF Effect
  <2>3. KernelBegun(device, stats, D, S, i)
    BY <2>2, KernelBeginFields
  <2>4. /\ IsDevice(D) /\ IsStats(S) /\ D.refs = k + c + 1 /\ D.computeRefs = k + 1
        /\ D.idleStart = e /\ D.computeIdleStart = a /\ D.transferStart = b /\ D.last = t
        /\ k + c = 0 => S.idle = x + t - e
        /\ k + c # 0 => S.idle = x
        /\ k = 0 => S.computeIdle = v + t - a
        /\ k # 0 => S.computeIdle = v
        /\ S.transfer = w
    BY <1>2, <1>6, <1>7, <2>3 DEF KernelBegun
  <2>5. Ticks(v, a, S.computeIdle, D.computeIdleStart, KernelFree, n)
    BY <1>2, <1>5, <2>1, <2>4 DEF Ticks
  <2>6. Ticks(w, b, S.transfer, D.transferStart, Transferring, n)
    BY <1>2, <1>5, <2>1, <2>4 DEF Ticks
  <2>7. Ticks(x, e, S.idle, D.idleStart, Idle, n)
    BY <1>2, <1>5, <2>1, <2>4 DEF Ticks
  <2>8. Refers(D, i)
    BY <1>4, <2>1, <2>4 DEF Refers
  <2> QED
    BY <1>2, <1>8, <2>4, <2>5, <2>6, <2>7, <2>8
<1>13. CASE OnDevice(i, {"leave"})
  <2>1. l = k - 1 /\ d = c
    BY <1>1, <1>3, <1>4, <1>13, TasksOfEvent
  <2>2. B = device /\ D = EndKernel(B, i) /\ S = KernelEnds(stats, B, i)
    BY <1>9, <1>10, <1>11, <1>13 DEF Effect
  <2>3. KernelEnded(device, stats, D, S, i)
    BY <2>2, KernelEndFields
  <2>4. /\ IsDevice(D) /\ IsStats(S) /\ D.refs = k + c - 1 /\ D.computeRefs = k - 1
        /\ k + c = 1 => D.idleStart = t
        /\ k + c # 1 => D.idleStart = e
        /\ k = 1 => D.computeIdleStart = t
        /\ k # 1 => D.computeIdleStart = a
        /\ D.transferStart = b /\ D.last = t
        /\ S.idle = x /\ S.computeIdle = v /\ S.transfer = w
    BY <1>2, <1>6, <1>7, <2>3 DEF KernelEnded
  <2>5. Ticks(v, a, S.computeIdle, D.computeIdleStart, KernelFree, n)
    BY <1>2, <1>5, <2>1, <2>4 DEF Ticks
  <2>6. Ticks(w, b, S.transfer, D.transferStart, Transferring, n)
    BY <1>2, <1>5, <2>1, <2>4 DEF Ticks
  <2>7. Ticks(x, e, S.idle, D.idleStart, Idle, n)
    BY <1>2, <1>5, <2>1, <2>4 DEF Ticks
  <2>8. Refers(D, i)
    BY <1>4, <2>1, <2>4 DEF Refers
  <2> QED
    BY <1>2, <1>8, <2>4, <2>5, <2>6, <2>7, <2>8
<1>14. CASE OnDevice(i, {"get"})
  <2>1. l = k /\ d = c + 1
    BY <1>1, <1>3, <1>4, <1>14, TasksOfEvent
  <2>2. D = BeginTransfer(device, i) /\ S = TransferBegins(stats, device, i)
    BY <1>14 DEF Effect
  <2>3. TransferBegun(device, stats, D, S, i)
    BY <2>2, TransferBeginFields
  <2>4. /\ IsDevice(D) /\ IsStats(S) /\ D.refs = k + c + 1 /\ D.computeRefs = k
        /\ D.idleStart = e /\ D.computeIdleStart = a /\ D.last = t
        /\ k + c + 1 - k = 1 => D.transferStart = t
        /\ k + c + 1 - k # 1 => D.transferStart = b
        /\ k + c = 0 => S.idle = x + t - e
        /\ k + c # 0 => S.idle = x
        /\ S.computeIdle = v /\ S.transfer = w
    BY <1>2, <1>6, <1>7, <2>3 DEF TransferBegun
  <2>5. Ticks(v, a, S.computeIdle, D.computeIdleStart, KernelFree, n)
    BY <1>2, <1>5, <2>1, <2>4 DEF Ticks
  <2>6. Ticks(w, b, S.transfer, D.transferStart, Transferring, n)
    BY <1>2, <1>5, <2>1, <2>4 DEF Ticks
  <2>7. Ticks(x, e, S.idle, D.idleStart, Idle, n)
    BY <1>2, <1>5, <2>1, <2>4 DEF Ticks
  <2>8. Refers(D, i)
    BY <1>4, <2>1, <2>4 DEF Refers
  <2> QED
    BY <1>2, <1>8, <2>4, <2>5, <2>6, <2>7, <2>8
<1>15. CASE OnDevice(i, {"complete"})
  <2>1. l = k /\ d = c - 1
    BY <1>1, <1>3, <1>4, <1>15, TasksOfEvent
  <2>2. D = EndTransfer(device, i) /\ S = TransferEnds(stats, device, i)
    BY <1>15 DEF Effect
  <2>3. TransferEnded(device, stats, D, S, i)
    BY <2>2, TransferEndFields
  <2>4. /\ IsDevice(D) /\ IsStats(S) /\ D.refs = k + c - 1 /\ D.computeRefs = k
        /\ k + c = 1 => D.idleStart = t
        /\ k + c # 1 => D.idleStart = e
        /\ D.computeIdleStart = a /\ D.transferStart = b /\ D.last = t
        /\ S.idle = x /\ S.computeIdle = v
        /\ k + c - k = 1 => S.transfer = w + t - b
        /\ k + c - k # 1 => S.transfer = w
    BY <1>2, <1>6, <1>7, <2>3 DEF TransferEnded
  <2>5. Ticks(v, a, S.computeIdle, D.computeIdleStart, KernelFree, n)
    BY <1>2, <1>5, <2>1, <2>4 DEF Ticks
  <2>6. Ticks(w, b, S.transfer, D.transferStart, Transferring, n)
    BY <1>2, <1>5, <2>1, <2>4 DEF Ticks
  <2>7. Ticks(x, e, S.idle, D.idleStart, Idle, n)
    BY <1>2, <1>5, <2>1, <2>4 DEF Ticks
  <2>8. Refers(D, i)
    BY <1>4, <2>1, <2>4 DEF Refers
  <2> QED
    BY <1>2, <1>8, <2>4, <2>5, <2>6, <2>7, <2>8
<1>16. CASE /\ ~OnDevice(i, {"enter"}) /\ ~OnDevice(i, {"leave"})
            /\ ~OnDevice(i, {"get"}) /\ ~OnDevice(i, {"complete"})
  <2>1. ~OnDevice(i, {"enter", "leave"}) /\ ~OnDevice(i, {"enter", "leave", "get", "complete"})
        /\ ~OnDevice(i, {"get", "complete", "winDestroy"})
    BY <1>16 DEF OnDevice
  <2>2. l = k /\ d = c
    BY <1>1, <1>3, <1>4, <2>1, TasksOfEvent
  <2>3. S = stats /\ ((D = B /\ CallsDevice(i)) \/ (D = device /\ ~CallsDevice(i)))
    BY <1>10, <2>1 DEF Effect
  <2>4. /\ IsDevice(D) /\ IsStats(S) /\ D.refs = k + c /\ D.computeRefs = k
        /\ D.idleStart = e /\ D.computeIdleStart = a /\ D.transferStart = b
        /\ S.idle = x /\ S.computeIdle = v /\ S.transfer = w
    BY <1>6, <1>7, <1>11, <2>3
  <2>5. Ticks(v, a, S.computeIdle, D.computeIdleStart, KernelFree, n)
    BY <1>2, <1>5, <2>2, <2>4 DEF Ticks
  <2>6. Ticks(w, b, S.transfer, D.transferStart, Transferring, n)
    BY <1>2, <1>5, <2>2, <2>4 DEF Ticks
  <2>7. Ticks(x, e, S.idle, D.idleStart, Idle, n)
    BY <1>2, <1>5, <2>2, <2>4 DEF Ticks
  <2>8. Refers(D, i)
    BY <1>4, <2>2, <2>4 DEF Refers
  <2>9. i \in DeviceEvents => D.last = time[i]
    <3>1. SUFFICES ASSUME i \in DeviceEvents PROVE D.last = time[i]
      OBVIOUS
    <3>2. program[i].rec \notin {"get", "complete"}
      <4>1. program[i].rec \in {"get", "complete"} => program[i].stream \in Devices
        BY DEF DeviceTrace, TasksOnDevices
      <4> QED
        BY <1>16, <4>1 DEF OnDevice
    <3>3. CallsDevice(i)
      BY <3>1, <3>2 DEF DeviceEvents, CallsDevice
    <3>4. program[i].kind # "kernel"
      BY <2>1, <3>3 DEF DeviceTrace, TasksOnDevices, CallsDevice
    <3> QED
      BY <1>2, <1>11, <2>3, <3>3, <3>4
  <2> QED
    BY <1>8, <2>4, <2>5, <2>6, <2>7, <2>8, <2>9
<1> QED
  BY <1>12, <1>13, <1>14, <1>15, <1>16

\* What is counted when the idle times end is complete.
LEMMA ConcludesOnce ==
  ASSUME Trace, DeviceTrace, DeviceEvents # {}, IsDevice(device), IsStats(stats),
         Concluded(device, stats) \/ (device.last = time[Final] /\ Counted(stats, device, Final)),
         NEW D, D = FinalDevice(device), NEW S, S = FinalStats(stats, device)
  PROVE  IsDevice(D) /\ IsStats(S) /\ Concluded(D, S)
<1>1. /\ IsDevice(D) /\ IsStats(S) /\ D.last = 0 /\ S.transfer = stats.transfer
      /\ device.last = 0 => S = stats
      /\ device.last # 0 => /\ S.idle = stats.idle + device.last - device.idleStart
                            /\ S.computeIdle = stats.computeIdle + device.last - device.computeIdleStart
  BY FinalFields
<1>2. CASE Concluded(device, stats)
  BY <1>1, <1>2 DEF Concluded
<1>3. CASE device.last = time[Final] /\ Counted(stats, device, Final)
  <2>1. Final \in Events /\ Final \in Nat /\ time[Final] \in Nat /\ \A j \in DeviceEvents : j <= Final
    BY TraceFacts, DeviceEventsFacts
  <2>2. Kernels(Final) = 0 /\ Transfers(Final) = 0
    BY <2>1 DEF DeviceTrace, TasksEnd
  <2>3. Final \in KernelFree /\ Final \in Idle /\ Final \notin Transferring
    BY <2>1, <2>2 DEF KernelFree, Idle, Transferring
  <2>4. PICK t \in Nat : t = time[Final]
    BY <2>1
  <2>5. stats.transfer = TimeOf(Transferring, Final)
    BY <1>3, <2>3 DEF Counted, Clock
  <2>6. /\ stats.idle \in Int /\ device.idleStart \in Nat /\ device.idleStart <= t
        /\ stats.idle + t - device.idleStart = TimeOf(Idle, Final)
    BY <1>3, <2>3, <2>4 DEF Counted, Clock
  <2>7. /\ stats.computeIdle \in Int /\ device.computeIdleStart \in Nat /\ device.computeIdleStart <= t
        /\ stats.computeIdle + t - device.computeIdleStart = TimeOf(KernelFree, Final)
    BY <1>3, <2>3, <2>4 DEF Counted, Clock
  <2>8. CASE t # 0
    <3>1. device.last = t
      BY <1>3, <2>4
    <3> QED
      BY <1>1, <2>5, <2>6, <2>7, <2>8, <3>1 DEF Concluded
  <2>9. CASE t = 0
    <3>1. device.last = 0
      BY <1>3, <2>4, <2>9
    <3>2. device.idleStart = 0 /\ device.computeIdleStart = 0
      BY <2>6, <2>7, <2>9
    <3> QED
      BY <1>1, <2>5, <2>6, <2>7, <2>9, <3>1, <3>2 DEF Concluded
  <2> QED
    BY <2>8, <2>9
<1> QED
  BY <1>2, <1>3

\* An event that does not use the device changes nothing, unless it is the end
\* of a window.
LEMMA NoUse ==
  ASSUME Trace, DeviceTrace, NEW i \in Events, i \notin DeviceEvents, NEW D, NEW S, Effect(D, S, i)
  PROVE  \/ OnDevice(i, {"winDestroy"}) /\ D = FinalDevice(device) /\ S = FinalStats(stats, device)
         \/ ~OnDevice(i, {"winDestroy"}) /\ D = device /\ S = stats
<1>1. ~OnDevice(i, {"enter", "leave", "get", "complete"}) /\ ~CallsDevice(i)
  BY TasksUseDevice
<1>2. OnDevice(i, {"get", "complete", "winDestroy"}) => OnDevice(i, {"winDestroy"})
  BY <1>1 DEF OnDevice
<1> QED
  BY <1>1, <1>2 DEF Effect

\* From one event to the next.
LEMMA StateAfter ==
  ASSUME Trace, DeviceTrace, IsDevice(device), IsStats(stats),
         NEW n \in Nat, NEW i \in Events, i = n + 1, DeviceState(device, stats, n),
         NEW D, NEW S, Effect(D, S, i)
  PROVE  IsDevice(D) /\ IsStats(S) /\ DeviceState(D, S, i)
<1>1. DeviceEvents \subseteq Nat /\ i \in Nat
  <2>1. DeviceEvents \subseteq Events /\ Events \subseteq Nat
    BY TraceFacts DEF DeviceEvents
  <2> QED
    BY <2>1
<1>2. DeviceEvents # {} =>
        /\ First \in DeviceEvents /\ Final \in DeviceEvents /\ First \in Nat /\ Final \in Nat
        /\ \A j \in DeviceEvents : First <= j /\ j <= Final
  BY DeviceEventsFacts
<1>3. CASE Unused(device, stats) /\ \A j \in DeviceEvents : n < j
  <2>1. CASE i \in DeviceEvents
    <3>1. DeviceEvents # {} /\ i = First
      BY <1>1, <1>2, <1>3, <2>1
    <3>2. IsDevice(D) /\ IsStats(S) /\ Refers(D, i) /\ Counted(S, D, i) /\ D.last = time[i]
      BY <1>3, <3>1, FirstUse
    <3>3. i = Final \/ i < Final
      BY <1>2, <2>1
    <3>4. CASE i < Final
      BY <1>1, <3>1, <3>2, <3>4 DEF DeviceState
    <3>5. CASE i = Final
      BY <1>1, <3>1, <3>2, <3>5 DEF DeviceState
    <3> QED
      BY <3>3, <3>4, <3>5
  <2>2. CASE i \notin DeviceEvents
    <3>1. \A j \in DeviceEvents : i < j
      BY <1>1, <1>3, <2>2
    <3>2. IsDevice(D) /\ IsStats(S) /\ Unused(D, S)
      <4>1. CASE OnDevice(i, {"winDestroy"}) /\ D = FinalDevice(device) /\ S = FinalStats(stats, device)
        <5>1. /\ IsDevice(D) /\ IsStats(S) /\ D.last = 0
              /\ D.refs = device.refs /\ D.computeRefs = device.computeRefs
              /\ D.transferStart = device.transferStart
              /\ device.last = 0 => S = stats
          BY <4>1, FinalFields
        <5> QED
          BY <1>3, <5>1 DEF Unused
      <4>2. CASE D = device /\ S = stats
        BY <1>3, <4>2
      <4> QED
        BY <2>2, <4>1, <4>2, NoUse
    <3> QED
      BY <3>1, <3>2 DEF DeviceState
  <2> QED
    BY <2>1, <2>2
<1>4. CASE /\ DeviceEvents # {} /\ First <= n /\ n < Final
           /\ Refers(device, n) /\ Counted(stats, device, n)
  <2>1. i <= Final /\ First <= i
    BY <1>1, <1>2, <1>4
  <2>2. ~OnDevice(i, {"winDestroy"})
    <3>1. CASE i = Final
      BY <1>2, <1>4, <3>1, UseIsNoEnd
    <3>2. CASE i < Final
      <4>1. First < i
        BY <1>1, <1>2, <1>4
      <4> QED
        BY <1>2, <1>4, <3>2, <4>1 DEF DeviceTrace, WindowsStay
    <3> QED
      BY <1>1, <1>2, <1>4, <2>1, <3>1, <3>2
  <2>3. /\ IsDevice(D) /\ IsStats(S) /\ Refers(D, i) /\ Counted(S, D, i)
        /\ i \in DeviceEvents => D.last = time[i]
    BY <1>4, <2>2, NextUse
  <2>4. CASE i = Final
    BY <1>2, <1>4, <2>1, <2>3, <2>4 DEF DeviceState
  <2>5. CASE i < Final
    BY <1>4, <2>1, <2>3, <2>5 DEF DeviceState
  <2> QED
    BY <1>1, <1>2, <1>4, <2>1, <2>4, <2>5
<1>5. CASE /\ DeviceEvents # {} /\ Final <= n
           /\ Concluded(device, stats) \/ (device.last = time[Final] /\ Counted(stats, device, Final))
  <2>1. i \notin DeviceEvents /\ Final <= i
    BY <1>1, <1>2, <1>5
  <2>2. CASE OnDevice(i, {"winDestroy"}) /\ D = FinalDevice(device) /\ S = FinalStats(stats, device)
    <3>1. IsDevice(D) /\ IsStats(S) /\ Concluded(D, S)
      BY <1>5, <2>2, ConcludesOnce
    <3> QED
      BY <1>5, <2>1, <3>1 DEF DeviceState
  <2>3. CASE D = device /\ S = stats
    BY <1>5, <2>1, <2>3 DEF DeviceState
  <2> QED
    BY <2>1, <2>2, <2>3, NoUse
<1> QED
  BY <1>3, <1>4, <1>5 DEF DeviceState

-----------------------------------------------------------------------------
(***************************************************************************)
(* The steps keep the invariant.                                           *)
(***************************************************************************)
\* What the trace says of the device stays as it is.
LEMMA DeviceTraceStays ==
  ASSUME UNCHANGED <<program, time>>, Trace, DeviceTrace
  PROVE  /\ Trace' /\ DeviceTrace'
         /\ Events' = Events /\ DeviceEvents' = DeviceEvents
         /\ \A D, S, n : DeviceState(D, S, n)' <=> DeviceState(D, S, n)
         /\ \A D, S : Concluded(D, S)' <=> Concluded(D, S)
<1>1. \A i : /\ IsNode(i)' <=> IsNode(i)
             /\ IsFiltered(i)' <=> IsFiltered(i)
             /\ ParadigmOf(i)' = ParadigmOf(i)
  BY DEF IsNode, IsFiltered, Opens, Closes, ParadigmOf
<1>2. /\ Events' = Events
      /\ \A s, i : Inside(s, i)' <=> Inside(s, i)
  BY ProgramStays
<1>3. DeviceEvents' = DeviceEvents
  <2>1. DeviceEvents' = {i \in Events' : (IsNode(i)' /\ ParadigmOf(i)' = 1)
                                          \/ program'[i].rec \in {"get", "complete"}}
    BY DEF DeviceEvents
  <2>2. DeviceEvents = {i \in Events : (IsNode(i) /\ ParadigmOf(i) = 1)
                                        \/ program[i].rec \in {"get", "complete"}}
    BY DEF DeviceEvents
  <2> QED
    BY <1>1, <1>2, <2>1, <2>2
<1>4. \A i : CallsDevice(i)' <=> CallsDevice(i)
  BY <1>1 DEF CallsDevice
<1>5. \A i : Kernels(i)' = Kernels(i) /\ Transfers(i)' = Transfers(i)
  BY DEF Kernels, Transfers, Tasks
<1>6. First' = First /\ Final' = Final
  BY <1>3 DEF First, Final, Min, Max
<1>7. KernelFree' = KernelFree /\ Idle' = Idle /\ Transferring' = Transferring
  BY <1>2, <1>5 DEF KernelFree, Idle, Transferring
<1>8. StepLength' = StepLength
  BY DEF StepLength
<1>9. \A n : /\ TimeOf(Idle, n)' = TimeOf(Idle, n)
             /\ TimeOf(KernelFree, n)' = TimeOf(KernelFree, n)
             /\ TimeOf(Transferring, n)' = TimeOf(Transferring, n)
  <2> SUFFICES ASSUME NEW n
               PROVE  /\ TimeOf(Idle, n)' = TimeOf(Idle, n)
                      /\ TimeOf(KernelFree, n)' = TimeOf(KernelFree, n)
                      /\ TimeOf(Transferring, n)' = TimeOf(Transferring, n)
    OBVIOUS
  <2>1. /\ {i \in Idle : First <= i /\ i < n}' = {i \in Idle : First <= i /\ i < n}
        /\ {i \in KernelFree : First <= i /\ i < n}' = {i \in KernelFree : First <= i /\ i < n}
        /\ {i \in Transferring : First <= i /\ i < n}' = {i \in Transferring : First <= i /\ i < n}
    BY <1>6, <1>7
  <2>2. PICK g, A, B, C :
          /\ g = StepLength
          /\ A = {i \in Idle : First <= i /\ i < n} /\ B = {i \in KernelFree : First <= i /\ i < n}
          /\ C = {i \in Transferring : First <= i /\ i < n}
    OBVIOUS
  <2>3. /\ StepLength' = g
        /\ {i \in Idle : First <= i /\ i < n}' = A /\ {i \in KernelFree : First <= i /\ i < n}' = B
        /\ {i \in Transferring : First <= i /\ i < n}' = C
    BY <1>8, <2>1, <2>2
  <2>4. /\ TimeOf(Idle, n) = SumOver(g, A) /\ TimeOf(KernelFree, n) = SumOver(g, B)
        /\ TimeOf(Transferring, n) = SumOver(g, C)
    BY <2>2 DEF TimeOf
  <2>5. /\ TimeOf(Idle, n)' = SumOver(g, A) /\ TimeOf(KernelFree, n)' = SumOver(g, B)
        /\ TimeOf(Transferring, n)' = SumOver(g, C)
    BY <2>3 DEF TimeOf
  <2> QED
    BY <2>4, <2>5
<1>10. \A D, S, n : DeviceState(D, S, n)' <=> DeviceState(D, S, n)
  <2>1. \A D, S, n : Counted(S, D, n)' <=> Counted(S, D, n)
    BY <1>7, <1>9 DEF Counted, Clock
  <2>2. \A D, n : Refers(D, n)' <=> Refers(D, n)
    BY <1>5 DEF Refers
  <2>3. \A D, S : Concluded(D, S)' <=> Concluded(D, S)
    BY <1>6, <1>9 DEF Concluded
  <2> QED
    BY <1>3, <1>6, <2>1, <2>2, <2>3 DEF DeviceState, Unused
<1>11. \A D, S : Concluded(D, S)' <=> Concluded(D, S)
  BY <1>6, <1>9 DEF Concluded
<1>12. Trace'
  BY DEF Trace
<1>13. DeviceTrace'
  <2>1. TasksOnDevices'
    BY <1>1, <1>2 DEF DeviceTrace, TasksOnDevices, OnDevice
  <2>2. CallsAreSeen'
    BY <1>1, <1>2, <1>4 DEF DeviceTrace, CallsAreSeen
  <2>3. CallsComeFirst'
    BY <1>2, <1>4 DEF DeviceTrace, CallsComeFirst
  <2>4. TasksEnd'
    BY <1>2, <1>3, <1>5 DEF DeviceTrace, TasksEnd
  <2>5. WindowsStay'
    BY <1>2, <1>3 DEF DeviceTrace, WindowsStay, OnDevice
  <2> QED
    BY <2>1, <2>2, <2>3, <2>4, <2>5 DEF DeviceTrace
<1> QED
  BY <1>2, <1>3, <1>10, <1>11, <1>12, <1>13

\* A step that neither writes an event nor ends the streams.
LEMMA DeviceStays ==
  ASSUME DeviceInv, UNCHANGED <<program, time, written, device, stats, strayed>>,
         ~strayed => WriterFilters',
         pos' \in written .. Len(program), phase' = "read" => pos' < Len(program),
         strayed => phase' = "write", phase' = "done" => phase = "done"
  PROVE  DeviceInv'
<1>1. /\ Trace' /\ DeviceTrace' /\ DeviceEvents' = DeviceEvents
      /\ \A D, S, n : DeviceState(D, S, n)' <=> DeviceState(D, S, n)
      /\ \A D, S : Concluded(D, S)' <=> Concluded(D, S)
  BY DeviceTraceStays DEF DeviceInv
<1>2. PICK D, S, n : D = device /\ S = stats /\ n = written
  OBVIOUS
<1>3. device' = D /\ stats' = S /\ written' = n
  BY <1>2
<1>4. ~strayed => IsDevice(D) /\ IsStats(S) /\ DeviceState(D, S, n)
  BY <1>2 DEF DeviceInv
<1>5. ~strayed => DeviceState(device, stats, written)'
  BY <1>1, <1>3, <1>4
<1>6. ~strayed => IsDevice(device)' /\ IsStats(stats)'
  BY <1>3, <1>4 DEF IsDevice, IsStats
<1>7. phase = "done" /\ DeviceEvents # {} => Concluded(device, stats)'
  BY <1>1, <1>2, <1>3 DEF DeviceInv
<1>8. pos' \in 0 .. Len(program') /\ written' \in 0 .. pos'
  <2>1. written \in Nat /\ Len(program) \in Nat
    BY TraceFacts DEF DeviceInv
  <2> QED
    BY <2>1
<1> QED
  BY <1>1, <1>5, <1>6, <1>7, <1>8 DEF DeviceInv

\* What the writer knows of filtered regions stays, too.
LEMMA WriterFiltersStay ==
  ASSUME WriterFilters, UNCHANGED <<program, time, written>>,
         writer' = [s \in Streams |-> writer'[s]],
         \A s \in Streams : FieldsOf(s)' /\ writer'[s].filtering = writer[s].filtering
  PROVE  WriterFilters'
<1>1. \A s : Inside(s, written)' <=> Inside(s, written)
  BY ProgramStays DEF Inside
<1>2. \A s \in Streams : writer[s].filtering <=> Inside(s, written)
  BY DEF WriterFilters
<1>3. \A s \in Streams : writer'[s].filtering <=> Inside(s, written)'
  BY <1>1, <1>2
<1> QED
  BY <1>3 DEF WriterFilters

\* So does a step that leaves the streams alone.
LEMMA SameWriter ==
  ASSUME WriterFilters, UNCHANGED <<program, time, written, writer>>
  PROVE  WriterFilters'
<1>1. writer' = [s \in Streams |-> writer'[s]]
  BY DEF WriterFilters
<1>2. \A s \in Streams : FieldsOf(s)'
  BY DEF WriterFilters, FieldsOf
<1> QED
  BY <1>1, <1>2, WriterFiltersStay

\* Reading, the analysis and the end of an interval do not use the device.
LEMMA OthersKeepDevice ==
  ASSUME DeviceInv, Read \/ Mark \/ IntermediateBegin \/ UNCHANGED vars PROVE DeviceInv'
<1>1. /\ UNCHANGED <<program, time, written, device, stats, strayed, writer>>
      /\ Read => phase = "read" /\ pos' = pos + 1 /\ phase' \in {"read", "mark"}
                 /\ (pos + 1 = Len(program) => phase' = "mark")
      /\ Mark => phase = "mark" /\ pos' = pos /\ phase' = "locations"
      /\ IntermediateBegin => phase = "write" /\ ~strayed /\ pos' = pos /\ pos < Len(program) /\ phase' = "read"
      /\ UNCHANGED vars => pos' = pos /\ phase' = phase
  <2>1. CASE Read
    <3>1. UNCHANGED <<program, time, written, device, stats, strayed, writer>> /\ ~Mark /\ ~IntermediateBegin
      BY <2>1 DEF Read, Mark, IntermediateBegin, writerVars
    <3>2. phase = "read" /\ pos' = pos + 1 /\ phase' \in {"read", "mark"}
          /\ (pos + 1 = Len(program) => phase' = "mark")
      BY <2>1 DEF Read
    <3> QED
      BY <3>1, <3>2 DEF vars, readerVars
  <2>2. CASE Mark
    BY <2>2 DEF Read, Mark, IntermediateBegin, writerVars, readerVars, vars
  <2>3. CASE IntermediateBegin
    BY <2>3 DEF Read, Mark, IntermediateBegin, writerVars, readerVars, vars
  <2>4. CASE UNCHANGED vars /\ ~Read /\ ~Mark /\ ~IntermediateBegin
    BY <2>4 DEF vars, writerVars, readerVars
  <2> QED
    BY <2>1, <2>2, <2>3, <2>4
<1>2. ~strayed => WriterFilters'
  BY <1>1, SameWriter DEF DeviceInv
<1>3. /\ Len(program) \in Nat /\ pos \in 0 .. Len(program) /\ written \in 0 .. pos
      /\ phase = "read" => pos < Len(program)
      /\ strayed => phase = "write"
  BY TraceFacts DEF DeviceInv
<1>4. CASE Read
  <2>1. /\ pos' \in written .. Len(program) /\ (phase' = "read" => pos' < Len(program))
        /\ ~strayed /\ phase' # "done"
    BY <1>1, <1>3, <1>4
  <2> QED
    BY <1>1, <1>2, <2>1, DeviceStays
<1>5. CASE Mark
  BY <1>1, <1>2, <1>3, <1>5, DeviceStays
<1>6. CASE IntermediateBegin
  BY <1>1, <1>2, <1>3, <1>6, DeviceStays
<1>7. CASE UNCHANGED vars
  BY <1>1, <1>2, <1>3, <1>7, DeviceStays
<1> QED
  BY <1>4, <1>5, <1>6, <1>7

\* Nor does the start of writing an interval.
LEMMA LocationsKeepDevice ==
  ASSUME DeviceInv, WriteLocations PROVE DeviceInv'
<1>1. /\ phase = "locations" /\ phase' = "write"
      /\ UNCHANGED <<program, time, pos, written, device, stats, strayed>>
  BY DEF WriteLocations, readerVars
<1>2. ~strayed /\ WriterFilters /\ pos \in written .. Len(program)
  <2>1. Len(program) \in Nat /\ pos \in 0 .. Len(program) /\ written \in 0 .. pos
    BY TraceFacts DEF DeviceInv
  <2>2. pos \in written .. Len(program)
    BY <2>1
  <2> QED
    BY <1>1, <2>2 DEF DeviceInv
<1>3. ASSUME NEW s \in Streams
      PROVE  FieldsOf(s)' /\ writer'[s].filtering = writer[s].filtering
  <2>1. FieldsOf(s)
    BY <1>2 DEF WriterFilters
  <2>2. CASE nodes[s] = <<>>
    <3>1. writer'[s] = [writer[s] EXCEPT !.open = {}]
      BY <2>2 DEF WriteLocations
    <3> QED
      BY <2>1, <3>1 DEF FieldsOf
  <2>3. CASE nodes[s] # <<>>
    <3>1. PICK o, c, p : writer'[s] = [writer[s] EXCEPT !.open = o, !.curr = c, !.onPath = p]
      BY <2>3 DEF WriteLocations
    <3> QED
      BY <2>1, <3>1 DEF FieldsOf
  <2> QED
    BY <2>2, <2>3
<1>4. writer' = [s \in Streams |-> writer'[s]]
  BY DEF WriteLocations
<1>5. WriterFilters'
  BY <1>1, <1>2, <1>3, <1>4, WriterFiltersStay
<1> QED
  BY <1>1, <1>2, <1>5, DeviceStays

\* What an event makes of the state of its stream.
LEMMA WriterAfter ==
  ASSUME DeviceInv, Write, ~strayed', NEW i, i = written + 1, NEW s, s = program[i].stream
  PROVE  /\ writer' = [writer EXCEPT ![s] = writer'[s]] /\ FieldsOf(s)'
         /\ writer'[s].filtering = IF IsFiltered(i) THEN Opens(i) ELSE writer[s].filtering
<1>1. /\ written < pos /\ Trace /\ strayed = FALSE
      /\ Region(i) \/ TeamEnd(i) \/ Transfer(i) \/ WinDestroy(i)
  BY DEF Write, DeviceInv
<1>2. i \in Events
  BY <1>1, TraceFacts DEF DeviceInv
<1>3. s \in Streams /\ FieldsOf(s) /\ writer = [x \in Streams |-> writer[x]]
  BY <1>1, <1>2, TraceFacts DEF DeviceInv, WriterFilters
<1>4. PICK W : W = writer[s]
  OBVIOUS
<1>5. W = [curr |-> W.curr, onPath |-> W.onPath, stack |-> W.stack,
           last |-> W.last, open |-> W.open, filtering |-> W.filtering]
  BY <1>3, <1>4 DEF FieldsOf
<1>6. ASSUME program[i].rec \notin {"enter", "leave"} PROVE ~IsFiltered(i)
  BY <1>6 DEF IsFiltered
<1>7. CASE Region(i)
  <2>1. CASE WriterSees(i)
    <3>1. ~IsFiltered(i)
      BY <2>1, <1>6 DEF WriterSees
    <3>2. PICK E : /\ writer' = [writer EXCEPT ![s] = E] /\ E.filtering = W.filtering
                   /\ E = [curr |-> E.curr, onPath |-> E.onPath, stack |-> E.stack,
                           last |-> E.last, open |-> E.open, filtering |-> E.filtering]
      <4>1. PICK L : L = nodes[s]
        OBVIOUS
      <4>2. ProcessNextEvent(i)
        BY <1>7, <2>1 DEF Region
      <4>3. CASE \E p : writer' = [writer EXCEPT ![s] = OtherEvent(W, i, p)]
        <5>1. PICK p, E : writer' = [writer EXCEPT ![s] = E] /\ E = OtherEvent(W, i, p)
          BY <4>3
        <5>2. PICK o, t, k, e : E = [W EXCEPT !.onPath = o, !.last = t, !.stack = k, !.open = e]
          BY <5>1 DEF OtherEvent
        <5> QED
          BY <1>5, <5>1, <5>2
      <4>4. CASE writer' = [writer EXCEPT ![s] = NodeEvent(W, L, i)]
        <5>1. PICK E : writer' = [writer EXCEPT ![s] = E] /\ E = NodeEvent(W, L, i)
          BY <4>4
        <5>2. PICK o, t, k, e, n : E = [W EXCEPT !.curr = n, !.onPath = o, !.last = t, !.stack = k, !.open = e]
          BY <5>1 DEF NodeEvent
        <5> QED
          BY <1>5, <5>1, <5>2
      <4> QED
        BY <1>1, <1>4, <4>1, <4>2, <4>3, <4>4 DEF ProcessNextEvent
    <3>3. writer'[s] = E
      BY <1>3, <3>2
    <3>4. writer' = [writer EXCEPT ![s] = writer'[s]]
      BY <3>2, <3>3
    <3>5. writer'[s].filtering = W.filtering /\ FieldsOf(s)'
      BY <3>2, <3>3 DEF FieldsOf
    <3> QED
      BY <1>4, <3>1, <3>4, <3>5
  <2>2. CASE ~WriterSees(i)
    <3>1. writer' = [writer EXCEPT ![s].filtering = IF IsFiltered(i) THEN Opens(i) ELSE @]
      BY <1>7, <2>2 DEF Region
    <3>2. writer'[s] = [W EXCEPT !.filtering = IF IsFiltered(i) THEN Opens(i) ELSE W.filtering]
      BY <1>3, <1>4, <3>1
    <3>3. /\ writer'[s].filtering = IF IsFiltered(i) THEN Opens(i) ELSE W.filtering
          /\ FieldsOf(s)'
      BY <1>5, <3>2 DEF FieldsOf
    <3>4. writer' = [writer EXCEPT ![s] = writer'[s]]
      BY <1>3, <3>1
    <3> QED
      BY <1>4, <3>3, <3>4
  <2> QED
    BY <2>1, <2>2
<1>8. CASE TeamEnd(i) \/ WinDestroy(i)
  <2>1. writer' = [writer EXCEPT ![s].last = time[i]] /\ program[i].rec \notin {"enter", "leave"}
    BY <1>8 DEF TeamEnd, WinDestroy
  <2>2. writer'[s] = [W EXCEPT !.last = time[i]]
    BY <1>3, <1>4, <2>1
  <2>3. writer'[s].filtering = W.filtering /\ FieldsOf(s)'
    BY <1>5, <2>2 DEF FieldsOf
  <2>4. writer' = [writer EXCEPT ![s] = writer'[s]]
    BY <1>3, <2>1
  <2> QED
    BY <1>4, <1>6, <2>1, <2>3, <2>4
<1>9. CASE Transfer(i)
  <2>1. writer' = writer /\ program[i].rec \notin {"enter", "leave"}
    BY <1>9 DEF Transfer
  <2>2. writer' = [writer EXCEPT ![s] = writer'[s]] /\ FieldsOf(s)'
    BY <1>3, <2>1 DEF FieldsOf
  <2> QED
    BY <1>6, <2>1, <2>2
<1> QED
  BY <1>1, <1>7, <1>8, <1>9

\* Write keeps the invariant.
LEMMA WriteKeepsDevice ==
  ASSUME DeviceInv, Write PROVE DeviceInv'
<1>1. PICK i : i = written + 1
  OBVIOUS
<1>2. PICK s : s = program[i].stream
  OBVIOUS
<1>3. /\ phase = "write" /\ phase' = "write" /\ strayed = FALSE /\ written < pos /\ written' = i
      /\ UNCHANGED <<program, time, pos>>
  BY <1>1 DEF Write, readerVars, DeviceInv
<1>4. /\ Trace /\ DeviceTrace /\ WriterFilters /\ IsDevice(device) /\ IsStats(stats)
      /\ DeviceState(device, stats, written)
      /\ pos \in 0 .. Len(program) /\ written \in 0 .. pos /\ Len(program) \in Nat
  BY <1>3, TraceFacts DEF DeviceInv
<1>5. i \in Events /\ written \in Nat /\ i - 1 = written /\ i \in 0 .. pos /\ i \in Nat \ {0}
  BY <1>1, <1>3, <1>4, TraceFacts
<1>6. s \in Streams
  BY <1>2, <1>4, <1>5, TraceFacts
<1>7. /\ Trace' /\ DeviceTrace' /\ DeviceEvents' = DeviceEvents
      /\ \A D, S, n : DeviceState(D, S, n)' <=> DeviceState(D, S, n)
      /\ \A D, S : Concluded(D, S)' <=> Concluded(D, S)
  BY <1>3, <1>4, DeviceTraceStays
<1>8. strayed' \in BOOLEAN
  <2>1. CASE Region(i)
    <3>1. CASE WriterSees(i)
      <4>1. ProcessNextEvent(i)
        BY <2>1, <3>1 DEF Region
      <4>2. \/ strayed' = (strayed \/ IsNode(i))
            \/ strayed' = (strayed \/ (IsNode(i) /\ nodes[s][writer[s].curr] # i))
            \/ strayed' = TRUE
        BY <1>2, <4>1 DEF ProcessNextEvent
      <4> QED
        BY <4>2
    <3>2. CASE ~WriterSees(i)
      BY <1>3, <2>1, <3>2 DEF Region
    <3> QED
      BY <3>1, <3>2
  <2>2. CASE TeamEnd(i) \/ Transfer(i) \/ WinDestroy(i)
    BY <1>3, <2>2 DEF TeamEnd, Transfer, WinDestroy
  <2> QED
    BY <1>1, <2>1, <2>2 DEF Write
<1>9. ASSUME ~strayed' PROVE WriterFilters'
  <2>1. /\ writer' = [writer EXCEPT ![s] = writer'[s]] /\ FieldsOf(s)'
        /\ writer'[s].filtering = IF IsFiltered(i) THEN Opens(i) ELSE writer[s].filtering
    BY <1>1, <1>2, <1>9, WriterAfter
  <2>2. writer = [x \in Streams |-> writer[x]]
    BY <1>4 DEF WriterFilters
  <2>3. \A x \in Streams : x # s => writer'[x] = writer[x]
    BY <1>6, <2>1, <2>2
  <2>4. writer' = [x \in Streams |-> writer'[x]]
    BY <1>6, <2>1, <2>2
  <2>5. ASSUME NEW x \in Streams PROVE FieldsOf(x)' /\ (writer'[x].filtering <=> Inside(x, i))
    <3>1. FieldsOf(x) /\ (writer[x].filtering <=> Inside(x, i - 1))
      BY <1>4, <1>5 DEF WriterFilters
    <3>2. Inside(x, i) <=> IF program[i].stream = x /\ IsFiltered(i) THEN Opens(i)
                                                                    ELSE Inside(x, i - 1)
      BY <1>5, InsideAfter
    <3>3. CASE x # s
      <4>1. writer'[x] = writer[x]
        BY <2>3, <3>3
      <4>2. FieldsOf(x)'
        BY <3>1, <4>1 DEF FieldsOf
      <4> QED
        BY <1>2, <3>1, <3>2, <3>3, <4>1, <4>2
    <3>4. CASE x = s
      BY <1>2, <2>1, <3>1, <3>2, <3>4
    <3> QED
      BY <3>3, <3>4
  <2>6. \A x : Inside(x, written)' <=> Inside(x, i)
    BY <1>3, ProgramStays DEF Inside
  <2> QED
    BY <2>4, <2>5, <2>6 DEF WriterFilters
<1>10. ASSUME ~strayed'
       PROVE  IsDevice(device)' /\ IsStats(stats)' /\ DeviceState(device, stats, written)'
  <2>1. PICK D, S : D = device' /\ S = stats'
    OBVIOUS
  <2>2. Effect(device', stats', i)
    BY <1>1, <1>10, WriteEffect
  <2>3. Effect(D, S, i)
    BY <2>1, <2>2
  <2>4. IsDevice(D) /\ IsStats(S) /\ DeviceState(D, S, i)
    BY <1>1, <1>4, <1>5, <2>3, StateAfter
  <2>5. DeviceState(device, stats, written)'
    BY <1>3, <1>7, <2>1, <2>4
  <2> QED
    BY <2>1, <2>4, <2>5 DEF IsDevice, IsStats
<1> QED
  BY <1>3, <1>4, <1>5, <1>7, <1>8, <1>9, <1>10 DEF DeviceInv

\* When the last event is written, or never, the idle times are complete.
LEMMA FinalizeKeepsDevice ==
  ASSUME DeviceInv, FinalizeStreams PROVE DeviceInv'
<1>1. /\ phase = "write" /\ phase' = "done" /\ strayed = FALSE /\ written = Len(program)
      /\ UNCHANGED <<program, time, pos, written, writer, strayed>>
  BY DEF FinalizeStreams, readerVars, DeviceInv
<1>2. /\ Trace /\ DeviceTrace /\ WriterFilters /\ IsDevice(device) /\ IsStats(stats)
      /\ DeviceState(device, stats, written)
      /\ Len(program) \in Nat /\ Events = 1 .. Len(program)
  BY <1>1, TraceFacts DEF DeviceInv
<1>3. PICK D, S : D = FinalDevice(device) /\ S = FinalStats(stats, device)
  OBVIOUS
<1>4. device' = D /\ stats' = S
  BY <1>3 DEF FinalizeStreams
<1>5. /\ Trace' /\ DeviceTrace' /\ DeviceEvents' = DeviceEvents
      /\ \A E, R, n : DeviceState(E, R, n)' <=> DeviceState(E, R, n)
      /\ \A E, R : Concluded(E, R)' <=> Concluded(E, R)
  BY <1>1, <1>2, DeviceTraceStays
<1>6. /\ IsDevice(D) /\ IsStats(S) /\ DeviceState(D, S, written)
      /\ DeviceEvents # {} => Concluded(D, S)
  <2>1. CASE DeviceEvents # {}
    <3>1. /\ Final \in Events /\ Final \in Nat /\ Final \in DeviceEvents
      BY <1>2, <2>1, DeviceEventsFacts
    <3>2. Final <= written
      BY <1>1, <1>2, <3>1
    <3>3. Concluded(device, stats) \/ (device.last = time[Final] /\ Counted(stats, device, Final))
      BY <1>1, <1>2, <3>1, <3>2 DEF DeviceState
    <3>4. IsDevice(D) /\ IsStats(S) /\ Concluded(D, S)
      BY <1>2, <1>3, <2>1, <3>3, ConcludesOnce
    <3> QED
      BY <2>1, <3>2, <3>4 DEF DeviceState
  <2>2. CASE DeviceEvents = {}
    <3>1. Unused(device, stats)
      BY <1>2, <2>2 DEF DeviceState
    <3>2. /\ IsDevice(D) /\ IsStats(S) /\ D.last = 0
          /\ D.refs = device.refs /\ D.computeRefs = device.computeRefs
          /\ D.transferStart = device.transferStart
          /\ device.last = 0 => S = stats
      BY <1>2, <1>3, FinalFields
    <3>3. Unused(D, S)
      BY <3>1, <3>2 DEF Unused
    <3> QED
      BY <2>2, <3>2, <3>3 DEF DeviceState
  <2> QED
    BY <2>1, <2>2
<1>7. WriterFilters'
  BY <1>1, <1>2, SameWriter
<1>8. IsDevice(device)' /\ IsStats(stats)'
  BY <1>4, <1>6 DEF IsDevice, IsStats
<1>9. DeviceState(device, stats, written)' /\ (DeviceEvents' # {} => Concluded(device, stats)')
  BY <1>1, <1>4, <1>5, <1>6
<1> QED
  BY <1>1, <1>5, <1>7, <1>8, <1>9 DEF DeviceInv

\* The invariant holds initially.
LEMMA InitDevice ==
  ASSUME Init, DeviceTrace PROVE DeviceInv
<1>1. /\ pos = 0 /\ written = 0 /\ phase = "read" /\ strayed = FALSE /\ Trace
      /\ writer = [s \in Streams |-> [curr |-> 1, onPath |-> FALSE, stack |-> <<>>, last |-> 0,
                                      open |-> {}, filtering |-> FALSE]]
      /\ device = [refs |-> -1, computeRefs |-> -1, idleStart |-> 0, computeIdleStart |-> 0,
                   first |-> 0, last |-> 0, transferStart |-> 0]
      /\ stats = [idle |-> 0, computeIdle |-> 0, transfer |-> 0]
  BY DEF Init, Trace
<1>2. Len(program) \in Nat \ {0} /\ Events = 1 .. Len(program)
  BY <1>1, TraceFacts
<1>3. WriterFilters
  <2>1. \A s : ~Inside(s, 0)
    BY DEF Inside
  <2> QED
    BY <1>1, <2>1 DEF WriterFilters, FieldsOf
<1>4. IsDevice(device) /\ IsStats(stats) /\ Unused(device, stats)
  BY <1>1 DEF IsDevice, IsStats, Unused
<1>5. \A j \in DeviceEvents : written < j
  BY <1>1, <1>2 DEF DeviceEvents
<1>6. DeviceState(device, stats, written)
  BY <1>4, <1>5 DEF DeviceState
<1>7. pos \in 0 .. Len(program) /\ written \in 0 .. pos /\ pos < Len(program)
  BY <1>1, <1>2
<1> QED
  BY <1>1, <1>3, <1>4, <1>6, <1>7 DEF DeviceInv

-----------------------------------------------------------------------------
(***************************************************************************)
(* The theorem.                                                            *)
(***************************************************************************)
\* The invariant is one, for traces that satisfy the hypotheses.
LEMMA DeviceInvariant == Spec /\ DeviceTrace => []DeviceInv
<1>1. Init /\ DeviceTrace => DeviceInv
  BY InitDevice
<1>2. DeviceInv /\ [Next]_vars => DeviceInv'
  BY OthersKeepDevice, LocationsKeepDevice, WriteKeepsDevice, FinalizeKeepsDevice DEF Next, Finished
<1> QED
  BY <1>1, <1>2, PTL DEF Spec

\* In the end the statistics have the time of the steps.
LEMMA StatsAreTimes ==
  ASSUME DeviceInv, phase = "done"
  PROVE  IF DeviceEvents = {}
         THEN stats.idle = 0 /\ stats.computeIdle = 0 /\ stats.transfer = 0
         ELSE /\ stats.idle = TimeOf(Idle, Final) /\ stats.computeIdle = TimeOf(KernelFree, Final)
              /\ stats.transfer = TimeOf(Transferring, Final)
<1>1. CASE DeviceEvents = {}
  <2>1. Unused(device, stats)
    BY <1>1 DEF DeviceInv, DeviceState
  <2> QED
    BY <1>1, <2>1 DEF Unused
<1>2. CASE DeviceEvents # {}
  BY <1>2 DEF DeviceInv, Concluded
<1> QED
  BY <1>1, <1>2

\* The idle times the summary prints are right for every trace: counters and
\* times of the last start, updated event by event while intervals are written
\* (handleDeviceTaskEnter, handleDeviceTaskLeave, handleFinalDeviceIdleLeave),
\* end up as the time between the first and the last use of the device without
\* a task, without a kernel, and with a transfer.  DeviceTrace says when the
\* counting by events fits the trace.
THEOREM IdleIsCounted == Spec /\ DeviceTrace => []IdleTimeIsIdle
<1>1. DeviceInv => IdleTimeIsIdle
  <2> DEFINE
    tasks(i, recs) == Cardinality({j \in 1 .. i : program[j].stream \in Devices /\ program[j].rec \in recs})
    kernel(i) == tasks(i, {"enter"}) > tasks(i, {"leave"})
    transfer(i) == tasks(i, {"get"}) > tasks(i, {"complete"})
    steps == {i \in Events : DeviceEvents # {} /\ Min(DeviceEvents) <= i /\ i < Max(DeviceEvents)}
    Total(S) == MapThenSumSet(LAMBDA i : time[i + 1] - time[i], S)
  <2>1. SUFFICES ASSUME DeviceInv, phase = "done"
                 PROVE  /\ stats.computeIdle = Total({i \in steps : ~ kernel(i)})
                        /\ stats.transfer = Total({i \in steps : transfer(i)})
                        /\ stats.idle = Total({i \in steps : ~ kernel(i) /\ ~ transfer(i)})
    BY DEF IdleTimeIsIdle
  <2>2. /\ Trace /\ DeviceTrace /\ Len(program) \in Nat /\ Events = 1 .. Len(program)
    BY <2>1, TraceFacts DEF DeviceInv
  <2>3. PICK A, B, C : /\ A = {i \in steps : ~ kernel(i)} /\ B = {i \in steps : transfer(i)}
                       /\ C = {i \in steps : ~ kernel(i) /\ ~ transfer(i)}
    OBVIOUS
  <2>4. DeviceEvents = {} => steps = {}
    OBVIOUS
  <2>5. DeviceEvents # {} =>
          /\ Final \in Events /\ First \in Nat
          /\ steps = {i \in Events : First <= i /\ i < Final}
    BY <2>2, DeviceEventsFacts DEF First, Final
  <2>6. steps \in SUBSET (1 .. (Len(program) - 1))
    BY <2>2, <2>4, <2>5
  <2>7. \A i \in Events : /\ ~ kernel(i) <=> i \in KernelFree
                          /\ transfer(i) <=> i \in Transferring
                          /\ ~ kernel(i) /\ ~ transfer(i) <=> i \in Idle
    <3> SUFFICES ASSUME NEW i \in Events
                 PROVE  /\ ~ kernel(i) <=> Kernels(i) = 0
                        /\ transfer(i) <=> Transfers(i) > 0
                        /\ ~ kernel(i) /\ ~ transfer(i) <=> Kernels(i) = 0 /\ Transfers(i) = 0
      BY DEF KernelFree, Transferring, Idle
    <3>1. \A recs : tasks(i, recs) = Tasks(recs, i) /\ Tasks(recs, i) \in Nat
      <4>1. i \in Nat \ {0}
        BY <2>2
      <4> QED
        BY <4>1, TasksAfter DEF Tasks
    <3>2. Kernels(i) \in Nat /\ Transfers(i) \in Nat
      BY <2>2, TasksOfEvent
    <3>3. kernel(i) <=> Tasks({"enter"}, i) > Tasks({"leave"}, i)
      BY <3>1
    <3>4. transfer(i) <=> Tasks({"get"}, i) > Tasks({"complete"}, i)
      BY <3>1
    <3> HIDE DEF kernel, transfer
    <3>5. /\ Tasks({"enter"}, i) \in Nat /\ Tasks({"leave"}, i) \in Nat
          /\ Tasks({"get"}, i) \in Nat /\ Tasks({"complete"}, i) \in Nat
      BY <3>1
    <3> QED
      BY <3>2, <3>3, <3>4, <3>5 DEF Kernels, Transfers
  <2> HIDE DEF kernel, transfer, steps
  <2>8. /\ A \in SUBSET (1 .. (Len(program) - 1)) /\ B \in SUBSET (1 .. (Len(program) - 1))
        /\ C \in SUBSET (1 .. (Len(program) - 1))
    BY <2>3, <2>6
  <2>9. Total(A) = SumOver(StepLength, A) /\ Total(B) = SumOver(StepLength, B)
        /\ Total(C) = SumOver(StepLength, C)
    BY <2>2, <2>8, TotalIsSum
  <2>10. /\ stats.computeIdle = SumOver(StepLength, A) /\ stats.transfer = SumOver(StepLength, B)
         /\ stats.idle = SumOver(StepLength, C)
    <3>1. CASE DeviceEvents = {}
      <4>1. A = {} /\ B = {} /\ C = {}
        BY <2>3, <2>4, <3>1
      <4>2. stats.idle = 0 /\ stats.computeIdle = 0 /\ stats.transfer = 0
        BY <2>1, <3>1, StatsAreTimes
      <4>3. SumOver(StepLength, {}) = 0
        BY SumOverEmpty
      <4> QED
        BY <4>1, <4>2, <4>3
    <3>2. CASE DeviceEvents # {}
      <4>1. /\ A = {i \in KernelFree : First <= i /\ i < Final}
            /\ B = {i \in Transferring : First <= i /\ i < Final}
            /\ C = {i \in Idle : First <= i /\ i < Final}
        <5>1. KernelFree \in SUBSET Events /\ Idle \in SUBSET Events /\ Transferring \in SUBSET Events
          BY StepsAreEvents
        <5> QED
          BY <2>3, <2>5, <2>7, <3>2, <5>1
      <4>2. /\ stats.idle = TimeOf(Idle, Final) /\ stats.computeIdle = TimeOf(KernelFree, Final)
            /\ stats.transfer = TimeOf(Transferring, Final)
        BY <2>1, <3>2, StatsAreTimes
      <4> QED
        BY <4>1, <4>2 DEF TimeOf
    <3> QED
      BY <3>1, <3>2
  <2> QED
    BY <2>3, <2>9, <2>10
<1> QED
  BY <1>1, DeviceInvariant, PTL
=============================================================================
