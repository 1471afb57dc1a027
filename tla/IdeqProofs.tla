----------------------------- MODULE IdeqProofs -----------------------------
(* The ring buffer Ideq is a bounded sequence, for every capacity and every *)
(* set of values.                                                          *)
EXTENDS Ideq, SequenceTheorems, TLAPS

\* A copy ends inside the new vector, and what it copies lies in the old one.
LEMMA Copied ==
  ASSUME TypeOK, head # -1, NEW k \in CopyEnds
  PROVE  k \in 0 .. Extent - 1 /\ \A i \in 0 .. k : vec[Visited(i)] \in Value \cup {-1}
<1>1. head \in 0 .. size - 1 /\ tail \in 0 .. size - 1 /\ size \in Nat \ {0}
  BY IdeqAssumption DEF TypeOK, Capacity
<1>2. Extent \in 1 .. size
  BY <1>1 DEF Extent
<1>3. k \in 0 .. Extent - 1 /\ Visited(k) = tail
  BY DEF CopyEnds
<1>4. \A i \in 0 .. k : Visited(i) \in 0 .. size - 1
  BY <1>1, <1>2, <1>3 DEF Visited
<1> QED
  BY <1>3, <1>4 DEF TypeOK

LEMMA TypeKept == TypeOK /\ [Next]_vars => TypeOK'
<1> SUFFICES ASSUME TypeOK, [Next]_vars PROVE TypeOK'
  OBVIOUS
<1> USE IdeqAssumption DEF TypeOK, Capacity, Return, Of
<1>1. CASE Clear
  BY <1>1 DEF Clear
<1>2. CASE ReadHead
  BY <1>2 DEF ReadHead
<1>3. CASE ReadTail
  BY <1>3 DEF ReadTail
<1>4. CASE RemoveFromHead
  BY <1>4 DEF RemoveFromHead, RemoveNothing, RemoveLast, After
<1>5. CASE RemoveFromTail
  BY <1>5 DEF RemoveFromTail, RemoveNothing, RemoveLast, Before
<1>6. ASSUME NEW v \in Value, InsertAtHead(v) PROVE TypeOK'
  BY <1>6 DEF InsertAtHead, InsertFirst, InsertNothing, Before
<1>7. ASSUME NEW v \in Value, InsertAtTail(v) PROVE TypeOK'
  BY <1>7 DEF InsertAtTail, InsertFirst, InsertNothing, After
<1>8. CASE UNCHANGED vars
  BY <1>8 DEF vars
<1> QED
  BY <1>1, <1>2, <1>3, <1>4, <1>5, <1>6, <1>7, <1>8 DEF Next

\* Resizing loses data (see ResizeKeepsData) but leaves the ring well formed.
LEMMA TypeKeptByResize == ASSUME TypeOK, NEW n \in Capacity, Resize(n) PROVE TypeOK'
<1>1. n \in Nat /\ n >= 1
  BY IdeqAssumption DEF Capacity
<1>2. CASE UNCHANGED <<vec, size, head, tail>> /\ rc' \in {Of("resize", -1), Crashed}
  BY <1>2 DEF TypeOK, Of, Crashed
<1>3. CASE /\ head = -1 /\ vec' = [i \in 0 .. n - 1 |-> -1] /\ size' = n
           /\ Return("resize", 1) /\ UNCHANGED <<head, tail>>
  BY <1>1, <1>3 DEF TypeOK, Return, Of
<1>4. ASSUME NEW k \in CopyEnds, ~(Extent > n), head # -1,
             vec' = [i \in 0 .. n - 1 |-> IF i <= k THEN vec[Visited(i)] ELSE -1],
             size' = n, head' = 0, tail' = k, Return("resize", 1)
      PROVE  TypeOK'
  <2>1. k \in 0 .. Extent - 1 /\ \A i \in 0 .. k : vec[Visited(i)] \in Value \cup {-1}
    BY <1>4, Copied
  <2>2. Extent \in Int
    BY IdeqAssumption DEF Extent, TypeOK, Capacity
  <2>3. k \in 0 .. n - 1
    BY <1>1, <1>4, <2>1, <2>2
  <2>4. vec' \in [0 .. n - 1 -> Value \cup {-1}]
    BY <1>1, <1>4, <2>1, <2>3
  <2> QED
    BY <1>1, <1>4, <2>3, <2>4 DEF TypeOK, Return, Of
<1> QED
  BY <1>2, <1>3, <1>4 DEF Resize, Return

\* Whatever is inserted, removed and cleared, and with resizes in between as well
\* until one crashes, the indices of the ring stay in the vector and are -1 together.
THEOREM TypeCorrect == (Spec => []TypeOK) /\ (ResizeSpec => []TypeOK)
<1>1. Init => TypeOK
  BY IdeqAssumption DEF Init, TypeOK, Capacity, Of
<1>2. TypeOK /\ [ResizeNext]_vars => TypeOK'
  BY TypeKept, TypeKeptByResize DEF ResizeNext
<1> QED
  BY <1>1, <1>2, TypeKept, PTL DEF Spec, ResizeSpec

-----------------------------------------------------------------------------
(* The contents of the ring                                                *)

Elements == Value \cup {-1}

\* What the indices say of a dequeue that is not empty: its length, its two
\* ends, and what lies at each position of the contents.
RingFacts ==
  /\ Extent \in 1 .. size
  /\ Extent = size <=> Full
  /\ \A i \in 1 .. Extent : Place(i) \in 0 .. size - 1
  /\ Place(1) = head /\ Place(Extent) = tail
  /\ Contents \in Seq(Elements) /\ Len(Contents) = Extent
  /\ \A i \in 1 .. Extent : Contents[i] = vec[Place(i)]

LEMMA Ring == TypeOK /\ head # -1 => RingFacts
<1> SUFFICES ASSUME TypeOK, head # -1 PROVE RingFacts
  OBVIOUS
<1>1. head \in 0 .. size - 1 /\ tail \in 0 .. size - 1 /\ size \in Nat \ {0}
  BY IdeqAssumption DEF TypeOK, Capacity
<1>2. /\ Extent \in 1 .. size
      /\ Extent = size <=> Full
      /\ Place(1) = head /\ Place(Extent) = tail
  BY <1>1 DEF Extent, Full, Before, Place
<1>3. \A i \in 1 .. Extent : Place(i) \in 0 .. size - 1
  BY <1>1 DEF Extent, Place
<1>4. Contents \in [1 .. Extent -> Elements]
  <2>1. \A i \in 1 .. Extent : vec[Place(i)] \in Elements
    BY <1>3 DEF TypeOK, Elements
  <2> QED
    BY <2>1 DEF Contents
<1>5. Contents \in Seq(Elements) /\ Len(Contents) = Extent
  BY <1>2, <1>4, <1>1
<1>6. \A i \in 1 .. Extent : Contents[i] = vec[Place(i)]
  BY DEF Contents
<1> QED
  BY <1>2, <1>3, <1>5, <1>6 DEF RingFacts

\* The contents are the empty sequence exactly when the indices are -1.
LEMMA Empty == TypeOK => (Contents = << >> <=> head = -1)
<1>1. CASE head = -1
  BY <1>1 DEF Contents
<1>2. ASSUME TypeOK, head # -1 PROVE Contents # << >>
  <2>1. Len(Contents) # 0
    BY <1>2, Ring DEF RingFacts
  <2> QED
    BY <2>1, EmptySeq
<1> QED
  BY <1>1, <1>2

-----------------------------------------------------------------------------
(* Each call does to the contents what the abstract one does               *)

\* Both modules record results in the same form.
SameCalls == \A call, value : Of(call, value) = Deque!Of(call, value)

LEMMA Same == SameCalls
BY DEF SameCalls, Of, Deque!Of

LEMMA LastRemoved ==
  ASSUME TypeOK, TypeOK', RemoveLast
  PROVE  Deque!RemoveFromHead
<1>1. head # -1 /\ head = tail /\ rc' = Of("remove", vec[head]) /\ head' = -1
  BY DEF RemoveLast, Return
<1>2. RingFacts /\ Extent = 1
  BY <1>1, Ring DEF Extent, TypeOK
<1>3. Contents # << >> /\ Contents' = << >> /\ Contents[1] = vec[head]
  BY <1>1, <1>2, Empty DEF Contents, RingFacts
<1>4. Contents \in Seq(Elements) /\ Len(Contents) = 1
  BY <1>2 DEF RingFacts
<1>5. Tail(Contents) = << >>
  <2>1. Tail(Contents) \in Seq(Elements) /\ Len(Tail(Contents)) = 0
    BY <1>3, <1>4, HeadTailProperties
  <2> QED
    BY <2>1, EmptySeq
<1> QED
  BY <1>1, <1>3, <1>5, Same DEF Deque!RemoveFromHead, SameCalls, RemoveLast

LEMMA RemoveHeadStep ==
  ASSUME TypeOK, TypeOK', RemoveFromHead
  PROVE  Deque!RemoveFromHead \/ Deque!RemoveNothing
<1>1. CASE RemoveNothing
  <2>1. Contents = << >> /\ Contents' = << >>
    BY <1>1, Empty DEF RemoveNothing, Contents
  <2> QED
    BY <1>1, <2>1, Same DEF RemoveNothing, Deque!RemoveNothing, Return, SameCalls
<1>2. CASE RemoveLast
  BY <1>2, LastRemoved
<1>3. ASSUME head # tail, Return("remove", vec[head]), head' = After(head),
             UNCHANGED <<vec, size, tail>>
      PROVE  Deque!RemoveFromHead
  <2>1. head # -1 /\ head' # -1
    BY <1>3 DEF TypeOK, Capacity, After
  <2>2. RingFacts /\ RingFacts'
    <3>1. (TypeOK /\ head # -1 => RingFacts)'
      BY Ring, PTL
    <3> QED
      BY <2>1, <3>1, Ring
  <2>3. Extent \in 2 .. size /\ Extent' = Extent - 1
    BY <1>3, <2>1 DEF TypeOK, Capacity, After, Extent
  <2>4. \A i \in 1 .. Extent - 1 : Place(i)' = Place(i + 1)
    BY <1>3, <2>1, <2>3 DEF TypeOK, Capacity, After, Place, Extent
  <2>5. Contents \in Seq(Elements) /\ Len(Contents) = Extent /\ Contents # << >>
        /\ Contents[1] = vec[head]
    BY <2>1, <2>2, <2>3, Empty DEF RingFacts
  <2>6. Tail(Contents) \in Seq(Elements) /\ Len(Tail(Contents)) = Extent - 1
        /\ \A i \in 1 .. Extent - 1 : Tail(Contents)[i] = Contents[i + 1]
    BY <2>5, HeadTailProperties
  <2>7. Contents' \in Seq(Elements) /\ Len(Contents') = Extent - 1
    BY <2>2, <2>3 DEF RingFacts, Elements
  <2>8. \A i \in 1 .. Extent - 1 : Contents'[i] = Tail(Contents)[i]
    <3> SUFFICES ASSUME NEW i \in 1 .. Extent - 1
                 PROVE  Contents'[i] = Tail(Contents)[i]
      OBVIOUS
    <3>1. Contents'[i] = vec[Place(i)']
      BY <1>3, <2>2, <2>3 DEF RingFacts
    <3>2. i + 1 \in 1 .. Extent /\ Contents[i + 1] = vec[Place(i + 1)]
      BY <2>2, <2>3 DEF RingFacts
    <3> QED
      BY <3>1, <3>2, <2>4, <2>6
  <2>9. Contents' = Tail(Contents)
    BY <2>6, <2>7, <2>8, SeqEqual
  <2> QED
    BY <1>3, <2>5, <2>9, Same DEF Deque!RemoveFromHead, Return, SameCalls
<1> QED
  BY <1>1, <1>2, <1>3 DEF RemoveFromHead

LEMMA RemoveTailStep ==
  ASSUME TypeOK, TypeOK', RemoveFromTail
  PROVE  Deque!RemoveFromHead \/ Deque!RemoveFromTail \/ Deque!RemoveNothing
<1>1. CASE RemoveNothing
  BY <1>1, RemoveHeadStep DEF RemoveFromHead
<1>2. CASE RemoveLast
  BY <1>2, LastRemoved
<1>3. ASSUME head # tail, Return("remove", vec[tail]), tail' = Before(tail),
             UNCHANGED <<vec, size, head>>
      PROVE  Deque!RemoveFromTail
  <2>1. head # -1 /\ head' # -1
    BY <1>3 DEF TypeOK, Capacity, Before
  <2>2. RingFacts /\ RingFacts'
    <3>1. (TypeOK /\ head # -1 => RingFacts)'
      BY Ring, PTL
    <3> QED
      BY <2>1, <3>1, Ring
  <2>3. Extent \in 2 .. size /\ Extent' = Extent - 1
    BY <1>3, <2>1 DEF TypeOK, Capacity, Before, Extent
  <2>4. \A i \in 1 .. Extent - 1 : Place(i)' = Place(i)
    BY <1>3 DEF Place
  <2>5. Contents \in Seq(Elements) /\ Len(Contents) = Extent /\ Contents # << >>
        /\ Contents[Extent] = vec[tail]
    BY <2>1, <2>2, <2>3, Empty DEF RingFacts
  <2> DEFINE short == SubSeq(Contents, 1, Extent - 1)
  <2>6. short \in Seq(Elements) /\ Len(short) = Extent - 1
        /\ \A i \in 1 .. Extent - 1 : short[i] = Contents[i]
    <3>1. \A i \in 1 .. Extent - 1 : Contents[i] \in Elements
      BY <2>3, <2>5, ElementOfSeq
    <3>2. Extent - 1 \in Int /\ 1 <= Extent - 1
      BY <2>3
    <3> QED
      BY <3>1, <3>2, SubSeqProperties
  <2>7. Contents' \in Seq(Elements) /\ Len(Contents') = Extent - 1
    BY <2>2, <2>3 DEF RingFacts, Elements
  <2>8. \A i \in 1 .. Extent - 1 : Contents'[i] = short[i]
    <3> SUFFICES ASSUME NEW i \in 1 .. Extent - 1
                 PROVE  Contents'[i] = short[i]
      OBVIOUS
    <3>1. Contents'[i] = vec[Place(i)']
      BY <1>3, <2>2, <2>3 DEF RingFacts
    <3>2. i \in 1 .. Extent /\ Contents[i] = vec[Place(i)]
      BY <2>2, <2>3 DEF RingFacts
    <3> QED
      BY <3>1, <3>2, <2>4, <2>6
  <2> HIDE DEF short
  <2>9. Contents' = short
    BY <2>6, <2>7, <2>8, SeqEqual
  <2> QED
    BY <1>3, <2>5, <2>9, Same DEF short, Deque!RemoveFromTail, Return, SameCalls
<1> QED
  BY <1>1, <1>2, <1>3 DEF RemoveFromTail

LEMMA FirstInserted ==
  ASSUME TypeOK, TypeOK', NEW v \in Value, InsertFirst(v)
  PROVE  Deque!InsertAtHead(v) /\ Deque!InsertAtTail(v)
<1>1. Contents = << >> /\ Len(Contents) = 0 /\ size \in Nat \ {0}
  BY Empty DEF InsertFirst, TypeOK, Capacity
<1>2. head' = 0 /\ tail' = 0 /\ vec'[0] = v /\ size' = size
  BY <1>1 DEF InsertFirst, TypeOK
<1>3. Contents' = <<v>>
  BY <1>1, <1>2 DEF Contents, Extent, Place
<1>4. <<v>> \o Contents = <<v>> /\ Append(Contents, v) = <<v>>
  BY <1>1
<1> QED
  BY <1>1, <1>2, <1>3, <1>4, Same
  DEF InsertFirst, Deque!InsertAtHead, Deque!InsertAtTail, Return, SameCalls

LEMMA NothingInserted ==
  ASSUME TypeOK, TypeOK', InsertNothing
  PROVE  Deque!InsertNothing
<1>1. Len(Contents) = size
  BY Ring DEF RingFacts, InsertNothing
<1>2. Contents' = Contents
  BY DEF InsertNothing, Contents, Extent, Place
<1> QED
  BY <1>1, <1>2, Same DEF InsertNothing, Deque!InsertNothing, Return, SameCalls

LEMMA InsertHeadStep ==
  ASSUME TypeOK, TypeOK', NEW v \in Value, InsertAtHead(v)
  PROVE  Deque!InsertAtHead(v) \/ Deque!InsertNothing
<1>1. ASSUME head # -1, ~Full, head' = Before(head), vec' = [vec EXCEPT ![Before(head)] = v],
             Return("insert", 1), UNCHANGED <<size, tail>>
      PROVE  Deque!InsertAtHead(v)
  <2>1. head' # -1
    BY <1>1 DEF TypeOK, Capacity, Before
  <2>2. RingFacts /\ RingFacts'
    <3>1. (TypeOK /\ head # -1 => RingFacts)'
      BY Ring, PTL
    <3> QED
      BY <1>1, <2>1, <3>1, Ring
  <2>3. Extent \in 1 .. size - 1 /\ Extent' = Extent + 1 /\ size \in Nat
    BY <1>1, <2>1 DEF TypeOK, Capacity, Before, Full, Extent
  <2>4. /\ \A i \in 1 .. Extent : Place(i + 1)' = Place(i) /\ Place(i) # Before(head)
        /\ Place(1)' = Before(head) /\ Before(head) \in 0 .. size - 1
    BY <1>1, <2>1, <2>3 DEF TypeOK, Capacity, Before, Place, Extent
  <2>5. Contents \in Seq(Elements) /\ Len(Contents) = Extent
    BY <2>2 DEF RingFacts
  <2> DEFINE longer == <<v>> \o Contents
  <2>6. longer \in Seq(Elements) /\ Len(longer) = Extent + 1 /\ longer[1] = v
        /\ \A i \in 1 .. Extent : longer[i + 1] = Contents[i]
    <3>1. <<v>> \in Seq(Elements) /\ Len(<<v>>) = 1 /\ <<v>>[1] = v
      BY DEF Elements
    <3> QED
      BY <2>3, <2>5, <3>1, ConcatProperties
  <2>7. Contents' \in Seq(Elements) /\ Len(Contents') = Extent + 1
    BY <2>2, <2>3 DEF RingFacts, Elements
  <2>8. Contents'[1] = v
    <3>1. Contents'[1] = vec'[Place(1)']
      BY <2>2, <2>3 DEF RingFacts
    <3> QED
      BY <3>1, <2>4, <1>1 DEF TypeOK
  <2>9. \A i \in 1 .. Extent : Contents'[i + 1] = longer[i + 1]
    <3> SUFFICES ASSUME NEW i \in 1 .. Extent
                 PROVE  Contents'[i + 1] = longer[i + 1]
      OBVIOUS
    <3>0. i + 1 \in 1 .. Extent'
      BY <2>3
    <3>1. Contents'[i + 1] = vec'[Place(i + 1)']
      BY <2>2, <3>0 DEF RingFacts
    <3>2. Contents[i] = vec[Place(i)] /\ Place(i) \in 0 .. size - 1
      BY <2>2 DEF RingFacts
    <3>3. vec'[Place(i)] = vec[Place(i)]
      BY <3>2, <2>4, <1>1 DEF TypeOK
    <3> QED
      BY <3>1, <3>2, <3>3, <2>4, <2>6
  <2> HIDE DEF longer
  <2>10. \A i \in 1 .. Extent + 1 : Contents'[i] = longer[i]
    <3> SUFFICES ASSUME NEW i \in 1 .. Extent + 1
                 PROVE  Contents'[i] = longer[i]
      OBVIOUS
    <3>1. CASE i = 1
      BY <3>1, <2>6, <2>8
    <3>2. CASE i # 1
      <4>1. i - 1 \in 1 .. Extent /\ (i - 1) + 1 = i
        BY <3>2, <2>3
      <4> QED
        BY <4>1, <2>9
    <3> QED
      BY <3>1, <3>2
  <2>11. Contents' = longer
    BY <2>6, <2>7, <2>10, SeqEqual
  <2> QED
    BY <1>1, <2>3, <2>5, <2>11, Same DEF longer, Deque!InsertAtHead, Return, SameCalls
<1> QED
  BY <1>1, FirstInserted, NothingInserted DEF InsertAtHead

LEMMA InsertTailStep ==
  ASSUME TypeOK, TypeOK', NEW v \in Value, InsertAtTail(v)
  PROVE  Deque!InsertAtTail(v) \/ Deque!InsertNothing
<1>1. ASSUME head # -1, ~Full, tail' = After(tail), vec' = [vec EXCEPT ![After(tail)] = v],
             Return("insert", 1), UNCHANGED <<size, head>>
      PROVE  Deque!InsertAtTail(v)
  <2>2. RingFacts /\ RingFacts'
    <3>1. (TypeOK /\ head # -1 => RingFacts)'
      BY Ring, PTL
    <3> QED
      BY <1>1, <3>1, Ring
  <2>3. Extent \in 1 .. size - 1 /\ Extent' = Extent + 1 /\ size \in Nat
    BY <1>1 DEF TypeOK, Capacity, Before, After, Full, Extent
  <2>4. /\ \A i \in 1 .. Extent : Place(i)' = Place(i) /\ Place(i) # After(tail)
        /\ After(tail) \in 0 .. size - 1
    BY <1>1, <2>3 DEF TypeOK, Capacity, After, Place, Extent
  <2>5. Contents \in Seq(Elements) /\ Len(Contents) = Extent
    BY <2>2 DEF RingFacts
  <2>6. Append(Contents, v) \in Seq(Elements) /\ Len(Append(Contents, v)) = Extent + 1
        /\ Append(Contents, v)[Extent + 1] = v
        /\ \A i \in 1 .. Extent : Append(Contents, v)[i] = Contents[i]
    BY <2>5, AppendProperties DEF Elements
  <2>7. Contents' \in Seq(Elements) /\ Len(Contents') = Extent + 1
    BY <2>2, <2>3 DEF RingFacts, Elements
  <2>8. Contents'[Extent + 1] = v
    <3>1. \A e \in 1 .. Extent' : e = Extent' => Contents'[e] = vec'[Place(e)'] /\ Place(e)' = tail'
      BY <2>2 DEF RingFacts
    <3> QED
      BY <3>1, <2>3, <2>4, <1>1 DEF TypeOK
  <2>9. \A i \in 1 .. Extent : Contents'[i] = Append(Contents, v)[i]
    <3> SUFFICES ASSUME NEW i \in 1 .. Extent
                 PROVE  Contents'[i] = Append(Contents, v)[i]
      OBVIOUS
    <3>1. Contents'[i] = vec'[Place(i)']
      BY <2>2, <2>3 DEF RingFacts
    <3>2. Contents[i] = vec[Place(i)] /\ Place(i) \in 0 .. size - 1
      BY <2>2 DEF RingFacts
    <3>3. vec'[Place(i)] = vec[Place(i)]
      BY <3>2, <2>4, <1>1 DEF TypeOK
    <3> QED
      BY <3>1, <3>2, <3>3, <2>4, <2>6
  <2>10. \A i \in 1 .. Extent + 1 : Contents'[i] = Append(Contents, v)[i]
    BY <2>3, <2>6, <2>8, <2>9
  <2>11. Contents' = Append(Contents, v)
    BY <2>6, <2>7, <2>10, SeqEqual
  <2> QED
    BY <1>1, <2>3, <2>5, <2>11, Same DEF Deque!InsertAtTail, Return, SameCalls
<1> QED
  BY <1>1, FirstInserted, NothingInserted DEF InsertAtTail

LEMMA ReadStep ==
  ASSUME TypeOK, ReadHead \/ ReadTail
  PROVE  Deque!Read
<1>1. Contents' = Contents /\ size' = size
  BY DEF ReadHead, ReadTail, Contents, Extent, Place
<1>2. CASE head = -1
  BY <1>1, <1>2, Empty, Same
  DEF ReadHead, ReadTail, TypeOK, Return, SameCalls, Deque!Read
<1>3. CASE head # -1
  <2>1. Contents # << >> /\ Contents[1] = vec[head] /\ Contents[Len(Contents)] = vec[tail]
        /\ tail # -1
    BY <1>3, Ring, Empty DEF RingFacts, TypeOK, Capacity
  <2> QED
    BY <1>1, <1>3, <2>1, Same DEF ReadHead, ReadTail, Return, SameCalls, Deque!Read
<1> QED
  BY <1>2, <1>3

\* For every capacity and every set of values, the ring is a bounded
\* sequence: no wrap-around loses, repeats or reorders a value, and an
\* insertion is refused only when the vector is full.
THEOREM RingCorrect == Spec => RefinesDeque
<1>1. Init => Deque!QInit
  BY IdeqAssumption, Same DEF Init, Deque!QInit, Contents, Capacity, SameCalls
<1>2. TypeOK /\ TypeOK' /\ [Next]_vars => [Deque!QNext]_<<Contents, size, rc>>
  <2> SUFFICES ASSUME TypeOK, TypeOK', [Next]_vars
               PROVE  Deque!QNext \/ UNCHANGED <<Contents, size, rc>>
    OBVIOUS
  <2>1. CASE Clear
    <3>1. Contents' = << >>
      BY <2>1 DEF Clear, Contents
    <3> QED
      BY <2>1, <3>1, Same DEF Clear, Return, SameCalls, Deque!Clear, Deque!QNext
  <2>2. CASE ReadHead \/ ReadTail
    BY <2>2, ReadStep DEF Deque!QNext
  <2>3. CASE RemoveFromHead
    BY <2>3, RemoveHeadStep DEF Deque!QNext
  <2>4. CASE RemoveFromTail
    BY <2>4, RemoveTailStep DEF Deque!QNext
  <2>5. ASSUME NEW v \in Value, InsertAtHead(v) PROVE Deque!QNext
    BY <2>5, InsertHeadStep DEF Deque!QNext
  <2>6. ASSUME NEW v \in Value, InsertAtTail(v) PROVE Deque!QNext
    BY <2>6, InsertTailStep DEF Deque!QNext
  <2>7. CASE UNCHANGED vars
    BY <2>7 DEF vars, Contents, Extent, Place
  <2> QED
    BY <2>1, <2>2, <2>3, <2>4, <2>5, <2>6, <2>7 DEF Next
<1> QED
  BY <1>1, <1>2, TypeCorrect, PTL DEF Spec, RefinesDeque, Deque!QSpec
=============================================================================
