----------------------------- MODULE ClientProofs -----------------------------
(***************************************************************************)
(* Proofs about StreamReader and Client, for every block size, every       *)
(* stream and every number of encoded packets.                             *)
(***************************************************************************)
EXTENDS Client, TLAPS, SequenceTheorems, WellFoundedInduction

(* Induction over a set of numbers, and what it says of FlattenSeq. *)

LEMMA LeastNumber ==
    ASSUME NEW T, T \subseteq Nat, T # {}
    PROVE  \E x \in T : \A y \in T : x <= y
<1>1. PICK x \in T : \A y \in T : ~(<<y, x>> \in OpToRel(<, Nat))
  BY NatLessThanWellFounded, WFMin
<1>2. ASSUME NEW y \in T
      PROVE  x <= y
  <2>1. ~(<<y, x>> \in OpToRel(<, Nat))
    BY <1>1
  <2>2. ~(y < x)
    BY <2>1 DEF OpToRel
  <2>3. QED  BY <2>2
<1>3. QED  BY <1>2

LEMMA NumberInduction ==
    ASSUME NEW S, 0 \in S, \A n \in Nat : n \in S => n + 1 \in S
    PROVE  Nat \subseteq S
<1> DEFINE T == Nat \ S
<1>1. SUFFICES ASSUME T # {} PROVE FALSE
  OBVIOUS
<1>2. PICK x \in T : \A y \in T : x <= y
  BY <1>1, LeastNumber
<1>3. x \in Nat /\ x # 0
  OBVIOUS
<1>4. x - 1 \in Nat /\ x - 1 \notin T
  BY <1>2, <1>3
<1>5. QED  BY <1>3, <1>4

\* g joins the first n sequences of seqs, one after the other.
Joins(g, seqs, n) ==
    g = [i \in 1..n |-> IF i = 1 THEN seqs[i] ELSE g[i - 1] \o seqs[i]]

LEMMA JoinsExist ==
    ASSUME NEW seqs, NEW m \in Nat
    PROVE  \E g : Joins(g, seqs, m)
<1> DEFINE S == {n \in Nat : \E g : Joins(g, seqs, n)}
<1>1. 0 \in S
  <2>1. Joins([i \in 1..0 |-> <<>>], seqs, 0)
    BY DEF Joins
  <2>2. QED  BY <2>1
<1>2. ASSUME NEW n \in Nat, n \in S
      PROVE  n + 1 \in S
  <2>1. PICK g : Joins(g, seqs, n)
    BY <1>2
  <2> DEFINE h == [i \in 1..(n + 1) |-> IF i <= n THEN g[i]
                                        ELSE IF i = 1 THEN seqs[i] ELSE g[n] \o seqs[i]]
  <2>2. \A i \in 1..n : g[i] = IF i = 1 THEN seqs[i] ELSE g[i - 1] \o seqs[i]
    BY <2>1 DEF Joins
  <2>3. ASSUME NEW i \in 1..(n + 1)
        PROVE  h[i] = IF i = 1 THEN seqs[i] ELSE h[i - 1] \o seqs[i]
    <3>1. CASE i <= n
      BY <2>2, <3>1
    <3>2. CASE i = n + 1
      BY <3>2
    <3>3. QED  BY <3>1, <3>2
  <2>4. Joins(h, seqs, n + 1)
    <3>1. h = [i \in 1..(n + 1) |-> h[i]]
      OBVIOUS
    <3> HIDE DEF h
    <3>2. QED  BY <2>3, <3>1 DEF Joins
  <2>5. QED  BY <2>4
<1>3. m \in S
  <2> HIDE DEF S
  <2>1. QED  BY <1>1, <1>2, NumberInduction
<1>4. QED  BY <1>3

LEMMA JoinsType ==
    ASSUME NEW S, NEW seqs \in Seq(Seq(S)), NEW g, Joins(g, seqs, Len(seqs))
    PROVE  \A i \in 1..Len(seqs) : g[i] \in Seq(S)
<1> DEFINE T == {n \in Nat : n \in 1..Len(seqs) => g[n] \in Seq(S)}
<1>1. 0 \in T
  OBVIOUS
<1>2. ASSUME NEW n \in Nat, n \in T
      PROVE  n + 1 \in T
  <2> SUFFICES ASSUME n + 1 \in 1..Len(seqs) PROVE g[n + 1] \in Seq(S)
    OBVIOUS
  <2>1. seqs[n + 1] \in Seq(S)
    BY ElementOfSeq
  <2>2. g[n + 1] = IF n + 1 = 1 THEN seqs[n + 1] ELSE g[(n + 1) - 1] \o seqs[n + 1]
    BY DEF Joins
  <2>3. CASE n = 0
    BY <2>1, <2>2, <2>3
  <2>4. CASE n # 0
    <3>1. n \in 1..Len(seqs) /\ (n + 1) - 1 = n
      BY <2>4, LenProperties
    <3>2. g[n] \in Seq(S)
      BY <1>2, <3>1
    <3>3. g[n] \o seqs[n + 1] \in Seq(S)
      BY <2>1, <3>2, ConcatProperties
    <3>4. QED  BY <2>2, <2>4, <3>1, <3>3
  <2>5. QED  BY <2>3, <2>4
<1>3. Nat \subseteq T
  <2> HIDE DEF T
  <2>1. QED  BY <1>1, <1>2, NumberInduction
<1>4. QED  BY <1>3

\* The units of a packet make one sequence of bytes.
LEMMA FlattenType ==
    ASSUME NEW S, NEW seqs \in Seq(Seq(S))
    PROVE  FlattenSeq(seqs) \in Seq(S)
<1>1. CASE Len(seqs) = 0
  <2>1. seqs = <<>>
    BY <1>1, EmptySeq, SeqEqual
  <2>2. QED  BY <1>1, <2>1, EmptySeq DEF FlattenSeq
<1>2. CASE Len(seqs) # 0
  <2> DEFINE g == CHOOSE g : Joins(g, seqs, Len(seqs))
  <2>1. Len(seqs) \in Nat
    BY LenProperties
  <2>2. Joins(g, seqs, Len(seqs))
    BY <2>1, JoinsExist
  <2>3. FlattenSeq(seqs) = g[Len(seqs)]
    BY <1>2 DEF FlattenSeq, Joins
  <2> HIDE DEF g
  <2>4. Len(seqs) \in 1..Len(seqs)
    BY <1>2, <2>1
  <2>5. QED  BY <2>2, <2>3, <2>4, JoinsType
<1>3. QED  BY <1>1, <1>2

\* Two joinings of the same sequences are the same.
LEMMA JoinsAgree ==
    ASSUME NEW seqs, NEW m \in Nat, NEW g, NEW h, Joins(g, seqs, m), Joins(h, seqs, m)
    PROVE  \A i \in 1..m : g[i] = h[i]
<1> DEFINE T == {n \in Nat : n \in 1..m => g[n] = h[n]}
<1>1. 0 \in T
  OBVIOUS
<1>2. ASSUME NEW n \in Nat, n \in T
      PROVE  n + 1 \in T
  <2> SUFFICES ASSUME n + 1 \in 1..m PROVE g[n + 1] = h[n + 1]
    OBVIOUS
  <2>1. /\ g[n + 1] = IF n + 1 = 1 THEN seqs[n + 1] ELSE g[(n + 1) - 1] \o seqs[n + 1]
        /\ h[n + 1] = IF n + 1 = 1 THEN seqs[n + 1] ELSE h[(n + 1) - 1] \o seqs[n + 1]
    BY DEF Joins
  <2>2. CASE n = 0
    BY <2>1, <2>2
  <2>3. CASE n # 0
    <3>1. n \in 1..m /\ (n + 1) - 1 = n /\ n + 1 # 1
      BY <2>3
    <3>2. g[n] = h[n]
      BY <1>2, <3>1
    <3>3. QED  BY <2>1, <3>1, <3>2
  <2>4. QED  BY <2>2, <2>3
<1>3. Nat \subseteq T
  <2> HIDE DEF T
  <2>1. QED  BY <1>1, <1>2, NumberInduction
<1>4. QED  BY <1>3

LEMMA FlattenJoins ==
    ASSUME NEW S, NEW seqs \in Seq(S), seqs # <<>>, NEW g, Joins(g, seqs, Len(seqs))
    PROVE  FlattenSeq(seqs) = g[Len(seqs)]
<1> DEFINE h == CHOOSE h : Joins(h, seqs, Len(seqs))
<1>1. Len(seqs) \in Nat \ {0}
  BY EmptySeq
<1>2. Joins(h, seqs, Len(seqs))
  BY <1>1, JoinsExist
<1>3. FlattenSeq(seqs) = h[Len(seqs)]
  BY <1>1 DEF FlattenSeq, Joins
<1> HIDE DEF h
<1>4. Len(seqs) \in 1..Len(seqs)
  BY <1>1
<1>5. QED  BY <1>1, <1>2, <1>3, <1>4, JoinsAgree

LEMMA FlattenEmpty == FlattenSeq(<<>>) = <<>>
BY DEF FlattenSeq

LEMMA FlattenAppend ==
    ASSUME NEW S, NEW seqs \in Seq(Seq(S)), NEW e \in Seq(S)
    PROVE  FlattenSeq(Append(seqs, e)) = FlattenSeq(seqs) \o e
<1> DEFINE n == Len(seqs)
           more == Append(seqs, e)
<1>1. /\ n \in Nat /\ more \in Seq(Seq(S)) /\ more # <<>> /\ Len(more) = n + 1
      /\ more[n + 1] = e /\ \A i \in 1..n : more[i] = seqs[i]
  BY AppendProperties, LenProperties
<1> HIDE DEF n, more
<1>2. PICK g : Joins(g, more, n + 1)
  <2>1. n + 1 \in Nat
    BY <1>1
  <2>2. QED  BY <2>1, JoinsExist
<1>3. FlattenSeq(more) = g[n + 1]
  BY <1>1, <1>2, FlattenJoins
<1>4. \A i \in 1..(n + 1) : g[i] = IF i = 1 THEN more[i] ELSE g[i - 1] \o more[i]
  BY <1>2 DEF Joins
<1>5. CASE seqs = <<>>
  <2>1. n = 0 /\ g[1] = e
    BY <1>1, <1>4, <1>5, EmptySeq DEF n
  <2>2. <<>> \o e = e
    BY ConcatEmptySeq
  <2>3. QED  BY <1>3, <1>5, <2>1, <2>2, FlattenEmpty DEF more
<1>6. CASE seqs # <<>>
  <2>1. n \in Nat \ {0}
    BY <1>6, EmptySeq DEF n
  <2> DEFINE h == [i \in 1..n |-> g[i]]
  <2>2. ASSUME NEW i \in 1..n
        PROVE  h[i] = IF i = 1 THEN seqs[i] ELSE h[i - 1] \o seqs[i]
    <3>1. i \in 1..(n + 1) /\ more[i] = seqs[i]
      BY <1>1
    <3>2. g[i] = IF i = 1 THEN seqs[i] ELSE g[i - 1] \o seqs[i]
      BY <1>4, <3>1
    <3>3. CASE i = 1
      BY <3>2, <3>3
    <3>4. CASE i # 1
      <4>1. i - 1 \in 1..n
        BY <1>1, <3>4
      <4>2. QED  BY <3>2, <3>4, <4>1
    <3>5. QED  BY <3>3, <3>4
  <2>3. Joins(h, seqs, n)
    <3>1. h = [i \in 1..n |-> h[i]]
      OBVIOUS
    <3> HIDE DEF h
    <3>2. QED  BY <2>2, <3>1 DEF Joins
  <2>4. FlattenSeq(seqs) = h[n] /\ h[n] = g[n]
    <3>1. FlattenSeq(seqs) = h[n]
      <4> HIDE DEF h
      <4>1. QED  BY <1>6, <2>3, FlattenJoins DEF n
    <3>2. QED  BY <2>1, <3>1
  <2>5. g[n + 1] = g[n] \o e
    <3>1. n + 1 \in 1..(n + 1) /\ n + 1 # 1 /\ (n + 1) - 1 = n
      BY <2>1
    <3>2. QED  BY <1>1, <1>4, <3>1
  <2>6. QED  BY <1>3, <2>4, <2>5 DEF more
<1>7. QED  BY <1>5, <1>6

\* What holds of the empty sequence and of each with one more holds of all.
LEMMA SequenceInduction ==
    ASSUME NEW S, NEW T, <<>> \in T,
           \A s \in Seq(S) : \A e \in S : s \in T => Append(s, e) \in T
    PROVE  Seq(S) \subseteq T
<1> DEFINE N == {n \in Nat : \A s \in Seq(S) : Len(s) = n => s \in T}
<1>1. 0 \in N
  <2>1. ASSUME NEW s \in Seq(S), Len(s) = 0 PROVE s \in T
    <3>1. s = <<>>
      BY <2>1, EmptySeq
    <3>2. QED  BY <3>1
  <2>2. QED  BY <2>1
<1>2. ASSUME NEW n \in Nat, n \in N
      PROVE  n + 1 \in N
  <2>1. ASSUME NEW s \in Seq(S), Len(s) = n + 1 PROVE s \in T
    <3>1. s # <<>>
      BY <2>1, EmptySeq
    <3>2. PICK r \in Seq(S), e \in S : s = Append(r, e)
      BY <3>1, SequenceEmptyOrAppend
    <3>3. Len(r) + 1 = n + 1 /\ Len(r) \in Nat
      BY <2>1, <3>2, AppendProperties, LenProperties
    <3>4. Len(r) = n
      BY <3>3
    <3>5. r \in T
      BY <1>2, <3>4
    <3>6. QED  BY <3>2, <3>5
  <2>2. QED  BY <2>1
<1>3. Nat \subseteq N
  <2> HIDE DEF N
  <2>1. QED  BY <1>1, <1>2, NumberInduction
<1>4. QED  BY <1>3, LenProperties

LEMMA ConcatAppend ==
    ASSUME NEW S, NEW s \in Seq(S), NEW t \in Seq(S), NEW e \in S
    PROVE  s \o Append(t, e) = Append(s \o t, e)
<1> DEFINE one == <<e>>
<1>1. s \o t \in Seq(S) /\ one \in Seq(S)
  BY ConcatProperties
<1>2. Append(t, e) = t \o one /\ Append(s \o t, e) = (s \o t) \o one
  BY <1>1, AppendIsConcat
<1> HIDE DEF one
<1>3. QED  BY <1>1, <1>2, ConcatAssociative

LEMMA ThreeInARow ==
    \A S : \A a, b, c \in Seq(S) : (a \o b) \o c = a \o (b \o c)
BY ConcatAssociative

LEMMA FlattenConcat ==
    ASSUME NEW S, NEW seqs \in Seq(Seq(S)), NEW more \in Seq(Seq(S))
    PROVE  FlattenSeq(seqs \o more) = FlattenSeq(seqs) \o FlattenSeq(more)
<1> DEFINE T == {m \in Seq(Seq(S)) : FlattenSeq(seqs \o m) = FlattenSeq(seqs) \o FlattenSeq(m)}
<1>1. FlattenSeq(seqs) \in Seq(S)
  BY FlattenType
<1>2. <<>> \in T
  <2>1. seqs \o <<>> = seqs /\ <<>> \in Seq(Seq(S))
    BY ConcatEmptySeq, EmptySeq
  <2>2. FlattenSeq(seqs) \o <<>> = FlattenSeq(seqs)
    BY <1>1, ConcatEmptySeq
  <2>3. QED  BY <2>1, <2>2, FlattenEmpty
<1>3. \A a, b, c \in Seq(S) : (a \o b) \o c = a \o (b \o c)
  BY ThreeInARow
<1>4. ASSUME NEW m \in Seq(Seq(S)), NEW e \in Seq(S), m \in T
      PROVE  Append(m, e) \in T
  <2>1. Append(m, e) \in Seq(Seq(S)) /\ seqs \o m \in Seq(Seq(S)) /\ FlattenSeq(m) \in Seq(S)
    BY AppendProperties, ConcatProperties, FlattenType
  <2>2. seqs \o Append(m, e) = Append(seqs \o m, e)
    BY ConcatAppend
  <2>3. FlattenSeq(Append(seqs \o m, e)) = FlattenSeq(seqs \o m) \o e
    BY <2>1, FlattenAppend
  <2>4. FlattenSeq(Append(m, e)) = FlattenSeq(m) \o e
    BY FlattenAppend
  <2>5. FlattenSeq(seqs \o m) = FlattenSeq(seqs) \o FlattenSeq(m)
    BY <1>4
  <2>6. (FlattenSeq(seqs) \o FlattenSeq(m)) \o e = FlattenSeq(seqs) \o (FlattenSeq(m) \o e)
    <3>1. FlattenSeq(seqs) \in Seq(S) /\ FlattenSeq(m) \in Seq(S) /\ e \in Seq(S)
      BY <1>1, <2>1, <1>4
    <3>2. QED  BY <1>3, <3>1, Zenon
  <2>7. QED  BY <2>1, <2>2, <2>3, <2>4, <2>5, <2>6
<1>5. Seq(Seq(S)) \subseteq T
  <2> HIDE DEF T
  <2>1. QED  BY <1>2, <1>4, SequenceInduction
<1>6. QED  BY <1>5

LEMMA FlattenOne ==
    ASSUME NEW S, NEW e \in Seq(S)
    PROVE  FlattenSeq(<<e>>) = e
<1>1. <<>> \in Seq(Seq(S)) /\ Append(<<>>, e) = <<e>>
  BY EmptySeq
<1>2. FlattenSeq(Append(<<>>, e)) = FlattenSeq(<<>>) \o e
  BY <1>1, FlattenAppend
<1>3. QED  BY <1>1, <1>2, FlattenEmpty, ConcatEmptySeq

LEMMA HeadAndRest ==
    ASSUME NEW S, NEW s \in Seq(S), s # <<>>
    PROVE  s = <<Head(s)>> \o Tail(s)
<1>1. Len(s) \in Nat \ {0}
  BY EmptySeq
<1>2. 1 \in 1..Len(s) /\ Len(s) \in 1..Len(s)
  BY <1>1
<1>3. SubSeq(s, 1, Len(s)) = <<s[1]>> \o SubSeq(s, 1 + 1, Len(s))
  BY <1>2, SubSeqRecursiveFirst
<1>4. SubSeq(s, 1, Len(s)) = s
  BY SubSeqFull
<1>5. Tail(s) = SubSeq(s, 2, Len(s)) /\ Head(s) = s[1] /\ 1 + 1 = 2
  BY TailIsSubSeq
<1>6. QED  BY <1>3, <1>4, <1>5

LEMMA FlattenHead ==
    ASSUME NEW S, NEW seqs \in Seq(Seq(S)), seqs # <<>>
    PROVE  /\ Head(seqs) \in Seq(S) /\ Tail(seqs) \in Seq(Seq(S))
           /\ FlattenSeq(seqs) = Head(seqs) \o FlattenSeq(Tail(seqs))
<1>1. Head(seqs) \in Seq(S) /\ Tail(seqs) \in Seq(Seq(S))
  BY HeadTailProperties
<1>2. seqs = <<Head(seqs)>> \o Tail(seqs)
  BY HeadAndRest
<1>3. <<Head(seqs)>> \in Seq(Seq(S))
  BY <1>1
<1>4. FlattenSeq(<<Head(seqs)>> \o Tail(seqs))
          = FlattenSeq(<<Head(seqs)>>) \o FlattenSeq(Tail(seqs))
  BY <1>1, <1>3, FlattenConcat
<1>5. FlattenSeq(<<Head(seqs)>>) = Head(seqs)
  BY <1>1, FlattenOne
<1>6. QED  BY <1>1, <1>2, <1>4, <1>5

-------------------------------------------------------------------------------
(* Numbers of blocks. *)

LEMMA Quotient ==
    ASSUME NEW a \in Nat, NEW b \in Nat \ {0}
    PROVE  a \div b \in Nat
OBVIOUS

LEMMA NextQuotient ==
    ASSUME NEW a \in Nat, NEW b \in Nat \ {0}
    PROVE  (a + b) \div b = a \div b + 1
OBVIOUS

-------------------------------------------------------------------------------
(* StreamReader. *)

DemuxPackets == [video : BOOLEAN, nalus : Seq(Seq(Bytes))]

\* ReadTo never hands out an empty block, nor more than one before it is taken.
Givens ==
    /\ Len(given) <= 1
    /\ \A i \in 1..Len(given) : Len(given[i].data) \in 1..BlockSize
    /\ nalu # <<>> => naluOffset < Len(nalu)

ReaderInv == TypeOK /\ Givens

LEMMA RestOfSource ==
    ASSUME NEW s \in Rests, s # <<>>
    PROVE  Head(s) \in DemuxPackets /\ Tail(s) \in Rests
<1>1. PICK all \in Sources \cup {<<>>} : s \in {SubSeq(all, i, Len(all)) : i \in 1..(Len(all) + 1)}
  BY DEF Rests
<1>2. PICK i \in 1..(Len(all) + 1) : s = SubSeq(all, i, Len(all))
  BY <1>1
<1>3. all \in Seq(DemuxPackets) /\ Len(all) \in Nat
  BY <1>1, SourcesAssumption, EmptySeq, LenProperties DEF DemuxPackets
<1>4. i \in 1..Len(all) /\ Len(all) \in i..Len(all)
  <2>1. ~(Len(all) < i)
    BY <1>2, <1>3, SubSeqEmpty
  <2>2. QED  BY <1>3, <2>1
<1>5. Head(s) = all[i] /\ Tail(s) = SubSeq(all, i + 1, Len(all))
  BY <1>2, <1>3, <1>4, HeadTailOfSubSeq
<1>6. all[i] \in DemuxPackets
  BY <1>3, <1>4, ElementOfSeq
<1>7. i + 1 \in 1..(Len(all) + 1)
  BY <1>3, <1>4
<1>8. Tail(s) \in {SubSeq(all, j, Len(all)) : j \in 1..(Len(all) + 1)}
  BY <1>5, <1>7
<1>9. QED  BY <1>5, <1>6, <1>8 DEF Rests

LEMMA WholeSource ==
    ASSUME NEW s \in Sources \cup {<<>>}
    PROVE  s \in Rests
<1>1. s \in Seq(DemuxPackets) /\ Len(s) \in Nat
  BY SourcesAssumption, EmptySeq, LenProperties DEF DemuxPackets
<1>2. SubSeq(s, 1, Len(s)) = s
  BY <1>1, SubSeqFull
<1>3. 1 \in 1..(Len(s) + 1)
  BY <1>1
<1>4. QED  BY <1>2, <1>3 DEF Rests

\* The first start code from offset on, when there is one.
LEMMA FirstStartCode ==
    ASSUME NEW buf \in Seq(Bytes), NEW offset \in Nat
    PROVE  LET i == FindStartCode(buf, offset, Len(buf)) IN
           \/ i = Len(buf) /\ StartCodes(buf, offset) = {}
           \/ i \in Nat /\ offset <= i /\ i + 2 < Len(buf)
<1> DEFINE codes == StartCodes(buf, offset)
<1>1. Len(buf) \in Nat
  BY LenProperties
<1>2. CASE codes = {}
  BY <1>2 DEF FindStartCode
<1>3. CASE codes # {}
  <2>1. codes \subseteq Nat /\ \A i \in codes : offset <= i /\ i + 2 < Len(buf)
    BY <1>1 DEF StartCodes, IsStartCode
  <2>2. \E i \in codes : \A j \in codes : i <= j
    BY <1>3, <2>1, LeastNumber
  <2> DEFINE first == CHOOSE i \in codes : \A j \in codes : i <= j
  <2>3. first \in codes
    BY <2>2
  <2>4. FindStartCode(buf, offset, Len(buf)) = first
    BY <1>3 DEF FindStartCode
  <2> HIDE DEF codes, first
  <2>5. QED  BY <2>1, <2>3, <2>4
<1>4. QED  BY <1>2, <1>3

\* The empty sequence has every type.
Empties == /\ <<>> \in Rests /\ <<>> \in Seq(Bytes) /\ <<>> \in Seq(Seq(Bytes))
           /\ <<>> \in Seq(Blocks) /\ Len(<<>>) = 0

LEMMA Empty == Empties
<1>1. <<>> \in Rests
  BY WholeSource
<1>2. <<>> \in Seq(Bytes) /\ <<>> \in Seq(Seq(Bytes)) /\ <<>> \in Seq(Blocks)
  BY EmptySeq
<1>3. QED  BY <1>1, <1>2 DEF Empties

LEMMA ReaderInvInit == Init => ReaderInv
<1> SUFFICES ASSUME Init PROVE ReaderInv
  OBVIOUS
<1>1. /\ source \in Rests /\ filter \in Seq(Seq(Bytes))
      /\ avPacket \in Seq(Bytes) /\ buffer \in Seq(Bytes) /\ nalu \in Seq(Bytes)
      /\ given \in Seq(Blocks) /\ handed \in Seq(Blocks)
      /\ Len(buffer) = 0 /\ Len(nalu) = 0 /\ Len(given) = 0 /\ nalu = <<>>
  BY Empty DEF Init, Empties
<1>2. /\ filtering = FALSE /\ flushed = FALSE /\ failed = FALSE /\ reader = "closed"
      /\ bufferOffset = 0 /\ naluOffset = 0 /\ naluIndex = 0
  BY DEF Init
<1>3. TypeOK
  <2>1. bufferOffset \in 0..Len(buffer) /\ naluOffset \in 0..Len(nalu) /\ naluIndex \in Nat
    BY <1>1, <1>2
  <2>2. /\ filtering \in BOOLEAN /\ flushed \in BOOLEAN /\ failed \in BOOLEAN
        /\ reader \in {"closed", "readTo", "packet", "fill", "ended", "exited"}
    BY <1>2
  <2>3. QED  BY <1>1, <2>1, <2>2, Zenon DEF TypeOK
<1>4. Givens
  BY <1>1, <1>2 DEF Givens
<1>5. QED  BY <1>3, <1>4 DEF ReaderInv

LEMMA ReaderInvStutter ==
    ASSUME ReaderInv, UNCHANGED readerVars
    PROVE  ReaderInv'
BY DEF ReaderInv, TypeOK, Givens, readerVars, demuxVars, naluVars

LEMMA ReaderInvTake ==
    ASSUME ReaderInv, TakeBlock
    PROVE  ReaderInv'
<1>1. <<>> \in Seq(Blocks) /\ Len(<<>>) = 0
  BY EmptySeq
<1>2. QED
  BY <1>1 DEF ReaderInv, TypeOK, Givens, TakeBlock, demuxVars, naluVars

LEMMA ReaderInvOpenClose ==
    ASSUME ReaderInv, Open \/ Close
    PROVE  ReaderInv'
<1>1. CASE Open
  <2>1. source' \in Rests
    <3>1. source' = source \/ source' \in Sources
      BY <1>1 DEF Open
    <3>2. QED  BY <3>1, WholeSource DEF ReaderInv, TypeOK
  <2>2. filtering' \in BOOLEAN /\ reader' \in {"exited", "readTo"}
    BY <1>1 DEF Open, ReaderInv, TypeOK
  <2>3. UNCHANGED <<filter, flushed, failed, avPacket, buffer, bufferOffset, nalu, naluOffset,
                    naluIndex, given, handed>>
    BY <1>1 DEF Open, naluVars
  <2>4. QED  BY <2>1, <2>2, <2>3 DEF ReaderInv, TypeOK, Givens
<1>2. CASE Close
  <2>1. /\ source' \in Rests /\ filter' \in Seq(Seq(Bytes))
        /\ avPacket' \in Seq(Bytes) /\ buffer' \in Seq(Bytes) /\ nalu' \in Seq(Bytes)
        /\ Len(buffer') = 0 /\ Len(nalu') = 0 /\ nalu' = <<>>
    BY <1>2, Empty DEF Close, Empties
  <2>2. /\ filtering' = FALSE /\ flushed' = FALSE /\ reader' = "closed"
        /\ bufferOffset' = 0 /\ naluOffset' = 0 /\ naluIndex' = 0
        /\ failed' = failed /\ given' = given /\ handed' = handed
    BY <1>2 DEF Close
  <2>3. /\ failed \in BOOLEAN /\ given \in Seq(Blocks) /\ handed \in Seq(Blocks)
        /\ Givens
    BY DEF ReaderInv, TypeOK
  <2>4. TypeOK'
    <3>1. /\ bufferOffset' \in 0..Len(buffer') /\ naluOffset' \in 0..Len(nalu')
          /\ naluIndex' \in Nat
      BY <2>1, <2>2
    <3>2. /\ filtering' \in BOOLEAN /\ flushed' \in BOOLEAN /\ failed' \in BOOLEAN
          /\ reader' \in {"closed", "readTo", "packet", "fill", "ended", "exited"}
          /\ given' \in Seq(Blocks) /\ handed' \in Seq(Blocks)
      BY <2>2, <2>3
    <3>3. QED  BY <2>1, <3>1, <3>2, Zenon DEF TypeOK
  <2>5. Givens'
    BY <2>1, <2>2, <2>3 DEF Givens
  <2>6. QED  BY <2>4, <2>5 DEF ReaderInv
<1>3. QED  BY <1>1, <1>2

LEMMA ReaderInvPacket ==
    ASSUME ReaderInv, ReadPacketFromStream
    PROVE  ReaderInv'
<1>1. UNCHANGED <<filtering, buffer, bufferOffset, nalu, naluOffset, naluIndex, given, handed>>
  BY DEF ReadPacketFromStream, naluVars
<1>2. source \in Rests /\ filter \in Seq(Seq(Bytes)) /\ avPacket \in Seq(Bytes)
      /\ reader \in {"closed", "readTo", "packet", "fill", "ended", "exited"}
      /\ flushed \in BOOLEAN /\ failed \in BOOLEAN
  BY DEF ReaderInv, TypeOK
<1>3. source # <<>> => /\ Tail(source) \in Rests
                       /\ FlattenSeq(Head(source).nalus) \in Seq(Bytes)
  <2> SUFFICES ASSUME source # <<>> PROVE /\ Tail(source) \in Rests
                                         /\ FlattenSeq(Head(source).nalus) \in Seq(Bytes)
    OBVIOUS
  <2>1. Head(source) \in DemuxPackets /\ Tail(source) \in Rests
    BY <1>2, RestOfSource
  <2>2. Head(source).nalus \in Seq(Seq(Bytes))
    BY <2>1 DEF DemuxPackets
  <2>3. QED  BY <2>1, <2>2, FlattenType
<1>4. filter # <<>> => Head(filter) \in Seq(Bytes) /\ Tail(filter) \in Seq(Seq(Bytes))
  BY <1>2, HeadTailProperties
<1>5. /\ source' \in Rests /\ filter' \in Seq(Seq(Bytes)) /\ avPacket' \in Seq(Bytes)
      /\ reader' \in {"closed", "readTo", "packet", "fill", "ended", "exited"}
      /\ flushed' \in BOOLEAN /\ failed' \in BOOLEAN
  <2>1. CASE Fail \/ EndOfFile
    BY <1>2, <2>1 DEF Fail, EndOfFile
  <2>2. CASE filter # <<>> /\ DrainFilter
    BY <1>2, <1>4, <2>2 DEF DrainFilter
  <2>3. CASE FeedFilter
    <3>1. CASE source = <<>>
      BY <1>2, <2>3, <3>1 DEF FeedFilter
    <3>2. CASE source # <<>>
      <4>1. Append(filter, FlattenSeq(Head(source).nalus)) \in Seq(Seq(Bytes))
        BY <1>2, <1>3, <3>2, AppendProperties
      <4>2. QED  BY <1>2, <1>3, <2>3, <3>2, <4>1 DEF FeedFilter
    <3>3. QED  BY <3>1, <3>2
  <2>4. CASE source # <<>> /\ ReadDirectly /\ ~Fail
    BY <1>2, <1>3, <2>4 DEF ReadDirectly
  <2>5. QED
    BY <2>1, <2>2, <2>3, <2>4 DEF ReadPacketFromStream, ReadThroughFilter, ReadDirectly
<1>6. QED  BY <1>1, <1>5 DEF ReaderInv, TypeOK, Givens

LEMMA ReaderInvFill ==
    ASSUME ReaderInv, FillStreamBuffer
    PROVE  ReaderInv'
<1>1. /\ buffer \in Seq(Bytes) /\ avPacket \in Seq(Bytes) /\ <<>> \in Seq(Bytes)
      /\ bufferOffset \in 0..Len(buffer)
  BY Empty DEF ReaderInv, TypeOK, Empties
<1>2. buffer' \in Seq(Bytes) /\ Len(buffer') = Len(buffer) + Len(avPacket)
  BY <1>1, ConcatProperties DEF FillStreamBuffer
<1>3. bufferOffset' \in 0..Len(buffer')
  BY <1>1, <1>2, LenProperties DEF FillStreamBuffer
<1>4. avPacket' \in Seq(Bytes) /\ reader' = "readTo"
  BY <1>1 DEF FillStreamBuffer
<1>5. UNCHANGED <<source, filtering, filter, flushed, failed, nalu, naluOffset, naluIndex,
                  given, handed>>
  BY DEF FillStreamBuffer, demuxVars, naluVars
<1>6. QED  BY <1>2, <1>3, <1>4, <1>5 DEF ReaderInv, TypeOK, Givens

\* A unit that is cut out of the buffer is not empty.
LEMMA ReaderInvExtract ==
    ASSUME ReaderInv, ExtractNextNalu
    PROVE  ReaderInv'
<1> DEFINE start == FindStartCode(buffer, bufferOffset, Len(buffer))
           end == NaluEnd(start)
<1>1. /\ buffer \in Seq(Bytes) /\ Len(buffer) \in Nat /\ bufferOffset \in 0..Len(buffer)
      /\ naluOffset \in 0..Len(nalu) /\ nalu \in Seq(Bytes)
  BY LenProperties DEF ReaderInv, TypeOK
<1>2. UNCHANGED <<source, filtering, filter, flushed, failed, avPacket, buffer, naluIndex,
                  given, handed>>
  BY DEF ExtractNextNalu, demuxVars, naluVars
<1>3. /\ nalu' \in Seq(Bytes) /\ bufferOffset' \in 0..Len(buffer) /\ naluOffset' \in 0..Len(nalu')
      /\ nalu' # <<>> => naluOffset' < Len(nalu')
      /\ reader' \in {"readTo", "packet"}
  <2>1. CASE start = Len(buffer)
    BY <1>1, <2>1 DEF ExtractNextNalu, naluVars
  <2>2. CASE start # Len(buffer)
    <3>1. /\ nalu' = SubSeq(buffer, start + 1, end)
          /\ bufferOffset' = end /\ naluOffset' = 0 /\ reader' = "readTo"
      BY <2>2 DEF ExtractNextNalu
    <3>2. start \in Nat /\ start + 2 < Len(buffer)
      BY <1>1, <2>2, FirstStartCode
    <3>3. end \in Nat /\ start < end /\ end <= Len(buffer)
      <4>1. start + 3 \in Nat /\ start + 3 <= Len(buffer)
        BY <1>1, <3>2
      <4>2. end = FindStartCode(buffer, start + 3, Len(buffer))
        BY DEF NaluEnd
      <4> HIDE DEF start, end
      <4>3. \/ end = Len(buffer)
            \/ end \in Nat /\ start + 3 <= end /\ end + 2 < Len(buffer)
        BY <1>1, <4>1, <4>2, FirstStartCode
      <4>4. QED  BY <1>1, <3>2, <4>1, <4>3
    <3> HIDE DEF start, end
    <3>4. /\ SubSeq(buffer, start + 1, end) \in Seq(Bytes)
          /\ Len(SubSeq(buffer, start + 1, end)) = end - start
      <4>1. start + 1 \in 1..(Len(buffer) + 1) /\ end \in start..Len(buffer)
        BY <1>1, <3>2, <3>3
      <4>2. \A i \in (start + 1)..end : buffer[i] \in Bytes
        BY <1>1, <3>2, <3>3, ElementOfSeq
      <4>3. QED  BY <1>1, <3>2, <3>3, <4>1, <4>2, SubSeqProperties
    <3>5. QED  BY <3>1, <3>2, <3>3, <3>4
  <2>3. QED  BY <2>1, <2>2
<1>4. QED  BY <1>2, <1>3 DEF ReaderInv, TypeOK, Givens

\* The block that CutBlock gives out.
NextGiven ==
    LET left == Len(nalu) - naluOffset
        size == IF left < BlockSize THEN left ELSE BlockSize IN
    [nalu |-> naluIndex, block |-> naluOffset \div BlockSize, total |-> BlockCount(Len(nalu)),
     data |-> SubSeq(nalu, naluOffset + 1, naluOffset + size)]

LEMMA CutGives ==
    ASSUME ReaderInv, CutBlock
    PROVE  /\ given' = <<NextGiven>>
           /\ NextGiven \in Blocks
           /\ Len(NextGiven.data) \in 1..BlockSize
           /\ \/ /\ nalu' = <<>> /\ naluOffset' = 0 /\ naluIndex' = naluIndex + 1
                 /\ Len(nalu) <= naluOffset + BlockSize
              \/ /\ nalu' = nalu /\ naluIndex' = naluIndex
                 /\ naluOffset' = naluOffset + BlockSize /\ naluOffset' < Len(nalu)
<1> DEFINE left == Len(nalu) - naluOffset
           size == IF left < BlockSize THEN left ELSE BlockSize
           offset == naluOffset + size
<1>1. /\ nalu \in Seq(Bytes) /\ Len(nalu) \in Nat /\ naluOffset \in Nat /\ naluIndex \in Nat
      /\ naluOffset < Len(nalu) /\ BlockSize \in Nat \ {0}
  BY BlockSizeAssumption, LenProperties DEF ReaderInv, TypeOK, Givens, CutBlock
<1>2. /\ size \in 1..BlockSize /\ offset \in Nat /\ offset <= Len(nalu) /\ naluOffset < offset
      /\ offset < Len(nalu) => offset = naluOffset + BlockSize
      /\ offset >= Len(nalu) => Len(nalu) <= naluOffset + BlockSize
  BY <1>1
<1>3. given' = <<NextGiven>>
  BY DEF CutBlock, NextGiven
<1>4. /\ SubSeq(nalu, naluOffset + 1, offset) \in Seq(Bytes)
      /\ Len(SubSeq(nalu, naluOffset + 1, offset)) = size
  <2> HIDE DEF size
  <2>1. \A i \in (naluOffset + 1)..offset : nalu[i] \in Bytes
    BY <1>1, <1>2, ElementOfSeq
  <2>2. Len(SubSeq(nalu, naluOffset + 1, offset)) = (offset - (naluOffset + 1)) + 1
    BY <1>1, <1>2, <2>1, SubSeqProperties
  <2>3. (offset - (naluOffset + 1)) + 1 = size
    BY <1>1, <1>2
  <2>4. SubSeq(nalu, naluOffset + 1, offset) \in Seq(Bytes)
    BY <1>1, <1>2, <2>1, SubSeqProperties
  <2>5. QED  BY <2>2, <2>3, <2>4
<1>5. naluOffset \div BlockSize \in Nat /\ BlockCount(Len(nalu)) \in Nat
  <2>1. naluOffset \div BlockSize \in Nat
    BY <1>1, Quotient
  <2>2. Len(nalu) + BlockSize - 1 \in Nat
    BY <1>1
  <2>3. (Len(nalu) + BlockSize - 1) \div BlockSize \in Nat
    BY <1>1, <2>2, Quotient
  <2>4. QED  BY <2>1, <2>3 DEF BlockCount
<1>6. NextGiven = [nalu |-> naluIndex, block |-> naluOffset \div BlockSize,
                   total |-> BlockCount(Len(nalu)), data |-> SubSeq(nalu, naluOffset + 1, offset)]
  BY DEF NextGiven
<1>7. NextGiven \in Blocks /\ Len(NextGiven.data) \in 1..BlockSize
  <2> HIDE DEF offset, size
  <2>1. QED  BY <1>1, <1>2, <1>4, <1>5, <1>6 DEF Blocks
<1>8. IF offset >= Len(nalu)
      THEN nalu' = <<>> /\ naluOffset' = 0 /\ naluIndex' = naluIndex + 1
      ELSE naluOffset' = offset /\ UNCHANGED <<nalu, naluIndex>>
  BY DEF CutBlock
<1>9. QED
  <2> HIDE DEF offset, size
  <2>1. QED  BY <1>1, <1>2, <1>3, <1>7, <1>8

LEMMA ReaderInvCut ==
    ASSUME ReaderInv, CutBlock
    PROVE  ReaderInv'
<1>1. /\ nalu \in Seq(Bytes) /\ Len(nalu) \in Nat /\ naluOffset \in Nat /\ naluIndex \in Nat
      /\ handed \in Seq(Blocks) /\ BlockSize \in Nat
  BY BlockSizeAssumption, LenProperties DEF ReaderInv, TypeOK
<1>2. given' \in Seq(Blocks) /\ Len(given') = 1 /\ given'[1] = NextGiven
      /\ Len(NextGiven.data) \in 1..BlockSize
  <2>1. /\ given' = <<NextGiven>> /\ NextGiven \in Blocks
        /\ Len(NextGiven.data) \in 1..BlockSize
    BY CutGives
  <2>2. QED  BY <2>1
<1>3. handed' \in Seq(Blocks)
  BY <1>1, <1>2, ConcatProperties DEF CutBlock
<1>4. /\ nalu' \in Seq(Bytes) /\ naluOffset' \in 0..Len(nalu') /\ naluIndex' \in Nat
      /\ nalu' # <<>> => naluOffset' < Len(nalu')
  <2>1. CASE nalu' = <<>> /\ naluOffset' = 0 /\ naluIndex' = naluIndex + 1
    <3>1. nalu' \in Seq(Bytes) /\ Len(nalu') = 0
      BY <2>1, Empty DEF Empties
    <3>2. QED  BY <1>1, <2>1, <3>1
  <2>2. CASE /\ nalu' = nalu /\ naluIndex' = naluIndex
             /\ naluOffset' = naluOffset + BlockSize /\ naluOffset' < Len(nalu)
    BY <1>1, <2>2
  <2>3. QED  BY <2>1, <2>2, CutGives
<1>5. UNCHANGED <<source, filtering, filter, flushed, failed, reader, avPacket, buffer,
                  bufferOffset>>
  BY DEF CutBlock, demuxVars
<1>6. Givens'
  BY <1>2, <1>4 DEF Givens
<1>7. QED  BY <1>2, <1>3, <1>4, <1>5, <1>6 DEF ReaderInv, TypeOK

LEMMA ReaderInvReadTo ==
    ASSUME ReaderInv, ReadTo
    PROVE  ReaderInv'
BY ReaderInvPacket, ReaderInvFill, ReaderInvExtract, ReaderInvCut DEF ReadTo

LEMMA ReaderInvNext == ReaderInv /\ [Next]_readerVars => ReaderInv'
BY ReaderInvStutter, ReaderInvOpenClose, ReaderInvReadTo, ReaderInvTake DEF Next

\* The reader's offsets stay inside of its buffers and no packet, unit or block it holds is
\* of another kind, whatever the stream is cut into: the difference of unsigned numbers
\* in ReadTo (naluSize - _currentNaluOffset) never wraps around.
THEOREM ReaderTypeCorrect == Spec => []TypeOK
<1>1. ReaderInv => TypeOK
  BY DEF ReaderInv
<1>2. QED  BY <1>1, ReaderInvInit, ReaderInvNext, PTL DEF Spec

-------------------------------------------------------------------------------
(* Start codes in what the packets were put together to. *)

LEMMA Three ==
    ASSUME NEW s \in Seq(Bytes), NEW i \in Nat, i + 3 <= Len(s)
    PROVE  SubSeq(s, i + 1, i + 3) = <<0, 0, 1>> <=> s[i + 1] = 0 /\ s[i + 2] = 0 /\ s[i + 3] = 1
<1> DEFINE t == SubSeq(s, i + 1, i + 3)
           code == <<0, 0, 1>>
<1>1. Len(s) \in Nat
  BY LenProperties
<1>2. \A j \in (i + 1)..(i + 3) : s[j] \in Bytes
  BY <1>1, ElementOfSeq
<1>3. /\ t \in Seq(Bytes) /\ Len(t) = IF i + 1 <= i + 3 THEN (i + 3) - (i + 1) + 1 ELSE 0
      /\ \A j \in 1..((i + 3) - (i + 1) + 1) : t[j] = s[(i + 1) + j - 1]
  BY <1>2, SubSeqProperties
<1>4. (i + 3) - (i + 1) + 1 = 3 /\ i + 1 <= i + 3
  OBVIOUS
<1> HIDE DEF t
<1>5. t[1] = s[i + 1] /\ t[2] = s[i + 2] /\ t[3] = s[i + 3] /\ Len(t) = 3
  <2>1. (i + 1) + 1 - 1 = i + 1 /\ (i + 1) + 2 - 1 = i + 2 /\ (i + 1) + 3 - 1 = i + 3
    OBVIOUS
  <2>2. 1 \in 1..3 /\ 2 \in 1..3 /\ 3 \in 1..3
    OBVIOUS
  <2>3. \A j \in 1..3 : t[j] = s[(i + 1) + j - 1]
    BY <1>3, <1>4
  <2>4. QED  BY <1>3, <1>4, <2>1, <2>2, <2>3
<1>6. code \in Seq(Bytes) /\ Len(code) = 3 /\ code[1] = 0 /\ code[2] = 0 /\ code[3] = 1
  BY DEF Bytes
<1> HIDE DEF code
<1>7. ASSUME t[1] = 0, t[2] = 0, t[3] = 1 PROVE t = code
  <2>1. \A j \in 1..3 : j = 1 \/ j = 2 \/ j = 3
    OBVIOUS
  <2>2. \A j \in 1..Len(t) : t[j] = code[j]
    BY <1>5, <1>6, <1>7, <2>1
  <2>3. QED  BY <1>3, <1>5, <1>6, <2>2, SeqEqual
<1>8. (t = code) <=> (s[i + 1] = 0 /\ s[i + 2] = 0 /\ s[i + 3] = 1)
  BY <1>5, <1>6, <1>7
<1>9. QED  BY <1>8 DEF t, code

LEMMA Four ==
    ASSUME NEW s \in Seq(Bytes), NEW i \in Nat, i + 4 <= Len(s)
    PROVE  SubSeq(s, i + 1, i + 4) = <<0, 0, 0, 1>>
               <=> s[i + 1] = 0 /\ s[i + 2] = 0 /\ s[i + 3] = 0 /\ s[i + 4] = 1
<1> DEFINE t == SubSeq(s, i + 1, i + 4)
           code == <<0, 0, 0, 1>>
<1>1. Len(s) \in Nat
  BY LenProperties
<1>2. \A j \in (i + 1)..(i + 4) : s[j] \in Bytes
  BY <1>1, ElementOfSeq
<1>3. /\ t \in Seq(Bytes) /\ Len(t) = IF i + 1 <= i + 4 THEN (i + 4) - (i + 1) + 1 ELSE 0
      /\ \A j \in 1..((i + 4) - (i + 1) + 1) : t[j] = s[(i + 1) + j - 1]
  BY <1>2, SubSeqProperties
<1>4. (i + 4) - (i + 1) + 1 = 4 /\ i + 1 <= i + 4
  OBVIOUS
<1> HIDE DEF t
<1>5. /\ t[1] = s[i + 1] /\ t[2] = s[i + 2] /\ t[3] = s[i + 3] /\ t[4] = s[i + 4]
      /\ Len(t) = 4
  <2>1. /\ (i + 1) + 1 - 1 = i + 1 /\ (i + 1) + 2 - 1 = i + 2
        /\ (i + 1) + 3 - 1 = i + 3 /\ (i + 1) + 4 - 1 = i + 4
    OBVIOUS
  <2>2. 1 \in 1..4 /\ 2 \in 1..4 /\ 3 \in 1..4 /\ 4 \in 1..4
    OBVIOUS
  <2>3. \A j \in 1..4 : t[j] = s[(i + 1) + j - 1]
    BY <1>3, <1>4
  <2>4. QED  BY <1>3, <1>4, <2>1, <2>2, <2>3
<1>6. /\ code \in Seq(Bytes) /\ Len(code) = 4
      /\ code[1] = 0 /\ code[2] = 0 /\ code[3] = 0 /\ code[4] = 1
  BY DEF Bytes
<1> HIDE DEF code
<1>7. ASSUME t[1] = 0, t[2] = 0, t[3] = 0, t[4] = 1 PROVE t = code
  <2>1. \A j \in 1..4 : j = 1 \/ j = 2 \/ j = 3 \/ j = 4
    OBVIOUS
  <2>2. \A j \in 1..Len(t) : t[j] = code[j]
    BY <1>5, <1>6, <1>7, <2>1
  <2>3. QED  BY <1>3, <1>5, <1>6, <2>2, SeqEqual
<1>8. (t = code) <=> (s[i + 1] = 0 /\ s[i + 2] = 0 /\ s[i + 3] = 0 /\ s[i + 4] = 1)
  BY <1>5, <1>6, <1>7
<1>9. QED  BY <1>8 DEF t, code

\* A start code byte by byte.
CodeAt(s, i) ==
    /\ i + 2 < Len(s)
    /\ s[i + 1] = 0 /\ s[i + 2] = 0
    /\ \/ s[i + 3] = 1
       \/ i + 3 < Len(s) /\ s[i + 3] = 0 /\ s[i + 4] = 1

LEMMA CodesByBytes ==
    ASSUME NEW s \in Seq(Bytes), NEW i \in Nat
    PROVE  IsStartCode(s, i) <=> CodeAt(s, i)
<1>1. Len(s) \in Nat
  BY LenProperties
<1>2. i + 2 < Len(s) => i + 3 <= Len(s)
  BY <1>1
<1>3. i + 3 < Len(s) => i + 4 <= Len(s)
  BY <1>1
<1>4. QED  BY <1>1, <1>2, <1>3, Three, Four DEF IsStartCode, CodeAt

\* The units the code takes FFmpeg's packets to hold.
Units == {unit \in Seq(Bytes) : WellFormed(unit)}

\* A unit begins with a start code, has no other, and does not end in a zero byte.
LEMMA UnitCodes ==
    ASSUME NEW unit \in Units
    PROVE  /\ unit \in Seq(Bytes) /\ Len(unit) \in Nat /\ 3 <= Len(unit)
           /\ CodeAt(unit, 0) /\ unit[Len(unit)] # 0
           /\ \A i \in Nat : CodeAt(unit, i) => i \in {0, 1}
<1>1. unit \in Seq(Bytes) /\ Len(unit) \in Nat /\ WellFormed(unit)
  BY LenProperties DEF Units
<1>2. 0 \in StartCodes(unit, 0)
  BY <1>1 DEF WellFormed
<1>3. IsStartCode(unit, 0)
  BY <1>2 DEF StartCodes
<1>4. CodeAt(unit, 0) /\ 3 <= Len(unit)
  BY <1>1, <1>3, CodesByBytes DEF CodeAt
<1>5. unit[Len(unit)] # 0
  BY <1>1 DEF WellFormed, Last
<1>6. ASSUME NEW i \in Nat, CodeAt(unit, i) PROVE i \in {0, 1}
  <2>1. IsStartCode(unit, i) /\ i \in 0..Len(unit)
    BY <1>1, <1>6, CodesByBytes DEF CodeAt
  <2>2. i \in StartCodes(unit, 0)
    BY <2>1 DEF StartCodes
  <2>3. QED  BY <1>1, <2>2 DEF WellFormed
<1>7. QED  BY <1>1, <1>4, <1>5, <1>6

\* No start code reaches over the end of a unit: within it the buffer has the unit's own.
LEMMA CodesWithin ==
    ASSUME NEW x \in Seq(Bytes), NEW unit \in Units, NEW y \in Seq(Bytes),
           NEW s \in Seq(Bytes), s = x \o (unit \o y),
           NEW i \in Nat, i < Len(unit)
    PROVE  CodeAt(s, Len(x) + i) <=> CodeAt(unit, i)
<1> DEFINE a == Len(x)
           n == Len(unit)
<1>1. /\ unit \in Seq(Bytes) /\ n \in Nat /\ unit[n] # 0 /\ a \in Nat /\ Len(y) \in Nat
  BY UnitCodes, LenProperties
<1>2. /\ unit \o y \in Seq(Bytes) /\ Len(unit \o y) = n + Len(y)
      /\ \A j \in 1..(n + Len(y)) : (unit \o y)[j] = IF j <= n THEN unit[j] ELSE y[j - n]
  BY <1>1, ConcatProperties
<1>3. /\ Len(s) = a + (n + Len(y))
      /\ \A j \in 1..(a + (n + Len(y))) : s[j] = IF j <= a THEN x[j] ELSE (unit \o y)[j - a]
  BY <1>1, <1>2, ConcatProperties
<1> HIDE DEF a, n
<1>4. ASSUME NEW j \in 1..n
      PROVE  s[a + j] = unit[j]
  <2>1. /\ a + j \in 1..(a + (n + Len(y))) /\ ~(a + j <= a) /\ (a + j) - a = j
        /\ j \in 1..(n + Len(y)) /\ j <= n
    BY <1>1
  <2>2. s[a + j] = (unit \o y)[j]
    BY <1>3, <2>1
  <2>3. QED  BY <1>2, <2>1, <2>2
<1>5. /\ (a + i) + 1 = a + (i + 1) /\ (a + i) + 2 = a + (i + 2)
      /\ (a + i) + 3 = a + (i + 3) /\ (a + i) + 4 = a + (i + 4)
      /\ i + 1 \in 1..n
  BY <1>1 DEF n
<1>6. CASE i + 1 = n
  <2>1. s[(a + i) + 1] = unit[n] /\ unit[i + 1] = unit[n]
    BY <1>4, <1>5, <1>6
  <2>2. QED  BY <1>1, <2>1 DEF CodeAt, a, n
<1>7. CASE i + 2 = n
  <2>1. i + 2 \in 1..n
    BY <1>1, <1>7
  <2>2. s[(a + i) + 2] = unit[n] /\ unit[i + 2] = unit[n]
    BY <1>4, <1>5, <1>7, <2>1
  <2>3. QED  BY <1>1, <2>2 DEF CodeAt, a, n
<1>8. CASE i + 3 = n
  <2>1. i + 2 \in 1..n /\ i + 3 \in 1..n
    BY <1>1, <1>8
  <2>2. /\ s[(a + i) + 1] = unit[i + 1] /\ s[(a + i) + 2] = unit[i + 2]
        /\ s[(a + i) + 3] = unit[i + 3] /\ unit[i + 3] # 0
    BY <1>1, <1>4, <1>5, <1>8, <2>1
  <2>3. (a + i) + 2 < Len(s) /\ i + 2 < n
    BY <1>1, <1>3, <1>8
  <2>4. QED  BY <2>2, <2>3 DEF CodeAt, a, n
<1>9. CASE i + 3 < n
  <2>1. i + 2 \in 1..n /\ i + 3 \in 1..n /\ i + 4 \in 1..n
    BY <1>1, <1>9
  <2>2. /\ s[(a + i) + 1] = unit[i + 1] /\ s[(a + i) + 2] = unit[i + 2]
        /\ s[(a + i) + 3] = unit[i + 3] /\ s[(a + i) + 4] = unit[i + 4]
    BY <1>4, <1>5, <2>1
  <2>3. (a + i) + 2 < Len(s) /\ i + 2 < n /\ (a + i) + 3 < Len(s)
    BY <1>1, <1>3, <1>9
  <2>4. QED  BY <1>9, <2>2, <2>3 DEF CodeAt, a, n
<1>10. QED  BY <1>1, <1>5, <1>6, <1>7, <1>8, <1>9 DEF n

LEMMA FindNone ==
    ASSUME NEW s \in Seq(Bytes), NEW offset \in Nat,
           \A i \in Nat : offset <= i => ~CodeAt(s, i)
    PROVE  FindStartCode(s, offset, Len(s)) = Len(s)
<1>1. Len(s) \in Nat
  BY LenProperties
<1>2. \A i \in offset..Len(s) : i \in Nat /\ offset <= i
  BY <1>1
<1>3. StartCodes(s, offset) = {}
  BY <1>2, CodesByBytes DEF StartCodes
<1>4. QED  BY <1>3 DEF FindStartCode

LEMMA FindFirst ==
    ASSUME NEW s \in Seq(Bytes), NEW offset \in Nat, NEW i \in Nat, offset <= i, CodeAt(s, i),
           \A j \in Nat : offset <= j /\ j < i => ~CodeAt(s, j)
    PROVE  FindStartCode(s, offset, Len(s)) = i
<1>1. Len(s) \in Nat
  BY LenProperties
<1>2. i \in offset..Len(s) /\ IsStartCode(s, i)
  BY <1>1, CodesByBytes DEF CodeAt
<1>3. i \in StartCodes(s, offset)
  BY <1>2 DEF StartCodes
<1>4. ASSUME NEW j \in StartCodes(s, offset)
      PROVE  j \in Nat /\ i <= j
  <2>1. j \in offset..Len(s) /\ IsStartCode(s, j)
    BY <1>4 DEF StartCodes
  <2>2. j \in Nat /\ offset <= j
    BY <1>1, <2>1
  <2>3. CodeAt(s, j)
    BY <2>1, <2>2, CodesByBytes
  <2>4. ~(j < i)
    BY <2>2, <2>3
  <2>5. QED  BY <2>2, <2>4
<1> DEFINE codes == StartCodes(s, offset)
           first == CHOOSE k \in codes : \A j \in codes : k <= j
<1>5. FindStartCode(s, offset, Len(s)) = first
  BY <1>3 DEF FindStartCode
<1> HIDE DEF codes
<1>6. i \in codes /\ \A j \in codes : j \in Nat /\ i <= j
  BY <1>3, <1>4 DEF codes
<1>7. first \in codes /\ \A j \in codes : first <= j
  BY <1>6
<1> HIDE DEF first
<1>8. first = i
  BY <1>6, <1>7
<1>9. QED  BY <1>5, <1>8

LEMMA UnitsAreBytes ==
    ASSUME NEW units \in Seq(Units)
    PROVE  units \in Seq(Seq(Bytes)) /\ FlattenSeq(units) \in Seq(Bytes)
<1>1. Units \subseteq Seq(Bytes)
  BY DEF Units
<1>2. units \in Seq(Seq(Bytes))
  BY <1>1, SeqMonotonic
<1>3. QED  BY <1>2, FlattenType

\* Units that are there are bytes that are there.
LEMMA UnitsNotEmpty ==
    ASSUME NEW units \in Seq(Units), units # <<>>
    PROVE  /\ Head(units) \in Units /\ Tail(units) \in Seq(Units)
           /\ FlattenSeq(units) = Head(units) \o FlattenSeq(Tail(units))
           /\ FlattenSeq(units) # <<>>
<1>1. Head(units) \in Units /\ Tail(units) \in Seq(Units)
  BY HeadTailProperties
<1>2. FlattenSeq(units) = Head(units) \o FlattenSeq(Tail(units))
  BY UnitsAreBytes, FlattenHead
<1>3. Head(units) \in Seq(Bytes) /\ FlattenSeq(Tail(units)) \in Seq(Bytes)
  BY <1>1, UnitCodes, UnitsAreBytes
<1>4. Head(units) # <<>>
  <2>1. 3 <= Len(Head(units))
    BY <1>1, UnitCodes
  <2>2. QED  BY <2>1, EmptySeq
<1>5. QED
  BY <1>1, <1>2, <1>3, <1>4, ConcatEqualIffEmpty

LEMMA FindAtEnd ==
    ASSUME NEW s \in Seq(Bytes)
    PROVE  FindStartCode(s, Len(s), Len(s)) = Len(s)
<1>1. Len(s) \in Nat
  BY LenProperties
<1>2. \A i \in Nat : Len(s) <= i => ~CodeAt(s, i)
  BY <1>1 DEF CodeAt
<1>3. QED  BY <1>1, <1>2, FindNone

\* From a unit's start on, the search finds the unit and where it ends.
LEMMA FindUnit ==
    ASSUME NEW x \in Seq(Bytes), NEW units \in Seq(Units), units # <<>>,
           NEW s \in Seq(Bytes), s = x \o FlattenSeq(units)
    PROVE  LET unit == Head(units) IN
           /\ FindStartCode(s, Len(x), Len(s)) = Len(x)
           /\ Len(x) < Len(s)
           /\ FindStartCode(s, Len(x) + 3, Len(s)) = Len(x) + Len(unit)
           /\ SubSeq(s, Len(x) + 1, Len(x) + Len(unit)) = unit
<1> DEFINE unit == Head(units)
           y == FlattenSeq(Tail(units))
           a == Len(x)
           n == Len(unit)
<1>1. /\ unit \in Units /\ Tail(units) \in Seq(Units) /\ y \in Seq(Bytes)
      /\ s = x \o (unit \o y)
  BY UnitsNotEmpty, UnitsAreBytes
<1> HIDE DEF unit
<1>2. /\ unit \in Seq(Bytes) /\ n \in Nat /\ 3 <= n /\ a \in Nat /\ Len(y) \in Nat
      /\ CodeAt(unit, 0) /\ \A i \in Nat : CodeAt(unit, i) => i \in {0, 1}
  BY <1>1, UnitCodes, LenProperties
<1>3. unit \o y \in Seq(Bytes) /\ Len(unit \o y) = n + Len(y) /\ Len(s) = a + (n + Len(y))
  BY <1>1, <1>2, ConcatProperties
<1>4. \A i \in Nat : i < n => (CodeAt(s, a + i) <=> CodeAt(unit, i))
  BY <1>1, CodesWithin
<1> HIDE DEF y, a, n
<1>5. CodeAt(s, a)
  BY <1>2, <1>4
<1>6. FindStartCode(s, a, Len(s)) = a
  <2>1. \A j \in Nat : a <= j /\ j < a => ~CodeAt(s, j)
    BY <1>2
  <2>2. a <= a
    BY <1>2
  <2>3. QED  BY <1>2, <1>5, <2>1, <2>2, FindFirst
<1>7. ASSUME NEW j \in Nat, a + 3 <= j, j < a + n
      PROVE  ~CodeAt(s, j)
  <2>1. j - a \in Nat /\ j - a < n /\ a + (j - a) = j /\ j - a \notin {0, 1}
    BY <1>2, <1>7
  <2>2. QED  BY <1>2, <1>4, <2>1
<1>8. FindStartCode(s, a + 3, Len(s)) = a + n
  <2>1. CASE Tail(units) = <<>>
    <3>1. Len(y) = 0
      BY <2>1, FlattenEmpty, EmptySeq DEF y
    <3>2. Len(s) = a + n
      BY <1>2, <1>3, <3>1
    <3>3. ASSUME NEW j \in Nat, a + 3 <= j
          PROVE  ~CodeAt(s, j)
      <4>1. CASE j < a + n
        BY <1>7, <3>3, <4>1
      <4>2. CASE ~(j < a + n)
        <5>1. ~(j + 2 < Len(s))
          BY <1>2, <3>2, <4>2
        <5>2. QED  BY <5>1 DEF CodeAt
      <4>3. QED  BY <4>1, <4>2
    <3>4. a + 3 \in Nat
      BY <1>2
    <3>5. FindStartCode(s, a + 3, Len(s)) = Len(s)
      BY <3>3, <3>4, FindNone
    <3>6. QED  BY <3>2, <3>5
  <2>2. CASE Tail(units) # <<>>
    <3> DEFINE next == Head(Tail(units))
               z == FlattenSeq(Tail(Tail(units)))
               w == x \o unit
    <3>1. next \in Units /\ z \in Seq(Bytes) /\ y = next \o z /\ next \in Seq(Bytes)
      BY <1>1, <2>2, UnitsNotEmpty, UnitsAreBytes, UnitCodes DEF y
    <3> HIDE DEF next, z
    <3>2. w \in Seq(Bytes) /\ Len(w) = a + n
      BY <1>2, ConcatProperties DEF a, n
    <3>3. s = w \o y
      <4>1. y \in Seq(Bytes)
        BY <1>1
      <4>2. QED  BY <1>1, <1>2, <4>1, ConcatAssociative
    <3> HIDE DEF w
    <3>4. 0 \in Nat /\ 0 < Len(next) /\ CodeAt(next, 0)
      BY <3>1, UnitCodes
    <3>5. CodeAt(s, Len(w) + 0)
      BY <3>1, <3>2, <3>3, <3>4, CodesWithin
    <3>6. CodeAt(s, a + n)
      BY <1>2, <3>2, <3>5
    <3>7. a + n \in Nat /\ a + 3 \in Nat /\ a + 3 <= a + n
      BY <1>2
    <3>8. QED  BY <1>7, <3>6, <3>7, FindFirst
  <2>3. QED  BY <2>1, <2>2
<1>9. SubSeq(s, a + 1, a + n) = unit
  <2> DEFINE rest == unit \o y
             from == a + 1
             to == a + n
  <2>1. rest \in Seq(Bytes) /\ s = x \o rest
    BY <1>1, <1>3
  <2>2. /\ from \in (Len(x) + 1)..(Len(x) + Len(rest))
        /\ to \in (Len(x) + 1)..(Len(x) + Len(rest))
        /\ from - Len(x) = 1 /\ to - Len(x) = n
    BY <1>2, <1>3 DEF a
  <2> HIDE DEF rest, from, to
  <2>3. SubSeq(s, from, to) = SubSeq(rest, from - Len(x), to - Len(x))
    BY <2>1, <2>2, SubSeqOfConcat2
  <2>4. 1 \in 1..Len(unit) /\ n \in 1..Len(unit)
    BY <1>2 DEF n
  <2>5. SubSeq(rest, 1, n) = SubSeq(unit, 1, n)
    BY <1>1, <1>2, <2>4, SubSeqOfConcat1 DEF rest
  <2>6. SubSeq(unit, 1, n) = unit
    BY <1>2, SubSeqFull DEF n
  <2>7. QED  BY <2>2, <2>3, <2>5, <2>6 DEF from, to
<1>10. Len(x) < Len(s)
  BY <1>2, <1>3 DEF a
<1>11. QED  BY <1>6, <1>8, <1>9, <1>10 DEF a, n, unit

-------------------------------------------------------------------------------
(* The units of a stream. *)

\* What a packet of the demuxer adds to them.
UnitsIn(packet) == IF packet.video THEN packet.nalus ELSE <<>>

LEMMA FunctionsAreSequences ==
    ASSUME NEW S, NEW n \in Nat, NEW h \in [1..n -> S]
    PROVE  h \in Seq(S) /\ Len(h) = n
OBVIOUS

LEMMA UnitsOfNone == UnitsOf(<<>>) = <<>>
<1>1. [i \in 1..Len(<<>>) |-> IF <<>>[i].video THEN <<>>[i].nalus ELSE <<>>] = <<>>
  OBVIOUS
<1>2. QED  BY <1>1, FlattenEmpty DEF UnitsOf

LEMMA UnitsOfSome ==
    ASSUME NEW s \in Seq(DemuxPackets), s # <<>>
    PROVE  /\ UnitsOf(s) = UnitsIn(Head(s)) \o UnitsOf(Tail(s))
           /\ UnitsIn(Head(s)) \in Seq(Seq(Bytes)) /\ UnitsOf(Tail(s)) \in Seq(Seq(Bytes))
<1> DEFINE f == [i \in 1..Len(s) |-> IF s[i].video THEN s[i].nalus ELSE <<>>]
           t == Tail(s)
           g == [i \in 1..Len(t) |-> IF t[i].video THEN t[i].nalus ELSE <<>>]
<1>1. /\ Len(s) \in Nat \ {0} /\ t \in Seq(DemuxPackets) /\ Len(t) = Len(s) - 1
      /\ \A i \in 1..Len(t) : t[i] = s[i + 1]
      /\ Head(s) = s[1]
  BY EmptySeq, HeadTailProperties
<1>2. /\ \A i \in 1..Len(s) : f[i] = UnitsIn(s[i]) /\ f[i] \in Seq(Seq(Bytes))
      /\ \A i \in 1..Len(t) : g[i] = UnitsIn(t[i]) /\ g[i] \in Seq(Seq(Bytes))
  <2>1. \A p \in DemuxPackets : UnitsIn(p) \in Seq(Seq(Bytes))
    BY EmptySeq DEF UnitsIn, DemuxPackets
  <2>2. \A i \in 1..Len(s) : f[i] = UnitsIn(s[i]) /\ s[i] \in DemuxPackets
    BY ElementOfSeq DEF UnitsIn
  <2>3. \A i \in 1..Len(t) : g[i] = UnitsIn(t[i]) /\ t[i] \in DemuxPackets
    BY <1>1, ElementOfSeq DEF UnitsIn
  <2> HIDE DEF f, g
  <2>4. QED  BY <2>1, <2>2, <2>3
<1>3. /\ f \in Seq(Seq(Seq(Bytes))) /\ Len(f) = Len(s)
      /\ g \in Seq(Seq(Seq(Bytes))) /\ Len(g) = Len(t)
  <2>1. f \in [1..Len(s) -> Seq(Seq(Bytes))] /\ g \in [1..Len(t) -> Seq(Seq(Bytes))]
    BY <1>2
  <2>2. Len(s) \in Nat /\ Len(t) \in Nat
    BY <1>1
  <2> HIDE DEF f, g, t
  <2>3. f \in Seq(Seq(Seq(Bytes))) /\ Len(f) = Len(s)
    BY <2>1, <2>2, FunctionsAreSequences
  <2>4. g \in Seq(Seq(Seq(Bytes))) /\ Len(g) = Len(t)
    BY <2>1, <2>2, FunctionsAreSequences
  <2>5. QED  BY <2>3, <2>4
<1>4. UnitsOf(s) = FlattenSeq(f) /\ UnitsOf(t) = FlattenSeq(g)
  BY DEF UnitsOf
<1> HIDE DEF f, g
<1>5. /\ f # <<>> /\ Head(f) = UnitsIn(Head(s))
  <2>1. f # <<>>
    BY <1>1, <1>3, EmptySeq
  <2>2. Head(f) = f[1] /\ 1 \in 1..Len(s)
    BY <1>1, <1>3, <2>1
  <2>3. QED  BY <1>1, <1>2, <2>1, <2>2
<1>6. Tail(f) = g
  <2>1. /\ Tail(f) \in Seq(Seq(Seq(Bytes))) /\ Len(Tail(f)) = Len(f) - 1
        /\ \A i \in 1..Len(Tail(f)) : Tail(f)[i] = f[i + 1]
    BY <1>3, <1>5, HeadTailProperties
  <2>2. Len(Tail(f)) = Len(g)
    BY <1>1, <1>3, <2>1
  <2>3. ASSUME NEW i \in 1..Len(Tail(f))
        PROVE  Tail(f)[i] = g[i]
    <3>1. i \in 1..Len(t) /\ i + 1 \in 1..Len(s)
      BY <1>1, <1>3, <2>1
    <3>2. QED  BY <1>1, <1>2, <2>1, <3>1
  <2>4. QED  BY <1>3, <2>1, <2>2, <2>3, SeqEqual
<1>7. FlattenSeq(f) = Head(f) \o FlattenSeq(Tail(f))
  BY <1>3, <1>5, FlattenHead
<1>8. FlattenSeq(g) \in Seq(Seq(Bytes))
  BY <1>3, FlattenType
<1>9. UnitsIn(Head(s)) \in Seq(Seq(Bytes))
  BY <1>3, <1>5, FlattenHead
<1>10. QED  BY <1>4, <1>5, <1>6, <1>7, <1>8, <1>9 DEF t

\* Parts of a sequence of units are sequences of units.
LEMMA PartsAreUnits ==
    ASSUME NEW S, NEW T, NEW a \in Seq(S), NEW b \in Seq(S), a \o b \in Seq(T)
    PROVE  a \in Seq(T) /\ b \in Seq(T)
<1>1. /\ Len(a) \in Nat /\ Len(b) \in Nat /\ Len(a \o b) = Len(a) + Len(b)
      /\ \A i \in 1..(Len(a) + Len(b)) :
             (a \o b)[i] = IF i <= Len(a) THEN a[i] ELSE b[i - Len(a)]
      /\ a = [i \in 1..Len(a) |-> a[i]] /\ b = [i \in 1..Len(b) |-> b[i]]
  BY LenProperties, ConcatProperties
<1>2. \A i \in 1..(Len(a) + Len(b)) : (a \o b)[i] \in T
  BY <1>1, ElementOfSeq
<1>3. ASSUME NEW i \in 1..Len(a) PROVE a[i] \in T
  <2>1. i \in 1..(Len(a) + Len(b)) /\ i <= Len(a)
    BY <1>1
  <2>2. QED  BY <1>1, <1>2, <2>1
<1>4. ASSUME NEW i \in 1..Len(b) PROVE b[i] \in T
  <2>1. /\ Len(a) + i \in 1..(Len(a) + Len(b)) /\ ~(Len(a) + i <= Len(a))
        /\ (Len(a) + i) - Len(a) = i
    BY <1>1
  <2>2. QED  BY <1>1, <1>2, <2>1
<1>5. a \in [1..Len(a) -> T] /\ b \in [1..Len(b) -> T]
  BY <1>1, <1>3, <1>4
<1>6. QED  BY <1>1, <1>5

-------------------------------------------------------------------------------
(* Blocks of a unit. *)

LEMMA Products ==
    ASSUME NEW a \in Nat, NEW b \in Nat, NEW c \in Nat \ {0}
    PROVE  /\ a * c \in Nat /\ (a + 1) * c = a * c + c
           /\ a <= b => a * c <= b * c
           /\ a * c < b * c => a < b
OBVIOUS

LEMMA CountHolds ==
    ASSUME NEW size \in Nat \ {0}
    PROVE  BlockCount(size) \in Nat \ {0} /\ Holds(BlockCount(size), size)
<1> DEFINE t == BlockCount(size)
<1>1. BlockSize \in Nat \ {0}
  BY BlockSizeAssumption
<1>2. size + BlockSize - 1 \in Nat
  BY <1>1
<1>3. t \in Nat
  BY <1>1, <1>2, Quotient DEF BlockCount
<1>4. t * BlockSize <= size + BlockSize - 1 /\ size + BlockSize - 1 < t * BlockSize + BlockSize
  BY <1>1, <1>2 DEF BlockCount
<1> HIDE DEF t
<1>5. t # 0
  BY <1>1, <1>3, <1>4
<1>6. t - 1 \in Nat /\ (t - 1) * BlockSize + BlockSize = t * BlockSize
  <2>1. t - 1 \in Nat /\ (t - 1) + 1 = t
    BY <1>3, <1>5
  <2>2. ((t - 1) + 1) * BlockSize = (t - 1) * BlockSize + BlockSize
    BY <1>1, <2>1, Products
  <2>3. QED  BY <2>1, <2>2
<1>7. (t - 1) * BlockSize \in Nat /\ t * BlockSize \in Nat
  BY <1>1, <1>3, <1>6, Products
<1>8. Holds(t, size)
  BY <1>1, <1>4, <1>6, <1>7 DEF Holds
<1>9. QED  BY <1>3, <1>5, <1>8 DEF t

\* Block k of a unit is its last exactly when there is nothing behind it.
LEMMA LastBlock ==
    ASSUME NEW size \in Nat \ {0}, NEW k \in Nat, k * BlockSize < size
    PROVE  /\ k < BlockCount(size)
           /\ (k + 1) * BlockSize < size <=> k + 1 < BlockCount(size)
<1> DEFINE t == BlockCount(size)
<1>1. BlockSize \in Nat \ {0} /\ t \in Nat \ {0}
  BY BlockSizeAssumption, CountHolds
<1>2. (t - 1) * BlockSize < size /\ size <= t * BlockSize
  BY CountHolds DEF Holds
<1> HIDE DEF t
<1>3. t - 1 \in Nat /\ k + 1 \in Nat
  BY <1>1
<1>4. /\ k * BlockSize \in Nat /\ (k + 1) * BlockSize \in Nat /\ t * BlockSize \in Nat
      /\ (t - 1) * BlockSize \in Nat
  BY <1>1, <1>3, Products
<1>5. k < t
  <2>1. k * BlockSize < t * BlockSize
    BY <1>1, <1>2, <1>4
  <2>2. QED  BY <1>1, <2>1, Products
<1>6. (k + 1) * BlockSize < size => k + 1 < t
  <2>1. (k + 1) * BlockSize < size => (k + 1) * BlockSize < t * BlockSize
    BY <1>1, <1>2, <1>4
  <2>2. QED  BY <1>1, <1>3, <2>1, Products
<1>7. k + 1 < t => (k + 1) * BlockSize < size
  <2>1. k + 1 < t => k + 1 <= t - 1
    BY <1>1
  <2>2. k + 1 <= t - 1 => (k + 1) * BlockSize <= (t - 1) * BlockSize
    BY <1>1, <1>3, Products
  <2>3. QED  BY <1>2, <1>4, <2>1, <2>2
<1>8. QED  BY <1>5, <1>6, <1>7 DEF t

-------------------------------------------------------------------------------
(* Where the units of the stream are. *)

\* The units v of the stream: c are cut out of the buffer, d are still in it, p are in
\* _avPacket, w are in the packets of the filter, and the rest is in src.
Streamed(v, src, c, d, p, w) ==
    /\ c \in Seq(Units) /\ d \in Seq(Units) /\ p \in Seq(Units) /\ w \in Seq(Seq(Units))
    /\ UnitsOf(src) \in Seq(Units)
    /\ v = c \o (d \o (p \o (FlattenSeq(w) \o UnitsOf(src))))

\* What the reader holds of them in bytes.
Held(at, fil, av, buf, off, unit, index, c, d, p, w) ==
    /\ buf = FlattenSeq(c) \o FlattenSeq(d)
    /\ off = Len(FlattenSeq(c))
    /\ av = FlattenSeq(p)
    /\ Len(fil) = Len(w)
    /\ \A i \in 1..Len(w) : fil[i] = FlattenSeq(w[i])
    /\ Len(c) = IF unit = <<>> THEN index ELSE index + 1
    /\ unit # <<>> => c[Len(c)] = unit
    /\ at \in {"packet", "fill", "ended"} => d = <<>> /\ unit = <<>>
    /\ at # "fill" => p = <<>>

Flowing ==
    \E c \in Seq(Units), d \in Seq(Units), p \in Seq(Units), w \in Seq(Seq(Units)) :
        /\ Streamed(video, source, c, d, p, w)
        /\ Held(reader, filter, avPacket, buffer, bufferOffset, nalu, naluIndex, c, d, p, w)

LEMMA UnitsRegroup == \A a, b, c \in Seq(Units) : (a \o b) \o c = a \o (b \o c)
BY ThreeInARow

LEMMA NoUnits ==
    /\ \A s \in Seq(Units) : <<>> \o s = s /\ s \o <<>> = s
    /\ <<>> \in Seq(Units) /\ <<>> \in Seq(Seq(Units))
    /\ \A a, b \in Seq(Units) : a \o b \in Seq(Units)
BY ConcatEmptySeq, EmptySeq, ConcatProperties

LEMMA StreamedAtOnce ==
    ASSUME NEW src, UnitsOf(src) \in Seq(Units)
    PROVE  Streamed(UnitsOf(src), src, <<>>, <<>>, <<>>, <<>>)
BY NoUnits, FlattenEmpty DEF Streamed

\* A packet of the demuxer is taken: into _avPacket or into the filter, when both are empty.
LEMMA StreamedPacket ==
    ASSUME NEW v, NEW src \in Seq(DemuxPackets), src # <<>>, NEW c, NEW d,
           Streamed(v, src, c, d, <<>>, <<>>)
    PROVE  /\ UnitsIn(Head(src)) \in Seq(Units)
           /\ Streamed(v, Tail(src), c, d, UnitsIn(Head(src)), <<>>)
           /\ Streamed(v, Tail(src), c, d, <<>>, << UnitsIn(Head(src)) >>)
<1> DEFINE h == UnitsIn(Head(src))
           t == UnitsOf(Tail(src))
           one == <<h>>
<1>1. /\ UnitsOf(src) = h \o t /\ UnitsOf(src) \in Seq(Units)
      /\ h \in Seq(Seq(Bytes)) /\ t \in Seq(Seq(Bytes))
  BY UnitsOfSome DEF Streamed
<1> HIDE DEF h, t
<1>2. h \in Seq(Units) /\ t \in Seq(Units)
  BY <1>1, PartsAreUnits
<1>3. one \in Seq(Seq(Units)) /\ FlattenSeq(one) = h
  BY <1>2, FlattenOne
<1> HIDE DEF one
<1>4. c \in Seq(Units) /\ d \in Seq(Units) /\ v = c \o (d \o (h \o t))
  <2>1. /\ c \in Seq(Units) /\ d \in Seq(Units)
        /\ v = c \o (d \o (<<>> \o (FlattenSeq(<<>>) \o UnitsOf(src))))
    BY DEF Streamed
  <2>2. <<>> \o (<<>> \o UnitsOf(src)) = UnitsOf(src)
    BY <1>1, NoUnits
  <2>3. QED  BY <1>1, <2>1, <2>2, FlattenEmpty
<1>5. <<>> \o (h \o t) = h \o t /\ h \o (<<>> \o t) = h \o t
  BY <1>2, NoUnits
<1>6. Streamed(v, Tail(src), c, d, h, <<>>)
  BY <1>2, <1>4, <1>5, NoUnits, FlattenEmpty DEF Streamed, t
<1>7. Streamed(v, Tail(src), c, d, <<>>, one)
  BY <1>2, <1>3, <1>4, <1>5, NoUnits DEF Streamed, t
<1>8. QED  BY <1>2, <1>6, <1>7 DEF h, one

\* The first packet of the filter becomes _avPacket.
LEMMA StreamedDrain ==
    ASSUME NEW v, NEW src, NEW c, NEW d, NEW w, w # <<>>, Streamed(v, src, c, d, <<>>, w)
    PROVE  /\ Head(w) \in Seq(Units) /\ Tail(w) \in Seq(Seq(Units))
           /\ Streamed(v, src, c, d, Head(w), Tail(w))
<1> DEFINE h == Head(w)
           t == FlattenSeq(Tail(w))
           u == UnitsOf(src)
<1>1. w \in Seq(Seq(Units)) /\ u \in Seq(Units) /\ c \in Seq(Units) /\ d \in Seq(Units)
  BY DEF Streamed
<1>2. h \in Seq(Units) /\ Tail(w) \in Seq(Seq(Units)) /\ FlattenSeq(w) = h \o t
  BY <1>1, FlattenHead
<1>3. t \in Seq(Units)
  BY <1>2, FlattenType
<1>4. v = c \o (d \o (<<>> \o ((h \o t) \o u)))
  BY <1>2 DEF Streamed
<1> HIDE DEF h, t, u
<1>5. (h \o t) \o u = h \o (t \o u) /\ (h \o t) \o u \in Seq(Units)
  <2>1. h \in Seq(Units) /\ t \in Seq(Units) /\ u \in Seq(Units)
    BY <1>1, <1>2, <1>3
  <2>2. (h \o t) \o u = h \o (t \o u)
    BY <2>1, UnitsRegroup, Zenon
  <2>3. (h \o t) \o u \in Seq(Units)
    BY <2>1, NoUnits
  <2>4. QED  BY <2>2, <2>3
<1>6. <<>> \o ((h \o t) \o u) = h \o (t \o u)
  BY <1>5, NoUnits
<1>7. v = c \o (d \o (h \o (t \o u)))
  BY <1>4, <1>6
<1>8. QED  BY <1>1, <1>2, <1>7 DEF Streamed, h, t, u

\* The packet goes into the buffer, which holds nothing else that is not cut out.
LEMMA StreamedFill ==
    ASSUME NEW v, NEW src, NEW c, NEW p, NEW w, Streamed(v, src, c, <<>>, p, w)
    PROVE  Streamed(v, src, c, p, <<>>, w)
<1> DEFINE u == FlattenSeq(w) \o UnitsOf(src)
<1>1. /\ w \in Seq(Seq(Units)) /\ UnitsOf(src) \in Seq(Units) /\ c \in Seq(Units)
      /\ p \in Seq(Units) /\ v = c \o (<<>> \o (p \o u))
  BY DEF Streamed
<1>2. FlattenSeq(w) \in Seq(Units)
  BY <1>1, FlattenType
<1>3. u \in Seq(Units)
  BY <1>1, <1>2, NoUnits
<1> HIDE DEF u
<1>4. <<>> \o (p \o u) = p \o (<<>> \o u)
  BY <1>1, <1>3, NoUnits
<1>5. QED  BY <1>1, <1>4, NoUnits DEF Streamed, u

\* A unit is cut out of the buffer.
LEMMA StreamedExtract ==
    ASSUME NEW v, NEW src, NEW c, NEW d, d # <<>>, NEW p, NEW w, Streamed(v, src, c, d, p, w)
    PROVE  /\ Append(c, Head(d)) \in Seq(Units) /\ Tail(d) \in Seq(Units)
           /\ Streamed(v, src, Append(c, Head(d)), Tail(d), p, w)
<1> DEFINE one == << Head(d) >>
           t == Tail(d)
           u == p \o (FlattenSeq(w) \o UnitsOf(src))
<1>1. /\ w \in Seq(Seq(Units)) /\ UnitsOf(src) \in Seq(Units) /\ c \in Seq(Units)
      /\ d \in Seq(Units) /\ p \in Seq(Units) /\ v = c \o (d \o u)
  BY DEF Streamed
<1>2. FlattenSeq(w) \in Seq(Units)
  BY <1>1, FlattenType
<1>3. u \in Seq(Units)
  BY <1>1, <1>2, NoUnits
<1>4. Head(d) \in Units /\ t \in Seq(Units) /\ d = one \o t
  BY <1>1, HeadTailProperties, HeadAndRest
<1>5. one \in Seq(Units) /\ Append(c, Head(d)) = c \o one /\ c \o one \in Seq(Units)
  BY <1>1, <1>4, AppendIsConcat, ConcatProperties
<1> HIDE DEF one, t, u
<1>6. c \o ((one \o t) \o u) = (c \o one) \o (t \o u)
  <2>1. (one \o t) \o u = one \o (t \o u) /\ t \o u \in Seq(Units)
    BY <1>3, <1>4, <1>5, NoUnits
  <2>2. (c \o one) \o (t \o u) = c \o (one \o (t \o u))
    <3>1. c \in Seq(Units) /\ one \in Seq(Units) /\ t \o u \in Seq(Units)
      BY <1>1, <1>5, <2>1
    <3>2. QED  BY <3>1, UnitsRegroup, Zenon
  <2>3. QED  BY <2>1, <2>2
<1>7. v = Append(c, Head(d)) \o (t \o u)
  BY <1>1, <1>4, <1>5, <1>6
<1>8. QED  BY <1>1, <1>4, <1>5, <1>7 DEF Streamed, t, u

LEMMA UnitBytes ==
    ASSUME NEW s \in Seq(Units)
    PROVE  FlattenSeq(s) \in Seq(Bytes) /\ (FlattenSeq(s) = <<>> <=> s = <<>>)
BY UnitsAreBytes, UnitsNotEmpty, FlattenEmpty

LEMMA BytesRegroup == \A a, b, c \in Seq(Bytes) : (a \o b) \o c = a \o (b \o c)
BY ThreeInARow

LEMMA HeldExtract ==
    ASSUME NEW fil, NEW av, NEW buf, NEW off, NEW index,
           NEW c \in Seq(Units), NEW d \in Seq(Units), d # <<>>, NEW p, NEW w,
           Held("readTo", fil, av, buf, off, <<>>, index, c, d, p, w)
    PROVE  Held("readTo", fil, av, buf, off + Len(Head(d)), Head(d), index,
                Append(c, Head(d)), Tail(d), p, w)
<1> DEFINE h == Head(d)
           t == FlattenSeq(Tail(d))
           x == FlattenSeq(c)
           more == Append(c, h)
<1>1. /\ h \in Units /\ h \in Seq(Bytes) /\ t \in Seq(Bytes) /\ x \in Seq(Bytes)
      /\ FlattenSeq(d) = h \o t
  BY UnitsNotEmpty, UnitBytes, UnitCodes
<1>2. h # <<>>
  <2>1. 3 <= Len(h)
    BY <1>1, UnitCodes
  <2>2. QED  BY <2>1, EmptySeq
<1>3. FlattenSeq(more) = x \o h
  <2>1. c \in Seq(Seq(Bytes))
    BY UnitsAreBytes
  <2>2. QED  BY <1>1, <2>1, FlattenAppend
<1>4. buf = FlattenSeq(more) \o t
  <2>1. (x \o h) \o t = x \o (h \o t)
    <3> HIDE DEF x, h, t
    <3>1. QED  BY <1>1, BytesRegroup, Zenon
  <2>2. buf = x \o FlattenSeq(d)
    BY DEF Held
  <2>3. QED  BY <1>1, <1>3, <2>1, <2>2
<1>5. off + Len(h) = Len(FlattenSeq(more))
  <2>1. off = Len(x)
    BY DEF Held
  <2> HIDE DEF x, h
  <2>2. Len(x \o h) = Len(x) + Len(h)
    BY <1>1, ConcatProperties
  <2>3. QED  BY <1>3, <2>1, <2>2
<1>6. Len(more) = index + 1 /\ more[Len(more)] = h
  <2>1. Len(c) = index
    BY DEF Held
  <2>2. /\ Len(more) = Len(c) + 1 /\ more[Len(c) + 1] = h
    BY <1>1, AppendProperties
  <2>3. QED  BY <2>1, <2>2
<1>7. /\ av = FlattenSeq(p) /\ Len(fil) = Len(w)
      /\ \A i \in 1..Len(w) : fil[i] = FlattenSeq(w[i])
      /\ p = <<>>
  BY DEF Held
<1> HIDE DEF h, more
<1>8. QED  BY <1>2, <1>4, <1>5, <1>6, <1>7 DEF Held, h, more

LEMMA HeldFill ==
    ASSUME NEW fil, NEW av, NEW buf, NEW off, NEW unit, NEW index,
           NEW c \in Seq(Units), NEW d, NEW p \in Seq(Units), NEW w,
           Held("fill", fil, av, buf, off, unit, index, c, d, p, w)
    PROVE  /\ d = <<>>
           /\ Held("readTo", fil, <<>>, buf \o av, off, unit, index, c, p, <<>>, w)
<1>1. d = <<>> /\ unit = <<>>
  BY DEF Held
<1>2. FlattenSeq(c) \in Seq(Bytes)
  BY UnitBytes
<1>3. buf = FlattenSeq(c) \o <<>> /\ av = FlattenSeq(p)
  BY <1>1, FlattenEmpty DEF Held
<1>4. buf = FlattenSeq(c)
  BY <1>2, <1>3, ConcatEmptySeq
<1>5. buf \o av = FlattenSeq(c) \o FlattenSeq(p)
  BY <1>3, <1>4
<1>6. /\ off = Len(FlattenSeq(c)) /\ Len(fil) = Len(w) /\ Len(c) = index
      /\ \A i \in 1..Len(w) : fil[i] = FlattenSeq(w[i])
  BY <1>1 DEF Held
<1>7. QED  BY <1>1, <1>5, <1>6, FlattenEmpty DEF Held

LEMMA HeldDrain ==
    ASSUME NEW fil \in Seq(Seq(Bytes)), fil # <<>>,
           NEW av, NEW buf, NEW off, NEW unit, NEW index,
           NEW c, NEW d, NEW p, NEW w \in Seq(Seq(Units)),
           Held("packet", fil, av, buf, off, unit, index, c, d, p, w)
    PROVE  /\ w # <<>> /\ p = <<>>
           /\ Head(fil) = FlattenSeq(Head(w))
           /\ Held("packet", Tail(fil), av, buf, off, unit, index, c, d, p, Tail(w))
           /\ Held("fill", Tail(fil), Head(fil), buf, off, unit, index, c, d, Head(w), Tail(w))
<1> DEFINE ft == Tail(fil)
           wt == Tail(w)
<1>1. /\ Len(fil) = Len(w) /\ d = <<>> /\ unit = <<>> /\ p = <<>>
      /\ \A i \in 1..Len(w) : fil[i] = FlattenSeq(w[i])
      /\ buf = FlattenSeq(c) \o FlattenSeq(d)
      /\ off = Len(FlattenSeq(c)) /\ av = FlattenSeq(p) /\ Len(c) = index
  BY DEF Held
<1>2. Len(fil) \in Nat \ {0} /\ w # <<>>
  BY <1>1, EmptySeq
<1>3. /\ Head(fil) = fil[1] /\ Len(ft) = Len(fil) - 1
      /\ \A i \in 1..Len(ft) : ft[i] = fil[i + 1]
  BY HeadTailProperties
<1>4. /\ Head(w) = w[1] /\ Len(wt) = Len(w) - 1
      /\ \A i \in 1..Len(wt) : wt[i] = w[i + 1]
  BY <1>2, HeadTailProperties
<1> HIDE DEF ft, wt
<1>5. Head(fil) = FlattenSeq(Head(w)) /\ Len(ft) = Len(wt)
  BY <1>1, <1>2, <1>3, <1>4
<1>6. ASSUME NEW i \in 1..Len(wt)
      PROVE  ft[i] = FlattenSeq(wt[i])
  <2>1. i + 1 \in 1..Len(w) /\ i \in 1..Len(ft)
    BY <1>1, <1>2, <1>4, <1>5
  <2>2. QED  BY <1>1, <1>3, <1>4, <2>1
<1>7. Held("packet", ft, av, buf, off, unit, index, c, d, p, wt)
  BY <1>1, <1>5, <1>6 DEF Held
<1>8. Held("fill", ft, Head(fil), buf, off, unit, index, c, d, Head(w), wt)
  BY <1>1, <1>5, <1>6 DEF Held
<1>9. QED  BY <1>1, <1>2, <1>5, <1>7, <1>8 DEF ft, wt

\* A packet of the demuxer with the units h.
LEMMA HeldPacket ==
    ASSUME NEW fil \in Seq(Seq(Bytes)), NEW av, NEW buf, NEW off, NEW unit, NEW index,
           NEW c, NEW d, NEW p, NEW w \in Seq(Seq(Units)), NEW h \in Seq(Units),
           Held("packet", fil, av, buf, off, unit, index, c, d, p, w), fil = <<>>
    PROVE  /\ w = <<>> /\ p = <<>>
           /\ Held("packet", Append(fil, FlattenSeq(h)), av, buf, off, unit, index,
                   c, d, p, <<h>>)
           /\ Held("fill", fil, FlattenSeq(h), buf, off, unit, index, c, d, h, w)
<1>1. /\ Len(fil) = Len(w) /\ d = <<>> /\ unit = <<>> /\ p = <<>>
      /\ buf = FlattenSeq(c) \o FlattenSeq(d)
      /\ off = Len(FlattenSeq(c)) /\ av = FlattenSeq(p) /\ Len(c) = index
  BY DEF Held
<1>2. w = <<>> /\ Len(w) = 0
  BY <1>1, EmptySeq
<1> DEFINE bytes == FlattenSeq(h)
           ones == Append(fil, bytes)
           packets == <<h>>
<1>3. Len(ones) = 1 /\ ones[1] = bytes /\ Len(packets) = 1 /\ packets[1] = h
  <2>1. ones = <<bytes>>
    OBVIOUS
  <2>2. QED  BY <2>1
<1> HIDE DEF ones, packets
<1>4. Len(ones) = Len(packets) /\ \A i \in 1..Len(packets) : ones[i] = FlattenSeq(packets[i])
  BY <1>3 DEF bytes
<1>5. Held("packet", ones, av, buf, off, unit, index, c, d, p, packets)
  BY <1>1, <1>4 DEF Held
<1>6. Held("fill", fil, FlattenSeq(h), buf, off, unit, index, c, d, h, w)
  BY <1>1, <1>2 DEF Held
<1>7. QED  BY <1>1, <1>2, <1>5, <1>6 DEF ones, packets, bytes

LEMMA HeldOpened ==
    /\ Held("readTo", <<>>, <<>>, <<>>, 0, <<>>, 0, <<>>, <<>>, <<>>, <<>>)
<1>1. FlattenSeq(<<>>) \o FlattenSeq(<<>>) = <<>> /\ Len(<<>>) = 0
  BY FlattenEmpty
<1>2. QED  BY <1>1, FlattenEmpty DEF Held

-------------------------------------------------------------------------------
(* The blocks are the units. *)

LEMMA RestsArePackets ==
    ASSUME NEW s \in Rests
    PROVE  s \in Seq(DemuxPackets)
<1>1. PICK all \in Sources \cup {<<>>} : s \in {SubSeq(all, i, Len(all)) : i \in 1..(Len(all) + 1)}
  BY DEF Rests
<1>2. PICK i \in 1..(Len(all) + 1) : s = SubSeq(all, i, Len(all))
  BY <1>1
<1>3. all \in Seq(DemuxPackets) /\ Len(all) \in Nat
  BY <1>1, SourcesAssumption, EmptySeq, LenProperties DEF DemuxPackets
<1>4. \A j \in i..Len(all) : all[j] \in DemuxPackets
  BY <1>2, <1>3, ElementOfSeq
<1>5. i \in Int /\ Len(all) \in Int
  BY <1>2, <1>3
<1>6. QED  BY <1>2, <1>3, <1>4, <1>5, SubSeqProperties

LEMMA SourceUnits ==
    ASSUME NEW s \in Sources
    PROVE  UnitsOf(s) \in Seq(Units)
<1> DEFINE u == UnitsOf(s)
<1>1. s \in Seq(DemuxPackets) /\ \A i \in 1..Len(u) : WellFormed(u[i])
  BY SourcesAssumption DEF DemuxPackets
<1>2. u \in Seq(Seq(Bytes))
  <2>1. CASE s = <<>>
    BY <2>1, UnitsOfNone, EmptySeq
  <2>2. CASE s # <<>>
    <3>1. /\ u = UnitsIn(Head(s)) \o UnitsOf(Tail(s))
          /\ UnitsIn(Head(s)) \in Seq(Seq(Bytes)) /\ UnitsOf(Tail(s)) \in Seq(Seq(Bytes))
      BY <1>1, <2>2, UnitsOfSome
    <3>2. QED  BY <3>1, ConcatProperties
  <2>3. QED  BY <2>1, <2>2
<1> HIDE DEF u
<1>3. \A i \in 1..Len(u) : u[i] \in Units
  BY <1>1, <1>2, ElementOfSeq DEF Units
<1>4. Len(u) \in Nat /\ u = [i \in 1..Len(u) |-> u[i]]
  BY <1>2, LenProperties
<1>5. u \in [1..Len(u) -> Units]
  BY <1>3, <1>4
<1>6. u \in Seq(Units)
  BY <1>4, <1>5, FunctionsAreSequences
<1>7. QED  BY <1>6 DEF u

\* A closed reader holds nothing.
Emptied ==
    /\ source = <<>> /\ filter = <<>> /\ flushed = FALSE
    /\ avPacket = <<>> /\ buffer = <<>> /\ bufferOffset = 0
    /\ nalu = <<>> /\ naluOffset = 0 /\ naluIndex = 0

\* The filter is flushed when nothing is left to read, and ReadTo ends without an error
\* when nothing is left anywhere.
Exhausted ==
    /\ flushed => source = <<>>
    /\ ~filtering => filter = <<>>
    /\ reader = "ended" /\ ~failed => source = <<>> /\ filter = <<>>

\* Where the reader is: the unit and the block it gives out next.
At == [nalu |-> naluIndex, block |-> naluOffset \div BlockSize]

Earlier(c, d) == c.nalu < d.nalu \/ (c.nalu = d.nalu /\ c.block < d.block)

\* The reader goes on where the last block ended, and every block before was handed out.
HandedOut ==
    /\ (naluOffset \div BlockSize) * BlockSize = naluOffset
    /\ handed = <<>> => At.nalu = 0 /\ At.block = 0
    /\ handed # <<>> => Follows(handed[Len(handed)], At)
    /\ \A n \in Nat : \A k \in Nat :
           /\ n < Len(video)
           /\ k < BlockCount(Len(video[n + 1]))
           /\ Earlier([nalu |-> n, block |-> k], At)
           => \E i \in 1..Len(handed) : handed[i].nalu = n /\ handed[i].block = k

RebuildInv ==
    /\ ReaderInv
    /\ video \in Seq(Units)
    /\ BlocksRebuildUnits
    /\ Exhausted
    /\ reader \in {"closed", "exited"} => Emptied
    /\ reader \notin {"closed", "exited"} => Flowing /\ HandedOut

LEMMA HandedOutStays ==
    ASSUME UNCHANGED <<video, naluOffset, naluIndex, handed>>
    PROVE  /\ HandedOut => HandedOut'
           /\ BlocksRebuildUnits => BlocksRebuildUnits'
<1>1. At' = At
  BY DEF At
<1>2. HandedOut => HandedOut'
  BY <1>1 DEF HandedOut
<1>3. BlocksRebuildUnits => BlocksRebuildUnits'
  BY DEF BlocksRebuildUnits
<1>4. QED  BY <1>2, <1>3

LEMMA RebuildInit == Init => RebuildInv
<1> SUFFICES ASSUME Init PROVE RebuildInv
  OBVIOUS
<1>1. ReaderInv
  BY ReaderInvInit
<1>2. video \in Seq(Units)
  BY NoUnits DEF Init
<1>3. Len(handed) = 0 /\ handed = <<>>
  BY DEF Init
<1>4. BlocksRebuildUnits
  BY <1>3 DEF BlocksRebuildUnits
<1>5. Emptied /\ Exhausted
  BY DEF Init, Emptied, Exhausted
<1>6. reader = "closed"
  BY DEF Init
<1>7. QED  BY <1>1, <1>2, <1>4, <1>5, <1>6 DEF RebuildInv

LEMMA RebuildStutter ==
    ASSUME RebuildInv, UNCHANGED readerVars
    PROVE  RebuildInv'
<1>1. ReaderInv'
  BY ReaderInvStutter DEF RebuildInv
<1>2. UNCHANGED <<video, source, filtering, filter, flushed, failed, reader, avPacket, buffer,
                  bufferOffset, nalu, naluOffset, naluIndex, handed>>
  BY DEF readerVars, demuxVars, naluVars
<1>3. Flowing => Flowing'
  BY <1>2 DEF Flowing
<1>4. Exhausted' = Exhausted /\ Emptied' = Emptied
  BY <1>2 DEF Exhausted, Emptied
<1>5. QED  BY <1>1, <1>2, <1>3, <1>4, HandedOutStays DEF RebuildInv

LEMMA RebuildTake ==
    ASSUME RebuildInv, TakeBlock
    PROVE  RebuildInv'
<1>1. ReaderInv'
  BY ReaderInvTake DEF RebuildInv
<1>2. UNCHANGED <<video, source, filtering, filter, flushed, failed, reader, avPacket, buffer,
                  bufferOffset, nalu, naluOffset, naluIndex, handed>>
  BY DEF TakeBlock, demuxVars, naluVars
<1>3. Flowing => Flowing'
  BY <1>2 DEF Flowing
<1>4. Exhausted' = Exhausted /\ Emptied' = Emptied
  BY <1>2 DEF Exhausted, Emptied
<1>5. QED  BY <1>1, <1>2, <1>3, <1>4, HandedOutStays DEF RebuildInv

LEMMA ZeroQuotient ==
    ASSUME NEW b \in Nat \ {0}
    PROVE  0 \div b = 0 /\ 0 * b = 0
OBVIOUS

LEMMA RebuildOpen ==
    ASSUME RebuildInv, Open
    PROVE  RebuildInv'
<1>1. ReaderInv'
  BY ReaderInvOpenClose DEF RebuildInv
<1>2. Emptied /\ video = <<>> /\ BlocksRebuildUnits /\ Exhausted /\ reader = "closed"
  BY DEF Open, RebuildInv
<1>3. /\ UNCHANGED <<filter, flushed, failed, avPacket, buffer, bufferOffset, nalu,
                     naluOffset, naluIndex, handed>>
      /\ reader' \in {"exited", "readTo"}
  BY DEF Open, naluVars
<1>4. handed = <<>>
  <2> SUFFICES ASSUME handed # <<>> PROVE FALSE
    OBVIOUS
  <2>1. handed \in Seq(Blocks)
    BY DEF RebuildInv, ReaderInv, TypeOK
  <2>2. 1 \in 1..Len(handed)
    BY <2>1, EmptySeq, LenProperties
  <2>3. handed[1].nalu \in Nat
    <3>1. handed[1] \in Blocks
      BY <2>1, <2>2, ElementOfSeq
    <3>2. QED  BY <3>1 DEF Blocks
  <2>4. handed[1].nalu < 0
    BY <1>2, <2>2 DEF BlocksRebuildUnits
  <2>5. QED  BY <2>3, <2>4
<1>5. BlocksRebuildUnits'
  <2>1. handed' = <<>> /\ Len(handed') = 0
    BY <1>3, <1>4
  <2>2. QED  BY <2>1 DEF BlocksRebuildUnits
<1>6. Exhausted'
  BY <1>2, <1>3 DEF Exhausted, Emptied
<1>7. CASE reader' = "exited" /\ UNCHANGED <<video, source, filtering>>
  <2>1. video' \in Seq(Units)
    BY <1>2, <1>7, NoUnits
  <2>2. Emptied'
    BY <1>2, <1>3, <1>7 DEF Emptied
  <2>3. QED  BY <1>1, <1>5, <1>6, <1>7, <2>1, <2>2 DEF RebuildInv
<1>8. CASE source' \in Sources /\ video' = UnitsOf(source') /\ reader' = "readTo"
  <2>1. video' \in Seq(Units)
    BY <1>8, SourceUnits
  <2>2. Streamed(video', source', <<>>, <<>>, <<>>, <<>>)
    BY <1>8, <2>1, StreamedAtOnce
  <2>3. Held(reader', filter', avPacket', buffer', bufferOffset', nalu', naluIndex',
             <<>>, <<>>, <<>>, <<>>)
    BY <1>2, <1>3, <1>8, HeldOpened DEF Emptied
  <2>4. Flowing'
    BY <2>2, <2>3, NoUnits DEF Flowing
  <2>5. naluOffset' = 0 /\ naluIndex' = 0 /\ handed' = <<>> /\ 0 \div BlockSize = 0
        /\ 0 * BlockSize = 0
    BY <1>2, <1>3, <1>4, ZeroQuotient, BlockSizeAssumption DEF Emptied
  <2>6. At' = [nalu |-> 0, block |-> 0]
    BY <2>5 DEF At
  <2>7. \A n \in Nat : \A k \in Nat : ~Earlier([nalu |-> n, block |-> k], At')
    BY <2>6 DEF Earlier
  <2>8. HandedOut'
    BY <2>5, <2>6, <2>7 DEF HandedOut
  <2>9. QED  BY <1>1, <1>5, <1>6, <1>8, <2>1, <2>4, <2>8 DEF RebuildInv
<1>9. QED  BY <1>7, <1>8 DEF Open

LEMMA RebuildClose ==
    ASSUME RebuildInv, Close
    PROVE  RebuildInv'
<1>1. ReaderInv'
  BY ReaderInvOpenClose DEF RebuildInv
<1>2. Emptied' /\ Exhausted'
  BY DEF Close, Emptied, Exhausted
<1>3. video' = video /\ handed' = handed /\ reader' = "closed"
  BY DEF Close
<1>4. BlocksRebuildUnits'
  BY <1>3 DEF RebuildInv, BlocksRebuildUnits
<1>5. QED  BY <1>1, <1>2, <1>3, <1>4 DEF RebuildInv

\* Steps that cut no block and close nothing.
LEMMA RebuildMoves ==
    ASSUME RebuildInv, ReaderInv', reader \notin {"closed", "exited"},
           reader' \notin {"closed", "exited"},
           UNCHANGED <<video, naluOffset, naluIndex, handed>>, Exhausted', Flowing'
    PROVE  RebuildInv'
BY HandedOutStays DEF RebuildInv

LEMMA RebuildFill ==
    ASSUME RebuildInv, FillStreamBuffer
    PROVE  RebuildInv'
<1>1. ReaderInv'
  BY ReaderInvFill DEF RebuildInv
<1>2. /\ UNCHANGED <<video, source, filtering, filter, flushed, failed, bufferOffset, nalu,
                     naluOffset, naluIndex, handed>>
      /\ buffer' = buffer \o avPacket /\ avPacket' = <<>>
      /\ reader = "fill" /\ reader' = "readTo"
  BY DEF FillStreamBuffer, demuxVars, naluVars
<1>3. Exhausted' /\ Flowing
  BY <1>2 DEF Exhausted, RebuildInv
<1>4. PICK c \in Seq(Units), d \in Seq(Units), p \in Seq(Units), w \in Seq(Seq(Units)) :
          /\ Streamed(video, source, c, d, p, w)
          /\ Held(reader, filter, avPacket, buffer, bufferOffset, nalu, naluIndex, c, d, p, w)
  BY <1>3 DEF Flowing
<1>5. /\ d = <<>>
      /\ Held("readTo", filter, <<>>, buffer \o avPacket, bufferOffset, nalu, naluIndex,
              c, p, <<>>, w)
  BY <1>2, <1>4, HeldFill
<1>6. Streamed(video, source, c, p, <<>>, w)
  BY <1>4, <1>5, StreamedFill
<1>7. /\ Streamed(video', source', c, p, <<>>, w)
      /\ Held(reader', filter', avPacket', buffer', bufferOffset', nalu', naluIndex',
              c, p, <<>>, w)
  BY <1>2, <1>5, <1>6
<1>8. Flowing'
  BY <1>4, <1>7, NoUnits DEF Flowing
<1>9. QED  BY <1>1, <1>2, <1>3, <1>8, RebuildMoves

LEMMA RebuildExtract ==
    ASSUME RebuildInv, ExtractNextNalu
    PROVE  RebuildInv'
<1> DEFINE start == FindStartCode(buffer, bufferOffset, Len(buffer))
<1>1. ReaderInv'
  BY ReaderInvExtract DEF RebuildInv
<1>2. /\ UNCHANGED <<video, source, filtering, filter, flushed, failed, avPacket, buffer,
                     naluIndex, handed>>
      /\ reader = "readTo" /\ nalu = <<>>
  BY DEF ExtractNextNalu, demuxVars, naluVars
<1>3. Flowing /\ Exhausted /\ naluOffset = 0
  <2>1. naluOffset \in 0..Len(nalu) /\ Len(<<>>) = 0
    BY DEF RebuildInv, ReaderInv, TypeOK
  <2>2. QED  BY <1>2, <2>1 DEF RebuildInv
<1>4. /\ \/ /\ start = Len(buffer) /\ reader' = "packet"
            /\ UNCHANGED <<bufferOffset, nalu, naluOffset>>
         \/ /\ start # Len(buffer) /\ reader' = "readTo" /\ naluOffset' = 0
            /\ nalu' = SubSeq(buffer, start + 1, NaluEnd(start))
            /\ bufferOffset' = NaluEnd(start)
      /\ naluOffset' = naluOffset
  BY <1>2, <1>3 DEF ExtractNextNalu, naluVars
<1>5. PICK c \in Seq(Units), d \in Seq(Units), p \in Seq(Units), w \in Seq(Seq(Units)) :
          /\ Streamed(video, source, c, d, p, w)
          /\ Held(reader, filter, avPacket, buffer, bufferOffset, nalu, naluIndex, c, d, p, w)
  BY <1>3 DEF Flowing
<1>6. /\ buffer = FlattenSeq(c) \o FlattenSeq(d) /\ bufferOffset = Len(FlattenSeq(c))
      /\ buffer \in Seq(Bytes) /\ FlattenSeq(c) \in Seq(Bytes)
  BY <1>5, UnitBytes DEF Held, RebuildInv, ReaderInv, TypeOK
<1>7. Flowing'
  <2>1. CASE d = <<>>
    <3>1. buffer = FlattenSeq(c)
      BY <1>6, <2>1, FlattenEmpty, ConcatEmptySeq
    <3>2. start = Len(buffer)
      BY <1>6, <3>1, FindAtEnd
    <3>3. reader' = "packet" /\ UNCHANGED <<bufferOffset, nalu>>
      BY <1>4, <3>2
    <3>4. Held("packet", filter, avPacket, buffer, bufferOffset, nalu, naluIndex, c, d, p, w)
      BY <1>2, <1>5, <2>1 DEF Held
    <3>5. /\ Streamed(video', source', c, d, p, w)
          /\ Held(reader', filter', avPacket', buffer', bufferOffset', nalu', naluIndex',
                  c, d, p, w)
      BY <1>2, <1>5, <3>3, <3>4
    <3>6. QED  BY <1>5, <3>5 DEF Flowing
  <2>2. CASE d # <<>>
    <3> DEFINE unit == Head(d)
    <3>1. /\ start = bufferOffset /\ bufferOffset < Len(buffer)
          /\ NaluEnd(start) = bufferOffset + Len(unit)
          /\ SubSeq(buffer, bufferOffset + 1, bufferOffset + Len(unit)) = unit
      <4> DEFINE x == FlattenSeq(c)
      <4>1. buffer = x \o FlattenSeq(d) /\ x \in Seq(Bytes) /\ bufferOffset = Len(x)
        BY <1>6
      <4> HIDE DEF x
      <4>2. /\ FindStartCode(buffer, Len(x), Len(buffer)) = Len(x)
            /\ Len(x) < Len(buffer)
            /\ FindStartCode(buffer, Len(x) + 3, Len(buffer)) = Len(x) + Len(unit)
            /\ SubSeq(buffer, Len(x) + 1, Len(x) + Len(unit)) = unit
        BY <1>6, <2>2, <4>1, FindUnit
      <4> HIDE DEF unit
      <4>3. QED  BY <4>1, <4>2 DEF NaluEnd
    <3>2. reader' = "readTo" /\ nalu' = unit /\ bufferOffset' = bufferOffset + Len(unit)
      <4>1. start # Len(buffer)
        BY <1>6, <3>1, LenProperties
      <4>2. QED  BY <1>4, <3>1, <4>1
    <3>3. Held("readTo", filter, avPacket, buffer, bufferOffset + Len(unit), unit, naluIndex,
               Append(c, unit), Tail(d), p, w)
      BY <1>2, <1>5, <2>2, HeldExtract
    <3>4. /\ Append(c, unit) \in Seq(Units) /\ Tail(d) \in Seq(Units)
          /\ Streamed(video, source, Append(c, unit), Tail(d), p, w)
      BY <1>5, <2>2, StreamedExtract
    <3> HIDE DEF unit
    <3> DEFINE cc == Append(c, unit)
               dd == Tail(d)
    <3>5. /\ Streamed(video', source', cc, dd, p, w)
          /\ Held(reader', filter', avPacket', buffer', bufferOffset', nalu', naluIndex',
                  cc, dd, p, w)
      BY <1>2, <3>2, <3>3, <3>4
    <3>6. cc \in Seq(Units) /\ dd \in Seq(Units)
      BY <3>4
    <3> HIDE DEF cc, dd
    <3>7. QED  BY <1>5, <3>5, <3>6 DEF Flowing
  <2>3. QED  BY <2>1, <2>2
<1>8. Exhausted'
  BY <1>2, <1>3, <1>4 DEF Exhausted
<1>9. reader \notin {"closed", "exited"} /\ reader' \notin {"closed", "exited"}
  BY <1>2, <1>4
<1>10. QED  BY <1>1, <1>2, <1>4, <1>7, <1>8, <1>9, RebuildMoves

LEMMA FlowDrain ==
    ASSUME RebuildInv, ReadPacketFromStream, filter # <<>>, DrainFilter
    PROVE  Flowing'
<1>1. /\ UNCHANGED <<video, source, buffer, bufferOffset, nalu, naluIndex>>
      /\ reader = "packet" /\ filter' = Tail(filter)
      /\ \/ Head(filter) = <<>> /\ reader' = reader /\ avPacket' = avPacket
         \/ Head(filter) # <<>> /\ reader' = "fill" /\ avPacket' = Head(filter)
  BY DEF ReadPacketFromStream, DrainFilter, naluVars
<1>2. Flowing /\ filter \in Seq(Seq(Bytes))
  BY <1>1 DEF RebuildInv, ReaderInv, TypeOK
<1>3. PICK c \in Seq(Units), d \in Seq(Units), p \in Seq(Units), w \in Seq(Seq(Units)) :
          /\ Streamed(video, source, c, d, p, w)
          /\ Held(reader, filter, avPacket, buffer, bufferOffset, nalu, naluIndex, c, d, p, w)
  BY <1>2 DEF Flowing
<1> DEFINE h == Head(w)
           t == Tail(w)
<1>4. /\ w # <<>> /\ p = <<>>
      /\ Head(filter) = FlattenSeq(h)
      /\ Held("packet", Tail(filter), avPacket, buffer, bufferOffset, nalu, naluIndex, c, d, p, t)
      /\ Held("fill", Tail(filter), Head(filter), buffer, bufferOffset, nalu, naluIndex,
              c, d, h, t)
  BY <1>1, <1>2, <1>3, HeldDrain
<1>5. h \in Seq(Units) /\ t \in Seq(Seq(Units)) /\ Streamed(video, source, c, d, h, t)
  BY <1>3, <1>4, StreamedDrain
<1>6. Head(filter) = <<>> => h = p
  BY <1>4, <1>5, UnitBytes
<1> HIDE DEF h, t
<1>7. CASE Head(filter) = <<>>
  <2>1. /\ Streamed(video', source', c, d, p, t)
        /\ Held(reader', filter', avPacket', buffer', bufferOffset', nalu', naluIndex',
                c, d, p, t)
    BY <1>1, <1>4, <1>5, <1>6, <1>7
  <2>2. QED  BY <1>3, <1>5, <2>1 DEF Flowing
<1>8. CASE Head(filter) # <<>>
  <2>1. /\ Streamed(video', source', c, d, h, t)
        /\ Held(reader', filter', avPacket', buffer', bufferOffset', nalu', naluIndex',
                c, d, h, t)
    BY <1>1, <1>4, <1>5, <1>8
  <2>2. QED  BY <1>3, <1>5, <2>1 DEF Flowing
<1>9. QED  BY <1>7, <1>8

\* A packet of the demuxer goes into the filter, into _avPacket, or is of another stream.
LEMMA FlowPacket ==
    ASSUME RebuildInv, ReadPacketFromStream, filter = <<>>, source # <<>>, source' = Tail(source),
           \/ /\ Head(source).video
              /\ filter' = Append(filter, FlattenSeq(Head(source).nalus))
              /\ reader' = reader /\ avPacket' = avPacket
           \/ /\ Head(source).video
              /\ filter' = filter
              /\ reader' = "fill" /\ avPacket' = FlattenSeq(Head(source).nalus)
           \/ /\ ~Head(source).video
              /\ UNCHANGED <<filter, reader, avPacket>>
    PROVE  Flowing'
<1> DEFINE h == UnitsIn(Head(source))
           one == <<h>>
<1>1. /\ UNCHANGED <<video, buffer, bufferOffset, nalu, naluIndex>>
      /\ reader = "packet"
  BY DEF ReadPacketFromStream, naluVars
<1>2. Flowing /\ filter \in Seq(Seq(Bytes)) /\ source \in Seq(DemuxPackets)
  BY <1>1, RestsArePackets DEF RebuildInv, ReaderInv, TypeOK
<1>3. PICK c \in Seq(Units), d \in Seq(Units), p \in Seq(Units), w \in Seq(Seq(Units)) :
          /\ Streamed(video, source, c, d, p, w)
          /\ Held(reader, filter, avPacket, buffer, bufferOffset, nalu, naluIndex, c, d, p, w)
  BY <1>2 DEF Flowing
<1>4. w = <<>> /\ p = <<>>
  <2>1. Len(filter) = Len(w) /\ p = <<>> /\ Len(filter) = 0
    BY <1>1, <1>2, <1>3, EmptySeq DEF Held
  <2>2. QED  BY <1>3, <2>1, EmptySeq
<1>5. /\ h \in Seq(Units)
      /\ Streamed(video, Tail(source), c, d, h, <<>>)
      /\ Streamed(video, Tail(source), c, d, <<>>, one)
  BY <1>2, <1>3, <1>4, StreamedPacket
<1>6. /\ Held("packet", Append(filter, FlattenSeq(h)), avPacket, buffer, bufferOffset,
              nalu, naluIndex, c, d, p, one)
      /\ Held("fill", filter, FlattenSeq(h), buffer, bufferOffset,
              nalu, naluIndex, c, d, h, w)
  BY <1>1, <1>2, <1>3, <1>5, HeldPacket
<1>7. one \in Seq(Seq(Units))
  BY <1>5
<1>8. /\ Head(source).video => h = Head(source).nalus
      /\ ~Head(source).video => h = <<>>
  BY DEF UnitsIn
<1> HIDE DEF h, one
<1>9. CASE /\ Head(source).video
           /\ filter' = Append(filter, FlattenSeq(Head(source).nalus))
           /\ reader' = reader /\ avPacket' = avPacket
  <2>1. /\ Streamed(video', source', c, d, p, one)
        /\ Held(reader', filter', avPacket', buffer', bufferOffset', nalu', naluIndex',
                c, d, p, one)
    BY <1>1, <1>4, <1>5, <1>6, <1>8, <1>9
  <2>2. QED  BY <1>3, <1>7, <2>1 DEF Flowing
<1>10. CASE /\ Head(source).video /\ filter' = filter
            /\ reader' = "fill" /\ avPacket' = FlattenSeq(Head(source).nalus)
  <2>1. /\ Streamed(video', source', c, d, h, w)
        /\ Held(reader', filter', avPacket', buffer', bufferOffset', nalu', naluIndex',
                c, d, h, w)
    BY <1>1, <1>4, <1>5, <1>6, <1>8, <1>10
  <2>2. QED  BY <1>3, <1>5, <2>1 DEF Flowing
<1>11. CASE ~Head(source).video /\ UNCHANGED <<filter, reader, avPacket>>
  <2>1. /\ Streamed(video', source', c, d, p, w)
        /\ Held(reader', filter', avPacket', buffer', bufferOffset', nalu', naluIndex',
                c, d, p, w)
    BY <1>1, <1>3, <1>4, <1>5, <1>8, <1>11
  <2>2. QED  BY <1>3, <2>1 DEF Flowing
<1>12. QED  BY <1>9, <1>10, <1>11

\* The read fails, comes to an end, or flushes the filter.
LEMMA FlowEnds ==
    ASSUME RebuildInv, ReadPacketFromStream, reader' \in {"packet", "ended"},
           UNCHANGED <<source, filter, avPacket>>
    PROVE  Flowing'
<1>1. /\ UNCHANGED <<video, source, filter, avPacket, buffer, bufferOffset, nalu, naluIndex>>
      /\ reader = "packet" /\ Flowing
  BY DEF ReadPacketFromStream, naluVars, RebuildInv
<1>2. PICK c \in Seq(Units), d \in Seq(Units), p \in Seq(Units), w \in Seq(Seq(Units)) :
          /\ Streamed(video, source, c, d, p, w)
          /\ Held(reader, filter, avPacket, buffer, bufferOffset, nalu, naluIndex, c, d, p, w)
  BY <1>1 DEF Flowing
<1>3. Held(reader', filter, avPacket, buffer, bufferOffset, nalu, naluIndex, c, d, p, w)
  BY <1>1, <1>2 DEF Held
<1>4. /\ Streamed(video', source', c, d, p, w)
      /\ Held(reader', filter', avPacket', buffer', bufferOffset', nalu', naluIndex',
              c, d, p, w)
  BY <1>1, <1>2, <1>3
<1>5. QED  BY <1>2, <1>4 DEF Flowing

LEMMA RebuildPacket ==
    ASSUME RebuildInv, ReadPacketFromStream
    PROVE  RebuildInv'
<1>1. ReaderInv'
  BY ReaderInvPacket DEF RebuildInv
<1>2. /\ UNCHANGED <<video, filtering, naluOffset, naluIndex, handed>>
      /\ reader = "packet" /\ Exhausted /\ flushed \in BOOLEAN
  BY DEF ReadPacketFromStream, naluVars, RebuildInv, ReaderInv, TypeOK
<1>3. reader' \notin {"closed", "exited"} /\ Exhausted' /\ Flowing'
  <2>1. CASE Fail
    BY <1>2, <2>1, FlowEnds DEF Fail, Exhausted
  <2>2. CASE EndOfFile /\ source = <<>> /\ filter = <<>>
    BY <1>2, <2>2, FlowEnds DEF EndOfFile, Exhausted
  <2>3. CASE filtering /\ filter # <<>> /\ DrainFilter
    BY <1>2, <2>3, FlowDrain DEF DrainFilter, Exhausted
  <2>4. CASE filtering /\ filter = <<>> /\ FeedFilter /\ source = <<>>
    BY <1>2, <2>4, FlowEnds DEF FeedFilter, Exhausted
  <2>5. CASE filtering /\ filter = <<>> /\ ~flushed /\ FeedFilter /\ source # <<>>
    <3>1. Flowing'
      BY <2>5, FlowPacket DEF FeedFilter
    <3>2. QED  BY <1>2, <2>5, <3>1 DEF FeedFilter, Exhausted
  <2>6. CASE /\ ~filtering /\ source # <<>> /\ source' = Tail(source)
             /\ IF Head(source).video
                THEN reader' = "fill" /\ avPacket' = FlattenSeq(Head(source).nalus)
                ELSE UNCHANGED <<reader, avPacket>>
             /\ UNCHANGED <<filter, flushed, failed>>
    <3>1. filter = <<>>
      BY <1>2, <2>6 DEF Exhausted
    <3>2. Flowing'
      BY <2>6, <3>1, FlowPacket
    <3>3. QED  BY <1>2, <2>6, <3>1, <3>2 DEF Exhausted
  <2>7. CASE filtering /\ ReadThroughFilter
    BY <1>2, <2>1, <2>2, <2>3, <2>4, <2>5, <2>7 DEF ReadThroughFilter, Exhausted
  <2>8. CASE ~filtering /\ ReadDirectly
    BY <1>2, <2>1, <2>2, <2>6, <2>8 DEF ReadDirectly, Exhausted
  <2>9. QED  BY <2>7, <2>8 DEF ReadPacketFromStream
<1>4. QED  BY <1>1, <1>2, <1>3, RebuildMoves

LEMMA OneMore ==
    ASSUME NEW S, NEW s \in Seq(S), NEW e \in S, NEW one, one = <<e>>
    PROVE  /\ Len(s \o one) = Len(s) + 1 /\ Len(s) \in Nat
           /\ \A i \in 1..Len(s) : (s \o one)[i] = s[i]
           /\ (s \o one)[Len(s) + 1] = e
<1>1. one \in Seq(S) /\ Len(one) = 1 /\ one[1] = e
  OBVIOUS
<1>2. Len(s) \in Nat
  BY LenProperties
<1>3. /\ Len(s \o one) = Len(s) + 1
      /\ \A i \in 1..(Len(s) + 1) : (s \o one)[i] = IF i <= Len(s) THEN s[i] ELSE one[i - Len(s)]
  BY <1>1, ConcatProperties
<1>4. QED  BY <1>1, <1>2, <1>3

\* The unit that is being handed out is the one its index says.
LEMMA CurrentUnit ==
    ASSUME RebuildInv, Flowing, nalu # <<>>
    PROVE  naluIndex < Len(video) /\ video[naluIndex + 1] = nalu /\ Len(video) \in Nat
<1>1. PICK c \in Seq(Units), d \in Seq(Units), p \in Seq(Units), w \in Seq(Seq(Units)) :
          /\ Streamed(video, source, c, d, p, w)
          /\ Held(reader, filter, avPacket, buffer, bufferOffset, nalu, naluIndex, c, d, p, w)
  BY DEF Flowing
<1> DEFINE rest == d \o (p \o (FlattenSeq(w) \o UnitsOf(source)))
<1>2. Len(c) = naluIndex + 1 /\ c[Len(c)] = nalu
  BY <1>1 DEF Held
<1>3. video = c \o rest /\ rest \in Seq(Units) /\ naluIndex \in Nat
  <2>1. FlattenSeq(w) \in Seq(Units) /\ UnitsOf(source) \in Seq(Units)
    BY <1>1, FlattenType DEF Streamed
  <2>2. FlattenSeq(w) \o UnitsOf(source) \in Seq(Units)
    BY <2>1, NoUnits
  <2>3. p \o (FlattenSeq(w) \o UnitsOf(source)) \in Seq(Units)
    BY <2>2, NoUnits
  <2>4. rest \in Seq(Units)
    BY <2>3, NoUnits
  <2>5. QED  BY <1>1, <2>4 DEF Streamed, RebuildInv, ReaderInv, TypeOK
<1> HIDE DEF rest
<1>4. /\ Len(video) = Len(c) + Len(rest) /\ Len(rest) \in Nat
      /\ \A i \in 1..(Len(c) + Len(rest)) :
             video[i] = IF i <= Len(c) THEN c[i] ELSE rest[i - Len(c)]
  BY <1>3, ConcatProperties, LenProperties
<1>5. QED  BY <1>2, <1>3, <1>4

\* Block k of the unit, and where the reader goes from there.
LEMMA CutBlocks ==
    ASSUME RebuildInv, HandedOut, CutBlock
    PROVE  LET b == NextGiven
               k == naluOffset \div BlockSize IN
           /\ k \in Nat /\ Len(nalu) \in Nat \ {0}
           /\ b.nalu = naluIndex /\ b.block = k /\ b.total = BlockCount(Len(nalu))
           /\ Holds(b.total, Len(nalu)) /\ b.block < b.total
           /\ b.data = Slice(nalu, k)
           /\ \/ At' = [nalu |-> naluIndex + 1, block |-> 0] /\ ~(k + 1 < b.total)
              \/ At' = [nalu |-> naluIndex, block |-> k + 1] /\ k + 1 < b.total
           /\ (naluOffset' \div BlockSize) * BlockSize = naluOffset'
<1> DEFINE b == NextGiven
           k == naluOffset \div BlockSize
           n == Len(nalu)
           total == BlockCount(n)
<1>1. /\ BlockSize \in Nat \ {0} /\ naluOffset \in Nat /\ naluOffset < n /\ n \in Nat \ {0}
      /\ naluIndex \in Nat
  <2>1. Givens /\ TypeOK /\ nalu # <<>>
    BY DEF RebuildInv, ReaderInv, CutBlock
  <2>2. BlockSize \in Nat \ {0} /\ n \in Nat /\ naluOffset \in 0..n /\ naluIndex \in Nat
    BY <2>1, BlockSizeAssumption, LenProperties DEF TypeOK
  <2>3. naluOffset < n
    BY <2>1 DEF Givens
  <2>4. QED  BY <2>2, <2>3
<1>2. k \in Nat /\ k * BlockSize = naluOffset
  BY <1>1, Quotient DEF HandedOut
<1>3. (k + 1) * BlockSize = naluOffset + BlockSize /\ (naluOffset + BlockSize) \div BlockSize = k + 1
  <2>1. (k + 1) * BlockSize = k * BlockSize + BlockSize
    <3> HIDE DEF k
    <3>1. QED  BY <1>1, <1>2, Products
  <2>2. QED  BY <1>1, <1>2, <2>1, NextQuotient
<1>4. b = [nalu |-> naluIndex, block |-> k, total |-> total,
           data |-> SubSeq(nalu, naluOffset + 1,
                           naluOffset + (IF n - naluOffset < BlockSize THEN n - naluOffset
                                                                      ELSE BlockSize))]
  BY DEF NextGiven
<1> HIDE DEF b, k
<1>5. Holds(total, n) /\ total \in Nat /\ k < total
      /\ ((k + 1) * BlockSize < n <=> k + 1 < total)
  BY <1>1, <1>2, CountHolds, LastBlock
<1>6. b.data = Slice(nalu, k)
  <2>1. naluOffset + (IF n - naluOffset < BlockSize THEN n - naluOffset ELSE BlockSize)
            = IF n < naluOffset + BlockSize THEN n ELSE naluOffset + BlockSize
    BY <1>1
  <2>2. b.data = SubSeq(nalu, naluOffset + 1,
                        IF n < naluOffset + BlockSize THEN n ELSE naluOffset + BlockSize)
    BY <1>4, <2>1
  <2>3. QED  BY <1>2, <1>3, <2>2 DEF Slice
<1> HIDE DEF total
<1>7. \/ /\ naluOffset' = 0 /\ naluIndex' = naluIndex + 1
         /\ n <= naluOffset + BlockSize
      \/ /\ naluIndex' = naluIndex
         /\ naluOffset' = naluOffset + BlockSize /\ naluOffset' < n
  BY CutGives DEF RebuildInv
<1>8. /\ \/ At' = [nalu |-> naluIndex + 1, block |-> 0] /\ ~(k + 1 < total)
         \/ At' = [nalu |-> naluIndex, block |-> k + 1] /\ k + 1 < total
      /\ (naluOffset' \div BlockSize) * BlockSize = naluOffset'
  <2>0. At' = [nalu |-> naluIndex', block |-> naluOffset' \div BlockSize]
    BY DEF At
  <2>1. CASE /\ naluOffset' = 0 /\ naluIndex' = naluIndex + 1
             /\ n <= naluOffset + BlockSize
    <3>1. 0 \div BlockSize = 0 /\ 0 * BlockSize = 0
      BY <1>1, ZeroQuotient
    <3>2. ~(k + 1 < total)
      <4>1. ~((k + 1) * BlockSize < n)
        BY <1>1, <1>3, <2>1
      <4>2. QED  BY <1>5, <4>1
    <3>3. QED  BY <2>0, <2>1, <3>1, <3>2
  <2>2. CASE /\ naluIndex' = naluIndex
             /\ naluOffset' = naluOffset + BlockSize /\ naluOffset' < n
    <3>1. k + 1 < total
      BY <1>3, <1>5, <2>2
    <3>2. naluOffset' \div BlockSize = k + 1 /\ (k + 1) * BlockSize = naluOffset'
      BY <1>3, <2>2
    <3>3. QED  BY <2>0, <2>2, <3>1, <3>2
  <2>3. QED  BY <1>7, <2>1, <2>2
<1>9. b.nalu = naluIndex /\ b.block = k /\ b.total = total
  BY <1>4
<1>10. QED  BY <1>1, <1>2, <1>5, <1>6, <1>8, <1>9 DEF b, k, total

LEMMA FlowCut ==
    ASSUME RebuildInv, Flowing, CutBlock
    PROVE  Flowing'
<1>1. /\ UNCHANGED <<video, source, filter, avPacket, buffer, bufferOffset, reader>>
      /\ reader = "readTo" /\ nalu # <<>>
  BY DEF CutBlock, demuxVars
<1>2. PICK c \in Seq(Units), d \in Seq(Units), p \in Seq(Units), w \in Seq(Seq(Units)) :
          /\ Streamed(video, source, c, d, p, w)
          /\ Held(reader, filter, avPacket, buffer, bufferOffset, nalu, naluIndex, c, d, p, w)
  BY DEF Flowing
<1>3. \/ nalu' = <<>> /\ naluIndex' = naluIndex + 1
      \/ nalu' = nalu /\ naluIndex' = naluIndex
  BY CutGives DEF RebuildInv
<1>4. Held(reader, filter, avPacket, buffer, bufferOffset, nalu', naluIndex', c, d, p, w)
  BY <1>1, <1>2, <1>3 DEF Held
<1>5. /\ Streamed(video', source', c, d, p, w)
      /\ Held(reader', filter', avPacket', buffer', bufferOffset', nalu', naluIndex',
              c, d, p, w)
  BY <1>1, <1>2, <1>4
<1>6. QED  BY <1>2, <1>5 DEF Flowing

LEMMA RebuildCut ==
    ASSUME RebuildInv, CutBlock
    PROVE  RebuildInv'
<1> DEFINE b == NextGiven
           k == naluOffset \div BlockSize
           m == Len(handed)
           one == <<b>>
<1>1. ReaderInv'
  BY ReaderInvCut DEF RebuildInv
<1>2. /\ UNCHANGED <<video, source, filtering, filter, flushed, failed, reader>>
      /\ reader = "readTo" /\ nalu # <<>>
      /\ Flowing /\ HandedOut /\ BlocksRebuildUnits /\ Exhausted /\ video \in Seq(Units)
      /\ handed \in Seq(Blocks) /\ naluIndex \in Nat
  BY DEF CutBlock, demuxVars, RebuildInv, ReaderInv, TypeOK
<1>3. b \in Blocks /\ handed' = handed \o one
  <2>1. b \in Blocks /\ given' = one
    BY CutGives DEF RebuildInv
  <2>2. QED  BY <2>1 DEF CutBlock
<1>4. naluIndex < Len(video) /\ video[naluIndex + 1] = nalu /\ Len(video) \in Nat
  BY <1>2, CurrentUnit
<1>5. /\ k \in Nat /\ Len(nalu) \in Nat \ {0}
      /\ b.nalu = naluIndex /\ b.block = k /\ b.total = BlockCount(Len(nalu))
      /\ Holds(b.total, Len(nalu)) /\ b.block < b.total
      /\ b.data = Slice(nalu, k)
      /\ \/ At' = [nalu |-> naluIndex + 1, block |-> 0] /\ ~(k + 1 < b.total)
         \/ At' = [nalu |-> naluIndex, block |-> k + 1] /\ k + 1 < b.total
      /\ (naluOffset' \div BlockSize) * BlockSize = naluOffset'
  BY <1>2, CutBlocks
<1>6. At.nalu = naluIndex /\ At.block = k
  BY DEF At
<1> HIDE DEF b, k
<1>7. /\ Len(handed') = m + 1 /\ m \in Nat
      /\ \A i \in 1..m : handed'[i] = handed[i]
      /\ handed'[m + 1] = b
  BY <1>2, <1>3, OneMore
<1>8. handed = <<>> <=> m = 0
  BY <1>2, EmptySeq
<1> HIDE DEF m
<1>9. BlocksRebuildUnits'
  <2>1. handed'[1].nalu = 0 /\ handed'[1].block = 0
    <3>1. CASE m = 0
      BY <1>2, <1>5, <1>6, <1>7, <1>8, <3>1 DEF HandedOut
    <3>2. CASE m # 0
      <4>1. 1 \in 1..m
        BY <1>7, <3>2
      <4>2. QED  BY <1>2, <1>7, <1>8, <3>2, <4>1 DEF BlocksRebuildUnits
    <3>3. QED  BY <3>1, <3>2
  <2>2. ASSUME NEW i \in 1..m
        PROVE  Follows(handed'[i], handed'[i + 1])
    <3>1. CASE i = m
      <4>1. Follows(handed[m], At) /\ handed'[m] = handed[m]
        BY <1>2, <1>7, <1>8, <2>2, <3>1 DEF HandedOut, m
      <4>2. QED  BY <1>5, <1>6, <1>7, <3>1, <4>1 DEF Follows
    <3>2. CASE i # m
      <4>1. i \in 1..(m - 1) /\ i + 1 \in 1..m
        BY <1>7, <3>2
      <4>2. Follows(handed[i], handed[i + 1])
        BY <1>2, <4>1 DEF BlocksRebuildUnits, m
      <4>3. QED  BY <1>7, <4>1, <4>2
    <3>3. QED  BY <3>1, <3>2
  <2>3. ASSUME NEW i \in 1..(m + 1)
        PROVE  LET e == handed'[i]
                   unit == video[e.nalu + 1] IN
               /\ e.nalu < Len(video)
               /\ Holds(e.total, Len(unit))
               /\ e.block < e.total
               /\ e.data = Slice(unit, e.block)
    <3>1. CASE i = m + 1
      BY <1>4, <1>5, <1>7, <3>1
    <3>2. CASE i # m + 1
      <4>1. i \in 1..m
        BY <1>7, <3>2
      <4>2. QED  BY <1>2, <1>7, <4>1 DEF BlocksRebuildUnits, m
    <3>3. QED  BY <3>1, <3>2
  <2>4. (m + 1) - 1 = m
    BY <1>7
  <2>5. QED  BY <1>2, <1>7, <2>1, <2>2, <2>3, <2>4 DEF BlocksRebuildUnits
<1>10. HandedOut'
  <2>1. handed' # <<>>
    BY <1>1, <1>7, EmptySeq DEF ReaderInv, TypeOK
  <2>2. Follows(handed'[Len(handed')], At')
    BY <1>5, <1>7 DEF Follows
  <2>3. ASSUME NEW n \in Nat, NEW j \in Nat, n < Len(video), j < BlockCount(Len(video[n + 1])),
               Earlier([nalu |-> n, block |-> j], At')
        PROVE  \E i \in 1..(m + 1) : handed'[i].nalu = n /\ handed'[i].block = j
    <3>1. Earlier([nalu |-> n, block |-> j], At) \/ (n = naluIndex /\ j = k)
      <4>1. CASE At' = [nalu |-> naluIndex + 1, block |-> 0] /\ ~(k + 1 < b.total)
        <5>1. n < naluIndex + 1
          BY <2>3, <4>1 DEF Earlier
        <5>2. n = naluIndex => j < k + 1
          <6> SUFFICES ASSUME n = naluIndex PROVE j < k + 1
            OBVIOUS
          <6>1. j < b.total /\ b.total \in Nat
            BY <1>3, <1>4, <1>5, <2>3 DEF Blocks
          <6>2. QED  BY <1>5, <4>1, <6>1
        <5>3. QED  BY <1>2, <1>5, <1>6, <5>1, <5>2 DEF Earlier
      <4>2. CASE At' = [nalu |-> naluIndex, block |-> k + 1]
        BY <1>2, <1>5, <1>6, <2>3, <4>2 DEF Earlier
      <4>3. QED  BY <1>5, <4>1, <4>2
    <3>2. CASE Earlier([nalu |-> n, block |-> j], At)
      <4>1. PICK i \in 1..m : handed[i].nalu = n /\ handed[i].block = j
        BY <1>2, <2>3, <3>2 DEF HandedOut, m
      <4>2. i \in 1..(m + 1) /\ handed'[i] = handed[i]
        BY <1>7, <4>1
      <4>3. QED  BY <4>1, <4>2
    <3>3. CASE n = naluIndex /\ j = k
      <4>1. m + 1 \in 1..(m + 1)
        BY <1>7
      <4>2. QED  BY <1>5, <1>7, <3>3, <4>1
    <3>4. QED  BY <3>1, <3>2, <3>3
  <2>4. QED  BY <1>2, <1>5, <1>7, <2>1, <2>2, <2>3 DEF HandedOut
<1>11. Flowing'
  BY <1>2, FlowCut
<1>12. Exhausted'
  BY <1>2 DEF Exhausted
<1>13. QED  BY <1>1, <1>2, <1>9, <1>10, <1>11, <1>12 DEF RebuildInv

LEMMA RebuildNext == RebuildInv /\ [Next]_readerVars => RebuildInv'
BY RebuildStutter, RebuildOpen, RebuildClose, RebuildPacket, RebuildFill, RebuildExtract,
   RebuildCut, RebuildTake DEF Next, ReadTo

\* ReadTo's blocks, put together by the unit and block indices ReadTo gives with them, are
\* the units of the stream: for every block size, every stream of whole units (an assumption
\* of the code) and every way the demuxer and the filter deal it out in packets.
THEOREM UnitsAreRebuilt == Spec => []BlocksRebuildUnits
<1>1. RebuildInv => BlocksRebuildUnits
  BY DEF RebuildInv
<1>2. QED  BY <1>1, RebuildInit, RebuildNext, PTL DEF Spec

LEMMA EndOfUnits == RebuildInv => EndMeansAllRead
<1> SUFFICES ASSUME RebuildInv, reader = "ended", ~failed,
                    NEW n \in 0..(Len(video) - 1),
                    NEW k \in 0..(BlockCount(Len(video[n + 1])) - 1)
             PROVE  \E i \in 1..Len(handed) : handed[i].nalu = n /\ handed[i].block = k
  BY DEF EndMeansAllRead
<1>1. Flowing /\ HandedOut /\ source = <<>> /\ filter = <<>> /\ video \in Seq(Units)
      /\ naluIndex \in Nat
  BY DEF RebuildInv, Exhausted, ReaderInv, TypeOK
<1>2. PICK c \in Seq(Units), d \in Seq(Units), p \in Seq(Units), w \in Seq(Seq(Units)) :
          /\ Streamed(video, source, c, d, p, w)
          /\ Held(reader, filter, avPacket, buffer, bufferOffset, nalu, naluIndex, c, d, p, w)
  BY <1>1 DEF Flowing
<1>3. d = <<>> /\ p = <<>> /\ Len(c) = naluIndex /\ Len(filter) = Len(w)
  BY <1>2 DEF Held
<1>4. w = <<>>
  <2>1. Len(filter) = 0
    BY <1>1
  <2>2. QED  BY <1>2, <1>3, <2>1, EmptySeq
<1>5. video = c
  <2>1. video = c \o (<<>> \o (<<>> \o (<<>> \o <<>>)))
    BY <1>1, <1>2, <1>3, <1>4, UnitsOfNone, FlattenEmpty DEF Streamed
  <2>2. <<>> \o (<<>> \o (<<>> \o <<>>)) = <<>>
    BY NoUnits
  <2>3. QED  BY <1>2, <2>1, <2>2, NoUnits
<1>6. n \in Nat /\ n < Len(video) /\ n < naluIndex
  BY <1>1, <1>3, <1>5
<1>7. Len(video[n + 1]) \in Nat \ {0}
  <2>1. n + 1 \in 1..Len(video)
    BY <1>1, <1>3, <1>5, <1>6
  <2>2. video[n + 1] \in Units
    BY <1>1, <2>1, ElementOfSeq
  <2>3. QED  BY <2>2, UnitCodes
<1>8. BlockCount(Len(video[n + 1])) \in Nat
  BY <1>7, CountHolds
<1>9. k \in Nat /\ k < BlockCount(Len(video[n + 1]))
  BY <1>8
<1>10. Earlier([nalu |-> n, block |-> k], At)
  BY <1>6 DEF Earlier, At
<1>11. QED  BY <1>1, <1>6, <1>9, <1>10 DEF HandedOut

\* When ReadTo returns 0 and FFmpeg reported no error, every block of every unit has been
\* handed out: nothing stays behind in the filter, in the buffer or in a unit.
THEOREM NothingStaysBehind == Spec => []EndMeansAllRead
BY EndOfUnits, RebuildInit, RebuildNext, PTL DEF Spec

-------------------------------------------------------------------------------
(* Client. *)

Datagrams ==
    [nalu : Nat, block : Nat, total : Nat, share : 0..Amount, size : 1..BlockSize]

\* What was sent is of blocks before the one the client holds, or has packets of that
\* block before packetIndex; and the block it holds is one the reader has passed.
Positions ==
    /\ client \in {"connect", "open"} => sent = <<>>
    /\ client = "send" => given # <<>>
    /\ given # <<>> => Earlier(given[1], At)
    /\ \A i \in 1..Len(sent) :
           /\ client = "read" /\ given = <<>> => Earlier(sent[i], At)
           /\ client = "read" /\ given # <<>> => Earlier(sent[i], given[1])
           /\ client = "send" =>
                  \/ Earlier(sent[i], given[1])
                  \/ /\ sent[i].nalu = given[1].nalu /\ sent[i].block = given[1].block
                     /\ encoded = 0 \/ sent[i].share < packetIndex

ClientInv == ReaderInv /\ ClientTypeOK /\ Positions /\ SentInOrder

LEMMA SentTypes ==
    ASSUME ClientInv
    PROVE  /\ sent \in Seq(Datagrams)
           /\ Len(sent) \in Nat
           /\ \A i \in 1..Len(sent) : sent[i] \in Datagrams
<1>1. sent \in Seq(Datagrams)
  BY DEF ClientInv, ClientTypeOK, Datagrams
<1>2. QED  BY <1>1, ElementOfSeq, LenProperties

LEMMA ShareTypes == ClientInv => \A i \in 1..Len(sent) : sent[i].share \in Nat
<1> SUFFICES ASSUME ClientInv, NEW i \in 1..Len(sent)
             PROVE  sent[i].share \in Nat
  OBVIOUS
<1>1. sent[i] \in Datagrams
  BY SentTypes
<1>2. sent[i].share \in 0..Amount
  BY <1>1 DEF Datagrams
<1>3. QED  BY <1>2, AmountAssumption

LEMMA GivenTypes ==
    ASSUME ClientInv, given # <<>>
    PROVE  given[1] \in Blocks /\ Len(given[1].data) \in 1..BlockSize
<1>1. given \in Seq(Blocks)
  BY DEF ClientInv, ReaderInv, TypeOK
<1>2. 1 \in 1..Len(given)
  BY <1>1, EmptySeq, LenProperties
<1>3. QED  BY <1>1, <1>2, ElementOfSeq DEF ClientInv, ReaderInv, Givens

LEMMA AtType == ReaderInv => At.nalu \in Nat /\ At.block \in Nat
<1> SUFFICES ASSUME ReaderInv PROVE At.nalu \in Nat /\ At.block \in Nat
  OBVIOUS
<1>1. naluIndex \in Nat /\ naluOffset \in Nat /\ BlockSize \in Nat \ {0}
  BY BlockSizeAssumption, LenProperties DEF ReaderInv, TypeOK
<1>2. naluOffset \div BlockSize \in Nat
  BY <1>1, Quotient
<1>3. QED  BY <1>1, <1>2 DEF At

\* Once the block is taken, everything that was sent is behind the reader.
LEMMA AllBehind ==
    ASSUME ClientInv, given # <<>>, client \in {"read", "send"}, NEW i \in 1..Len(sent)
    PROVE  Earlier(sent[i], At)
<1>1. /\ sent[i].nalu \in Nat /\ sent[i].block \in Nat
      /\ given[1].nalu \in Nat /\ given[1].block \in Nat
      /\ At.nalu \in Nat /\ At.block \in Nat
  BY SentTypes, GivenTypes, AtType DEF ClientInv, Datagrams, Blocks
<1>2. Earlier(given[1], At)
  BY DEF ClientInv, Positions
<1>3. \/ Earlier(sent[i], given[1])
      \/ sent[i].nalu = given[1].nalu /\ sent[i].block = given[1].block
  BY DEF ClientInv, Positions
<1>4. QED  BY <1>1, <1>2, <1>3 DEF Earlier

\* A datagram after all those that were sent.
LEMMA OneMoreSent ==
    ASSUME ClientInv, NEW d \in Datagrams, \A i \in 1..Len(sent) : Before(sent[i], d),
           sent' = Append(sent, d)
    PROVE  /\ sent' \in Seq(Datagrams)
           /\ SentInOrder'
           /\ Len(sent') = Len(sent) + 1 /\ sent'[Len(sent) + 1] = d
           /\ \A i \in 1..Len(sent) : sent'[i] = sent[i]
<1>1. sent \in Seq(Datagrams) /\ Len(sent) \in Nat
  BY SentTypes
<1>2. /\ sent' \in Seq(Datagrams)
      /\ Len(sent') = Len(sent) + 1 /\ sent'[Len(sent) + 1] = d
      /\ \A i \in 1..Len(sent) : sent'[i] = sent[i]
  BY <1>1, AppendProperties
<1>3. ASSUME NEW i \in 1..Len(sent'), NEW j \in 1..Len(sent'), i < j
      PROVE  Before(sent'[i], sent'[j])
  <2>1. i \in 1..Len(sent) /\ (j \in 1..Len(sent) \/ j = Len(sent) + 1)
    BY <1>1, <1>2, <1>3
  <2>2. j \in 1..Len(sent) => Before(sent[i], sent[j])
    BY <2>1, <1>3 DEF ClientInv, SentInOrder
  <2>3. CASE j \in 1..Len(sent)
    BY <1>2, <2>1, <2>2, <2>3
  <2>4. CASE j = Len(sent) + 1
    BY <1>2, <2>1, <2>4
  <2>5. QED  BY <2>1, <2>3, <2>4
<1>4. SentInOrder'
  BY <1>3 DEF SentInOrder
<1>5. QED  BY <1>2, <1>4

LEMMA ClientInvInit == ClientInit => ClientInv
<1> SUFFICES ASSUME ClientInit PROVE ClientInv
  OBVIOUS
<1>1. ReaderInv
  BY ReaderInvInit DEF ClientInit
<1>2. sent = <<>> /\ Len(sent) = 0 /\ sent \in Seq(Datagrams) /\ given = <<>>
  BY EmptySeq DEF ClientInit, Init
<1>3. /\ client = "connect" /\ packetIndex = 0 /\ encoded = 0 /\ fits = TRUE
      /\ dropped = FALSE /\ encodingMode \in BOOLEAN
  BY ModesAssumption DEF ClientInit
<1>4. ClientTypeOK
  <2>1. packetIndex \in 0..Amount /\ encoded \in 0..Payloads
    BY <1>3, AmountAssumption
  <2>2. client \in {"connect", "open", "read", "send", "ended", "exited"}
    BY <1>3
  <2>3. QED  BY <1>1, <1>2, <1>3, <2>1, <2>2 DEF ClientTypeOK, ReaderInv, Datagrams
<1>5. Positions
  BY <1>2, <1>3 DEF Positions
<1>6. SentInOrder
  BY <1>2 DEF SentInOrder
<1>7. QED  BY <1>1, <1>4, <1>5, <1>6 DEF ClientInv

\* What a step that sends nothing has to keep.
LEMMA NothingSent ==
    ASSUME ClientInv, ReaderInv', sent' = sent, encodingMode' = encodingMode,
           client' \in {"connect", "open", "read", "send", "ended", "exited"},
           packetIndex' \in 0..Amount, encoded' \in 0..Payloads, fits' \in BOOLEAN,
           dropped' \in BOOLEAN, Positions'
    PROVE  ClientInv'
<1>1. SentInOrder'
  BY DEF ClientInv, SentInOrder
<1>2. ClientTypeOK'
  BY DEF ClientInv, ClientTypeOK, ReaderInv
<1>3. QED  BY <1>1, <1>2 DEF ClientInv

LEMMA ClientTypes ==
    ASSUME ClientInv
    PROVE  /\ ReaderInv /\ encodingMode \in BOOLEAN
           /\ client \in {"connect", "open", "read", "send", "ended", "exited"}
           /\ packetIndex \in 0..Amount /\ encoded \in 0..Payloads
           /\ fits \in BOOLEAN /\ dropped \in BOOLEAN
           /\ Amount \in Nat /\ Payloads \in Nat
BY AmountAssumption DEF ClientInv, ClientTypeOK

LEMMA ClientInvStutter ==
    ASSUME ClientInv, UNCHANGED clientAllVars
    PROVE  ClientInv'
<1>1. UNCHANGED readerVars
  BY DEF clientAllVars
<1>2. UNCHANGED <<encodingMode, client, packetIndex, encoded, fits, sent, dropped>>
  BY DEF clientAllVars, clientVars, encoderVars, sentVars
<1>3. UNCHANGED <<given, naluIndex, naluOffset>>
  BY <1>1 DEF readerVars, naluVars
<1>4. ReaderInv'
  BY <1>1, ClientTypes, ReaderInvStutter
<1>5. Positions'
  BY <1>2, <1>3 DEF ClientInv, Positions, Earlier, At
<1>6. QED  BY <1>2, <1>4, <1>5, ClientTypes, NothingSent

LEMMA ClientInvConnect ==
    ASSUME ClientInv, Connect
    PROVE  ClientInv'
<1>1. /\ client = "connect" /\ client' \in {"open", "exited"} /\ UNCHANGED readerVars
      /\ UNCHANGED <<encodingMode, packetIndex, encoded, fits, sent, dropped>>
  BY DEF Connect, encoderVars, sentVars
<1>2. UNCHANGED <<given, naluIndex, naluOffset>>
  BY <1>1 DEF readerVars, naluVars
<1>3. ReaderInv'
  BY <1>1, ClientTypes, ReaderInvStutter
<1>4. Positions'
  <2>1. sent' = <<>> /\ Len(<<>>) = 0
    BY <1>1 DEF ClientInv, Positions
  <2>2. given' # <<>> => Earlier(given'[1], At')
    BY <1>2 DEF ClientInv, Positions, Earlier, At
  <2>3. QED  BY <1>1, <2>1, <2>2 DEF Positions
<1>5. QED  BY <1>1, <1>3, <1>4, ClientTypes, NothingSent

LEMMA ClientInvOpen ==
    ASSUME ClientInv, OpenReader
    PROVE  ClientInv'
<1>1. /\ client = "open" /\ client' \in {"read", "exited"}
      /\ UNCHANGED <<encodingMode, packetIndex, encoded, fits, sent, dropped>>
      /\ UNCHANGED <<given, naluIndex, naluOffset>>
  BY DEF OpenReader, Open, encoderVars, sentVars, naluVars
<1>2. ReaderInv'
  BY ClientTypes, ReaderInvOpenClose DEF OpenReader
<1>3. Positions'
  <2>1. sent' = <<>> /\ Len(<<>>) = 0
    BY <1>1 DEF ClientInv, Positions
  <2>2. given' # <<>> => Earlier(given'[1], At')
    BY <1>1 DEF ClientInv, Positions, Earlier, At
  <2>3. QED  BY <1>1, <2>1, <2>2 DEF Positions
<1>4. QED  BY <1>1, <1>2, <1>3, ClientTypes, NothingSent

\* The reader only moves on; the block it gives out is the one it was at.
LEMMA ReaderMovesOn ==
    ASSUME ReaderInv, ReadTo
    PROVE  \/ At' = At /\ given' = given
           \/ /\ given = <<>> /\ given' # <<>> /\ given'[1].nalu = At.nalu
              /\ given'[1].block = At.block /\ Earlier(At, At')
<1>1. CASE ReadPacketFromStream
  BY <1>1 DEF ReadPacketFromStream, naluVars, At
<1>2. CASE FillStreamBuffer
  BY <1>2 DEF FillStreamBuffer, naluVars, At
<1>3. CASE ExtractNextNalu
  <2>1. naluOffset = 0
    BY <1>3 DEF ExtractNextNalu, ReaderInv, TypeOK
  <2>2. naluOffset' = 0 /\ naluIndex' = naluIndex /\ given' = given
    BY <1>3, <2>1 DEF ExtractNextNalu, naluVars
  <2>3. QED  BY <2>1, <2>2 DEF At
<1>4. CASE CutBlock
  <2>1. /\ naluIndex \in Nat /\ naluOffset \in Nat /\ BlockSize \in Nat \ {0}
    BY BlockSizeAssumption, LenProperties DEF ReaderInv, TypeOK
  <2>2. given' = <<NextGiven>> /\ given = <<>>
    BY <1>4, CutGives DEF CutBlock
  <2>3. NextGiven.nalu = At.nalu /\ NextGiven.block = At.block
    BY DEF NextGiven, At
  <2>4. CASE naluIndex' = naluIndex + 1
    BY <2>1, <2>2, <2>3, <2>4 DEF At, Earlier
  <2>5. CASE naluIndex' = naluIndex /\ naluOffset' = naluOffset + BlockSize
    <3>1. (naluOffset + BlockSize) \div BlockSize = naluOffset \div BlockSize + 1
      BY <2>1, NextQuotient
    <3>2. naluOffset \div BlockSize \in Nat
      BY <2>1, Quotient
    <3>3. At'.nalu = At.nalu /\ At'.block = At.block + 1 /\ At.block \in Nat
      BY <2>5, <3>1, <3>2 DEF At
    <3>4. QED  BY <2>2, <2>3, <3>3 DEF Earlier
  <2>6. QED  BY <1>4, <2>4, <2>5, CutGives
<1>5. QED  BY <1>1, <1>2, <1>3, <1>4 DEF ReadTo

LEMMA ClientInvRead ==
    ASSUME ClientInv, ReadBlock
    PROVE  ClientInv'
<1>1. /\ client = "read" /\ ReadTo
      /\ UNCHANGED <<encodingMode, client, packetIndex, encoded, fits, sent, dropped>>
  BY DEF ReadBlock, clientVars, encoderVars, sentVars
<1>2. ReaderInv'
  BY <1>1, ClientTypes, ReaderInvReadTo
<1>3. Positions'
  <2>1. CASE At' = At /\ given' = given
    BY <1>1, <2>1 DEF ClientInv, Positions, Earlier
  <2>2. CASE /\ given = <<>> /\ given' # <<>> /\ given'[1].nalu = At.nalu
             /\ given'[1].block = At.block /\ Earlier(At, At')
    <3>1. Earlier(given'[1], At')
      BY <2>2 DEF Earlier
    <3>2. \A i \in 1..Len(sent) : Earlier(sent[i], given'[1])
      BY <1>1, <2>2 DEF ClientInv, Positions, Earlier
    <3>3. QED  BY <1>1, <2>2, <3>1, <3>2 DEF Positions
  <2>3. QED  BY <1>1, <2>1, <2>2, ClientTypes, ReaderMovesOn
<1>4. QED  BY <1>1, <1>2, <1>3, ClientTypes, NothingSent

LEMMA ClientInvEncode ==
    ASSUME ClientInv, Encode
    PROVE  ClientInv'
<1>1. /\ client = "read" /\ given # <<>> /\ client' = "send" /\ UNCHANGED readerVars
      /\ packetIndex' = 0 /\ encoded' = Payloads /\ fits' \in BOOLEAN
      /\ UNCHANGED <<encodingMode, sent, dropped>>
  BY DEF Encode, sentVars
<1>2. UNCHANGED <<given, naluIndex, naluOffset>>
  BY <1>1 DEF readerVars, naluVars
<1>3. ReaderInv'
  BY <1>1, ClientTypes, ReaderInvStutter
<1>4. Positions'
  <2>1. Earlier(given'[1], At')
    BY <1>1, <1>2 DEF ClientInv, Positions, Earlier, At
  <2>2. \A i \in 1..Len(sent') : Earlier(sent'[i], given'[1])
    BY <1>1, <1>2 DEF ClientInv, Positions
  <2>3. QED  BY <1>1, <1>2, <2>1, <2>2 DEF Positions
<1>5. packetIndex' \in 0..Amount /\ encoded' \in 0..Payloads
  BY <1>1, ClientTypes
<1>6. QED  BY <1>1, <1>3, <1>4, <1>5, ClientTypes, NothingSent

LEMMA ClientInvSkip ==
    ASSUME ClientInv, SkipPayload
    PROVE  ClientInv'
<1>1. /\ client = "send" /\ UNCHANGED readerVars
      /\ encoded > 0 /\ encoded' = encoded - 1 /\ dropped' = TRUE
      /\ UNCHANGED <<encodingMode, client, packetIndex, fits, sent>>
  BY DEF SkipPayload
<1>2. UNCHANGED <<given, naluIndex, naluOffset>>
  BY <1>1 DEF readerVars, naluVars
<1>3. ReaderInv'
  BY <1>1, ClientTypes, ReaderInvStutter
<1>4. encoded' \in 0..Payloads /\ encoded # 0
  BY <1>1, ClientTypes
<1>5. Positions'
  <2>1. given' # <<>> /\ Earlier(given'[1], At')
    BY <1>1, <1>2 DEF ClientInv, Positions, Earlier, At
  <2>2. \A i \in 1..Len(sent') :
          \/ Earlier(sent'[i], given'[1])
          \/ /\ sent'[i].nalu = given'[1].nalu /\ sent'[i].block = given'[1].block
             /\ sent'[i].share < packetIndex'
    BY <1>1, <1>2, <1>4 DEF ClientInv, Positions
  <2>3. QED  BY <1>1, <2>1, <2>2 DEF Positions
<1>6. QED  BY <1>1, <1>3, <1>4, <1>5, ClientTypes, NothingSent

LEMMA ClientInvNextBlock ==
    ASSUME ClientInv, NextBlock
    PROVE  ClientInv'
<1>1. /\ client = "send" /\ client' = "read" /\ TakeBlock /\ given # <<>> /\ given' = <<>>
      /\ UNCHANGED <<encodingMode, packetIndex, encoded, fits, sent, dropped>>
      /\ UNCHANGED <<naluIndex, naluOffset>>
  BY DEF NextBlock, TakeBlock, encoderVars, sentVars, naluVars
<1>2. ReaderInv'
  BY <1>1, ClientTypes, ReaderInvTake
<1>3. Positions'
  <2>1. \A i \in 1..Len(sent) : Earlier(sent[i], At)
    BY <1>1, AllBehind
  <2>2. \A i \in 1..Len(sent') : Earlier(sent'[i], At')
    BY <1>1, <2>1 DEF At
  <2>3. QED  BY <1>1, <2>2 DEF Positions
<1>4. QED  BY <1>1, <1>2, <1>3, ClientTypes, NothingSent

LEMMA ClientInvShutDown ==
    ASSUME ClientInv, ShutDown
    PROVE  ClientInv'
<1>1. /\ client' = "ended" /\ given = <<>> /\ given' = given
      /\ UNCHANGED <<encodingMode, packetIndex, encoded, fits, sent, dropped>>
  BY DEF ShutDown, Close, encoderVars, sentVars
<1>2. ReaderInv'
  BY ClientTypes, ReaderInvOpenClose DEF ShutDown
<1>3. Positions'
  BY <1>1 DEF Positions
<1>4. QED  BY <1>1, <1>2, <1>3, ClientTypes, NothingSent

\* The datagram that Send hands to the kernel.
Sending(index) == [nalu |-> given[1].nalu, block |-> given[1].block, total |-> given[1].total,
                   share |-> index, size |-> Len(given[1].data)]

LEMMA SendingType ==
    ASSUME ClientInv, given # <<>>, NEW index \in 0..Amount
    PROVE  Sending(index) \in Datagrams
BY GivenTypes DEF Sending, Datagrams, Blocks

LEMMA ClientInvSendRaw ==
    ASSUME ClientInv, SendRaw
    PROVE  ClientInv'
<1> DEFINE d == Sending(0)
<1>1. /\ client = "read" /\ client' = "read" /\ TakeBlock /\ given # <<>> /\ given' = <<>>
      /\ UNCHANGED <<encodingMode, packetIndex, encoded, fits>>
      /\ UNCHANGED <<naluIndex, naluOffset>>
  BY DEF SendRaw, TakeBlock, encoderVars, naluVars
<1>2. ReaderInv'
  BY <1>1, ClientTypes, ReaderInvTake
<1>3. \A i \in 1..Len(sent) : Earlier(sent[i], At)
  BY <1>1, AllBehind
<1>4. CASE sent' = sent /\ dropped' = TRUE
  <2>1. \A i \in 1..Len(sent') : Earlier(sent'[i], At')
    BY <1>1, <1>3, <1>4 DEF At
  <2>2. Positions'
    BY <1>1, <2>1 DEF Positions
  <2>3. QED  BY <1>1, <1>2, <1>4, <2>2, ClientTypes, NothingSent
<1>5. CASE sent' = Append(sent, d) /\ dropped' = dropped
  <2>1. d \in Datagrams /\ d.nalu = given[1].nalu /\ d.block = given[1].block
    <3>1. 0 \in 0..Amount
      BY AmountAssumption
    <3>2. QED  BY <1>1, <3>1, SendingType DEF Sending
  <2>2. \A i \in 1..Len(sent) : Earlier(sent[i], given[1])
    BY <1>1 DEF ClientInv, Positions
  <2> HIDE DEF d
  <2>3. \A i \in 1..Len(sent) : Before(sent[i], d)
    BY <2>1, <2>2 DEF Before, Earlier
  <2>4. Earlier(d, At)
    BY <1>1, <2>1 DEF ClientInv, Positions, Earlier
  <2>5. /\ sent' \in Seq(Datagrams) /\ SentInOrder'
        /\ Len(sent') = Len(sent) + 1 /\ sent'[Len(sent) + 1] = d
        /\ \A i \in 1..Len(sent) : sent'[i] = sent[i]
    BY <1>5, <2>1, <2>3, OneMoreSent
  <2>6. Len(sent) \in Nat
    BY SentTypes
  <2>7. \A i \in 1..Len(sent') : Earlier(sent'[i], At')
    <3>1. \A i \in 1..Len(sent') : i \in 1..Len(sent) \/ i = Len(sent) + 1
      BY <2>5, <2>6
    <3>2. \A i \in 1..Len(sent') : Earlier(sent'[i], At)
      BY <1>3, <2>4, <2>5, <3>1
    <3>3. QED  BY <1>1, <3>2 DEF At
  <2>8. Positions'
    BY <1>1, <2>7 DEF Positions
  <2>9. ClientTypeOK'
    BY <1>1, <1>2, <1>5, <2>5, ClientTypes DEF ClientTypeOK, Datagrams, ReaderInv
  <2>10. QED  BY <1>2, <2>5, <2>8, <2>9 DEF ClientInv
<1>6. QED  BY <1>4, <1>5 DEF SendRaw, Send, Sending

LEMMA ClientInvSendPayload ==
    ASSUME ClientInv, SendPayload
    PROVE  ClientInv'
<1> DEFINE d == Sending(packetIndex)
<1>1. /\ client = "send" /\ client' = "send" /\ given # <<>> /\ UNCHANGED readerVars
      /\ encoded > 0 /\ UNCHANGED <<encodingMode, fits>>
  BY DEF SendPayload, ClientInv, Positions
<1>2. UNCHANGED <<given, naluIndex, naluOffset>>
  BY <1>1 DEF readerVars, naluVars
<1>3. ReaderInv'
  BY <1>1, ClientTypes, ReaderInvStutter
<1>4. \/ encoded' = 0 /\ packetIndex' = packetIndex
      \/ /\ encoded' = encoded - 1 /\ packetIndex' = packetIndex + 1
         /\ packetIndex # Amount
  BY DEF SendPayload
<1>5. /\ encoded' \in 0..Payloads /\ packetIndex' \in 0..Amount /\ encoded # 0
      /\ packetIndex \in Nat
      /\ encoded' = 0 \/ packetIndex' = packetIndex + 1
  BY <1>1, <1>4, ClientTypes
<1>6. Earlier(given'[1], At')
  BY <1>1, <1>2 DEF ClientInv, Positions, Earlier, At
<1>7. \A i \in 1..Len(sent) :
          \/ Earlier(sent[i], given[1])
          \/ /\ sent[i].nalu = given[1].nalu /\ sent[i].block = given[1].block
             /\ sent[i].share < packetIndex
  BY <1>1, <1>5 DEF ClientInv, Positions
<1>8. CASE sent' = sent /\ dropped' = TRUE
  <2>1. \A i \in 1..Len(sent') :
          \/ Earlier(sent'[i], given'[1])
          \/ /\ sent'[i].nalu = given'[1].nalu /\ sent'[i].block = given'[1].block
             /\ encoded' = 0 \/ sent'[i].share < packetIndex'
    <3>1. \A i \in 1..Len(sent) : sent[i].share \in Nat
      BY <1>1, ShareTypes
    <3>2. \A i \in 1..Len(sent) :
              sent[i].share < packetIndex => encoded' = 0 \/ sent[i].share < packetIndex'
      BY <1>5, <3>1
    <3>3. QED  BY <1>2, <1>7, <1>8, <3>2
  <2>2. Positions'
    BY <1>1, <1>2, <1>6, <2>1 DEF Positions
  <2>3. QED  BY <1>1, <1>3, <1>5, <1>8, <2>2, ClientTypes, NothingSent
<1>9. CASE sent' = Append(sent, d) /\ dropped' = dropped
  <2>1. d \in Datagrams /\ d.nalu = given[1].nalu /\ d.block = given[1].block
        /\ d.share = packetIndex
    BY <1>1, ClientTypes, SendingType DEF Sending
  <2> HIDE DEF d
  <2>2. \A i \in 1..Len(sent) : Before(sent[i], d)
    BY <1>7, <2>1 DEF Before, Earlier
  <2>3. /\ sent' \in Seq(Datagrams) /\ SentInOrder'
        /\ Len(sent') = Len(sent) + 1 /\ sent'[Len(sent) + 1] = d
        /\ \A i \in 1..Len(sent) : sent'[i] = sent[i]
    BY <1>9, <2>1, <2>2, OneMoreSent
  <2>4. \A i \in 1..Len(sent') :
          \/ Earlier(sent'[i], given'[1])
          \/ /\ sent'[i].nalu = given'[1].nalu /\ sent'[i].block = given'[1].block
             /\ encoded' = 0 \/ sent'[i].share < packetIndex'
    <3>1. \A i \in 1..Len(sent') : i \in 1..Len(sent) \/ i = Len(sent) + 1
      BY <2>3, SentTypes
    <3>2. \A i \in 1..Len(sent) : sent[i].share \in Nat
      BY <1>1, ShareTypes
    <3>3. \A i \in 1..Len(sent) :
              sent[i].share < packetIndex => encoded' = 0 \/ sent[i].share < packetIndex'
      BY <1>5, <3>2
    <3>4. encoded' = 0 \/ d.share < packetIndex'
      BY <1>5, <2>1
    <3>5. ASSUME NEW i \in 1..Len(sent')
          PROVE  \/ Earlier(sent'[i], given[1])
                 \/ /\ sent'[i].nalu = given[1].nalu /\ sent'[i].block = given[1].block
                    /\ encoded' = 0 \/ sent'[i].share < packetIndex'
      <4>1. CASE i \in 1..Len(sent)
        BY <1>7, <2>3, <3>3, <4>1
      <4>2. CASE i = Len(sent) + 1
        BY <2>1, <2>3, <3>4, <4>2
      <4>3. QED  BY <3>1, <4>1, <4>2
    <3>6. QED  BY <1>2, <3>5
  <2>5. Positions'
    BY <1>1, <1>2, <1>6, <2>4 DEF Positions
  <2>6. ClientTypeOK'
    BY <1>1, <1>3, <1>5, <1>9, <2>3, ClientTypes DEF ClientTypeOK, Datagrams, ReaderInv
  <2>7. QED  BY <1>3, <2>3, <2>5, <2>6 DEF ClientInv
<1>10. QED  BY <1>8, <1>9 DEF SendPayload, Send, Sending

LEMMA ClientInvNext == ClientInv /\ [ClientNext]_clientAllVars => ClientInv'
<1> SUFFICES ASSUME ClientInv, [ClientNext]_clientAllVars PROVE ClientInv'
  OBVIOUS
<1>1. CASE Connect \/ OpenReader \/ ReadBlock
  BY <1>1, ClientInvConnect, ClientInvOpen, ClientInvRead
<1>2. CASE SendRaw \/ Encode \/ SkipPayload \/ SendPayload
  BY <1>2, ClientInvSendRaw, ClientInvEncode, ClientInvSkip, ClientInvSendPayload
<1>3. CASE NextBlock \/ ShutDown
  BY <1>3, ClientInvNextBlock, ClientInvShutDown
<1>4. CASE UNCHANGED clientAllVars
  BY <1>4, ClientInvStutter
<1>5. QED  BY <1>1, <1>2, <1>3, <1>4 DEF ClientNext

\* The invariant of the client's loops over blocks and packets (readAndSendPackets).
THEOREM ClientInvariance == ClientSpec => []ClientInv
BY ClientInvInit, ClientInvNext, PTL DEF ClientSpec

\* A client never sends more than a block's size of it in a datagram, nor a packet index
\* above packetAmount.
THEOREM ClientTypeCorrect == ClientSpec => []ClientTypeOK
<1>1. ClientInv => ClientTypeOK
  BY DEF ClientInv
<1>2. QED  BY <1>1, ClientInvariance, PTL

\* Whatever the stream, the number of packets and what the kernel refuses, naluIndex,
\* blockIndex and packetIndex, counted in three loops, number each datagram after all
\* that were sent before: none is sent twice and none is overtaken.
THEOREM DatagramsInOrder == ClientSpec => []SentInOrder
<1>1. ClientInv => SentInOrder
  BY DEF ClientInv
<1>2. QED  BY <1>1, ClientInvariance, PTL

\* A step of the client is a step of the reader or leaves it alone.
LEMMA ClientStepsReader == [ClientNext]_clientAllVars => [Next]_readerVars
<1> SUFFICES ASSUME [ClientNext]_clientAllVars PROVE [Next]_readerVars
  OBVIOUS
<1>1. CASE Connect \/ Encode \/ SkipPayload \/ SendPayload
  BY <1>1 DEF Connect, Encode, SkipPayload, SendPayload
<1>2. CASE OpenReader \/ ReadBlock \/ SendRaw \/ NextBlock \/ ShutDown
  BY <1>2 DEF OpenReader, ReadBlock, SendRaw, NextBlock, ShutDown, Next
<1>3. CASE UNCHANGED clientAllVars
  BY <1>3 DEF clientAllVars
<1>4. QED  BY <1>1, <1>2, <1>3 DEF ClientNext

\* The client's thread uses its StreamReader only the way module StreamReader lets a
\* caller, so what is shown of the reader alone holds of the reader in the client.
THEOREM ClientUsesTheReader == ClientSpec => Spec
<1>1. ClientInit => Init
  BY DEF ClientInit
<1>2. QED  BY <1>1, ClientStepsReader, PTL DEF ClientSpec, Spec
-------------------------------------------------------------------------------
(* Everything is sent. *)

\* The datagram with the packet k of block b.
Datagram(b, k) == [nalu |-> b.nalu, block |-> b.block, total |-> b.total, share |-> k,
                   size |-> Len(b.data)]

\* The block the client holds is the last that ReadTo gave.
GivenIsLast == given # <<>> => handed # <<>> /\ given[1] = handed[Len(handed)]

\* Only packets of blocks are sent, and if nothing was dropped all packets of each.
OnlyBlocks ==
    \A e \in Range(sent) : \E i \in 1..Len(handed) : \E k \in SharesOfBlock :
        e = Datagram(handed[i], k)
AllShares ==
    ~dropped => \A i \in 1..Len(handed) : i < Len(handed) \/ given = <<>> =>
        \A k \in SharesOfBlock : Datagram(handed[i], k) \in Range(sent)

\* packetIndex and what is left of encodedPackets make up the packets of the block.
Counts ==
    client = "send" =>
        /\ given # <<>> /\ encodingMode
        /\ encoded > 0 => /\ packetIndex + encoded <= Payloads
                          /\ ~dropped => packetIndex + encoded = Payloads
        /\ ~dropped => \A k \in SharesOfBlock : k < packetIndex \/ encoded = 0 =>
               Datagram(given[1], k) \in Range(sent)

AllRead ==
    \A n \in 0..(Len(video) - 1) : \A k \in 0..(BlockCount(Len(video[n + 1])) - 1) :
        \E i \in 1..Len(handed) : handed[i].nalu = n /\ handed[i].block = k

Ending == client = "ended" => given = <<>> /\ (~failed => AllRead)

SendInv == GivenIsLast /\ OnlyBlocks /\ AllShares /\ Counts /\ Ending

FullInv == RebuildInv /\ ClientInv /\ SendInv

LEMMA RangeAppend ==
    ASSUME NEW S, NEW s \in Seq(S), NEW e \in S
    PROVE  Range(Append(s, e)) = Range(s) \cup {e}
<1> DEFINE t == Append(s, e)
<1>1. /\ t \in Seq(S) /\ Len(t) = Len(s) + 1 /\ t[Len(s) + 1] = e
      /\ \A i \in 1..Len(s) : t[i] = s[i]
      /\ Len(s) \in Nat
  BY AppendProperties, LenProperties
<1>2. DOMAIN t = 1..(Len(s) + 1) /\ DOMAIN s = 1..Len(s)
  BY <1>1, LenProperties
<1> HIDE DEF t
<1>3. \A i \in 1..(Len(s) + 1) : i \in 1..Len(s) \/ i = Len(s) + 1
  BY <1>1
<1>4. \A i \in 1..Len(s) : i \in 1..(Len(s) + 1)
  BY <1>1
<1>5. Len(s) + 1 \in 1..(Len(s) + 1)
  BY <1>1
<1>6. ASSUME NEW x PROVE x \in Range(t) <=> x \in Range(s) \cup {e}
  <2>1. ASSUME x \in Range(t) PROVE x \in Range(s) \cup {e}
    <3>1. PICK i \in 1..(Len(s) + 1) : x = t[i]
      BY <1>2, <2>1 DEF Range
    <3>2. QED  BY <1>1, <1>2, <1>3, <3>1 DEF Range
  <2>2. ASSUME x \in Range(s) PROVE x \in Range(t)
    <3>1. PICK i \in 1..Len(s) : x = s[i]
      BY <1>2, <2>2 DEF Range
    <3>2. i \in DOMAIN t /\ x = t[i]
      BY <1>1, <1>2, <1>4, <3>1
    <3>3. QED  BY <3>2 DEF Range
  <2>3. e \in Range(t)
    BY <1>1, <1>2, <1>5 DEF Range
  <2>4. QED  BY <2>1, <2>2, <2>3
<1>7. QED  BY <1>6 DEF t

LEMMA SendInvInit == ClientInit => SendInv
<1> SUFFICES ASSUME ClientInit PROVE SendInv
  OBVIOUS
<1>1. given = <<>> /\ handed = <<>> /\ sent = <<>> /\ client = "connect" /\ Len(handed) = 0
  BY DEF ClientInit, Init
<1>2. Range(sent) = {}
  <2>1. DOMAIN sent = {}
    BY <1>1
  <2>2. QED  BY <2>1 DEF Range
<1>3. GivenIsLast /\ OnlyBlocks /\ AllShares /\ Counts /\ Ending
  BY <1>1, <1>2 DEF GivenIsLast, OnlyBlocks, AllShares, Counts, Ending
<1>4. QED  BY <1>3 DEF SendInv

LEMMA SendStays ==
    ASSUME SendInv, UNCHANGED <<given, handed, sent, encodingMode>>, dropped' \in {dropped, TRUE}
    PROVE  GivenIsLast' /\ OnlyBlocks' /\ AllShares'
<1>1. SharesOfBlock' = SharesOfBlock
  BY DEF SharesOfBlock
<1>2. GivenIsLast' /\ OnlyBlocks'
  BY <1>1 DEF SendInv, GivenIsLast, OnlyBlocks
<1>3. AllShares'
  BY <1>1 DEF SendInv, AllShares
<1>4. QED  BY <1>2, <1>3

LEMMA SendInvStutter ==
    ASSUME FullInv, UNCHANGED clientAllVars
    PROVE  SendInv'
<1>1. UNCHANGED <<encodingMode, client, packetIndex, encoded, fits, sent, dropped,
                  given, handed, video, failed>>
  BY DEF clientAllVars, clientVars, encoderVars, sentVars, readerVars, demuxVars
<1>2. GivenIsLast' /\ OnlyBlocks' /\ AllShares'
  BY <1>1, SendStays DEF FullInv
<1>3. SharesOfBlock' = SharesOfBlock /\ AllRead' = AllRead
  BY <1>1 DEF SharesOfBlock, AllRead
<1>4. Counts' /\ Ending'
  BY <1>1, <1>3 DEF FullInv, SendInv, Counts, Ending
<1>5. QED  BY <1>2, <1>4 DEF SendInv

LEMMA SendInvStart ==
    ASSUME FullInv, Connect \/ OpenReader
    PROVE  SendInv'
<1>1. /\ UNCHANGED <<encodingMode, sent, dropped, given, handed>>
      /\ client' \in {"open", "read", "exited"}
  BY DEF Connect, OpenReader, Open, sentVars, readerVars
<1>2. GivenIsLast' /\ OnlyBlocks' /\ AllShares'
  BY <1>1, SendStays DEF FullInv
<1>3. Counts' /\ Ending'
  BY <1>1 DEF Counts, Ending
<1>4. QED  BY <1>2, <1>3 DEF SendInv

LEMMA SendInvRead ==
    ASSUME FullInv, ReadBlock
    PROVE  SendInv'
<1>1. /\ client' = "read" /\ ReadTo /\ UNCHANGED <<encodingMode, sent, dropped>>
  BY DEF ReadBlock, clientVars, sentVars
<1>2. Counts' /\ Ending'
  BY <1>1 DEF Counts, Ending
<1>3. CASE ReadPacketFromStream \/ FillStreamBuffer \/ ExtractNextNalu
  <2>1. UNCHANGED <<given, handed>>
    BY <1>3 DEF ReadPacketFromStream, FillStreamBuffer, ExtractNextNalu
  <2>2. QED  BY <1>1, <1>2, <2>1, SendStays DEF FullInv, SendInv
<1>4. CASE CutBlock
  <2> DEFINE b == NextGiven
             one == <<b>>
             m == Len(handed)
  <2>1. given = <<>> /\ given' = one /\ b \in Blocks /\ handed' = handed \o one
    BY <1>4, CutGives DEF FullInv, RebuildInv, CutBlock
  <2>2. handed \in Seq(Blocks) /\ one # <<>> /\ one[1] = b
    BY DEF FullInv, RebuildInv, ReaderInv, TypeOK
  <2> HIDE DEF b
  <2>3. /\ Len(handed') = m + 1 /\ m \in Nat
        /\ \A i \in 1..m : handed'[i] = handed[i]
        /\ handed'[m + 1] = b
    BY <2>1, <2>2, OneMore
  <2> HIDE DEF one
  <2>4. handed' # <<>>
    <3>1. Len(<<>>) = 0
      OBVIOUS
    <3>2. QED  BY <2>3, <3>1
  <2>5. SharesOfBlock' = SharesOfBlock
    BY <1>1 DEF SharesOfBlock
  <2>6. GivenIsLast'
    BY <2>1, <2>2, <2>3, <2>4 DEF GivenIsLast
  <2>7. OnlyBlocks'
    <3>1. ASSUME NEW e \in Range(sent)
          PROVE  \E i \in 1..(m + 1) : \E k \in SharesOfBlock : e = Datagram(handed'[i], k)
      <4>1. PICK i \in 1..m : \E k \in SharesOfBlock : e = Datagram(handed[i], k)
        BY DEF FullInv, SendInv, OnlyBlocks
      <4>2. i \in 1..(m + 1) /\ handed'[i] = handed[i]
        BY <2>3
      <4>3. QED  BY <4>1, <4>2
    <3>2. QED  BY <1>1, <2>3, <2>5, <3>1 DEF OnlyBlocks
  <2>8. AllShares'
    <3>1. ASSUME ~dropped, NEW i \in 1..(m + 1), i < m + 1, NEW k \in SharesOfBlock
          PROVE  Datagram(handed'[i], k) \in Range(sent)
      <4>1. i \in 1..m
        BY <2>3, <3>1
      <4>2. Datagram(handed[i], k) \in Range(sent)
        BY <2>1, <3>1, <4>1 DEF FullInv, SendInv, AllShares
      <4>3. QED  BY <2>3, <4>1, <4>2
    <3>2. given' # <<>>
      BY <2>1, <2>2
    <3>3. QED  BY <1>1, <2>3, <2>5, <3>1, <3>2 DEF AllShares
  <2>9. QED  BY <1>2, <2>6, <2>7, <2>8 DEF SendInv
<1>5. QED  BY <1>1, <1>3, <1>4 DEF ReadTo

LEMMA SendInvEncode ==
    ASSUME FullInv, Encode
    PROVE  SendInv'
<1>1. /\ given # <<>> /\ encodingMode /\ client' = "send" /\ packetIndex' = 0
      /\ encoded' = Payloads
      /\ UNCHANGED <<given, handed, encodingMode, sent, dropped>>
  BY DEF Encode, readerVars, sentVars
<1>2. GivenIsLast' /\ OnlyBlocks' /\ AllShares'
  BY <1>1, SendStays DEF FullInv
<1>3. \A k \in SharesOfBlock : k \in Nat /\ k < Payloads
  BY <1>1, AmountAssumption DEF SharesOfBlock
<1>4. SharesOfBlock' = SharesOfBlock
  BY <1>1 DEF SharesOfBlock
<1>5. Counts'
  BY <1>1, <1>3, <1>4, AmountAssumption DEF Counts
<1>6. Ending'
  BY <1>1 DEF Ending
<1>7. QED  BY <1>2, <1>5, <1>6 DEF SendInv

LEMMA SendInvSkip ==
    ASSUME FullInv, SkipPayload
    PROVE  SendInv'
<1>1. /\ client = "send" /\ client' = "send" /\ encoded > 0 /\ encoded' = encoded - 1
      /\ dropped' = TRUE
      /\ UNCHANGED <<given, handed, encodingMode, sent, packetIndex>>
  BY DEF SkipPayload, readerVars
<1>2. GivenIsLast' /\ OnlyBlocks' /\ AllShares'
  BY <1>1, SendStays DEF FullInv
<1>3. encoded \in Nat /\ packetIndex \in Nat /\ Payloads \in Nat
  BY ClientTypes DEF FullInv
<1>4. Counts'
  BY <1>1, <1>3 DEF FullInv, SendInv, Counts
<1>5. Ending'
  BY <1>1 DEF Ending
<1>6. QED  BY <1>2, <1>4, <1>5 DEF SendInv

LEMMA SendInvNextBlock ==
    ASSUME FullInv, NextBlock
    PROVE  SendInv'
<1>1. /\ client = "send" /\ client' = "read" /\ encoded = 0 /\ given # <<>> /\ given' = <<>>
      /\ UNCHANGED <<handed, encodingMode, sent, dropped>>
  BY DEF NextBlock, TakeBlock, sentVars
<1>2. SharesOfBlock' = SharesOfBlock
  BY <1>1 DEF SharesOfBlock
<1>3. given[1] = handed[Len(handed)] /\ Len(handed) \in Nat
  BY <1>1, LenProperties DEF FullInv, SendInv, GivenIsLast, RebuildInv, ReaderInv, TypeOK
<1>4. ASSUME ~dropped, NEW i \in 1..Len(handed), NEW k \in SharesOfBlock
      PROVE  Datagram(handed[i], k) \in Range(sent)
  <2>1. CASE i < Len(handed)
    BY <1>4, <2>1 DEF FullInv, SendInv, AllShares
  <2>2. CASE i = Len(handed)
    BY <1>1, <1>3, <1>4, <2>2 DEF FullInv, SendInv, Counts
  <2>3. QED  BY <1>3, <2>1, <2>2
<1>5. AllShares'
  BY <1>1, <1>2, <1>4 DEF AllShares
<1>6. OnlyBlocks'
  BY <1>1, <1>2 DEF FullInv, SendInv, OnlyBlocks
<1>7. GivenIsLast' /\ Counts' /\ Ending'
  BY <1>1 DEF GivenIsLast, Counts, Ending
<1>8. QED  BY <1>5, <1>6, <1>7 DEF SendInv

LEMMA SendInvShutDown ==
    ASSUME FullInv, ShutDown
    PROVE  SendInv'
<1>1. /\ client' = "ended" /\ reader = "ended" /\ given = <<>>
      /\ UNCHANGED <<given, handed, video, failed, encodingMode, sent, dropped>>
  BY DEF ShutDown, Close, sentVars
<1>2. GivenIsLast' /\ OnlyBlocks' /\ AllShares'
  BY <1>1, SendStays DEF FullInv
<1>3. ~failed => AllRead
  BY <1>1, EndOfUnits DEF FullInv, EndMeansAllRead, AllRead
<1>4. AllRead' = AllRead
  BY <1>1 DEF AllRead
<1>5. Counts' /\ Ending'
  BY <1>1, <1>3, <1>4 DEF Counts, Ending
<1>6. QED  BY <1>2, <1>5 DEF SendInv

\* A datagram more, with a packet of the block the client holds.
LEMMA OneMoreDatagram ==
    ASSUME FullInv, given # <<>>, NEW k \in SharesOfBlock, NEW d, d = Datagram(given[1], k),
           sent' = Append(sent, d), UNCHANGED <<handed, encodingMode, dropped>>
    PROVE  /\ Range(sent') = Range(sent) \cup {d}
           /\ SharesOfBlock' = SharesOfBlock
           /\ OnlyBlocks'
           /\ ~dropped => \A i \in 1..Len(handed) : i < Len(handed) =>
                  \A j \in SharesOfBlock : Datagram(handed[i], j) \in Range(sent')
<1>1. d \in Datagrams
  <2>1. k \in 0..Amount
    BY AmountAssumption DEF SharesOfBlock
  <2>2. Sending(k) = d
    BY DEF Sending, Datagram
  <2>3. QED  BY <2>1, <2>2, SendingType DEF FullInv
<1>2. Range(sent') = Range(sent) \cup {d}
  <2>1. sent \in Seq(Datagrams)
    BY SentTypes DEF FullInv
  <2>2. QED  BY <1>1, <2>1, RangeAppend
<1>3. SharesOfBlock' = SharesOfBlock
  BY DEF SharesOfBlock
<1>4. given[1] = handed[Len(handed)] /\ Len(handed) \in 1..Len(handed)
  <2>1. handed # <<>> /\ given[1] = handed[Len(handed)] /\ handed \in Seq(Blocks)
    BY DEF FullInv, SendInv, GivenIsLast, RebuildInv, ReaderInv, TypeOK
  <2>2. Len(handed) \in Nat /\ Len(handed) # 0
    BY <2>1, EmptySeq, LenProperties
  <2>3. QED  BY <2>1, <2>2
<1>5. OnlyBlocks'
  <2>1. ASSUME NEW e \in Range(sent')
        PROVE  \E i \in 1..Len(handed) : \E j \in SharesOfBlock : e = Datagram(handed[i], j)
    <3>1. CASE e \in Range(sent)
      BY <3>1 DEF FullInv, SendInv, OnlyBlocks
    <3>2. CASE e = d
      BY <1>4, <3>2
    <3>3. QED  BY <1>2, <2>1, <3>1, <3>2
  <2>2. QED  BY <1>3, <2>1 DEF OnlyBlocks
<1>6. ~dropped => \A i \in 1..Len(handed) : i < Len(handed) =>
          \A j \in SharesOfBlock : Datagram(handed[i], j) \in Range(sent')
  BY <1>2 DEF FullInv, SendInv, AllShares
<1>7. QED  BY <1>2, <1>3, <1>5, <1>6

LEMMA SendInvSendRaw ==
    ASSUME FullInv, SendRaw
    PROVE  SendInv'
<1> DEFINE d == Datagram(given[1], 0)
<1>1. /\ client' = "read" /\ given # <<>> /\ given' = <<>> /\ ~encodingMode
      /\ client = "read"
      /\ UNCHANGED <<handed, encodingMode>>
  BY DEF SendRaw, TakeBlock
<1>2. GivenIsLast' /\ Counts' /\ Ending'
  BY <1>1 DEF GivenIsLast, Counts, Ending
<1>3. SharesOfBlock = {0} /\ SharesOfBlock' = SharesOfBlock
  BY <1>1 DEF SharesOfBlock
<1>4. CASE sent' = sent /\ dropped' = TRUE
  <2>1. OnlyBlocks' /\ AllShares'
    BY <1>1, <1>3, <1>4 DEF FullInv, SendInv, OnlyBlocks, AllShares
  <2>2. QED  BY <1>2, <2>1 DEF SendInv
<1>5. CASE sent' = Append(sent, d) /\ dropped' = dropped
  <2>1. given[1] = handed[Len(handed)] /\ Len(handed) \in Nat
    BY <1>1, LenProperties DEF FullInv, SendInv, GivenIsLast, RebuildInv, ReaderInv, TypeOK
  <2> HIDE DEF d
  <2>2. /\ Range(sent') = Range(sent) \cup {d}
        /\ OnlyBlocks'
        /\ ~dropped => \A i \in 1..Len(handed) : i < Len(handed) =>
               \A j \in SharesOfBlock : Datagram(handed[i], j) \in Range(sent')
    BY <1>1, <1>3, <1>5, OneMoreDatagram DEF d
  <2>3. ASSUME ~dropped, NEW i \in 1..Len(handed), NEW j \in SharesOfBlock
        PROVE  Datagram(handed[i], j) \in Range(sent')
    <3>1. CASE i < Len(handed)
      BY <2>2, <2>3, <3>1
    <3>2. CASE i = Len(handed)
      BY <1>3, <2>1, <2>2, <2>3, <3>2 DEF d
    <3>3. QED  BY <2>1, <3>1, <3>2
  <2>4. AllShares'
    BY <1>1, <1>3, <1>5, <2>3 DEF AllShares
  <2>5. QED  BY <1>2, <2>2, <2>4 DEF SendInv
<1>6. QED  BY <1>4, <1>5 DEF SendRaw, Send, Datagram

LEMMA SendInvSendPayload ==
    ASSUME FullInv, SendPayload
    PROVE  SendInv'
<1> DEFINE d == Datagram(given[1], packetIndex)
<1>1. /\ client = "send" /\ client' = "send" /\ encoded > 0 /\ given # <<>> /\ encodingMode
      /\ UNCHANGED <<given, handed, encodingMode>>
      /\ packetIndex + encoded <= Payloads
      /\ ~dropped => packetIndex + encoded = Payloads
      /\ ~dropped => \A k \in SharesOfBlock : k < packetIndex =>
             Datagram(given[1], k) \in Range(sent)
  BY DEF SendPayload, readerVars, FullInv, SendInv, Counts
<1>2. \/ encoded' = 0 /\ packetIndex' = packetIndex /\ packetIndex = Amount
      \/ encoded' = encoded - 1 /\ packetIndex' = packetIndex + 1
  BY DEF SendPayload
<1>3. /\ encoded \in Nat /\ packetIndex \in 0..Amount /\ Amount \in Nat /\ Payloads \in Nat
  BY ClientTypes DEF FullInv
<1>4. SharesOfBlock = {k \in 0..Amount : k < Payloads} /\ SharesOfBlock' = SharesOfBlock
  BY <1>1 DEF SharesOfBlock
<1>5. packetIndex \in SharesOfBlock
  BY <1>1, <1>3, <1>4
<1>6. Ending'
  BY <1>1 DEF Ending
<1>7. /\ encoded' > 0 => packetIndex' + encoded' <= Payloads
      /\ encoded' > 0 /\ ~dropped => packetIndex' + encoded' = Payloads
  BY <1>1, <1>2, <1>3
<1>8. CASE sent' = sent /\ dropped' = TRUE
  <2>1. GivenIsLast' /\ OnlyBlocks' /\ AllShares'
    BY <1>1, <1>8, SendStays DEF FullInv
  <2>2. Counts'
    BY <1>1, <1>7, <1>8 DEF Counts
  <2>3. QED  BY <1>6, <2>1, <2>2 DEF SendInv
<1>9. CASE sent' = Append(sent, d) /\ dropped' = dropped
  <2> HIDE DEF d
  <2>1. /\ Range(sent') = Range(sent) \cup {d}
        /\ OnlyBlocks'
        /\ ~dropped => \A i \in 1..Len(handed) : i < Len(handed) =>
               \A j \in SharesOfBlock : Datagram(handed[i], j) \in Range(sent')
    BY <1>1, <1>5, <1>9, OneMoreDatagram DEF d
  <2>2. GivenIsLast'
    BY <1>1 DEF FullInv, SendInv, GivenIsLast
  <2>3. AllShares'
    BY <1>1, <1>4, <1>9, <2>1 DEF AllShares
  <2>4. ASSUME ~dropped, NEW k \in SharesOfBlock, k < packetIndex' \/ encoded' = 0
        PROVE  Datagram(given[1], k) \in Range(sent')
    <3>1. k \in Nat /\ k <= Amount /\ k < Payloads
      BY <1>3, <1>4
    <3>2. k < packetIndex \/ k = packetIndex
      BY <1>1, <1>2, <1>3, <2>4, <3>1
    <3>3. CASE k < packetIndex
      BY <1>1, <2>1, <2>4, <3>3
    <3>4. CASE k = packetIndex
      BY <2>1, <3>4 DEF d
    <3>5. QED  BY <3>2, <3>3, <3>4
  <2>5. Counts'
    BY <1>1, <1>4, <1>7, <1>9, <2>4 DEF Counts
  <2>6. QED  BY <1>6, <2>1, <2>2, <2>3, <2>5 DEF SendInv
<1>10. QED  BY <1>8, <1>9 DEF SendPayload, Send, Datagram

LEMMA FullInvInit == ClientInit => FullInv
BY RebuildInit, ClientInvInit, SendInvInit DEF ClientInit, FullInv

LEMMA FullInvNext == FullInv /\ [ClientNext]_clientAllVars => FullInv'
<1> SUFFICES ASSUME FullInv, [ClientNext]_clientAllVars PROVE FullInv'
  OBVIOUS
<1>1. RebuildInv' /\ ClientInv'
  BY ClientStepsReader, RebuildNext, ClientInvNext DEF FullInv
<1>2. SendInv'
  <2>1. CASE Connect \/ OpenReader \/ ReadBlock
    BY <2>1, SendInvStart, SendInvRead
  <2>2. CASE SendRaw \/ Encode \/ SkipPayload \/ SendPayload
    BY <2>2, SendInvSendRaw, SendInvEncode, SendInvSkip, SendInvSendPayload
  <2>3. CASE NextBlock \/ ShutDown
    BY <2>3, SendInvNextBlock, SendInvShutDown
  <2>4. CASE UNCHANGED clientAllVars
    BY <2>4, SendInvStutter
  <2>5. QED  BY <2>1, <2>2, <2>3, <2>4 DEF ClientNext
<1>3. QED  BY <1>1, <1>2 DEF FullInv

\* There is one least number of blocks.
LEMMA OneCount ==
    ASSUME NEW size \in Nat \ {0}, NEW total \in Nat, Holds(total, size)
    PROVE  total = BlockCount(size)
<1> DEFINE t == BlockCount(size)
<1>1. BlockSize \in Nat \ {0} /\ t \in Nat \ {0} /\ Holds(t, size)
  BY BlockSizeAssumption, CountHolds
<1> HIDE DEF t
<1>2. total # 0
  BY <1>1 DEF Holds
<1>3. total - 1 \in Nat /\ t - 1 \in Nat
  BY <1>1, <1>2
<1>4. /\ (total - 1) * BlockSize \in Nat /\ (t - 1) * BlockSize \in Nat
      /\ total * BlockSize \in Nat /\ t * BlockSize \in Nat
  BY <1>1, <1>3, Products
<1>5. (total - 1) * BlockSize < t * BlockSize /\ (t - 1) * BlockSize < total * BlockSize
  BY <1>1, <1>4 DEF Holds
<1>6. total - 1 < t /\ t - 1 < total
  BY <1>1, <1>3, <1>5, Products
<1>7. QED  BY <1>1, <1>6 DEF t

\* How long a block is.
LEMMA SliceLength ==
    ASSUME NEW unit \in Seq(Bytes), unit # <<>>, NEW k \in Nat, k < BlockCount(Len(unit))
    PROVE  Len(Slice(unit, k)) = IF k = BlockCount(Len(unit)) - 1
                                 THEN Len(unit) - k * BlockSize ELSE BlockSize
<1> DEFINE n == Len(unit)
           t == BlockCount(n)
           first == k * BlockSize
           end == IF n < (k + 1) * BlockSize THEN n ELSE (k + 1) * BlockSize
<1>1. n \in Nat \ {0}
  BY EmptySeq, LenProperties
<1>2. BlockSize \in Nat \ {0} /\ t \in Nat \ {0} /\ Holds(t, n)
  BY <1>1, BlockSizeAssumption, CountHolds
<1>3. /\ first \in Nat /\ (k + 1) * BlockSize = first + BlockSize
      /\ k = t - 1 => first < n /\ n <= first + BlockSize
      /\ k # t - 1 => first + BlockSize < n
  <2>1. k \in Nat /\ k < t
    OBVIOUS
  <2> HIDE DEF t, n
  <2>2. first \in Nat /\ (k + 1) * BlockSize = first + BlockSize
    BY <1>2, Products
  <2>3. k = t - 1 => first < n /\ n <= first + BlockSize
    <3>1. k = t - 1 => k + 1 = t
      BY <1>2
    <3>2. QED  BY <1>2, <2>2, <3>1 DEF Holds
  <2>4. k # t - 1 => first + BlockSize < n
    <3>1. k # t - 1 => k + 1 <= t - 1
      BY <1>2, <2>1
    <3>2. t - 1 \in Nat /\ k + 1 \in Nat
      BY <1>2
    <3>3. k + 1 <= t - 1 => (k + 1) * BlockSize <= (t - 1) * BlockSize
      BY <1>2, <3>2, Products
    <3>4. (t - 1) * BlockSize < n /\ (t - 1) * BlockSize \in Nat
      BY <1>2, <3>2, Products DEF Holds
    <3>5. QED  BY <1>1, <1>2, <2>2, <3>1, <3>3, <3>4
  <2>5. QED  BY <2>2, <2>3, <2>4
<1> HIDE DEF n, t, first
<1>4. /\ end \in Nat /\ first < end /\ end <= n
      /\ k = t - 1 => end = n
      /\ k # t - 1 => end = first + BlockSize
  BY <1>1, <1>2, <1>3
<1> HIDE DEF end
<1>5. Len(SubSeq(unit, first + 1, end)) = end - (first + 1) + 1
  <2>1. \A i \in (first + 1)..end : unit[i] \in Bytes
    BY <1>1, <1>3, <1>4, ElementOfSeq DEF n
  <2>2. first + 1 \in Int /\ end \in Int /\ first + 1 <= end
    BY <1>3, <1>4
  <2>3. QED  BY <2>1, <2>2, SubSeqProperties
<1>6. Len(SubSeq(unit, first + 1, end)) = IF k = t - 1 THEN n - first ELSE BlockSize
  BY <1>1, <1>2, <1>3, <1>4, <1>5
<1>7. QED  BY <1>6 DEF Slice, n, t, first, end

\* What the datagrams say of block i.
LEMMA BlockShape ==
    ASSUME FullInv, NEW i \in 1..Len(handed), NEW k
    PROVE  LET n == handed[i].nalu
               size == Len(video[n + 1])
               j == handed[i].block IN
           /\ n \in 0..(Len(video) - 1) /\ j \in 0..(BlockCount(size) - 1)
           /\ Datagram(handed[i], k) =
                  [nalu |-> n, block |-> j, total |-> BlockCount(size), share |-> k,
                   size |-> IF j = BlockCount(size) - 1 THEN size - j * BlockSize ELSE BlockSize]
<1> DEFINE b == handed[i]
           n == b.nalu
           unit == video[n + 1]
<1>1. handed \in Seq(Blocks) /\ video \in Seq(Units) /\ BlocksRebuildUnits
  BY DEF FullInv, RebuildInv, ReaderInv, TypeOK
<1>2. /\ n < Len(video) /\ Holds(b.total, Len(unit)) /\ b.block < b.total
      /\ b.data = Slice(unit, b.block)
  BY <1>1 DEF BlocksRebuildUnits
<1>3. b \in Blocks /\ Len(video) \in Nat
  BY <1>1, ElementOfSeq, LenProperties
<1> HIDE DEF b
<1>4. n \in Nat /\ b.total \in Nat /\ b.block \in Nat
  BY <1>3 DEF Blocks
<1>5. unit \in Seq(Bytes) /\ unit # <<>> /\ Len(unit) \in Nat \ {0}
  <2>1. n + 1 \in 1..Len(video)
    BY <1>2, <1>3, <1>4
  <2>2. unit \in Units
    BY <1>1, <2>1, ElementOfSeq
  <2> HIDE DEF unit
  <2>3. unit \in Seq(Bytes) /\ Len(unit) \in Nat /\ 3 <= Len(unit)
    BY <2>2, UnitCodes
  <2>4. QED  BY <2>3, EmptySeq
<1> HIDE DEF unit, n
<1>6. b.total = BlockCount(Len(unit))
  BY <1>2, <1>4, <1>5, OneCount
<1>7. Len(b.data) = IF b.block = BlockCount(Len(unit)) - 1
                    THEN Len(unit) - b.block * BlockSize ELSE BlockSize
  BY <1>2, <1>4, <1>5, <1>6, SliceLength
<1>8. n \in 0..(Len(video) - 1) /\ b.block \in 0..(BlockCount(Len(unit)) - 1)
  BY <1>2, <1>3, <1>4, <1>6
<1>9. QED  BY <1>6, <1>7, <1>8 DEF Datagram, b, n, unit

LEMMA EndIsComplete == FullInv => EverythingIsSent
<1> SUFFICES ASSUME FullInv, client = "ended", ~failed, ~dropped
             PROVE  Range(sent) = UNION {DatagramsOf(n) : n \in 0..(Len(video) - 1)}
  BY DEF EverythingIsSent
<1>1. /\ given = <<>> /\ AllRead
      /\ \A i \in 1..Len(handed) : \A k \in SharesOfBlock :
             Datagram(handed[i], k) \in Range(sent)
  BY DEF FullInv, SendInv, Ending, AllShares
<1>2. ASSUME NEW e \in Range(sent)
      PROVE  \E n \in 0..(Len(video) - 1) : e \in DatagramsOf(n)
  <2>1. PICK i \in 1..Len(handed) : \E k \in SharesOfBlock : e = Datagram(handed[i], k)
    BY DEF FullInv, SendInv, OnlyBlocks
  <2>2. PICK k \in SharesOfBlock : e = Datagram(handed[i], k)
    BY <2>1
  <2> DEFINE n == handed[i].nalu
             size == Len(video[n + 1])
             j == handed[i].block
  <2>3. /\ n \in 0..(Len(video) - 1) /\ j \in 0..(BlockCount(size) - 1)
        /\ e = [nalu |-> n, block |-> j, total |-> BlockCount(size), share |-> k,
                size |-> IF j = BlockCount(size) - 1 THEN size - j * BlockSize ELSE BlockSize]
    BY <2>2, BlockShape
  <2> HIDE DEF n, j
  <2>4. e \in DatagramsOf(n)
    BY <2>3 DEF DatagramsOf
  <2>5. QED  BY <2>3, <2>4
<1>3. ASSUME NEW n \in 0..(Len(video) - 1), NEW e \in DatagramsOf(n)
      PROVE  e \in Range(sent)
  <2> DEFINE size == Len(video[n + 1])
  <2>1. PICK j \in 0..(BlockCount(size) - 1), k \in SharesOfBlock :
            e = [nalu |-> n, block |-> j, total |-> BlockCount(size), share |-> k,
                 size |-> IF j = BlockCount(size) - 1 THEN size - j * BlockSize ELSE BlockSize]
    BY <1>3 DEF DatagramsOf
  <2>2. PICK i \in 1..Len(handed) : handed[i].nalu = n /\ handed[i].block = j
    BY <1>1, <2>1 DEF AllRead
  <2>3. Datagram(handed[i], k) = e
    BY <2>1, <2>2, BlockShape
  <2>4. QED  BY <1>1, <2>3
<1>4. QED  BY <1>2, <1>3

\* A client that ends without an error of FFmpeg and without a datagram that was not
\* composed or not accepted has sent the stream: of every block every packet up to index
\* packetAmount, with the counts and sizes the server needs, and nothing else.
THEOREM TheStreamIsSent == ClientSpec => []EverythingIsSent
BY EndIsComplete, FullInvInit, FullInvNext, PTL DEF ClientSpec
===============================================================================
